\* Scans of one tick, packages of at least two samples, two clouds waiting.
SPECIFICATION Spec
CONSTANTS
  MaxTime = 4
  Spans = {1}
  MinImu = 2
  InitNum = 3
  MaxImu = 3
  MaxLidar = 2
INVARIANT TypeOK
INVARIANT PredictionForward
INVARIANT EveryInstantCounted
INVARIANT PendingIsFront
PROPERTY PendingIsTaken
