\* Two strong ticks lock, a window of three states, four odometry stamps; a
\* wheel sample between each two keyframes, forgotten when the next comes.
SPECIFICATION Spec
CONSTANTS
  MinStrong = 2
  MaxInvalid = 2
  MaxStates = 3
  AnchorSamples = 2
  WheelTolerance = 1
  WheelAge = 1
  MaxStamp = 4
  WheelStamps = {2, 4}
INVARIANT TypeOK
INVARIANT LockIsEarned
INVARIANT MeasurementsStayWithTheirStates
INVARIANT WheelMotionsJoin
PROPERTY LosesLock
