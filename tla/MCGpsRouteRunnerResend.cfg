\* A success short of the subgoal, but within the larger of the two tolerances.
SPECIFICATION Spec
CONSTANTS
  N = 2
  L = 3
  SEG = 2
  WTOL = 0
  STOL = 1
  DIV = 1
  SHIFT = 0
  STEP_WARN = 1
  STEP_ABORT = 2
  WARN_COUNT = 2
  STALE_COUNT = 2
  Offsets <- MCOffsets
  Jumps <- MCJumps
  MaxRevision = 1
  MaxJumps = 0
  NoFix = NoFix
  NoGoal = NoGoal
  NoPose = NoPose
PROPERTY NoResendWithoutProgress
