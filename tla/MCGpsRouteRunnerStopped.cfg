\* A failure right after a preemption: the goal let go of is still driven to.
SPECIFICATION Spec
CONSTANTS
  N = 2
  L = 3
  SEG = 2
  WTOL = 0
  STOL = 1
  DIV = 1
  SHIFT = 0
  STEP_WARN = 1
  STEP_ABORT = 2
  WARN_COUNT = 2
  STALE_COUNT = 2
  Offsets <- MCOffsets
  Jumps <- MCJumps
  MaxRevision = 2
  MaxJumps = 1
  NoFix = NoFix
  NoGoal = NoGoal
  NoPose = NoPose
INVARIANT TerminalMeansStopped
