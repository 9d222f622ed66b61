\* A drive of two units, fixes off the odometry by 0 or 1, one calibration.
SPECIFICATION Spec
CONSTANTS
  None = None
  MaxTargetJump = 1
  MaxStep = 1
  Deadband = 0
  Offsets <- TwoOffsets
  MaxOdom = 2
  MinPairs = 2
  MinSpread = 1
  MinSpacing = 1
  MaxFixJump = 1
  MaxAlignmentStep = 1
  MaxBootstrapDelta = 1
  CalibrationSpread = 1
  MaxCalibrationDelta = 2
  Waypoints = {"wp1"}
  MaxPairs = 2
  MaxEvents = 5
INVARIANT TypeOK
INVARIANT WithinBootstrap
PROPERTY SmoothOutput
PROPERTY StartupCompletes
PROPERTY Settles
