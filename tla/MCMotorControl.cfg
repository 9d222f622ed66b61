\* Motor_Speed_pid.c's constants; one wheel, three speeds, one host message.
SPECIFICATION MotorSpec
CONSTANTS
  Wheels = {left}
  left = left
  Speeds <- MCSpeeds
  HostMsgs = {h1}
  h1 = h1
  Keys = {0, 1, 5, 7, 9, 10, 13, 14, 16}
  max_count = 2
  BRAKE_STOP_RPM = 120
  BRAKE_LOW_SPEED_RPM = 300
  BRAKE_CURRENT_LIMIT = 8000
  BRAKE_LOW_SPEED_CURRENT_LIMIT = 4500
  BRAKE_DAMPING_KP = 12
  BRAKE_CURRENT_STEP = 1200
INVARIANT MotorTypeOK
INVARIANT ReadyExcludesStops
INVARIANT NotReadyNotDriven
INVARIANT GamepadHasAuthority
INVARIANT BrakeCurrentLimited
PROPERTY BrakeRampContinuous
PROPERTY BrakeNeverAddsPush
