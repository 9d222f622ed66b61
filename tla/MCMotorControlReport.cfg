\* The status line while the wheels coast, with the constants of MCMotorControl.cfg.
SPECIFICATION MotorSpec
CONSTANTS
  Wheels = {left}
  left = left
  Speeds <- MCSpeeds
  HostMsgs = {h1}
  h1 = h1
  Keys = {0, 1, 5, 7, 9, 10, 13, 14, 16}
  max_count = 2
  BRAKE_STOP_RPM = 120
  BRAKE_LOW_SPEED_RPM = 300
  BRAKE_CURRENT_LIMIT = 8000
  BRAKE_LOW_SPEED_CURRENT_LIMIT = 4500
  BRAKE_DAMPING_KP = 12
  BRAKE_CURRENT_STEP = 1200
PROPERTY CoastingIsReported
