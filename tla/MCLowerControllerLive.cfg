\* The same with one host message and the keys L2, Y and B, for liveness.
SPECIFICATION Spec
CONSTANTS
  Wheels = {left}
  left = left
  Speeds <- MCSpeeds
  Period <- MCPeriod
  HostMsgs = {h1}
  h1 = h1
  Keys = {0, 9, 13, 14}
  max_count = 1
  BRAKE_STOP_RPM = 120
  BRAKE_LOW_SPEED_RPM = 300
  BRAKE_CURRENT_LIMIT = 8000
  BRAKE_LOW_SPEED_CURRENT_LIMIT = 4500
  BRAKE_DAMPING_KP = 12
  BRAKE_CURRENT_STEP = 8000
PROPERTY KeyStopsForGood
PROPERTY MessageIsLookedAt
PROPERTY LostPadDisables
