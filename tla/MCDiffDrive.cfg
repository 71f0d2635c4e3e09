CONSTANTS
  Twist <- MCTwist
  Encoders = {"left"}
  TickPeriod = 2
  Timeout = 4
  Wrap = 9
  TachoWrap = 6
SPECIFICATION Spec
INVARIANTS
  TypeOK
  CommandTimeout
  CommandArrives
  OdometryExact
