CONSTANTS
  Twist <- MCTwist
  Encoders = {}
  TickPeriod = 2
  Timeout = 4
  Wrap = 9
  TachoWrap = 4
SPECIFICATION Spec
INVARIANT EmergencyDropsCommand
