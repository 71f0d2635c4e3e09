SPECIFICATION Spec
CONSTANTS
  Twist <- MCOneTwist
  HighLevelMessage <- MCHighLevelMessage
  InputReasons <- MCLatchedStop
INVARIANTS
  TypeOK
  StopNeverLost
  NoCircularWait
PROPERTIES
  LatchHeld
  ImplementsStop
