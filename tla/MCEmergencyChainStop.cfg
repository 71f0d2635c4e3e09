SPECIFICATION FairSpec
CONSTANTS
  Twist <- MCOneTwist
  HighLevelMessage <- MCNoMessage
  InputReasons <- MCNoInput
PROPERTIES
  EmergencyStopsMotors
