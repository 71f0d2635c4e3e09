SPECIFICATION FairSpec
CONSTANTS
  Line = {"A", "B"}
  Configs <- MCConfigs
  MaxInputs = 3
  QueueLen = 1
INVARIANTS
  TypeOK
  LiftMultipleExact
  EdgeNotLost
  WakeupNotLost
  ActivationReachesMain
PROPERTIES
  PressIsChecked
  HeldIsChecked
