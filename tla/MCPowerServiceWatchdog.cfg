CONSTANTS
  CriticalCount = 4
  WatchdogPeriod = 1
SPECIFICATION FairSpec
PROPERTY WatchdogReconfigures
