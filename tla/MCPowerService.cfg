CONSTANTS
  CriticalCount = 4
  WatchdogPeriod = 1
SPECIFICATION FairSpec
INVARIANT TypeOK
INVARIANT ConfiguredMeansProgrammed
INVARIANT CutOnlyWhenLow
PROPERTY LineFollowsBattery
