SPECIFICATION Spec
CONSTANTS
  Input = {"button", "bumper"}
  Configs <- MCConfigs
  Delay <- MCDelay
  ReasonOf <- MCReasonOf
  Message <- MCMessage
  Timeout = 2
  StatusPeriod = 3
  Wrap = 9
  Slack = 1
INVARIANTS
  TypeOK
  SilenceNoticed
  StoppedIsEmergency
  InputNoticed
