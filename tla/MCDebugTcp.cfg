SPECIFICATION FairSpec
CONSTANTS
  Socket = {0, 1}
  Thread = {t1, t2}
INVARIANTS
  TypeOK
  WritesReachClient
  NothingLeftBehind
  NoCircularWait
PROPERTIES
  ClientIsLetGo
