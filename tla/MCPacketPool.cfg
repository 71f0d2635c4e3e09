CONSTANTS
  Packets = {p1, p2, p3, p4, p5}
  Services = {s1}
  Loggers = {main}
  Io = io
  QueueLength = 2
  None = none
SPECIFICATION FairSpec
INVARIANT TypeOK
INVARIANT NeverHangs
INVARIANT PacketsConserved
INVARIANT NeverAllWait
PROPERTY AllocationSucceeds
