SPECIFICATION FairSpec
CONSTANTS
  PID = {p1}
  CPU = {c1}
  MaxEvents = 1
  RingSize = 1
  ChanSize = 1
  MaxLoads = 1
  MayDeny = TRUE
  NoPID = NoPID
PROPERTY ReportsHandled
PROPERTY LiveIsTracked
PROPERTY ExitIsNoticed
