SPECIFICATION Spec
CONSTANTS
  PID = {p1, p2}
  CPU = {c1}
  MaxEvents = 1
  RingSize = 1
  ChanSize = 1
  MaxLoads = 0
  MayDeny = FALSE
  NoPID = NoPID
INVARIANT NoLostWakeup
INVARIANT SilencedIsHandled
SYMMETRY Symmetry
