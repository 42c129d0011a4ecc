SPECIFICATION Spec
CONSTANTS
  PID = {p1}
  Area = {a1, a2}
  File = {node}
  Interp = {node}
  TSDFile = {node}
  NumPrefixes <- MCNumPrefixes
  MaxPrefixes = 2
  MayFail = TRUE
  BatchDelete = FALSE
  MaxLeaks = 1
  MaxDrift = 1
  None = None
  Anon = Anon
  JIT = JIT
INVARIANT PagesOwned
INVARIANT InstancesAwaitExit
