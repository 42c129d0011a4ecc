SPECIFICATION FairSpec
CONSTANTS
  PID = {p1}
  Area = {a1, a2}
  File = {node, libc}
  Interp = {node}
  TSDFile = {libc}
  NumPrefixes <- MCNumPrefixes
  MaxPrefixes = 1
  MayFail = FALSE
  BatchDelete = TRUE
  MaxLeaks = 1
  MaxDrift = 1
  None = None
  Anon = Anon
  JIT = JIT
INVARIANT MappingsReferenced
INVARIANT TSDDelivered
PROPERTY Forgotten
