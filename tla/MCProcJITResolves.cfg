SPECIFICATION Spec
CONSTANTS
  PID = {p1}
  Area = {a1, a2}
  File = {node}
  Interp = {node}
  TSDFile = {node}
  NumPrefixes <- MCNumPrefixes
  MaxPrefixes = 1
  MayFail = FALSE
  BatchDelete = TRUE
  MaxLeaks = 1
  MaxDrift = 1
  None = None
  Anon = Anon
  JIT = JIT
INVARIANT JITResolves
