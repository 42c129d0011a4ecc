SPECIFICATION MCSpec
CONSTANTS
  TraceCpu = {1, 2}
  TracePid = {p, q}
  KernelStack <- MCKernelStack
  StackID <- MCStackID
  Symbolized = {"a", "b"}
  TraceRingSize = 1
  LRUSize = 1
  MaxKTime = 4
  Nothing = Nothing
  t1 = t1
  t2 = t2
  t3 = t3
  h1 = h1
  h2 = h2
  u = u
  Trace = {t1, t2, t3}
  Hash = {h1, h2, u}
  Conversions <- MCConversions
  CacheSize = 2
  MaxSamples = 3
  MayFail = TRUE
  None = None
INVARIANT InstancesAwaitTraces
INVARIANT FallbackSent
INVARIANT FramesFollow
INVARIANT ExactlyOnce
PROPERTY SamplesLeave
CHECK_DEADLOCK FALSE
