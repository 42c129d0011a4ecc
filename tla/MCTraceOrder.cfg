SPECIFICATION DeliverySpec
CONSTANTS
  TraceCpu = {1, 2}
  TracePid = {p}
  KernelStack <- MCKernelStack
  StackID <- MCStackID
  Symbolized = {}
  TraceRingSize = 1
  LRUSize = 1
  MaxKTime = 4
  Nothing = Nothing
INVARIANT CompletedMeansProcessed
CHECK_DEADLOCK FALSE
