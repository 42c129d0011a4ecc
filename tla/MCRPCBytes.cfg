SPECIFICATION MetricsSpec
CONSTANTS
  Collector = {"reporter"}
  IDsOf <- MCIDsOf
  Cumulative = {}
  MetricsBufferSize = 5
  MaxTime = 2
  MaxCount = 1
INVARIANT RPCBytesCounted
CHECK_DEADLOCK FALSE
