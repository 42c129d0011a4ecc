SPECIFICATION MCSpec
CONSTANTS
  Works = {"agent", "fifo", "metrics", "containers"}
  Cpu = {c1, c2}
  Pid = {p1, p2, p3}
  PidEventBufferSize = 1
  MaxGRPCRetries = 1
  MinKernel <- MCMinKernel
  Arm64 = FALSE
  CommandLines <- MCCommandLines
  Hosts <- MCHosts
  None = None
  Value = {a, b, c}
  emptyT = nil
  Size = 3
  CounterMod = 4
  Collector = {"ebpf", "reporter"}
  IDsOf <- MCIDsOf
  Cumulative = {"ebpf"}
  MetricsBufferSize = 6
  MaxTime = 3
  MaxCount = 1
  ContainerPid = {p}
  Container = {"pod", "docker", "containerd", "lxc"}
  LinesOf <- MCLinesOf
  Pods <- MCPods
  ContainerIDCacheSize = 1
  ContainerMetadataCacheSize = 1
  MaxProcesses = 2
  MaxCalls = 2
  NoContainer = NoContainer
INVARIANTS
  SamplingIsPrepared
  ClosedIsSilent
  HostIsIdentified
  HeldIffQueued
  MetricsAccounted
  BatchIsOfOneSecond
  MetadataMatchesProcess
PROPERTIES
  SignalStops
  RefinesQueue
CHECK_DEADLOCK FALSE
