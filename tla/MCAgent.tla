------------------------------- MODULE MCAgent -------------------------------
(***************************************************************************)
(* Either the agent starts and stops, on machines and with command lines   *)
(* that differ from a usual one in one respect; or, while it runs, the     *)
(* reporter's ring buffer is filled and emptied, metrics are collected, or *)
(* processes are asked for their containers.                               *)
(***************************************************************************)
EXTENDS Agent, FifoRingBuffer, Metrics, ContainerMetadata

\* ------------------------------ Agent
CommandLine ==
  [scale |-> 0, version |-> FALSE, logLevel |-> 0, interval |-> 1, threshold |-> 100, check |-> TRUE,
   project |-> 1, token |-> TRUE, environment |-> None, machineID |-> None, tracers |-> <<"all">>]

MCCommandLines ==
  {CommandLine,
   [CommandLine EXCEPT !.scale = 9],
   [CommandLine EXCEPT !.version = TRUE],
   [CommandLine EXCEPT !.threshold = 50],
   [CommandLine EXCEPT !.threshold = 0],
   [CommandLine EXCEPT !.check = FALSE, !.tracers = <<"native", "perl">>],
   [CommandLine EXCEPT !.environment = "aws", !.machineID = 7],
   [CommandLine EXCEPT !.machineID = 7],
   [CommandLine EXCEPT !.tracers = <<"cobol">>],
   [CommandLine EXCEPT !.project = 4096]}

Eth == [mac |-> "eth", loopback |-> FALSE, up |-> FALSE]
Wlan == [mac |-> "wlan", loopback |-> FALSE, up |-> TRUE]
Lo == [mac |-> None, loopback |-> TRUE, up |-> TRUE]

Machine ==
  [kernel |-> <<5, 4, 0>>, symbols |-> {"copy_from_user_nofault", "nmi_uaccess_okay", "x86_fsbase_write_task"},
   patched |-> FALSE, clouds |-> {}, cgroup |-> {}, ifaces |-> <<Lo, Eth, Wlan>>]

MCHosts ==
  {Machine,
   [Machine EXCEPT !.kernel = <<6, 1, 35>>, !.patched = TRUE, !.clouds = {"gcp", "aws"}],
   [Machine EXCEPT !.kernel = <<6, 2, 1>>, !.cgroup = {"docker"}],
   [Machine EXCEPT !.kernel = <<4, 14, 9>>, !.symbols = {}, !.ifaces = <<Lo, Eth>>]}

MCMinKernel == <<4, 15>>

NoAgent ==
  /\ args = CommandLine /\ host = Machine /\ main = "returned" /\ exit = "success" /\ done = TRUE
  /\ environment = None /\ machineID = None /\ hostID = None
  /\ tester = [c \in Clouds |-> "off"] /\ retries = 0
  /\ include = {} /\ progsDone = 0 /\ tailcalls = {} /\ tpbase = FALSE /\ loaders = {}
  /\ events = [c \in Cpu |-> "none"] /\ perfEntrypoints = {} /\ hooks = {}
  /\ pids = {} /\ pidEvents = << >> /\ processor = "off" /\ profiler = "off"

\* ------------------------------ Metrics
MCIDsOf == [ebpf |-> {"ebpf"}, reporter |-> RPCMetrics]

NoMetrics ==
  /\ clock = MaxTime
  /\ counter = [id \in ID |-> MaxCount] /\ previousMetricValue = [id \in ID |-> 0]
  /\ hand = [c \in Collector |-> [at |-> "off", metrics |-> [id \in {} |-> 0], now |-> 0]]
  /\ prevTimestamp = 0 /\ metricsBuffer = {} /\ metricIDSet = {}
  /\ counted = [id \in ID |-> MaxCount] /\ reported = [id \in ID |-> 0] /\ repeated = [id \in ID |-> 0]
  /\ capped = FALSE

\* ------------------------------ ContainerMetadata
Line(ms, id, path) == [matches |-> ms, id |-> id, path |-> path]

MCLinesOf(c) ==
  CASE c = "pod"        -> <<Line({}, NoContainer, <<"-">>),
                             Line({"kube", "containerd"}, <<"pod">>, <<"kubepods", "x">>)>>
    [] c = "docker"     -> <<Line({"docker", "containerd"}, <<"docker">>, <<"docker", "docker">>)>>
    [] c = "containerd" -> <<Line({"containerd"}, NoContainer, <<"ns", "ctrd">>)>>
    [] c = "lxc"        -> <<Line({"lxc"}, <<"lxc">>, <<"-">>)>>

MCPods ==
  {[name |-> <<"web", "7f", "x">>, owners |-> <<[kind |-> "ReplicaSet", name |-> <<"web", "7f">>]>>,
    containers |-> <<[id |-> <<"pod">>, name |-> "c"], [id |-> NoContainer, name |-> "new"]>>]}

NoContainers ==
  /\ clients = {} /\ procs = << >> /\ inodes = MaxProcesses /\ moved = {}
  /\ containerIDCache = << >> /\ containerMetadataCache = << >>
  /\ putting = << >> /\ call = NoCall /\ during = {} /\ answers = MaxCalls

----------------------------------------------------------------------------
CONSTANT Works  \* the parts that are looked at

VARIABLE work   \* the one that is

MCInit ==
  /\ work \in Works
  /\ Init
  /\ IF work = "agent" THEN AgentInit ELSE NoAgent
  /\ IF work = "metrics" THEN MetricsInit ELSE NoMetrics
  /\ IF work = "containers" THEN ContainerInit ELSE NoContainers

MCNext ==
  /\ UNCHANGED work
  /\ \/ AgentNext /\ UNCHANGED <<vars, metricsVars, containerVars>>
     \/ work = "fifo" /\ Next /\ UNCHANGED <<agentVars, metricsVars, containerVars>>
     \/ MetricsNext /\ UNCHANGED <<vars, agentVars, containerVars>>
     \/ ContainerNext /\ UNCHANGED <<vars, agentVars, metricsVars>>

MCSpec ==
  /\ MCInit /\ [][MCNext]_<<work, vars, agentVars, metricsVars, containerVars>>
  /\ AgentFairness
==============================================================================
