-------------------------------- MODULE Agent --------------------------------
(***************************************************************************)
(* The life of the agent: mainWithExitCode, which checks the machine,      *)
(* identifies it, loads the eBPF programs, starts to sample and waits for  *)
(* a signal, and the goroutines it meets on the way: the testers of the    *)
(* cloud environment, the processor of PID events and probabilistic        *)
(* profiling.  Any call into the kernel or the network may fail.           *)
(***************************************************************************)
EXTENDS Naturals, Sequences, FiniteSets

CONSTANTS Cpu, Pid,
          PidEventBufferSize, \* pidEventBufferSize
          MaxGRPCRetries,
          MinKernel,          \* the oldest kernel, <<major, minor>>, for the architecture
          Arm64,              \* GOARCH = "arm64"
          CommandLines,       \* the values of the flags
          Hosts,              \* the machines: kernel, kernel symbols, clouds
          None

\* The interfaces of a machine are a list.
ASSUME AgentAssumption ==
  \A h \in Hosts : Len(h.ifaces) \in Nat /\ DOMAIN h.ifaces = 1..Len(h.ifaces)

Interpreters == {"perl", "php", "python", "hotspot", "ruby", "v8"}
Clouds == {"gcp", "aws", "azure"}
EnvironmentTypes == Clouds \cup {"hardware", "lxc", "kvm", "docker"}
ProbabilisticThresholdMax == 100

VARIABLES
  args, host,                      \* one of CommandLines, one of Hosts
  main, exit,                      \* mainWithExitCode
  done,                            \* mainCtx: a signal arrived
  environment, machineID, hostID,  \* package config
  tester,                          \* the goroutines of getEnvironmentAndMachineID
  retries,                         \* waitGrpcEndpoint
  include,                         \* includeTracers
  progsDone,                       \* how many programs loadUnwinders has dealt with
  tailcalls,                       \* the eBPF map progs
  tpbase,                          \* system_config.tpbase_offset is known
  loaders,                         \* interpreterLoaders
  events,                          \* perf events, by CPU
  perfEntrypoints, hooks,          \* Tracer
  pids, pidEvents,                 \* populatePIDs, and the channel it fills
  processor, profiler              \* processPIDEvents and StartProbabilisticProfiling

hostVars == <<environment, machineID, hostID, tester>>
loadVars == <<include, progsDone, tailcalls, tpbase, loaders>>
eventVars == <<events, perfEntrypoints, hooks>>
pidVars == <<pids, pidEvents, processor>>
agentVars == <<args, host, main, exit, done, hostVars, retries, loadVars, eventVars, pidVars, profiler>>

AgentInit ==
  /\ args \in CommandLines /\ host \in Hosts
  /\ main = "args" /\ exit = None /\ done = FALSE
  /\ environment = None /\ machineID = None /\ hostID = None
  /\ tester = [c \in Clouds |-> "off"] /\ retries = 0
  /\ include = {} /\ progsDone = 0 /\ tailcalls = {} /\ tpbase = FALSE /\ loaders = {}
  /\ events = [c \in Cpu |-> "none"] /\ perfEntrypoints = {} /\ hooks = {}
  /\ pids = {} /\ pidEvents = << >> /\ processor = "off" /\ profiler = "off"

\* The step that main takes: from one point of mainWithExitCode to another.
At(p, q) == main = p /\ main' = q /\ UNCHANGED <<args, host, exit>>

\* return code, from where the deferred calls are made.
Return(p, code, deferred) ==
  main = p /\ exit' = code /\ main' = deferred /\ UNCHANGED <<args, host>>

----------------------------------------------------------------------------
\* Flags, kernel version and probes

ParseError(a) ==
  \/ a.scale > 8
  \/ ~a.version /\ (\/ a.logLevel > 2
                    \/ a.interval \notin 1..5
                    \/ a.threshold \notin 1..ProbabilisticThresholdMax)

CheckArgs ==
  /\ \/ ParseError(args) /\ Return("args", "parse error", "returned")
     \/ ~ParseError(args) /\ args.version /\ Return("args", "success", "returned")
     \/ ~ParseError(args) /\ ~args.version /\ At("args", "kernel")
  /\ UNCHANGED <<done, hostVars, retries, loadVars, eventVars, pidVars, profiler>>

Older(kernel) == \/ kernel[1] < MinKernel[1]
                 \/ kernel[1] = MinKernel[1] /\ kernel[2] < MinKernel[2]

CheckKernel ==
  /\ \/ args.check /\ Return("kernel", "failure", "returned")   \* or uname fails
     \/ ~(args.check /\ Older(host.kernel)) /\ At("kernel", "probe")
  /\ UNCHANGED <<done, hostVars, retries, loadVars, eventVars, pidVars, profiler>>

\* ProbeBPFSyscall and ProbeTracepoint, which closes what it opens on every path.
Probe ==
  /\ At("probe", "configure") \/ Return("probe", "failure", "returned")
  /\ UNCHANGED <<done, hostVars, retries, loadVars, eventVars, pidVars, profiler>>

\* SetConfiguration.  With an environment comes a machine ID, which is the host
\* ID as it stands.  The cache directory may be impossible to create.
ConfigurationError(a) ==
  \/ a.project \notin 1..4095
  \/ ~a.token
  \/ a.environment # None /\ (a.environment \notin EnvironmentTypes \/ a.machineID \in {None, 0})
  \/ a.environment = None /\ a.machineID # None

SetConfiguration ==
  /\ \/ /\ Return("configure", "failure", "returned")
        /\ UNCHANGED <<environment, hostID>>
     \/ /\ ~ConfigurationError(args)
        /\ At("configure", "tracers")
        /\ environment' = args.environment
        /\ hostID' = IF args.environment = None THEN None ELSE <<args.machineID>>
  /\ UNCHANGED <<done, machineID, tester, retries, loadVars, eventVars, pidVars, profiler>>

\* parseTracers
TracersError(names) ==
  \E i \in DOMAIN names : \/ Arm64 /\ names[i] = "v8"
                          \/ names[i] \notin Interpreters \cup {"all", "native", ""}

AllTracers == IF Arm64 THEN Interpreters \ {"v8"} ELSE Interpreters

Included(name) == CASE name = "all"              -> AllTracers
                    [] name \in Interpreters     -> {name}
                    [] name \in {"native", ""}   -> {}

ParseTracers ==
  /\ \/ /\ TracersError(args.tracers)
        /\ Return("tracers", "failure", "returned")
        /\ UNCHANGED include
     \/ /\ ~TracersError(args.tracers)
        /\ At("tracers", "identify")
        /\ include' = UNION {Included(args.tracers[i]) : i \in DOMAIN args.tracers}
  /\ UNCHANGED <<done, hostVars, retries, progsDone, tailcalls, tpbase, loaders, eventVars, pidVars, profiler>>

----------------------------------------------------------------------------
\* GenerateNewHostIDIfNecessary

\* The host ID is set, or the environment has to be found: all testers are started.
Identify ==
  /\ \/ hostID # None /\ At("identify", "report") /\ UNCHANGED tester
     \/ hostID = None /\ At("identify", "testers") /\ tester' = [c \in Clouds |-> "testing"]
  /\ UNCHANGED <<done, environment, machineID, hostID, retries, loadVars, eventVars, pidVars, profiler>>

\* A plausible bug: the result is used before the error is looked at.
TestUnchecked(c) ==
  /\ tester[c] = "testing"
  /\ machineID' = c
  /\ tester' = [tester EXCEPT ![c] = "found"]
  /\ UNCHANGED <<args, host, main, exit, done, environment, hostID, retries, loadVars, eventVars,
                 pidVars, profiler>>

\* A tester finds its cloud, and writes what all of them share: first machineID ...
Test(c) ==
  /\ tester[c] = "testing"
  /\ \/ c \in host.clouds /\ machineID' = c /\ tester' = [tester EXCEPT ![c] = "found"]
     \/ tester' = [tester EXCEPT ![c] = "over"] /\ UNCHANGED machineID
  /\ UNCHANGED <<args, host, main, exit, done, environment, hostID, retries, loadVars, eventVars,
                 pidVars, profiler>>

\* ... and then env.
SetEnv(c) ==
  /\ tester[c] = "found"
  /\ environment' = c
  /\ tester' = [tester EXCEPT ![c] = "over"]
  /\ UNCHANGED <<args, host, main, exit, done, machineID, hostID, retries, loadVars, eventVars,
                 pidVars, profiler>>

checkCGroups(words) ==
  CASE "docker" \in words                           -> "docker"
    [] "docker" \notin words /\ "lxc" \in words      -> "lxc"
    [] words \cap {"docker", "lxc"} = {} /\ "kvm" \in words -> "kvm"
    [] OTHER                                         -> "hardware"

\* The interfaces are in the order of their indexes.
WithAddress(ifaces) == {i \in DOMAIN ifaces : ~ifaces[i].loopback /\ ifaces[i].mac # None}
Up(ifaces) == {i \in WithAddress(ifaces) : ifaces[i].up}
First(S) == CHOOSE i \in S : \A j \in S : i <= j

getMACFromSystem(ifaces) ==
  CASE Up(ifaces) # {}                               -> ifaces[First(Up(ifaces))].mac
    [] Up(ifaces) = {} /\ WithAddress(ifaces) # {}   -> ifaces[First(WithAddress(ifaces))].mac
    [] OTHER                                         -> None

\* The interfaces over which packets may leave: of those that a lookup names, the
\* first with an address.  The lookup may fail.
getMACFromRouting(ifaces) == {ifaces[i].mac : i \in Up(ifaces)} \cup {None}

\* getNonCloudEnvironmentAndMachineID: the machine-id file with a MAC address of
\* the root network namespace, or failure.
NonCloud(h) ==
  {<<checkCGroups(h.cgroup), mac>> :
     mac \in (getMACFromRouting(h.ifaces) \cup {getMACFromSystem(h.ifaces)}) \ {None}}

\* wg.Wait, and the last resort.
GenerateHostID ==
  /\ \A c \in Clouds : tester[c] = "over"
  /\ \/ environment # None /\ At("testers", "report") /\ UNCHANGED <<environment, machineID>>
     \/ environment = None /\ At("testers", "report")
        /\ \E id \in NonCloud(host) : environment' = id[1] /\ machineID' = id[2]
     \/ environment = None /\ Return("testers", "failure", "returned")
        /\ UNCHANGED <<environment, machineID>>
  /\ hostID' = IF main' = "report" THEN <<environment', machineID'>> ELSE None
  /\ UNCHANGED <<done, tester, retries, loadVars, eventVars, pidVars, profiler>>

----------------------------------------------------------------------------
\* Reporting

\* The connection is tried again, after a pause, as often as the configuration allows.
waitGrpcEndpoint ==
  \/ At("report", "load") /\ UNCHANGED retries
  \/ Return("report", "failure", "returned") /\ UNCHANGED retries
  \/ retries < MaxGRPCRetries /\ At("report", "report") /\ retries' = retries + 1

\* StartOTLP makes its caches, waits for the endpoint and starts its goroutines.  After
\* it, the metadata collector and the periodic metrics are started, which may fail.
StartReporting ==
  /\ waitGrpcEndpoint
  /\ UNCHANGED <<done, hostVars, loadVars, eventVars, pidVars, profiler>>

----------------------------------------------------------------------------
\* NewTracer

hasProbeReadBug(k) ==
  \/ k[1] = 5 /\ k[2] >= 19
  \/ k[1] = 6 /\ \/ k[2] \in {0, 2}
                 \/ k[2] = 1 /\ k[3] < 36
                 \/ k[2] = 3 /\ k[3] < 10

\* checkForMaccessPatch: the code of copy_from_user_nofault can be read and
\* calls nmi_uaccess_okay.
CheckForMaccessPatch ==
  /\ "copy_from_user_nofault" \in host.symbols
  /\ Arm64 \/ "nmi_uaccess_okay" \in host.symbols
  /\ host.patched

\* GetKallsyms, loadAllMaps, RewriteMaps and the check of the kernel's bug.
LoadMaps ==
  /\ \/ /\ args.check /\ hasProbeReadBug(host.kernel) => CheckForMaccessPatch
        /\ At("load", "programs")
     \/ Return("load", "failure", "returned")
  /\ UNCHANGED <<done, hostVars, retries, loadVars, eventVars, pidVars, profiler>>

Programs ==
  << [name |-> "unwind_stop",    enable |-> {},          target |-> TRUE],
     [name |-> "unwind_native",  enable |-> {},          target |-> TRUE],
     [name |-> "unwind_hotspot", enable |-> {"hotspot"}, target |-> TRUE],
     [name |-> "unwind_perl",    enable |-> {"perl"},    target |-> TRUE],
     [name |-> "unwind_php",     enable |-> {"php"},     target |-> TRUE],
     [name |-> "unwind_python",  enable |-> {"python"},  target |-> TRUE],
     [name |-> "unwind_ruby",    enable |-> {"ruby"},    target |-> TRUE],
     [name |-> "unwind_v8",      enable |-> {"v8"},      target |-> TRUE],
     [name |-> "tracepoint__sched_process_exit", enable |-> {}, target |-> FALSE],
     [name |-> "native_tracer_entry",            enable |-> {}, target |-> FALSE] >>

\* loadUnwinders, one program at a time.
LoadUnwinder ==
  LET p == Programs[progsDone + 1]
      enabled == p.enable # {} => p.enable \cap include # {}
  IN  /\ progsDone < Len(Programs)
      /\ \/ /\ At("programs", "programs")
            /\ tailcalls' = IF enabled /\ p.target THEN tailcalls \cup {p.name} ELSE tailcalls
            /\ progsDone' = progsDone + 1
         \/ /\ enabled
            /\ Return("programs", "failure", "returned")
            /\ UNCHANGED <<progsDone, tailcalls>>
      /\ UNCHANGED <<done, hostVars, retries, include, tpbase, loaders, eventVars, pidVars, profiler>>

\* The kernel functions whose code tells the offset of the thread pointer.
TPBaseSymbols == IF Arm64 THEN {"tls_set"} ELSE {"x86_fsbase_write_task", "aout_dump_debugregs"}

\* loadTPBaseOffset: the code of one of them is read through an eBPF program.
TPBaseOffset(h) == h.symbols \cap TPBaseSymbols # {}

\* A plausible bug: Perl, which needs the offset too, is forgotten.
LoadSystemConfigPython ==
  /\ progsDone = Len(Programs)
  /\ \/ /\ At("programs", "manager")
        /\ "python" \in include => TPBaseOffset(host)
        /\ tpbase' = ("python" \in include)
     \/ /\ Return("programs", "failure", "returned")
        /\ UNCHANGED tpbase
  /\ UNCHANGED <<done, hostVars, retries, include, progsDone, tailcalls, loaders, eventVars, pidVars, profiler>>

\* loadSystemConfig and removeTemporaryMaps.
LoadSystemConfig ==
  LET needed == include \cap {"perl", "python"} # {}
  IN  /\ progsDone = Len(Programs)
      /\ \/ /\ At("programs", "manager")
            /\ needed => TPBaseOffset(host)
            /\ tpbase' = needed
         \/ /\ Return("programs", "failure", "returned")
            /\ UNCHANGED tpbase
      /\ UNCHANGED <<done, hostVars, retries, include, progsDone, tailcalls, loaders, eventVars, pidVars, profiler>>

\* NewExecutableInfoManager: PHP has a second plugin, for its JIT.
NewLoaders(inc) == inc \cup (IF "php" \in inc THEN {"phpjit"} ELSE {})

\* The rest of NewTracer: caches, the process manager, the kernel modules.
NewProcessManager ==
  /\ \/ At("manager", "processes") /\ loaders' = NewLoaders(include)
     \/ Return("manager", "failure", "returned") /\ UNCHANGED loaders
  /\ UNCHANGED <<done, hostVars, retries, include, progsDone, tailcalls, tpbase, eventVars, pidVars, profiler>>

----------------------------------------------------------------------------
\* StartPIDEventProcessor

\* The processor is started, and the PIDs are listed, which may fail: then the
\* agent goes on without.
StartPIDEventProcessor ==
  /\ At("processes", "populate")
  /\ processor' = "running"
  /\ pids' \in {Pid, {}}
  /\ UNCHANGED <<done, hostVars, retries, loadVars, eventVars, pidEvents, profiler>>

\* A plausible bug: the channel is waited for, whoever reads it.
PopulateBlocking ==
  /\ \/ /\ pids # {} /\ At("populate", "populate")
        /\ Len(pidEvents) < PidEventBufferSize
        /\ \E p \in pids : pids' = pids \ {p} /\ pidEvents' = Append(pidEvents, p)
     \/ /\ pids = {} /\ At("populate", "attach")
        /\ UNCHANGED <<pids, pidEvents>>
  /\ UNCHANGED <<done, hostVars, retries, loadVars, eventVars, processor, profiler>>

\* populatePIDs
PopulatePIDs ==
  /\ \/ /\ pids # {} /\ At("populate", "populate")
        /\ Len(pidEvents) < PidEventBufferSize
        /\ \E p \in pids : pids' = pids \ {p} /\ pidEvents' = Append(pidEvents, p)
     \/ /\ done \/ pids = {}
        /\ At("populate", "attach")
        /\ pids' = {} /\ UNCHANGED pidEvents
  /\ UNCHANGED <<done, hostVars, retries, loadVars, eventVars, processor, profiler>>

\* processPIDEvents
ProcessPID ==
  /\ processor = "running" /\ pidEvents # << >>
  /\ pidEvents' = Tail(pidEvents)
  /\ UNCHANGED <<args, host, main, exit, done, hostVars, retries, loadVars, eventVars, pids,
                 processor, profiler>>

StopProcessor ==
  /\ processor = "running" /\ done
  /\ processor' = "stopped"
  /\ UNCHANGED <<args, host, main, exit, done, hostVars, retries, loadVars, eventVars, pids,
                 pidEvents, profiler>>

----------------------------------------------------------------------------
\* Sampling

Unopened == {c \in Cpu : events[c] = "none"}

\* AttachTracer: an event that SetBPF fails for is not recorded.
AttachTracer ==
  /\ \/ /\ Unopened = {} /\ At("attach", "enable")
        /\ UNCHANGED <<events, perfEntrypoints>>
     \/ \E c \in Unopened :
          \/ /\ At("attach", "attach")
             /\ events' = [events EXCEPT ![c] = "disabled"]
             /\ perfEntrypoints' = perfEntrypoints \cup {c}
          \/ /\ Return("attach", "failure", "close")
             /\ events' \in {events, [events EXCEPT ![c] = "disabled"]}
             /\ UNCHANGED perfEntrypoints
  /\ UNCHANGED <<done, hostVars, retries, loadVars, hooks, pidVars, profiler>>

\* The loop over perfEntrypoints with its lock held; a call may fail for any of them.
Switch(to) ==
  \E failed \in SUBSET perfEntrypoints :
    events' = [c \in Cpu |-> IF c \in perfEntrypoints \ failed THEN to ELSE events[c]]

\* EnableProfiling, or the first iteration of probabilistic profiling.
EnableProfiling ==
  /\ \/ /\ args.threshold < ProbabilisticThresholdMax
        /\ At("enable", "sched")
        /\ Switch("enabled") \/ Switch("disabled")
        /\ profiler' = "running"
     \/ /\ args.threshold = ProbabilisticThresholdMax
        /\ \/ /\ At("enable", "sched")
              /\ events' = [c \in Cpu |-> IF c \in perfEntrypoints THEN "enabled" ELSE events[c]]
           \/ /\ Return("enable", "failure", "close")
              /\ Switch("enabled")
        /\ UNCHANGED profiler
  /\ UNCHANGED <<done, hostVars, retries, loadVars, perfEntrypoints, hooks, pidVars>>

\* probabilisticProfile, every interval.
ProbabilisticProfile ==
  /\ profiler = "running"
  /\ Switch("enabled") \/ Switch("disabled")
  /\ UNCHANGED <<args, host, main, exit, done, hostVars, retries, loadVars, perfEntrypoints, hooks,
                 pidVars, profiler>>

StopProfiler ==
  /\ profiler = "running" /\ done
  /\ profiler' = "stopped"
  /\ UNCHANGED <<args, host, main, exit, done, hostVars, retries, loadVars, eventVars, pidVars>>

AttachSchedMonitor ==
  /\ \/ At("sched", "handling") /\ hooks' = hooks \cup {"sched_process_exit"}
     \/ Return("sched", "failure", "close") /\ UNCHANGED hooks
  /\ UNCHANGED <<done, hostVars, retries, loadVars, events, perfEntrypoints, pidVars, profiler>>

\* startTraceHandling
StartTraceHandling ==
  /\ At("handling", "wait") \/ Return("handling", "failure", "close")
  /\ UNCHANGED <<done, hostVars, retries, loadVars, eventVars, pidVars, profiler>>

----------------------------------------------------------------------------
\* The end

Signal ==
  /\ ~done /\ main \notin {"args", "returned"}
  /\ done' = TRUE
  /\ UNCHANGED <<args, host, main, exit, hostVars, retries, loadVars, eventVars, pidVars, profiler>>

\* <-mainCtx.Done() and rep.Stop()
StopReporter ==
  /\ done
  /\ Return("wait", "success", "close")
  /\ UNCHANGED <<done, hostVars, retries, loadVars, eventVars, pidVars, profiler>>

\* A plausible bug: the events are disabled, and stay in the list.
CloseEventsKept ==
  /\ At("close", "unhook")
  /\ Switch("disabled")
  /\ UNCHANGED <<done, hostVars, retries, loadVars, perfEntrypoints, hooks, pidVars, profiler>>

\* Tracer.Close: the perf events with their lock held ...
CloseEvents ==
  /\ At("close", "unhook")
  /\ events' = [c \in Cpu |-> IF c \in perfEntrypoints THEN "closed" ELSE events[c]]
  /\ perfEntrypoints' = {}
  /\ UNCHANGED <<done, hostVars, retries, loadVars, hooks, pidVars, profiler>>

\* ... and then the hooks.
CloseHooks ==
  /\ At("unhook", "returned")
  /\ hooks' = {}
  /\ UNCHANGED <<done, hostVars, retries, loadVars, events, perfEntrypoints, pidVars, profiler>>

----------------------------------------------------------------------------
MainStep ==
  \/ CheckArgs \/ CheckKernel \/ Probe \/ SetConfiguration \/ ParseTracers
  \/ Identify \/ GenerateHostID \/ StartReporting
  \/ LoadMaps \/ LoadUnwinder \/ LoadSystemConfig \/ NewProcessManager
  \/ StartPIDEventProcessor \/ PopulatePIDs
  \/ AttachTracer \/ EnableProfiling \/ AttachSchedMonitor \/ StartTraceHandling
  \/ StopReporter \/ CloseEvents \/ CloseHooks

TesterStep == \E c \in Clouds : Test(c) \/ SetEnv(c)

AgentNext == \/ MainStep \/ TesterStep \/ Signal
             \/ main # "returned" /\ (ProcessPID \/ StopProcessor \/ ProbabilisticProfile \/ StopProfiler)

AgentSpec == AgentInit /\ [][AgentNext]_agentVars

\* Goroutines that can go on do so, and the testers' requests time out.
AgentFairness == WF_agentVars(MainStep) /\ WF_agentVars(TesterStep)

----------------------------------------------------------------------------
\* Properties

\* The program that walks the stack of the interpreter a plugin is for.
Unwinder(l) == CASE l = "perl"               -> "unwind_perl"
                 [] l \in {"php", "phpjit"}  -> "unwind_php"
                 [] l = "python"             -> "unwind_python"
                 [] l = "hotspot"            -> "unwind_hotspot"
                 [] l = "ruby"               -> "unwind_ruby"
                 [] l = "v8"                 -> "unwind_v8"

\* Nothing is sampled before the unwinders are in place: when a perf event is
\* enabled, every interpreter that the process manager may attach to has its
\* program in the tail call table, those that find their state through the thread
\* pointer have its offset, and the kernel is not one that bpf_probe_read freezes,
\* unless its version is not to be checked.
SamplingIsPrepared ==
  (\E c \in Cpu : events[c] = "enabled") =>
    /\ {"unwind_stop", "unwind_native"} \subseteq tailcalls
    /\ \A l \in loaders : Unwinder(l) \in tailcalls
    /\ loaders \cap {"perl", "python"} # {} => tpbase
    /\ args.check => ~hasProbeReadBug(host.kernel) \/ host.patched

\* However main returns, the kernel no longer runs the agent's programs: Close
\* leaves no perf event enabled and no hook, also when probabilistic profiling,
\* which is told to stop only afterwards, has its turn in between.
ClosedIsSilent ==
  main \in {"unhook", "returned"} =>
    /\ \A c \in Cpu : events[c] # "enabled"
    /\ main = "returned" => hooks = {}

\* The host ID is made of what a cloud has answered or, as the last resort, of the
\* machine's own: of the environment its cgroups tell and a MAC address of an interface
\* other than the loopback, one that is up if any is.  A tester that failed leaves
\* nothing of its own in it, whatever the others do; two that found a cloud may mix
\* their answers.
HostIsIdentified ==
  hostID # None /\ args.environment = None =>
    \/ hostID[1] \in host.clouds /\ hostID[2] \in host.clouds
    \/ /\ hostID[1] = checkCGroups(host.cgroup)
       /\ \E i \in DOMAIN host.ifaces :
            /\ hostID[2] = host.ifaces[i].mac /\ ~host.ifaces[i].loopback
            /\ host.ifaces[i].up \/ Up(host.ifaces) = {}

\* A signal ends the agent, at whatever point of its start it arrives: populatePIDs
\* does not wait for a processor that has stopped.
SignalStops == done ~> main = "returned"
==============================================================================
