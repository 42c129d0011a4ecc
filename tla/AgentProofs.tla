------------------------------ MODULE AgentProofs ------------------------------
(***************************************************************************)
(* Proofs about Agent and Metrics.  The safety properties of the agent's   *)
(* life, for any machines, command lines, CPUs and PIDs: each rests on     *)
(* what the point that main has reached says of the state, of the perf     *)
(* events (EventsInv), of what NewTracer has loaded (LoadInv) and of the   *)
(* host ID (HostInv).  The accounting of metrics, for any collectors and   *)
(* metrics, any clock and any counts: the values that are sent, those in a *)
(* batch or in the hands of a collector and those not collected yet add up *)
(* to what was counted.  That the buffer is never full follows from a      *)
(* metric being in it once.                                                *)
(***************************************************************************)
EXTENDS Agent, Metrics, FiniteSetTheorems, TLAPS, WellFoundedInduction

\* The points of mainWithExitCode from which something holds.
Early == {"args", "kernel", "probe", "configure", "tracers"}
Sampling == {"attach", "enable", "sched", "handling", "wait", "close"}
Managed == Sampling \cup {"processes", "populate"}
Loaded == Managed \cup {"manager"}
Checked == Loaded \cup {"programs"}

\* Only an event that Close will find is ever enabled.
EventsInv ==
  /\ events \in [Cpu -> {"none", "disabled", "enabled", "closed"}]
  /\ perfEntrypoints \subseteq Cpu
  /\ \A c \in Cpu : events[c] = "enabled" => c \in perfEntrypoints
  /\ perfEntrypoints # {} => main \in Sampling
  /\ hooks # {} => main \in {"handling", "wait", "close", "unhook"}

Selected(i) == Programs[i].enable # {} => Programs[i].enable \cap include # {}

KernelChecked == args.check /\ hasProbeReadBug(host.kernel) => CheckForMaccessPatch

\* What NewTracer has loaded is for the tracers that parseTracers has included.
LoadInv ==
  /\ include \subseteq Interpreters
  /\ progsDone \in 0..Len(Programs)
  /\ main \in Early => progsDone = 0
  /\ \A i \in 1..progsDone : Selected(i) /\ Programs[i].target => Programs[i].name \in tailcalls
  /\ main \in Checked => KernelChecked
  /\ main \in Loaded => /\ progsDone = Len(Programs)
                        /\ include \cap {"perl", "python"} # {} => tpbase
  /\ main \in Managed => loaders = NewLoaders(include)

\* While the testers run, what they have written is an answer of a cloud.
HostInv ==
  /\ host \in Hosts
  /\ tester \in [Clouds -> {"off", "testing", "found", "over"}]
  /\ \A c \in Clouds : tester[c] \in {"testing", "found"} => main = "testers"
  /\ \A c \in Clouds : tester[c] = "found" => c \in host.clouds /\ machineID \in host.clouds
  /\ args.environment = None /\ main \in Early \cup {"identify"} => environment = None
  /\ args.environment = None /\ main = "testers" /\ environment # None =>
       environment \in host.clouds /\ machineID \in host.clouds
  /\ HostIsIdentified

AgentInv == EventsInv /\ LoadInv /\ HostInv

----------------------------------------------------------------------------
\* No step enables an event that is not in perfEntrypoints, and none adds an entry
\* or a hook after Close has passed it.
LEMMA EventsStep ==
  ASSUME EventsInv, [AgentNext]_agentVars
  PROVE  EventsInv'
<1> USE DEF At, Return, hostVars, loadVars, eventVars, pidVars, EventsInv, Sampling
<1>1. CASE CheckArgs
  BY <1>1, Zenon DEF CheckArgs
<1>2. CASE CheckKernel
  BY <1>2, Zenon DEF CheckKernel
<1>3. CASE Probe
  BY <1>3, Zenon DEF Probe
<1>4. CASE SetConfiguration
  BY <1>4, Zenon DEF SetConfiguration
<1>5. CASE ParseTracers
  BY <1>5, Zenon DEF ParseTracers
<1>6. CASE Identify
  BY <1>6, Zenon DEF Identify
<1>7. CASE GenerateHostID
  BY <1>7, Zenon DEF GenerateHostID
<1>8. CASE StartReporting
  BY <1>8, Zenon DEF StartReporting, waitGrpcEndpoint
<1>9. CASE LoadMaps
  BY <1>9, Zenon DEF LoadMaps
<1>10. CASE LoadUnwinder
  BY <1>10, Zenon DEF LoadUnwinder
<1>11. CASE LoadSystemConfig
  BY <1>11, Zenon DEF LoadSystemConfig
<1>12. CASE NewProcessManager
  BY <1>12, Zenon DEF NewProcessManager
<1>13. CASE StartPIDEventProcessor
  BY <1>13, Zenon DEF StartPIDEventProcessor
<1>14. CASE PopulatePIDs
  BY <1>14, Zenon DEF PopulatePIDs
<1>15. CASE AttachTracer
  <2>1. CASE At("attach", "enable") /\ UNCHANGED <<events, perfEntrypoints>>
    BY <1>15, <2>1, Zenon DEF AttachTracer
  <2>2. ASSUME NEW c \in Unopened, events' \in {events, [events EXCEPT ![c] = "disabled"]},
               main' \in Sampling, perfEntrypoints' \in {perfEntrypoints, perfEntrypoints \cup {c}},
               hooks' = hooks, main = "attach"
        PROVE  EventsInv'
    <3>1. c \in Cpu
      BY Zenon DEF Unopened
    <3>2. events' \in [Cpu -> {"none", "disabled", "enabled", "closed"}]
      BY <2>2, Zenon
    <3>3. \A d \in Cpu : events'[d] = "enabled" => events[d] = "enabled"
      BY <2>2, Zenon
    <3> QED
      BY <2>2, <3>1, <3>2, <3>3, Zenon
  <2> QED
    BY <1>15, <2>1, <2>2, Zenon DEF AttachTracer
<1>16. CASE EnableProfiling
  BY <1>16, Zenon DEF EnableProfiling, Switch
<1>17. CASE AttachSchedMonitor
  BY <1>17, Zenon DEF AttachSchedMonitor
<1>18. CASE StartTraceHandling
  BY <1>18, Zenon DEF StartTraceHandling
<1>19. CASE StopReporter
  BY <1>19, Zenon DEF StopReporter
<1>20. CASE CloseEvents
  BY <1>20, Zenon DEF CloseEvents
<1>21. CASE CloseHooks
  BY <1>21, Zenon DEF CloseHooks
<1>22. ASSUME NEW c \in Clouds, Test(c) PROVE EventsInv'
  BY <1>22, Zenon DEF Test
<1>23. ASSUME NEW c \in Clouds, SetEnv(c) PROVE EventsInv'
  BY <1>23, Zenon DEF SetEnv
<1>24. CASE Signal
  BY <1>24, Zenon DEF Signal
<1>25. CASE ProcessPID
  BY <1>25, Zenon DEF ProcessPID
<1>26. CASE StopProcessor
  BY <1>26, Zenon DEF StopProcessor
<1>27. CASE ProbabilisticProfile
  BY <1>27, Zenon DEF ProbabilisticProfile, Switch
<1>28. CASE StopProfiler
  BY <1>28, Zenon DEF StopProfiler
<1>29. CASE UNCHANGED agentVars
  BY <1>29, Zenon DEF agentVars
<1> QED
  BY <1>1, <1>2, <1>3, <1>4, <1>5, <1>6, <1>7, <1>8, <1>9, <1>10, <1>11, <1>12, <1>13, <1>14,
     <1>15, <1>16, <1>17, <1>18, <1>19, <1>20, <1>21, <1>22, <1>23, <1>24, <1>25, <1>26, <1>27,
     <1>28, <1>29
  DEF AgentNext, MainStep, TesterStep

\* A list of tracers without an error includes only interpreters.
LEMMA IncludedTracers ==
  ASSUME NEW names, ~TracersError(names)
  PROVE  UNION {Included(names[i]) : i \in DOMAIN names} \subseteq Interpreters
<1> SUFFICES ASSUME NEW i \in DOMAIN names
             PROVE  Included(names[i]) \subseteq Interpreters
  BY Zenon
<1>1. names[i] \in Interpreters \cup {"all", "native", ""}
  BY Zenon DEF TracersError
<1>2. CASE names[i] = "all"
  BY <1>2, Zenon DEF Included, AllTracers, Interpreters
<1>3. CASE names[i] \in Interpreters
  BY <1>3, Zenon DEF Included, Interpreters
<1>4. CASE names[i] \in {"native", ""}
  BY <1>4, ZenonT(40) DEF Included, Interpreters
<1> QED
  BY <1>1, <1>2, <1>3, <1>4, Zenon

\* The tracers are chosen before the first program is loaded, and NewTracer passes a
\* point only with all that it loads there.
LEMMA LoadStep ==
  ASSUME LoadInv, [AgentNext]_agentVars
  PROVE  LoadInv'
<1> USE DEF At, Return, hostVars, loadVars, eventVars, pidVars, LoadInv, Early, Sampling, Managed,
            Loaded, Checked, Selected, KernelChecked, CheckForMaccessPatch
<1>1. CASE CheckArgs
  BY <1>1, Zenon DEF CheckArgs
<1>2. CASE CheckKernel
  BY <1>2, Zenon DEF CheckKernel
<1>3. CASE Probe
  BY <1>3, Zenon DEF Probe
<1>4. CASE SetConfiguration
  BY <1>4, Zenon DEF SetConfiguration
<1>5. CASE ParseTracers
  <2>1. include' \subseteq Interpreters
    BY <1>5, IncludedTracers, Zenon DEF ParseTracers
  <2> QED
    BY <1>5, <2>1 DEF ParseTracers
<1>6. CASE Identify
  BY <1>6, Zenon DEF Identify
<1>7. CASE GenerateHostID
  BY <1>7, Zenon DEF GenerateHostID
<1>8. CASE StartReporting
  BY <1>8, Zenon DEF StartReporting, waitGrpcEndpoint
<1>9. CASE LoadMaps
  BY <1>9, Zenon DEF LoadMaps
<1>10. CASE LoadUnwinder
  BY <1>10 DEF LoadUnwinder
<1>11. CASE LoadSystemConfig
  BY <1>11, Zenon DEF LoadSystemConfig
<1>12. CASE NewProcessManager
  BY <1>12, Zenon DEF NewProcessManager
<1>13. CASE StartPIDEventProcessor
  BY <1>13, Zenon DEF StartPIDEventProcessor
<1>14. CASE PopulatePIDs
  BY <1>14, Zenon DEF PopulatePIDs
<1>15. CASE AttachTracer
  BY <1>15, Zenon DEF AttachTracer
<1>16. CASE EnableProfiling
  BY <1>16, Zenon DEF EnableProfiling, Switch
<1>17. CASE AttachSchedMonitor
  BY <1>17, Zenon DEF AttachSchedMonitor
<1>18. CASE StartTraceHandling
  BY <1>18, Zenon DEF StartTraceHandling
<1>19. CASE StopReporter
  BY <1>19, Zenon DEF StopReporter
<1>20. CASE CloseEvents
  BY <1>20, Zenon DEF CloseEvents
<1>21. CASE CloseHooks
  BY <1>21, Zenon DEF CloseHooks
<1>22. ASSUME NEW c \in Clouds, Test(c) PROVE LoadInv'
  BY <1>22, Zenon DEF Test
<1>23. ASSUME NEW c \in Clouds, SetEnv(c) PROVE LoadInv'
  BY <1>23, Zenon DEF SetEnv
<1>24. CASE Signal
  BY <1>24, Zenon DEF Signal
<1>25. CASE ProcessPID
  BY <1>25, Zenon DEF ProcessPID
<1>26. CASE StopProcessor
  BY <1>26, Zenon DEF StopProcessor
<1>27. CASE ProbabilisticProfile
  BY <1>27, Zenon DEF ProbabilisticProfile, Switch
<1>28. CASE StopProfiler
  BY <1>28, Zenon DEF StopProfiler
<1>29. CASE UNCHANGED agentVars
  BY <1>29, Zenon DEF agentVars
<1> QED
  BY <1>1, <1>2, <1>3, <1>4, <1>5, <1>6, <1>7, <1>8, <1>9, <1>10, <1>11, <1>12, <1>13, <1>14,
     <1>15, <1>16, <1>17, <1>18, <1>19, <1>20, <1>21, <1>22, <1>23, <1>24, <1>25, <1>26, <1>27,
     <1>28, <1>29
  DEF AgentNext, MainStep, TesterStep

\* A list of interfaces has a first one with any property that one of them has.
LEMMA FirstOf ==
  ASSUME NEW S, S \subseteq Nat, S # {}
  PROVE  First(S) \in S
<1>1. PICK i \in S : \A j \in S : <<j, i>> \notin OpToRel(<, Nat)
  BY NatLessThanWellFounded, WFMin, Zenon
<1>2. ASSUME NEW j \in S
      PROVE  i <= j
  <2>1. ~(j < i)
    <3> SUFFICES ASSUME j < i
                 PROVE  FALSE
      BY Zenon
    <3>1. <<j, i>> \in {ss \in Nat \X Nat : ss[1] < ss[2]}
      BY Zenon
    <3> QED
      BY <1>1, <3>1, Zenon DEF OpToRel
  <2> QED
    BY <2>1
<1> QED
  BY <1>2, Zenon DEF First

\* Whichever way the MAC address of a machine is found, it is one of an interface
\* other than the loopback, which is up if any is.
LEMMA NonCloudID ==
  ASSUME NEW h \in Hosts, NEW id \in NonCloud(h)
  PROVE  /\ id[1] = checkCGroups(h.cgroup)
         /\ \E i \in DOMAIN h.ifaces :
              /\ id[2] = h.ifaces[i].mac /\ ~h.ifaces[i].loopback
              /\ h.ifaces[i].up \/ Up(h.ifaces) = {}
<1> DEFINE Its(mac) == \E i \in DOMAIN h.ifaces :
                         /\ mac = h.ifaces[i].mac /\ ~h.ifaces[i].loopback
                         /\ h.ifaces[i].up \/ Up(h.ifaces) = {}
<1>1. PICK mac \in (getMACFromRouting(h.ifaces) \cup {getMACFromSystem(h.ifaces)}) \ {None} :
        id = <<checkCGroups(h.cgroup), mac>>
  BY Zenon DEF NonCloud
<1>2. Up(h.ifaces) \subseteq Nat /\ WithAddress(h.ifaces) \subseteq Nat
  BY AgentAssumption DEF Up, WithAddress
<1>3. CASE mac \in getMACFromRouting(h.ifaces)
  BY <1>1, <1>3, Zenon DEF getMACFromRouting, Up, WithAddress
<1>4. CASE mac = getMACFromSystem(h.ifaces) /\ Up(h.ifaces) # {}
  <2>1. First(Up(h.ifaces)) \in Up(h.ifaces)
    BY <1>2, <1>4, FirstOf, Zenon
  <2>2. mac = h.ifaces[First(Up(h.ifaces))].mac
    BY <1>4, Zenon DEF getMACFromSystem
  <2>3. Its(mac)
    BY <2>1, <2>2, Zenon DEF Up, WithAddress
  <2> QED
    BY <1>1, <2>3, Zenon
<1>5. CASE mac = getMACFromSystem(h.ifaces) /\ Up(h.ifaces) = {}
  <2>1. WithAddress(h.ifaces) # {} /\ mac = h.ifaces[First(WithAddress(h.ifaces))].mac
    BY <1>1, <1>5, Zenon DEF getMACFromSystem
  <2>2. First(WithAddress(h.ifaces)) \in WithAddress(h.ifaces)
    BY <1>2, <2>1, FirstOf, Zenon
  <2>3. Its(mac)
    BY <1>5, <2>1, <2>2, Zenon DEF WithAddress
  <2> QED
    BY <1>1, <2>3, Zenon
<1> QED
  BY <1>1, <1>3, <1>4, <1>5, Zenon

\* A tester writes machineID before env, and the host ID is made when all are over.
LEMMA HostStep ==
  ASSUME HostInv, [AgentNext]_agentVars
  PROVE  HostInv'
<1> USE DEF At, Return, hostVars, loadVars, eventVars, pidVars, HostInv, HostIsIdentified, Early
<1>1. CASE CheckArgs
  BY <1>1, Zenon DEF CheckArgs
<1>2. CASE CheckKernel
  BY <1>2, Zenon DEF CheckKernel
<1>3. CASE Probe
  BY <1>3, Zenon DEF Probe
<1>4. CASE SetConfiguration
  BY <1>4, Zenon DEF SetConfiguration
<1>5. CASE ParseTracers
  BY <1>5, Zenon DEF ParseTracers
<1>6. CASE Identify
  BY <1>6, Zenon DEF Identify
<1>7. CASE GenerateHostID
  <2>1. main = "testers" /\ main' \in {"report", "returned"} /\ UNCHANGED <<args, host, tester>>
    BY <1>7, Zenon DEF GenerateHostID
  <2>2. \A c \in Clouds : tester[c] = "over"
    BY <1>7, Zenon DEF GenerateHostID
  <2>3. HostIsIdentified'
    <3>1. CASE environment # None /\ main' = "report" /\ UNCHANGED <<environment, machineID>>
      BY <1>7, <2>1, <3>1, Zenon DEF GenerateHostID
    <3>2. ASSUME NEW id \in NonCloud(host), environment' = id[1], machineID' = id[2],
                 main' = "report"
          PROVE  HostIsIdentified'
      <4>1. hostID' = <<id[1], id[2]>>
        BY <1>7, <3>2, Zenon DEF GenerateHostID
      <4> QED
        BY <2>1, <4>1, NonCloudID, Zenon
    <3>3. CASE main' = "returned"
      BY <1>7, <3>3, Zenon DEF GenerateHostID
    <3> QED
      BY <1>7, <3>1, <3>2, <3>3, Zenon DEF GenerateHostID
  <2> QED
    BY <2>1, <2>2, <2>3, Zenon
<1>8. CASE StartReporting
  BY <1>8, Zenon DEF StartReporting, waitGrpcEndpoint
<1>9. CASE LoadMaps
  BY <1>9, Zenon DEF LoadMaps
<1>10. CASE LoadUnwinder
  BY <1>10, Zenon DEF LoadUnwinder
<1>11. CASE LoadSystemConfig
  BY <1>11, Zenon DEF LoadSystemConfig
<1>12. CASE NewProcessManager
  BY <1>12, Zenon DEF NewProcessManager
<1>13. CASE StartPIDEventProcessor
  BY <1>13, Zenon DEF StartPIDEventProcessor
<1>14. CASE PopulatePIDs
  BY <1>14, Zenon DEF PopulatePIDs
<1>15. CASE AttachTracer
  BY <1>15, Zenon DEF AttachTracer
<1>16. CASE EnableProfiling
  BY <1>16, Zenon DEF EnableProfiling, Switch
<1>17. CASE AttachSchedMonitor
  BY <1>17, Zenon DEF AttachSchedMonitor
<1>18. CASE StartTraceHandling
  BY <1>18, Zenon DEF StartTraceHandling
<1>19. CASE StopReporter
  BY <1>19, Zenon DEF StopReporter
<1>20. CASE CloseEvents
  BY <1>20, Zenon DEF CloseEvents
<1>21. CASE CloseHooks
  BY <1>21, Zenon DEF CloseHooks
<1>22. ASSUME NEW c \in Clouds, Test(c) PROVE HostInv'
  BY <1>22, Zenon DEF Test
<1>23. ASSUME NEW c \in Clouds, SetEnv(c) PROVE HostInv'
  BY <1>23, Zenon DEF SetEnv
<1>24. CASE Signal
  BY <1>24, Zenon DEF Signal
<1>25. CASE ProcessPID
  BY <1>25, Zenon DEF ProcessPID
<1>26. CASE StopProcessor
  BY <1>26, Zenon DEF StopProcessor
<1>27. CASE ProbabilisticProfile
  BY <1>27, Zenon DEF ProbabilisticProfile, Switch
<1>28. CASE StopProfiler
  BY <1>28, Zenon DEF StopProfiler
<1>29. CASE UNCHANGED agentVars
  BY <1>29, Zenon DEF agentVars
<1> QED
  BY ZenonT(40), <1>1, <1>2, <1>3, <1>4, <1>5, <1>6, <1>7, <1>8, <1>9, <1>10, <1>11, <1>12, <1>13,
     <1>14, <1>15, <1>16, <1>17, <1>18, <1>19, <1>20, <1>21, <1>22, <1>23, <1>24, <1>25, <1>26,
     <1>27, <1>28, <1>29
  DEF AgentNext, MainStep, TesterStep

----------------------------------------------------------------------------
\* AgentInv holds at the start, and every step keeps it.
LEMMA AgentInvariant == AgentSpec => []AgentInv
<1>1. AgentInit => AgentInv
  <2> SUFFICES ASSUME AgentInit
               PROVE  AgentInv
    BY Zenon
  <2>1. EventsInv
    BY Zenon DEF AgentInit, EventsInv
  <2>2. Len(Programs) = 10
    BY Zenon DEF Programs
  <2>3. LoadInv
    BY <2>2 DEF AgentInit, LoadInv, Checked, Loaded, Managed, Sampling
  <2>4. HostInv
    BY Zenon DEF AgentInit, HostInv, HostIsIdentified
  <2> QED
    BY <2>1, <2>3, <2>4, Zenon DEF AgentInv
<1>2. AgentInv /\ [AgentNext]_agentVars => AgentInv'
  BY EventsStep, LoadStep, HostStep, Zenon DEF AgentInv
<1> QED
  BY <1>1, <1>2, PTL DEF AgentSpec

\* Once all programs are dealt with, each included tracer's unwinder is in the table.
LEMMA UnwindersLoaded ==
  ASSUME LoadInv, main \in Managed
  PROVE  /\ {"unwind_stop", "unwind_native"} \subseteq tailcalls
         /\ \A l \in loaders : Unwinder(l) \in tailcalls
<1>1. Len(Programs) = 10
  BY Zenon DEF Programs
<1>2. \A i \in 1..10 : Selected(i) /\ Programs[i].target => Programs[i].name \in tailcalls
  BY <1>1, Zenon DEF LoadInv, Loaded
<1>3. "unwind_stop" \in tailcalls
  BY <1>2 DEF Programs, Selected
<1>4. "unwind_native" \in tailcalls
  BY <1>2 DEF Programs, Selected
<1>5. "hotspot" \in include => "unwind_hotspot" \in tailcalls
  BY <1>2 DEF Programs, Selected
<1>6. "perl" \in include => "unwind_perl" \in tailcalls
  BY <1>2 DEF Programs, Selected
<1>7. "php" \in include => "unwind_php" \in tailcalls
  BY <1>2 DEF Programs, Selected
<1>8. "python" \in include => "unwind_python" \in tailcalls
  BY <1>2 DEF Programs, Selected
<1>9. "ruby" \in include => "unwind_ruby" \in tailcalls
  BY <1>2 DEF Programs, Selected
<1>10. "v8" \in include => "unwind_v8" \in tailcalls
  BY <1>2 DEF Programs, Selected
<1>11. ASSUME NEW l \in loaders
       PROVE  Unwinder(l) \in tailcalls
  <2>1. l \in include \/ (l = "phpjit" /\ "php" \in include)
    BY Zenon DEF LoadInv, NewLoaders
  <2>2. l \in Interpreters \/ l = "phpjit"
    BY <2>1, Zenon DEF LoadInv
  <2>3. CASE l = "hotspot"
    BY <2>1, <2>3, <1>5, Zenon DEF Unwinder
  <2>4. CASE l = "perl"
    BY <2>1, <2>4, <1>6, Zenon DEF Unwinder
  <2>5. CASE l = "php"
    BY <2>1, <2>5, <1>7, Zenon DEF Unwinder
  <2>6. CASE l = "python"
    BY <2>1, <2>6, <1>8, Zenon DEF Unwinder
  <2>7. CASE l = "ruby"
    BY <2>1, <2>7, <1>9, Zenon DEF Unwinder
  <2>8. CASE l = "v8"
    BY <2>1, <2>8, <1>10, Zenon DEF Unwinder
  <2>9. CASE l = "phpjit"
    BY <2>1, <2>9, <1>7, Zenon DEF Unwinder, LoadInv, Interpreters
  <2> QED
    BY <2>2, <2>3, <2>4, <2>5, <2>6, <2>7, <2>8, <2>9, Zenon DEF Interpreters
<1> QED
  BY <1>3, <1>4, <1>11, Zenon

\* On every machine and with every command line, a perf event is enabled only when
\* NewTracer has put the unwinders of all included interpreters in place and the
\* kernel has passed its check.
THEOREM SamplingStartsPrepared == AgentSpec => []SamplingIsPrepared
<1>1. AgentInv => SamplingIsPrepared
  <2> SUFFICES ASSUME AgentInv, NEW c \in Cpu, events[c] = "enabled"
               PROVE  /\ {"unwind_stop", "unwind_native"} \subseteq tailcalls
                      /\ \A l \in loaders : Unwinder(l) \in tailcalls
                      /\ loaders \cap {"perl", "python"} # {} => tpbase
                      /\ args.check => ~hasProbeReadBug(host.kernel) \/ host.patched
    BY Zenon DEF SamplingIsPrepared
  <2>1. main \in Managed
    BY Zenon DEF AgentInv, EventsInv, Managed
  <2>2. loaders \cap {"perl", "python"} # {} => tpbase
    BY <2>1, Zenon DEF AgentInv, LoadInv, Loaded, NewLoaders
  <2>3. args.check => ~hasProbeReadBug(host.kernel) \/ host.patched
    BY <2>1, Zenon DEF AgentInv, LoadInv, Loaded, Checked, KernelChecked, CheckForMaccessPatch
  <2> QED
    BY <2>1, <2>2, <2>3, UnwindersLoaded, Zenon DEF AgentInv
<1> QED
  BY <1>1, AgentInvariant, PTL

\* However main gets to its end, and whatever probabilistic profiling still does,
\* Tracer.Close leaves no perf event enabled and no hook.
THEOREM CloseSilences == AgentSpec => []ClosedIsSilent
<1>1. AgentInv => ClosedIsSilent
  BY Zenon DEF AgentInv, EventsInv, Sampling, ClosedIsSilent
<1> QED
  BY <1>1, AgentInvariant, PTL

\* The host ID is never made of what a failed tester of a cloud left behind, in
\* whatever order the testers of getEnvironmentAndMachineID write.
THEOREM HostIDIsTrue == AgentSpec => []HostIsIdentified
<1>1. AgentInv => HostIsIdentified
  BY Zenon DEF AgentInv, HostInv
<1> QED
  BY <1>1, AgentInvariant, PTL

----------------------------------------------------------------------------
\* Metrics

\* What the variables hold; a collector has only values of its own metrics.
MetricsTypes ==
  /\ clock \in Nat /\ counter \in [ID -> Int] /\ previousMetricValue \in [ID -> Int]
  /\ {counted, reported, repeated} \subseteq [ID -> Int]
  /\ hand = [c \in Collector |-> hand[c]]
  /\ \A c \in Collector :
       /\ DOMAIN hand[c].metrics \subseteq IDsOf[c]
       /\ \A id \in DOMAIN hand[c].metrics : hand[c].metrics[id] \in Int
       /\ hand[c] = Idle \/ hand[c].at \in {"collected", "waiting"}
       /\ hand[c] = Idle => DOMAIN hand[c].metrics = {}

\* A batch of the metrics ids, all of one second.
IsBatch(buffer, ids, at) ==
  /\ \A m \in buffer : m.id \in ids /\ m.value \in Int /\ m.at = at
  /\ \A m, n \in buffer : m.id = n.id => m = n
  /\ \A id \in ids : id \in ID /\ \E m \in buffer : m.id = id

\* The inductive invariant.
MetricsInv ==
  /\ MetricsTypes
  /\ IsBatch(metricsBuffer, metricIDSet, prevTimestamp) /\ ~capped
  /\ MetricsAccounted

----------------------------------------------------------------------------
\* The value of a metric that is in a buffer once, and of one that is not in it.
LEMMA InBufferIs ==
  ASSUME NEW buffer, \A m, n \in buffer : m.id = n.id => m = n
  PROVE  /\ \A m \in buffer : InBuffer(buffer, m.id) = m.value
         /\ \A id : (\A m \in buffer : m.id # id) => InBuffer(buffer, id) = 0
<1>1. ASSUME NEW m \in buffer
      PROVE  InBuffer(buffer, m.id) = m.value
  <2>1. PICK n : n = CHOOSE k \in buffer : k.id = m.id
    BY Zenon
  <2>2. n \in buffer /\ n.id = m.id
    BY <2>1, Zenon
  <2>3. n = m
    BY <2>2, Zenon
  <2> QED
    BY <2>1, <2>3, Zenon DEF InBuffer
<1> QED
  BY <1>1, Zenon DEF InBuffer

\* The values in a batch are integers.
LEMMA InBufferInt ==
  ASSUME NEW buffer, NEW ids, NEW at, IsBatch(buffer, ids, at), NEW id
  PROVE  InBuffer(buffer, id) \in Int
<1>1. \A m, n \in buffer : m.id = n.id => m = n
  BY Zenon DEF IsBatch
<1>2. CASE \E m \in buffer : m.id = id
  BY <1>1, <1>2, InBufferIs DEF IsBatch
<1>3. CASE \A m \in buffer : m.id # id
  BY <1>1, <1>3, InBufferIs
<1> QED
  BY <1>2, <1>3, Zenon

\* A metric is collected in one place.
LEMMA OneCollector ==
  ASSUME NEW id \in ID
  PROVE  /\ CollectorOf(id) \in Collector /\ id \in IDsOf[CollectorOf(id)]
         /\ \A c \in Collector : id \in IDsOf[c] => c = CollectorOf(id)
<1>1. \E c \in Collector : id \in IDsOf[c]
  BY Zenon DEF ID
<1>2. CollectorOf(id) \in Collector /\ id \in IDsOf[CollectorOf(id)]
  BY <1>1, Zenon DEF CollectorOf
<1> QED
  BY <1>2, MetricsAssumption, Zenon

\* The buffer has room: no metric is in it twice.
LEMMA AllFit ==
  ASSUME NEW buffer, NEW ids, NEW at, IsBatch(buffer, ids, at),
         NEW new \in SUBSET ID, new \cap ids = {}, NEW kept \in Fitting(new, Cardinality(buffer))
  PROVE  kept = new
<1>1. ids \in SUBSET ID
  BY Zenon DEF IsBatch
<1>2. IsFiniteSet(ids) /\ IsFiniteSet(new) /\ IsFiniteSet(kept) /\ kept \in SUBSET new
  BY <1>1, MetricsAssumption, FS_Subset, Zenon DEF Fitting
<1>3. IsFiniteSet(buffer) /\ Cardinality(buffer) <= Cardinality(ids)
  <2> DEFINE f == [m \in buffer |-> m.id]
  <2>1. f \in [buffer -> ids] /\ \A m, n \in buffer : f[m] = f[n] => m = n
    BY Zenon DEF IsBatch
  <2>2. f \in Injection(buffer, ids)
    BY <2>1, Zenon DEF Injection, IsInjective
  <2> QED
    BY <1>2, <2>2, FS_Injection, Zenon
<1>4. Cardinality(ids \cup new) = Cardinality(ids) + Cardinality(new) - Cardinality(ids \cap new)
  BY <1>2, FS_Union, Zenon
<1>5. Cardinality(ids \cap new) = 0
  BY FS_EmptySet, Zenon
<1>6. Cardinality(ids \cup new) <= Cardinality(ID)
  BY <1>1, MetricsAssumption, FS_Subset, Zenon
<1>7. /\ Cardinality(buffer) \in Nat /\ Cardinality(ids) \in Nat /\ Cardinality(new) \in Nat
      /\ Cardinality(kept) \in Nat /\ Cardinality(ID) \in Nat
  BY <1>2, <1>3, MetricsAssumption, FS_CardinalityType, Zenon
<1>8. Cardinality(buffer) + Cardinality(new) < MetricsBufferSize
  BY <1>3, <1>4, <1>5, <1>6, <1>7, MetricsAssumption
<1>9. Cardinality(kept) <= Cardinality(new)
  BY <1>2, FS_Subset, Zenon
<1> QED
  BY <1>7, <1>8, <1>9, MetricsAssumption DEF Fitting

\* AddSlice adds each metric to the batch, or leaves out one that is there already.
LEMMA AddMetricsAdds ==
  ASSUME MetricsTypes, NEW c \in Collector, NEW buffer, NEW ids, IsBatch(buffer, ids, hand[c].now),
         AddMetrics(c, buffer, ids), ~capped
  PROVE  /\ IsBatch(metricsBuffer', metricIDSet', hand[c].now) /\ ~capped'
         /\ repeated' \in [ID -> Int]
         /\ \A id \in ID : InBuffer(metricsBuffer', id) + repeated'[id] =
                             InBuffer(buffer, id) + repeated[id] + ValueIn(hand[c].metrics, id)
<1> DEFINE metrics == hand[c].metrics
           new == DOMAIN metrics \ ids
           added == {[id |-> id, value |-> metrics[id], at |-> hand[c].now] : id \in new}
<1>1. DOMAIN metrics \subseteq ID /\ \A id \in DOMAIN metrics : metrics[id] \in Int
  BY Zenon DEF MetricsTypes, ID
<1>2. PICK kept \in Fitting(new, Cardinality(buffer)) :
        /\ metricsBuffer' = buffer \cup {[id |-> id, value |-> metrics[id], at |-> hand[c].now] : id \in kept}
        /\ metricIDSet' = ids \cup kept
        /\ repeated' = [id \in ID |-> repeated[id] + IF id \in DOMAIN metrics \cap ids THEN metrics[id] ELSE 0]
        /\ capped' = (capped \/ kept # new)
  BY Zenon DEF AddMetrics
<1>3. new \in SUBSET ID /\ new \cap ids = {}
  BY <1>1, Zenon
<1>4. kept = new
  BY <1>2, <1>3, AllFit
<1>5. metricsBuffer' = buffer \cup added /\ metricIDSet' = ids \cup new /\ ~capped'
  BY <1>2, <1>4, Zenon
<1>6. \A id \in ID : repeated[id] \in Int /\ ValueIn(metrics, id) \in Int
  BY <1>1 DEF MetricsTypes, ValueIn
<1>7. repeated' = [id \in ID |-> repeated[id] + (IF id \in ids THEN ValueIn(metrics, id) ELSE 0)]
  BY <1>2, Zenon DEF ValueIn
<1>8. repeated' \in [ID -> Int]
  BY <1>6, <1>7
<1>9. /\ \A m \in added : m.id \in new /\ m.value = metrics[m.id] /\ m.at = hand[c].now
      /\ \A m, n \in added : m.id = n.id => m = n
      /\ \A id \in new : \E m \in added : m.id = id
  <2>1. \A m \in added : \E id \in new : m = [id |-> id, value |-> metrics[id], at |-> hand[c].now]
    BY Zenon
  <2>2. \A id \in new : [id |-> id, value |-> metrics[id], at |-> hand[c].now] \in added
    BY Zenon
  <2> HIDE DEF added, new, metrics
  <2>3. \A m \in added : m.id \in new /\ m = [id |-> m.id, value |-> metrics[m.id], at |-> hand[c].now]
    BY <2>1
  <2>4. \A m \in added : m.value = metrics[m.id] /\ m.at = hand[c].now
    BY <2>1
  <2>5. \A m, n \in added : m.id = n.id => m = n
    BY <2>3, Zenon
  <2>6. \A id \in new : \E m \in added : m.id = id
    BY <2>2, Zenon
  <2> QED
    BY <2>3, <2>4, <2>5, <2>6, Zenon
<1> HIDE DEF added, new, metrics
<1>10. IsBatch(metricsBuffer', metricIDSet', hand[c].now)
  <2>1. \A m \in metricsBuffer' : m.id \in metricIDSet' /\ m.value \in Int /\ m.at = hand[c].now
    BY <1>1, <1>5, <1>9 DEF IsBatch, new
  <2>2. \A m, n \in metricsBuffer' : m.id = n.id => m = n
    BY <1>3, <1>5, <1>9 DEF IsBatch
  <2>3. \A id \in metricIDSet' : id \in ID /\ \E m \in metricsBuffer' : m.id = id
    BY <1>3, <1>5, <1>9, Zenon DEF IsBatch
  <2> QED
    BY <2>1, <2>2, <2>3, Zenon DEF IsBatch
<1>11. ASSUME NEW id \in ID
       PROVE  InBuffer(metricsBuffer', id) + repeated'[id] =
                InBuffer(buffer, id) + repeated[id] + ValueIn(metrics, id)
  <2>1. \A m, n \in metricsBuffer' : m.id = n.id => m = n
    BY <1>10, Zenon DEF IsBatch
  <2>2. \A m, n \in buffer : m.id = n.id => m = n
    BY Zenon DEF IsBatch
  <2>3. InBuffer(buffer, id) \in Int
    BY InBufferInt, Zenon
  <2>4. CASE id \in ids
    <3>1. PICK m \in buffer : m.id = id
      BY <2>4, Zenon DEF IsBatch
    <3>2. InBuffer(buffer, id) = m.value /\ InBuffer(metricsBuffer', id) = m.value
      BY <1>5, <2>1, <2>2, <3>1, InBufferIs, Zenon
    <3>3. repeated'[id] = repeated[id] + ValueIn(metrics, id)
      BY <1>7, <2>4, Zenon
    <3> QED
      BY <1>6, <2>3, <3>2, <3>3
  <2>5. CASE id \in new
    <3>1. \A m \in buffer : m.id # id
      BY <1>3, <2>5, Zenon DEF IsBatch
    <3>2. InBuffer(buffer, id) = 0
      BY <2>2, <3>1, InBufferIs, Zenon
    <3>3. PICK m \in metricsBuffer' : m.id = id /\ m.value = metrics[id]
      BY <1>5, <1>9, <2>5
    <3>4. InBuffer(metricsBuffer', id) = metrics[id]
      BY <2>1, <3>3, InBufferIs, Zenon
    <3>5. id \notin ids /\ ValueIn(metrics, id) = metrics[id]
      BY <2>5, Zenon DEF new, ValueIn
    <3>6. repeated'[id] = repeated[id]
      BY <1>6, <1>7, <3>5
    <3> QED
      BY <1>6, <3>2, <3>4, <3>5, <3>6
  <2>6. CASE id \notin ids /\ id \notin new
    <3>1. \A m \in buffer : m.id # id
      BY <2>6, Zenon DEF IsBatch
    <3>2. \A m \in metricsBuffer' : m.id # id
      BY <1>5, <1>9, <2>6, <3>1
    <3>3. InBuffer(buffer, id) = 0 /\ InBuffer(metricsBuffer', id) = 0
      BY <2>1, <2>2, <3>1, <3>2, InBufferIs, Zenon
    <3>4. ValueIn(metrics, id) = 0
      BY <2>6, Zenon DEF new, ValueIn
    <3>5. repeated'[id] = repeated[id]
      BY <1>6, <1>7, <3>4
    <3> QED
      BY <1>6, <3>3, <3>4, <3>5
  <2> QED
    BY <2>4, <2>5, <2>6, Zenon
<1> QED
  BY <1>5, <1>8, <1>10, <1>11, Zenon DEF metrics

----------------------------------------------------------------------------
\* What is added up are integers.
LEMMA AmountsAreInt ==
  ASSUME MetricsInv, NEW id \in ID
  PROVE  /\ counter[id] \in Int /\ previousMetricValue[id] \in Int /\ counted[id] \in Int
         /\ reported[id] \in Int /\ repeated[id] \in Int
         /\ Difference(id) \in Int /\ InHand(id) \in Int /\ InBuffer(metricsBuffer, id) \in Int
<1>1. /\ counter[id] \in Int /\ previousMetricValue[id] \in Int /\ counted[id] \in Int
      /\ reported[id] \in Int /\ repeated[id] \in Int
  BY Zenon DEF MetricsInv, MetricsTypes
<1>2. Difference(id) \in Int
  BY <1>1 DEF Difference
<1>3. InHand(id) \in Int
  BY OneCollector DEF MetricsInv, MetricsTypes, InHand, ValueIn
<1>4. InBuffer(metricsBuffer, id) \in Int
  BY InBufferInt, Zenon DEF MetricsInv
<1> QED
  BY <1>1, <1>2, <1>3, <1>4, Zenon

\* The clock may go on anywhere.
LEMMA TickKeeps ==
  ASSUME MetricsInv, Tick
  PROVE  MetricsInv'
<1>1. MetricsTypes'
  BY DEF MetricsInv, MetricsTypes, Tick
<1>2. IsBatch(metricsBuffer', metricIDSet', prevTimestamp') /\ ~capped'
  BY Zenon DEF MetricsInv, Tick
<1>3. MetricsAccounted'
  BY Zenon DEF MetricsInv, Tick, MetricsAccounted, Accounted, Difference, InHand
<1> QED
  BY <1>1, <1>2, <1>3, Zenon DEF MetricsInv

\* An event, or a payload of the reporter, is counted.
LEMMA CountKeeps ==
  ASSUME MetricsInv, NEW counts, NEW counters, counts = counters \/ counts = counters \cup {"RPCBytesOut"},
         counter' = Increment(counter, counters), counted' = Increment(counted, counts),
         UNCHANGED <<clock, previousMetricValue, hand, prevTimestamp, metricsBuffer, metricIDSet,
                     reported, repeated, capped>>
  PROVE  MetricsInv'
<1>1. counter' \in [ID -> Int] /\ counted' \in [ID -> Int]
  BY DEF MetricsInv, MetricsTypes, Increment
<1>2. MetricsTypes'
  BY <1>1, Zenon DEF MetricsInv, MetricsTypes
<1>3. IsBatch(metricsBuffer', metricIDSet', prevTimestamp') /\ ~capped'
  BY Zenon DEF MetricsInv
<1>4. ASSUME NEW id \in ID, id # "RPCBytesOut"
      PROVE  Accounted(id)'
  <2>1. PICK n \in Int : counter'[id] = counter[id] + n /\ counted'[id] = counted[id] + n
    <3>1. CASE id \in counters
      BY <1>4, <3>1, AmountsAreInt DEF Increment
    <3>2. CASE id \notin counters
      <4>1. counter'[id] = counter[id] + 0 /\ counted'[id] = counted[id] + 0
        BY <1>4, <3>2, AmountsAreInt DEF Increment
      <4> QED
        BY <4>1
    <3> QED
      BY <3>1, <3>2, Zenon
  <2>2. Difference(id)' = Difference(id) + n
    BY <2>1, AmountsAreInt DEF Difference
  <2>3. InHand(id)' = InHand(id)
    BY Zenon DEF InHand
  <2>4. Accounted(id)
    BY <1>4, Zenon DEF MetricsInv, MetricsAccounted
  <2> QED
    BY <2>1, <2>2, <2>3, <2>4, AmountsAreInt DEF Accounted
<1>5. MetricsAccounted'
  BY <1>4, Zenon DEF MetricsAccounted
<1> QED
  BY <1>2, <1>3, <1>5, Zenon DEF MetricsInv

\* A collector reads its counters: what it takes is no longer to be collected.
LEMMA CollectKeeps ==
  ASSUME MetricsInv, NEW c \in Collector, Collect(c)
  PROVE  MetricsInv'
<1>1. PICK skip \in SUBSET (IDsOf[c] \cap Cumulative) :
        /\ hand' = [hand EXCEPT ![c] = [at |-> "collected", metrics |-> Collected(c, skip), now |-> 0]]
        /\ previousMetricValue' =
             [id \in ID |-> IF id \in (IDsOf[c] \cap Cumulative) \ skip
                            THEN counter[id] ELSE previousMetricValue[id]]
        /\ counter' = Swapped(c)
  BY Zenon DEF Collect
<1>2. /\ hand[c] = Idle
      /\ UNCHANGED <<clock, prevTimestamp, metricsBuffer, metricIDSet, counted, reported, repeated, capped>>
  BY Zenon DEF Collect
<1>3. IDsOf[c] \subseteq ID
  BY Zenon DEF ID
<1>4. /\ DOMAIN Collected(c, skip) \subseteq IDsOf[c]
      /\ \A id \in DOMAIN Collected(c, skip) : Collected(c, skip)[id] \in Int
  BY <1>3, AmountsAreInt, Zenon DEF Collected
<1>5. /\ hand'[c].metrics = Collected(c, skip) /\ hand'[c].at = "collected"
      /\ \A d \in Collector : d # c => hand'[d] = hand[d]
      /\ hand' = [d \in Collector |-> hand'[d]]
  BY <1>1, Zenon DEF MetricsInv, MetricsTypes
<1>6. MetricsTypes'
  <2>1. previousMetricValue' \in [ID -> Int] /\ counter' \in [ID -> Int]
    BY <1>1, AmountsAreInt DEF Swapped
  <2>2. hand'[c] # Idle
    BY <1>5 DEF Idle
  <2> QED
    BY <1>2, <1>4, <1>5, <2>1, <2>2, Zenon DEF MetricsInv, MetricsTypes
<1>7. IsBatch(metricsBuffer', metricIDSet', prevTimestamp') /\ ~capped'
  BY <1>2, Zenon DEF MetricsInv
<1>8. ASSUME NEW id \in ID
      PROVE  Difference(id)' + InHand(id)' = Difference(id) + InHand(id)
  <2>1. CASE id \in IDsOf[c]
    <3>1. c = CollectorOf(id)
      BY <2>1, OneCollector, Zenon
    <3>2. InHand(id) = 0
      BY <1>2, <3>1 DEF InHand, ValueIn, Idle
    <3>3. InHand(id)' = ValueIn(Collected(c, skip), id)
      BY <1>5, <3>1, Zenon DEF InHand
    <3>4. CASE id \in skip
      <4>1. ValueIn(Collected(c, skip), id) = 0
        BY <3>4, Zenon DEF ValueIn, Collected
      <4>2. Difference(id)' = Difference(id)
        BY <1>1, <3>4, Zenon DEF Difference, Swapped
      <4> QED
        BY <3>2, <3>3, <4>1, <4>2, Zenon
    <3>5. CASE id \notin skip /\ id \in Cumulative
      <4>1. ValueIn(Collected(c, skip), id) = Difference(id)
        BY <2>1, <3>5, Zenon DEF ValueIn, Collected
      <4>2. Difference(id)' = 0
        BY <1>1, <2>1, <3>5, AmountsAreInt DEF Difference, Swapped
      <4> QED
        BY <3>2, <3>3, <4>1, <4>2, AmountsAreInt
    <3>6. CASE id \notin skip /\ id \notin Cumulative
      <4>1. ValueIn(Collected(c, skip), id) = Difference(id)
        BY <2>1, <3>6, Zenon DEF ValueIn, Collected
      <4>2. Difference(id)' = 0
        BY <1>1, <2>1, <3>6, Zenon DEF Difference, Swapped
      <4> QED
        BY <3>2, <3>3, <4>1, <4>2, AmountsAreInt
    <3> QED
      BY <3>4, <3>5, <3>6, Zenon
  <2>2. CASE id \notin IDsOf[c]
    <3>1. CollectorOf(id) \in Collector /\ CollectorOf(id) # c
      BY <2>2, OneCollector, Zenon
    <3>2. InHand(id)' = InHand(id)
      BY <1>5, <3>1, Zenon DEF InHand
    <3>3. Difference(id)' = Difference(id)
      BY <1>1, <2>2, Zenon DEF Difference, Swapped
    <3> QED
      BY <3>2, <3>3, Zenon
  <2> QED
    BY <2>1, <2>2, Zenon
<1>9. ASSUME NEW id \in ID, id # "RPCBytesOut"
      PROVE  Accounted(id)'
  <2>1. Accounted(id)
    BY <1>9, Zenon DEF MetricsInv, MetricsAccounted
  <2> QED
    BY <1>2, <1>8, <2>1, AmountsAreInt, Zenon DEF Accounted
<1>10. MetricsAccounted'
  BY <1>9, Zenon DEF MetricsAccounted
<1> QED
  BY <1>6, <1>7, <1>10, Zenon DEF MetricsInv

\* AddSlice reads the clock before it takes the lock.
LEMMA ReadClockKeeps ==
  ASSUME MetricsInv, NEW c \in Collector, ReadClock(c)
  PROVE  MetricsInv'
<1>1. /\ hand' = [hand EXCEPT ![c] = [at |-> "waiting", metrics |-> hand[c].metrics, now |-> clock]]
      /\ UNCHANGED <<clock, counter, previousMetricValue, prevTimestamp, metricsBuffer, metricIDSet,
                     counted, reported, repeated, capped>>
  BY Zenon DEF ReadClock
<1>2. /\ hand' = [d \in Collector |-> hand'[d]] /\ hand'[c].at = "waiting"
      /\ \A d \in Collector : hand'[d].metrics = hand[d].metrics /\ (d # c => hand'[d] = hand[d])
  BY <1>1, Zenon DEF MetricsInv, MetricsTypes
<1>3. MetricsTypes'
  <2>1. hand'[c] # Idle
    BY <1>2 DEF Idle
  <2> QED
    BY <1>1, <1>2, <2>1, Zenon DEF MetricsInv, MetricsTypes
<1>4. IsBatch(metricsBuffer', metricIDSet', prevTimestamp') /\ ~capped'
  BY <1>1, Zenon DEF MetricsInv
<1>5. \A id \in ID : InHand(id)' = InHand(id) /\ Difference(id)' = Difference(id)
  BY <1>1, <1>2, OneCollector, Zenon DEF InHand, Difference
<1>6. MetricsAccounted'
  BY <1>1, <1>5, Zenon DEF MetricsInv, MetricsAccounted, Accounted
<1> QED
  BY <1>3, <1>4, <1>6, Zenon DEF MetricsInv

\* AddSlice with the lock held: the batch of another second is sent, and what the
\* collector has goes into a batch of its second.
LEMMA AddSliceKeeps ==
  ASSUME MetricsInv, NEW c \in Collector, AddSlice(c)
  PROVE  MetricsInv'
<1>1. /\ hand' = [hand EXCEPT ![c] = Idle] /\ prevTimestamp' = hand[c].now
      /\ UNCHANGED <<clock, counter, previousMetricValue, counted>>
  BY Zenon DEF AddSlice
<1>2. /\ IsBatch(metricsBuffer', metricIDSet', hand[c].now) /\ ~capped'
      /\ repeated' \in [ID -> Int] /\ reported' \in [ID -> Int]
      /\ \A id \in ID : InBuffer(metricsBuffer', id) + repeated'[id] + reported'[id] =
                          InBuffer(metricsBuffer, id) + repeated[id] + reported[id]
                            + ValueIn(hand[c].metrics, id)
  <2>1. CASE prevTimestamp # hand[c].now /\ metricsBuffer # {}
    <3>1. reported' = Report /\ AddMetrics(c, {}, {})
      BY <2>1, Zenon DEF AddSlice
    <3>2. IsBatch({}, {}, hand[c].now)
      BY Zenon DEF IsBatch
    <3>3. /\ IsBatch(metricsBuffer', metricIDSet', hand[c].now) /\ ~capped'
          /\ repeated' \in [ID -> Int]
          /\ \A id \in ID : InBuffer(metricsBuffer', id) + repeated'[id] =
                              InBuffer({}, id) + repeated[id] + ValueIn(hand[c].metrics, id)
      BY <3>1, <3>2, AddMetricsAdds, Zenon DEF MetricsInv
    <3>4. reported' \in [ID -> Int] /\ \A id \in ID : reported'[id] = reported[id] + InBuffer(metricsBuffer, id)
      BY <3>1, AmountsAreInt DEF Report
    <3>5. ASSUME NEW id \in ID
          PROVE  /\ InBuffer({}, id) = 0 /\ InBuffer(metricsBuffer', id) \in Int /\ repeated'[id] \in Int
                 /\ ValueIn(hand[c].metrics, id) \in Int
      BY <3>3, InBufferInt DEF InBuffer, MetricsInv, MetricsTypes, ValueIn
    <3>6. ASSUME NEW id \in ID
          PROVE  InBuffer(metricsBuffer', id) + repeated'[id] + reported'[id] =
                   InBuffer(metricsBuffer, id) + repeated[id] + reported[id] + ValueIn(hand[c].metrics, id)
      <4>1. reported[id] \in Int /\ repeated[id] \in Int /\ InBuffer(metricsBuffer, id) \in Int
        BY AmountsAreInt, Zenon
      <4> QED
        BY <3>3, <3>4, <3>5, <4>1
    <3> QED
      BY <3>3, <3>4, <3>6, Zenon
  <2>2. CASE ~(prevTimestamp # hand[c].now /\ metricsBuffer # {})
    <3>1. reported' = reported /\ AddMetrics(c, metricsBuffer, metricIDSet)
      BY <2>2, Zenon DEF AddSlice
    <3>2. IsBatch(metricsBuffer, metricIDSet, hand[c].now)
      BY <2>2, Zenon DEF IsBatch, MetricsInv
    <3>3. /\ IsBatch(metricsBuffer', metricIDSet', hand[c].now) /\ ~capped'
          /\ repeated' \in [ID -> Int]
          /\ \A id \in ID : InBuffer(metricsBuffer', id) + repeated'[id] =
                              InBuffer(metricsBuffer, id) + repeated[id] + ValueIn(hand[c].metrics, id)
      BY <3>1, <3>2, AddMetricsAdds, Zenon DEF MetricsInv
    <3>4. reported' \in [ID -> Int]
      BY <3>1, Zenon DEF MetricsInv, MetricsTypes
    <3>5. ASSUME NEW id \in ID
          PROVE  /\ InBuffer(metricsBuffer', id) \in Int /\ repeated'[id] \in Int
                 /\ ValueIn(hand[c].metrics, id) \in Int
      BY <3>3, InBufferInt DEF MetricsInv, MetricsTypes, ValueIn
    <3>6. ASSUME NEW id \in ID
          PROVE  InBuffer(metricsBuffer', id) + repeated'[id] + reported'[id] =
                   InBuffer(metricsBuffer, id) + repeated[id] + reported[id] + ValueIn(hand[c].metrics, id)
      BY <3>1, <3>3, <3>5, AmountsAreInt
    <3> QED
      BY <3>3, <3>4, <3>6, Zenon
  <2> QED
    BY <2>1, <2>2, Zenon
<1>3. /\ hand' = [d \in Collector |-> hand'[d]] /\ hand'[c] = Idle
      /\ \A d \in Collector : d # c => hand'[d] = hand[d]
  BY <1>1, Zenon DEF MetricsInv, MetricsTypes
<1>4. DOMAIN Idle.metrics = {}
  BY Zenon DEF Idle
<1>5. MetricsTypes'
  BY <1>1, <1>2, <1>3, <1>4, Zenon DEF MetricsInv, MetricsTypes
<1>6. ASSUME NEW id \in ID
      PROVE  InHand(id)' + ValueIn(hand[c].metrics, id) = InHand(id) /\ Difference(id)' = Difference(id)
  <2>1. Difference(id)' = Difference(id)
    BY <1>1, Zenon DEF Difference
  <2>2. CASE id \in IDsOf[c]
    <3>1. c = CollectorOf(id)
      BY <2>2, OneCollector, Zenon
    <3>2. InHand(id)' = 0 /\ InHand(id) = ValueIn(hand[c].metrics, id)
      BY <1>3, <1>4, <3>1, Zenon DEF InHand, ValueIn
    <3> QED
      BY <2>1, <3>2, AmountsAreInt
  <2>3. CASE id \notin IDsOf[c]
    <3>1. CollectorOf(id) \in Collector /\ CollectorOf(id) # c
      BY <2>3, OneCollector, Zenon
    <3>2. InHand(id)' = InHand(id)
      BY <1>3, <3>1, Zenon DEF InHand
    <3>3. ValueIn(hand[c].metrics, id) = 0
      BY <2>3, Zenon DEF ValueIn, MetricsInv, MetricsTypes
    <3> QED
      BY <2>1, <3>2, <3>3, AmountsAreInt
  <2> QED
    BY <2>2, <2>3, Zenon
<1>7. ASSUME NEW id \in ID, id # "RPCBytesOut"
      PROVE  Accounted(id)'
  <2>1. Accounted(id)
    BY <1>7, Zenon DEF MetricsInv, MetricsAccounted
  <2>2. /\ InBuffer(metricsBuffer', id) \in Int /\ repeated'[id] \in Int /\ reported'[id] \in Int
        /\ ValueIn(hand[c].metrics, id) \in Int
    BY <1>2, InBufferInt DEF MetricsInv, MetricsTypes, ValueIn
  <2>3. InHand(id)' \in Int
    BY <1>5, OneCollector DEF MetricsTypes, InHand, ValueIn
  <2>4. InBuffer(metricsBuffer', id) + repeated'[id] + reported'[id] =
          InBuffer(metricsBuffer, id) + repeated[id] + reported[id] + ValueIn(hand[c].metrics, id)
    BY <1>2, Zenon
  <2>5. /\ InHand(id)' + ValueIn(hand[c].metrics, id) = InHand(id)
        /\ Difference(id)' = Difference(id) /\ counted' = counted
    BY <1>1, <1>6, Zenon
  <2>6. /\ counted[id] \in Int /\ Difference(id) \in Int /\ InHand(id) \in Int
        /\ InBuffer(metricsBuffer, id) \in Int /\ reported[id] \in Int /\ repeated[id] \in Int
    BY AmountsAreInt, Zenon
  <2>7. counted[id] = Difference(id) + InHand(id) + InBuffer(metricsBuffer,
  id) + reported[id] + repeated[id]
    BY <2>1, Zenon DEF Accounted
  <2>8. counted[id] = Difference(id) + InHand(id)' + InBuffer(metricsBuffer',
  id) + reported'[id] + repeated'[id]
    BY <2>2, <2>3, <2>4, <2>5, <2>6, <2>7
  <2> QED
    BY <2>5, <2>8, Zenon DEF Accounted
<1>8. MetricsAccounted'
  BY <1>7, Zenon DEF MetricsAccounted
<1> QED
  BY <1>1, <1>2, <1>5, <1>8, Zenon DEF MetricsInv

----------------------------------------------------------------------------
\* Nothing is counted at the start.
LEMMA MetricsInitHolds == MetricsInit => MetricsInv
<1> SUFFICES ASSUME MetricsInit
             PROVE  MetricsInv
  BY Zenon
<1>1. MetricsTypes
  BY DEF MetricsInit, MetricsTypes, Idle
<1>2. IsBatch(metricsBuffer, metricIDSet, prevTimestamp) /\ ~capped
  BY Zenon DEF MetricsInit, IsBatch
<1>3. ASSUME NEW id \in ID
      PROVE  Accounted(id)
  <2>1. InBuffer(metricsBuffer, id) = 0
    BY Zenon DEF MetricsInit, InBuffer
  <2>2. InHand(id) = 0
    BY OneCollector, Zenon DEF MetricsInit, InHand, ValueIn, Idle
  <2>3. Difference(id) = 0
    BY DEF MetricsInit, Difference
  <2> QED
    BY <2>1, <2>2, <2>3 DEF Accounted, MetricsInit
<1> QED
  BY <1>1, <1>2, <1>3, Zenon DEF MetricsInv, MetricsAccounted

\* What is collected and what is in the batch is accounted for, in every step of the
\* collectors and of AddSlice.
THEOREM MetricsInvariant == MetricsSpec => []MetricsInv
<1>1. MetricsInv /\ [MetricsNext]_metricsVars => MetricsInv'
  <2> SUFFICES ASSUME MetricsInv, [MetricsNext]_metricsVars
               PROVE  MetricsInv'
    BY Zenon
  <2>1. CASE Tick
    BY <2>1, TickKeeps, Zenon
  <2>2. ASSUME NEW wire, NEW rpc, HandleRPC(wire, rpc)
        PROVE  MetricsInv'
    <3>1. \/ {wire, rpc} = {wire, rpc} \ {"RPCBytesOut"}
          \/ {wire, rpc} = ({wire, rpc} \ {"RPCBytesOut"}) \cup {"RPCBytesOut"}
      BY Zenon
    <3> QED
      BY <2>2, <3>1, CountKeeps, Zenon DEF HandleRPC
  <2>3. ASSUME NEW id \in ID, Count(id)
        PROVE  MetricsInv'
    BY <2>3, CountKeeps, Zenon DEF Count
  <2>4. ASSUME NEW c \in Collector, Collect(c)
        PROVE  MetricsInv'
    BY <2>4, CollectKeeps, Zenon
  <2>5. ASSUME NEW c \in Collector, ReadClock(c)
        PROVE  MetricsInv'
    BY <2>5, ReadClockKeeps, Zenon
  <2>6. ASSUME NEW c \in Collector, AddSlice(c)
        PROVE  MetricsInv'
    BY <2>6, AddSliceKeeps, Zenon
  <2>7. CASE UNCHANGED metricsVars
    BY <2>7, Zenon DEF metricsVars, MetricsInv, MetricsTypes, IsBatch, MetricsAccounted, Accounted,
                Difference, InHand
  <2> QED
    BY <2>1, <2>2, <2>3, <2>4, <2>5, <2>6, <2>7, Zenon DEF MetricsNext
<1> QED
  BY <1>1, MetricsInitHolds, PTL DEF MetricsSpec

\* Nothing that is counted is lost or counted twice between its counter and ReportMetrics.
THEOREM MetricsAreAccounted == MetricsSpec => []MetricsAccounted
<1>1. MetricsInv => MetricsAccounted
  BY Zenon DEF MetricsInv
<1> QED
  BY <1>1, MetricsInvariant, PTL

\* AddSlice keeps the seconds apart, however the collectors read the clock and take the
\* lock, and its "Should not happen" does not happen.
THEOREM BatchesAreOfOneSecond == MetricsSpec => []BatchIsOfOneSecond
<1>1. MetricsInv => BatchIsOfOneSecond
  BY Zenon DEF MetricsInv, IsBatch, BatchIsOfOneSecond
<1> QED
  BY <1>1, MetricsInvariant, PTL

================================================================================
