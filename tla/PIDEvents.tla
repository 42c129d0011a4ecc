------------------------------ MODULE PIDEvents ------------------------------
(***************************************************************************)
(* How the agent learns that a process is new, has loaded code or is gone. *)
(* eBPF programs (support/ebpf/tracemgmt.h, sched_monitor.ebpf.c) report   *)
(* PIDs through the maps reported_pids, pid_events and inhibit_events and  *)
(* the perf ring report_events; the tracer (tracer/events.go, tracer.go)   *)
(* collects them and the PID event goroutine synchronises the processes.   *)
(* Every eBPF map operation is a step: the programs run on several CPUs    *)
(* while user space works on the same maps.                                *)
(*                                                                         *)
(* What a synchronisation does is the subject of ProcessManager; here a    *)
(* PID is tracked or not, and what is known of it is fresh or not.         *)
(***************************************************************************)
EXTENDS Naturals, FiniteSets, Sequences, Functions

CONSTANTS PID, CPU,
          MaxEvents,   \* the capacity of pid_events
          RingSize,    \* the capacity of the perf ring report_events
          ChanSize,    \* pidEventBufferSize
          MaxLoads,    \* bound: how often processes load code
          MayDeny,     \* may /proc/PID/maps be unreadable?
          NoPID

ASSUME PIDEventsAssumption == /\ {MaxEvents, RingSize, ChanSize} \subseteq Nat \ {0}
                              /\ MaxLoads \in Nat /\ MayDeny \in BOOLEAN
                              /\ NoPID \notin PID

VARIABLES
  alive, loads,        \* the processes
  tracked,             \* the PIDs with a dummy page, known to the process manager
  fresh,               \* the PIDs whose code is what the process manager read
  reported_pids,       \* "none", "recent" or "expired"
  pid_events, inhibit, \* inhibit_events has an entry for GENERIC_PID
  ring,                \* how many events are in the ring report_events
  trigger,             \* the channel triggerPIDProcessing is full
  cpu,                 \* what the eBPF program on each CPU is doing
  mode,                \* "starting", "armed" (monitors started), "running"
  mon, must, keys,     \* the monitor goroutine
  pidEvents,           \* the channel of this name
  proc, spid, sfresh, gone, \* the PID event goroutine
  startup,             \* PIDs of /proc that populatePIDs has yet to send
  need                 \* history: reported, and not synchronised since

osVars == <<alive, loads>>
ebpfVars == <<reported_pids, pid_events, inhibit, ring>>
monVars == <<trigger, mode, mon, must, keys>>
procVars == <<tracked, proc, spid, sfresh, gone>>
vars == <<osVars, fresh, ebpfVars, cpu, monVars, pidEvents, procVars, startup, need>>

Idle == [pc |-> "idle", pid |-> NoPID, inhibit |-> FALSE]

Init == /\ alive \in SUBSET PID /\ loads = 0
        /\ tracked = {} /\ fresh = {}
        /\ reported_pids = [p \in PID |-> "none"]
        /\ pid_events = {} /\ inhibit = FALSE /\ ring = 0 /\ trigger = FALSE
        /\ cpu = [c \in CPU |-> Idle]
        /\ mode = "starting" /\ mon = "idle" /\ must = {} /\ keys = {}
        /\ pidEvents = << >>
        /\ proc = "idle" /\ spid = NoPID /\ sfresh = FALSE /\ gone = {}
        /\ startup = alive /\ need = alive

----------------------------------------------------------------------------
\* The processes

\* What was read of p no longer is what p runs.
Outdated(p) == /\ fresh' = fresh \ {p}
               /\ sfresh' = (sfresh /\ spid # p)

Spawn(p) == /\ p \notin alive
            /\ alive' = alive \cup {p}
            /\ Outdated(p)
            /\ UNCHANGED <<loads, ebpfVars, cpu, monVars, pidEvents, tracked, proc, spid, gone,
                           startup, need>>

LoadCode(p) == /\ p \in alive /\ loads < MaxLoads
               /\ loads' = loads + 1
               /\ Outdated(p)
               /\ UNCHANGED <<alive, ebpfVars, cpu, monVars, pidEvents, tracked, proc, spid, gone,
                              startup, need>>

\* REPORTED_PIDS_TIMEOUT passes; the LRU map evicts a PID.
Expire(p) == /\ reported_pids[p] = "recent"
             /\ reported_pids' = [reported_pids EXCEPT ![p] = "expired"]
             /\ UNCHANGED <<osVars, fresh, pid_events, inhibit, ring, cpu, monVars, pidEvents,
                            procVars, startup, need>>

Evict(p) == /\ reported_pids[p] # "none"
            /\ reported_pids' = [reported_pids EXCEPT ![p] = "none"]
            /\ UNCHANGED <<osVars, fresh, pid_events, inhibit, ring, cpu, monVars, pidEvents,
                           procVars, startup, need>>

----------------------------------------------------------------------------
\* The eBPF programs.  They are attached after populatePIDs.

Goto(c, pc) == cpu' = [cpu EXCEPT ![c].pc = pc]
Return(c) == cpu' = [cpu EXCEPT ![c] = Idle]
Report(c, p, inh) ==
  cpu' = [cpu EXCEPT ![c] = [pc |-> IF inh THEN "check" ELSE "insert", pid |-> p, inhibit |-> inh]]

\* A sample of p: report_pid for a new PID, or for a PC that is not known.
Sample(c, p) ==
  /\ startup = {} /\ cpu[c].pc = "idle"
  /\ p \in alive /\ p \notin tracked \cap fresh
  /\ Report(c, p, TRUE)
  /\ UNCHANGED <<osVars, fresh, ebpfVars, monVars, pidEvents, procVars, startup, need>>

\* tracepoint__sched_process_exit for the thread group leader.
Exit(c, p) ==
  /\ cpu[c].pc = "idle" /\ p \in alive
  /\ alive' = alive \ {p}
  /\ Outdated(p)
  /\ IF startup = {} /\ (reported_pids[p] # "none" \/ p \in tracked)
     THEN Report(c, p, FALSE)
     ELSE UNCHANGED cpu
  /\ UNCHANGED <<loads, ebpfVars, monVars, pidEvents, tracked, proc, spid, gone, startup, need>>

\* A plausible bug: the time of the last report is not looked at.
CheckNoTimeout(c) ==
  /\ cpu[c].pc = "check"
  /\ IF reported_pids[cpu[c].pid] # "none" THEN Return(c) ELSE Goto(c, "mark")
  /\ UNCHANGED <<osVars, fresh, ebpfVars, monVars, pidEvents, procVars, startup, need>>

\* report_pid, in the order of its map operations
Check(c) ==
  /\ cpu[c].pc = "check"
  /\ IF reported_pids[cpu[c].pid] = "recent" THEN Return(c) ELSE Goto(c, "mark")
  /\ UNCHANGED <<osVars, fresh, ebpfVars, monVars, pidEvents, procVars, startup, need>>

Mark(c) ==
  /\ cpu[c].pc = "mark"
  /\ reported_pids' = [reported_pids EXCEPT ![cpu[c].pid] = "recent"]
  /\ Goto(c, "insert")
  /\ UNCHANGED <<osVars, fresh, pid_events, inhibit, ring, monVars, pidEvents, procVars,
                 startup, need>>

\* A hash map accepts an update of an entry it has, and new ones up to its size.
Fits(p) == Cardinality(pid_events \cup {p}) <= MaxEvents

Insert(c) ==
  LET p == cpu[c].pid IN
  /\ cpu[c].pc = "insert" /\ Fits(p)
  /\ pid_events' = pid_events \cup {p}
  /\ need' = need \cup {p}
  /\ Goto(c, "latch")
  /\ UNCHANGED <<osVars, fresh, reported_pids, inhibit, ring, monVars, pidEvents, procVars, startup>>

\* A plausible bug: the PID stays in reported_pids although it is not reported.
FullKeepsMark(c) ==
  LET p == cpu[c].pid IN
  /\ cpu[c].pc = "insert" /\ ~Fits(p)
  /\ Return(c)
  /\ UNCHANGED <<osVars, fresh, ebpfVars, monVars, pidEvents, procVars, startup, need>>

\* The map is full: the PID is free to be reported again.
InsertFails(c) ==
  LET p == cpu[c].pid IN
  /\ cpu[c].pc = "insert" /\ ~Fits(p)
  /\ reported_pids' = IF cpu[c].inhibit THEN [reported_pids EXCEPT ![p] = "none"] ELSE reported_pids
  /\ Return(c)
  /\ UNCHANGED <<osVars, fresh, pid_events, inhibit, ring, monVars, pidEvents, procVars,
                 startup, need>>

\* event_send_trigger: BPF_NOEXIST makes inhibit_events a latch.
Latch(c) ==
  /\ cpu[c].pc = "latch"
  /\ IF inhibit THEN Return(c) ELSE Goto(c, "output")
  /\ inhibit' = TRUE
  /\ UNCHANGED <<osVars, fresh, reported_pids, pid_events, ring, monVars, pidEvents, procVars,
                 startup, need>>

\* bpf_perf_event_output fails when the ring is full and before user space has
\* opened it; nobody looks at the error.
Output(c) ==
  /\ cpu[c].pc = "output"
  /\ ring' = IF mode # "starting" /\ ring < RingSize THEN ring + 1 ELSE ring
  /\ Return(c)
  /\ UNCHANGED <<osVars, fresh, reported_pids, pid_events, inhibit, monVars, pidEvents, procVars,
                 startup, need>>

----------------------------------------------------------------------------
\* populatePIDs, StartMapMonitors and the goroutine reading report_events

Populate(p) ==
  /\ p \in startup /\ Len(pidEvents) < ChanSize
  /\ pidEvents' = Append(pidEvents, p)
  /\ startup' = startup \ {p}
  /\ UNCHANGED <<osVars, fresh, ebpfVars, cpu, monVars, procVars, need>>

StartMapMonitors ==
  /\ startup = {} /\ mode = "starting"
  /\ mode' = "armed"
  /\ UNCHANGED <<osVars, fresh, ebpfVars, cpu, trigger, mon, must, keys, pidEvents, procVars,
                 startup, need>>

\* triggerPidEvent, handleGenericPID: a send that does not block.
ReadEvent ==
  /\ ring > 0
  /\ ring' = ring - 1 /\ trigger' = TRUE
  /\ UNCHANGED <<osVars, fresh, reported_pids, pid_events, inhibit, cpu, mode, mon, must, keys,
                 pidEvents, procVars, startup, need>>

----------------------------------------------------------------------------
\* The monitor goroutine: the ticker or the trigger starts the callback.

Tick == /\ mode # "starting" /\ mon = "idle"
        /\ mon' = "enable" /\ mode' = "running"
        /\ UNCHANGED <<osVars, fresh, ebpfVars, cpu, trigger, must, keys, pidEvents, procVars,
                       startup, need>>

Triggered == /\ mode # "starting" /\ mon = "idle" /\ trigger
             /\ mon' = "enable" /\ mode' = "running" /\ trigger' = FALSE
             /\ UNCHANGED <<osVars, fresh, ebpfVars, cpu, must, keys, pidEvents, procVars,
                            startup, need>>

\* A plausible bug: the latch is not opened.
EnableForgotten ==
  /\ mon = "enable"
  /\ mon' = "iterate" /\ must' = pid_events
  /\ UNCHANGED <<osVars, fresh, ebpfVars, cpu, trigger, mode, keys, pidEvents, procVars,
                 startup, need>>

\* enableEvent, then monitorPIDEventsMap starts: must is what its iteration
\* cannot miss; keys inserted from now on it may meet or not.
EnableEvent ==
  /\ mon = "enable"
  /\ inhibit' = FALSE
  /\ mon' = "iterate" /\ must' = pid_events
  /\ UNCHANGED <<osVars, fresh, reported_pids, pid_events, ring, cpu, trigger, mode, keys,
                 pidEvents, procVars, startup, need>>

NextKey(p) ==
  /\ mon = "iterate" /\ p \in pid_events \ keys
  /\ keys' = keys \cup {p} /\ must' = must \ {p}
  /\ UNCHANGED <<osVars, fresh, ebpfVars, cpu, trigger, mode, mon, pidEvents, procVars,
                 startup, need>>

\* A plausible bug: the map is emptied, not the keys collected deleted.
DeleteAll ==
  /\ mon = "iterate" /\ must = {}
  /\ pid_events' = {}
  /\ mon' = "send"
  /\ UNCHANGED <<osVars, fresh, reported_pids, inhibit, ring, cpu, trigger, mode, must, keys,
                 pidEvents, procVars, startup, need>>

\* BatchDelete of the collected keys, once the iteration is over.
DeleteKeys ==
  /\ mon = "iterate" /\ must = {}
  /\ pid_events' = pid_events \ keys
  /\ mon' = "send"
  /\ UNCHANGED <<osVars, fresh, reported_pids, inhibit, ring, cpu, trigger, mode, must, keys,
                 pidEvents, procVars, startup, need>>

\* Blocks while the channel is full.
Send(p) ==
  /\ mon = "send" /\ p \in keys /\ Len(pidEvents) < ChanSize
  /\ pidEvents' = Append(pidEvents, p)
  /\ keys' = keys \ {p}
  /\ UNCHANGED <<osVars, fresh, ebpfVars, cpu, trigger, mode, mon, must, procVars, startup, need>>

Sent == /\ mon = "send" /\ keys = {}
        /\ mon' = "idle"
        /\ UNCHANGED <<osVars, fresh, ebpfVars, cpu, trigger, mode, must, keys, pidEvents, procVars,
                       startup, need>>

----------------------------------------------------------------------------
\* The PID event goroutine

\* SynchronizeProcess reads the mappings of p; sfresh says whether they still
\* are those of p when the synchronisation ends.
Receive ==
  /\ proc = "idle" /\ pidEvents # << >>
  /\ LET p == Head(pidEvents) IN
     /\ spid' = p
     /\ need' = need \ {p}
     /\ \/ /\ p \in alive
           /\ proc' = "sync" /\ sfresh' = TRUE
           /\ UNCHANGED <<tracked, fresh>>
        \/ /\ p \notin alive
           /\ proc' = "unreport" /\ tracked' = tracked \ {p} /\ fresh' = fresh \ {p}
           /\ UNCHANGED sfresh
  /\ pidEvents' = Tail(pidEvents)
  /\ UNCHANGED <<osVars, ebpfVars, cpu, monVars, gone, startup>>

\* A permission error: the PID stays in reported_pids.
Denied ==
  /\ proc = "sync" /\ MayDeny
  /\ proc' = "idle" /\ spid' = NoPID /\ sfresh' = FALSE
  /\ UNCHANGED <<osVars, fresh, ebpfVars, cpu, monVars, pidEvents, tracked, gone, startup, need>>

\* synchronizeMappings ends; a new process may be reported again at once.
Synchronized ==
  /\ proc = "sync"
  /\ tracked' = tracked \cup {spid}
  /\ fresh' = IF sfresh THEN fresh \cup {spid} ELSE fresh \ {spid}
  /\ IF spid \in tracked THEN proc' = "idle" /\ spid' = NoPID
                         ELSE proc' = "unreport" /\ UNCHANGED spid
  /\ sfresh' = FALSE
  /\ UNCHANGED <<osVars, ebpfVars, cpu, monVars, pidEvents, gone, startup, need>>

\* RemoveReportedPID, which runs after the lock was released.
RemoveReportedPID ==
  /\ proc = "unreport"
  /\ reported_pids' = [reported_pids EXCEPT ![spid] = "none"]
  /\ proc' = (IF gone = {} THEN "idle" ELSE "cleanup") /\ spid' = NoPID
  /\ UNCHANGED <<osVars, fresh, pid_events, inhibit, ring, cpu, monVars, pidEvents, tracked,
                 sfresh, gone, startup, need>>

\* A plausible bug: the test for liveness is inverted.
CleanupInverted ==
  /\ proc = "idle" /\ tracked \cap alive # {}
  /\ gone' = tracked \cap alive
  /\ proc' = "cleanup"
  /\ UNCHANGED <<osVars, fresh, ebpfVars, cpu, monVars, pidEvents, tracked, spid, sfresh, startup, need>>

\* CleanupPIDs collects the tracked PIDs that are dead, then handles each as an
\* exit.
CleanupPIDs ==
  /\ proc = "idle" /\ tracked \ alive # {}
  /\ gone' = tracked \ alive
  /\ proc' = "cleanup"
  /\ UNCHANGED <<osVars, fresh, ebpfVars, cpu, monVars, pidEvents, tracked, spid, sfresh, startup, need>>

CleanupPID(p) ==
  /\ proc = "cleanup" /\ p \in gone
  /\ gone' = gone \ {p}
  /\ tracked' = tracked \ {p} /\ fresh' = fresh \ {p}
  /\ proc' = "unreport" /\ spid' = p
  /\ UNCHANGED <<osVars, ebpfVars, cpu, monVars, pidEvents, sfresh, startup, need>>

----------------------------------------------------------------------------
EnvStep == \E p \in PID : Spawn(p) \/ LoadCode(p) \/ Evict(p) \/ \E c \in CPU : Exit(c, p)

ReportStep(c) == Check(c) \/ Mark(c) \/ Insert(c) \/ InsertFails(c) \/ Latch(c) \/ Output(c)

MonitorStep == EnableEvent \/ DeleteKeys \/ Sent \/ \E p \in PID : NextKey(p) \/ Send(p)

ProcStep == Receive \/ Synchronized \/ RemoveReportedPID \/ \E p \in PID : CleanupPID(p)

Next == \/ EnvStep
        \/ \E p \in PID : Expire(p) \/ Populate(p)
        \/ \E c \in CPU, p \in PID : Sample(c, p)
        \/ \E c \in CPU : ReportStep(c)
        \/ StartMapMonitors \/ ReadEvent
        \/ Tick \/ Triggered \/ MonitorStep
        \/ ProcStep \/ Denied \/ CleanupPIDs

Spec == Init /\ [][Next]_vars

\* eBPF programs and goroutines finish what they do; a running process is
\* sampled again and again and is not unreadable for ever; time passes; Go's
\* select serves both tickers.
Fairness == /\ \A c \in CPU : WF_vars(ReportStep(c))
            /\ \A p \in PID : /\ SF_vars(\E c \in CPU : Sample(c, p))
                              /\ WF_vars(Expire(p)) /\ WF_vars(Populate(p))
            /\ WF_vars(StartMapMonitors) /\ WF_vars(ReadEvent)
            /\ WF_vars(Tick) /\ WF_vars(MonitorStep)
            /\ WF_vars(ProcStep) /\ SF_vars(Synchronized) /\ SF_vars(CleanupPIDs)

FairSpec == Spec /\ Fairness

----------------------------------------------------------------------------
\* Properties

\* No report is lost between eBPF and the PID event goroutine: a PID that was
\* written to pid_events and not synchronised since is in the map, among the
\* collected keys or in the channel.  A PID reported again while its key is
\* being collected and deleted is no exception, because it is sent afterwards.
NoLostReport == need \subseteq startup \cup pid_events \cup keys \cup Range(pidEvents)

\* Something is under way that will make the monitor look at pid_events.
WakeupPending(p) ==
  \/ ring > 0 \/ trigger \/ mon = "enable"
  \/ mon = "iterate" /\ p \in must
  \/ \E c \in CPU : cpu[c].pc \in {"latch", "output"}

\* The latch loses no wake-up: once the monitor runs, a PID in pid_events that
\* it has not collected has a notification on its way, whatever the order in
\* which CPUs insert and latch and the monitor opens the latch and iterates.
\* The ticker is needed only for what was reported before the ring was opened.
NoLostWakeup == mode = "running" => \A p \in pid_events \ keys : WakeupPending(p)

\* reported_pids never silences a process that user space does not know: while
\* a PID that is not tracked counts as recently reported, its report is on its
\* way or its synchronisation is in progress.
SilencedIsHandled ==
  \A p \in PID \ tracked :
    reported_pids[p] = "recent" =>
      \/ p \in need
      \/ spid = p
      \/ \E c \in CPU : cpu[c].pid = p /\ cpu[c].pc = "insert"

\* A reported PID is synchronised in the end.
ReportsHandled == \A p \in PID : p \in need ~> p \notin need

\* A process that lives on is tracked in the end, with the code it runs, also
\* when it loads code while it is being synchronised or while it is silenced.
\* A read of its mappings that was denied only delays this.
LiveIsTracked == \A p \in PID : <>[](p \in alive) => <>[](p \in tracked \cap fresh)

\* A process that is gone is not tracked for ever, also when its exit was not
\* reported because it was not known yet.
ExitIsNoticed == \A p \in PID : <>[](p \notin alive) => <>[](p \notin tracked)
=============================================================================
