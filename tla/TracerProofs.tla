---------------------------- MODULE TracerProofs -----------------------------
(***************************************************************************)
(* Proofs about PIDEvents and TraceDelivery, for any number of processes   *)
(* and CPUs and any size of the maps, the rings and the channel.           *)
(***************************************************************************)
EXTENDS PIDEvents, TraceDelivery, TLAPS

PC == {"idle", "check", "mark", "insert", "latch", "output"}

\* The types that the proofs need.
Types ==
  /\ pidEvents \in Seq(PID)
  /\ ring \in Nat
  /\ cpu \in [CPU -> [pc : PC, pid : PID \cup {NoPID}, inhibit : BOOLEAN]]
  /\ reported_pids \in [PID -> {"none", "recent", "expired"}]
  /\ inhibit \in BOOLEAN /\ trigger \in BOOLEAN
  /\ \A c \in CPU : /\ cpu[c].pc # "idle" => cpu[c].pid \in PID
                    /\ cpu[c].pc \in {"check", "mark"} => cpu[c].inhibit
  /\ proc \in {"sync", "unreport"} => spid \in PID
  /\ proc \notin {"sync", "unreport"} => spid = NoPID

\* Reports that have not reached the PID event goroutine.
Queued == startup \cup pid_events \cup keys \cup Range(pidEvents)

\* A wake-up that does not depend on the PID: who closes the latch has sent, or
\* will send, an event that ends in a run of the monitor.
Awake == ring > 0 \/ trigger \/ mon = "enable" \/ \E c \in CPU : cpu[c].pc = "output"

LatchIsAwake == mode = "running" /\ inhibit => Awake
SendIsAwake == mode = "running" /\ mon = "send" => \A p \in pid_events : WakeupPending(p)
IdleHasNoKeys == /\ mon \in {"idle", "enable"} => keys = {}
                 /\ mode = "starting" => mon = "idle" /\ ring = 0
WakeInv == LatchIsAwake /\ SendIsAwake /\ IdleHasNoKeys /\ NoLostWakeup

\* SilencedIsHandled, with the report that is under way being one that looked
\* at reported_pids.
SilencedInv ==
  \A p \in PID \ tracked :
    reported_pids[p] = "recent" =>
      \/ p \in need
      \/ spid = p
      \/ \E c \in CPU : cpu[c].pid = p /\ cpu[c].pc = "insert" /\ cpu[c].inhibit

----------------------------------------------------------------------------
\* The elements of a channel after a send and a receive.
LEMMA RangeAppend ==
  ASSUME NEW S, NEW s \in Seq(S), NEW e \in S
  PROVE  Range(Append(s, e)) = Range(s) \cup {e}
<1>1. Append(s, e) \in Seq(S) /\ Len(Append(s, e)) = Len(s) + 1
  OBVIOUS
<1>2. DOMAIN s = 1..Len(s) /\ DOMAIN Append(s, e) = 1..(Len(s) + 1)
  BY <1>1
<1>3. \A i \in 1..Len(s) : Append(s, e)[i] = s[i]
  OBVIOUS
<1>4. Append(s, e)[Len(s) + 1] = e
  OBVIOUS
<1>5. ASSUME NEW x \in Range(Append(s, e)) PROVE x \in Range(s) \cup {e}
  <2>1. PICK i \in 1..(Len(s) + 1) : x = Append(s, e)[i]
    BY <1>5, <1>2, Zenon DEF Range
  <2>2. i \in 1..Len(s) \/ i = Len(s) + 1
    OBVIOUS
  <2> QED BY <2>1, <2>2, <1>2, <1>3, <1>4, Zenon DEF Range
<1>6. ASSUME NEW x \in Range(s) \cup {e} PROVE x \in Range(Append(s, e))
  <2>1. CASE x = e
    BY <2>1, <1>2, <1>4 DEF Range
  <2>2. CASE x \in Range(s)
    <3>1. PICK i \in 1..Len(s) : x = s[i]
      BY <2>2, <1>2, Zenon DEF Range
    <3>2. i \in 1..(Len(s) + 1) /\ x = Append(s, e)[i]
      BY <3>1, <1>3
    <3> QED BY <3>2, <1>2, Zenon DEF Range
  <2> QED BY <2>1, <2>2, <1>6, Zenon
<1> QED BY <1>5, <1>6, Zenon

LEMMA RangeTail ==
  ASSUME NEW S, NEW s \in Seq(S), s # << >>
  PROVE  /\ Head(s) \in S /\ Tail(s) \in Seq(S)
         /\ Range(s) \subseteq Range(Tail(s)) \cup {Head(s)}
<1>1. Len(s) \in Nat \ {0} /\ DOMAIN s = 1..Len(s)
  OBVIOUS
<1>2. Head(s) = s[1] /\ Head(s) \in S /\ Tail(s) \in Seq(S) /\ Len(Tail(s)) = Len(s) - 1
  OBVIOUS
<1>3. DOMAIN Tail(s) = 1..(Len(s) - 1)
  BY <1>2
<1>4. \A i \in 1..(Len(s) - 1) : Tail(s)[i] = s[i + 1]
  OBVIOUS
<1>5. ASSUME NEW x \in Range(s) PROVE x \in Range(Tail(s)) \cup {Head(s)}
  <2>1. PICK i \in 1..Len(s) : x = s[i]
    BY <1>5, <1>1, Zenon DEF Range
  <2>2. CASE i = 1
    BY <2>1, <2>2, <1>2, Zenon
  <2>3. CASE i # 1
    <3>1. i - 1 \in 1..(Len(s) - 1) /\ (i - 1) + 1 = i
      BY <2>3, <1>1
    <3>2. Tail(s)[i - 1] = x
      BY <3>1, <1>4, <2>1, Zenon
    <3> QED BY <3>1, <3>2, <1>3, Zenon DEF Range
  <2> QED BY <2>2, <2>3, Zenon
<1> QED BY <1>2, <1>5, Zenon

----------------------------------------------------------------------------
\* The type invariant of the proofs is inductive.
LEMMA TypesInit == Init => Types
<1> SUFFICES ASSUME Init PROVE Types
  BY Zenon
<1>1. Idle \in [pc : PC, pid : PID \cup {NoPID}, inhibit : BOOLEAN] /\ Idle.pc = "idle"
  BY Zenon DEF Idle, PC
<1>2. cpu \in [CPU -> [pc : PC, pid : PID \cup {NoPID}, inhibit : BOOLEAN]]
  BY <1>1, Zenon DEF Init
<1>3. \A c \in CPU : cpu[c].pc = "idle"
  BY <1>1, Zenon DEF Init
<1>4. pidEvents \in Seq(PID) /\ ring \in Nat
  BY DEF Init
<1> QED BY <1>2, <1>3, <1>4, Zenon DEF Init, Types

LEMMA TypesStep == Types /\ [Next]_vars => Types'
<1> SUFFICES ASSUME Types, [Next]_vars PROVE Types'
  BY Zenon
<1> USE DEF Types, PC
<1>1. ASSUME NEW p \in PID, Spawn(p) \/ LoadCode(p) \/ Evict(p) \/ Expire(p) PROVE Types'
  BY <1>1 DEF Spawn, LoadCode, Evict, Expire, Outdated, ebpfVars, monVars, procVars
<1>2. ASSUME NEW p \in PID, NEW c \in CPU, Exit(c, p) \/ Sample(c, p) PROVE Types'
  <2>0. cpu' = cpu \/ \E r \in [pc : {"check", "insert"}, pid : {p}, inhibit : BOOLEAN] :
                         cpu' = [cpu EXCEPT ![c] = r] /\ (r.pc = "check" => r.inhibit)
    <3>1. CASE Report(c, p, TRUE)
      <4> DEFINE r == [pc |-> "check", pid |-> p, inhibit |-> TRUE]
      <4>1. r \in [pc : {"check", "insert"}, pid : {p}, inhibit : BOOLEAN] /\ r.inhibit
        BY Zenon
      <4>2. cpu' = [cpu EXCEPT ![c] = r]
        BY <3>1, Zenon DEF Report
      <4> QED BY <4>1, <4>2, Zenon
    <3>2. CASE Report(c, p, FALSE)
      <4> DEFINE r == [pc |-> "insert", pid |-> p, inhibit |-> FALSE]
      <4>1. r \in [pc : {"check", "insert"}, pid : {p}, inhibit : BOOLEAN] /\ r.pc # "check"
        BY Zenon
      <4>2. cpu' = [cpu EXCEPT ![c] = r]
        BY <3>2, Zenon DEF Report
      <4> QED BY <4>1, <4>2, Zenon
    <3> QED BY <1>2, <3>1, <3>2, Zenon DEF Exit, Sample
  <2>1. cpu' \in [CPU -> [pc : PC, pid : PID \cup {NoPID}, inhibit : BOOLEAN]]
    BY <2>0
  <2>2. \A d \in CPU : /\ cpu'[d].pc # "idle" => cpu'[d].pid \in PID
                       /\ cpu'[d].pc \in {"check", "mark"} => cpu'[d].inhibit
    BY <2>0
  <2> QED BY <1>2, <2>1, <2>2, Zenon DEF Exit, Sample, Outdated, ebpfVars, monVars, procVars
<1>3. ASSUME NEW p \in PID, Populate(p) \/ Send(p) PROVE Types'
  <2>0. pidEvents' = Append(pidEvents, p)
    BY <1>3, Zenon DEF Populate, Send
  <2>1. pidEvents' \in Seq(PID)
    <3>1. \A s \in Seq(PID) : Append(s, p) \in Seq(PID)
      OBVIOUS
    <3> QED BY <2>0, <3>1, Zenon DEF Types
  <2> QED BY <1>3, <2>1, Zenon DEF Populate, Send, ebpfVars, monVars, procVars
<1>4. ASSUME NEW c \in CPU, ReportStep(c) PROVE Types'
  <2>1. CASE Check(c)
    <3>1. CASE Return(c)
      BY <2>1, <3>1, Zenon DEF Check, Return, Idle, ebpfVars, monVars, procVars
    <3>2. CASE Goto(c, "mark")
      BY <2>1, <3>2 DEF Check, Goto, ebpfVars, monVars, procVars
    <3> QED BY <2>1, <3>1, <3>2, Zenon DEF Check
  <2>2. CASE Mark(c)
    BY <2>2 DEF Mark, Goto, monVars, procVars
  <2>3. CASE Insert(c)
    BY <2>3 DEF Insert, Goto, monVars, procVars
  <2>4. CASE InsertFails(c)
    BY <2>4, Zenon DEF InsertFails, Return, Idle, monVars, procVars
  <2>5. CASE Latch(c)
    <3>1. CASE Return(c)
      BY <2>5, <3>1, Zenon DEF Latch, Return, Idle, monVars, procVars
    <3>2. CASE Goto(c, "output")
      BY <2>5, <3>2 DEF Latch, Goto, monVars, procVars
    <3> QED BY <2>5, <3>1, <3>2, Zenon DEF Latch
  <2>6. CASE Output(c)
    BY <2>6 DEF Output, Return, Idle, monVars, procVars
  <2> QED BY <1>4, <2>1, <2>2, <2>3, <2>4, <2>5, <2>6, Zenon DEF ReportStep
<1>5. ASSUME StartMapMonitors \/ ReadEvent \/ Tick \/ Triggered PROVE Types'
  <2>1. CASE StartMapMonitors \/ Tick
    BY <2>1 DEF StartMapMonitors, Tick, ebpfVars, procVars
  <2>2. CASE Triggered
    BY <2>2, Zenon DEF Triggered, ebpfVars, procVars
  <2>3. CASE ReadEvent
    <3>1. ring' \in Nat
      BY <2>3 DEF ReadEvent
    <3> QED BY <2>3, <3>1, Zenon DEF ReadEvent, procVars
  <2> QED BY <1>5, <2>1, <2>2, <2>3, Zenon
<1>6. ASSUME EnableEvent \/ DeleteKeys \/ Sent \/ \E p \in PID : NextKey(p) PROVE Types'
  BY <1>6, Zenon DEF EnableEvent, DeleteKeys, Sent, NextKey, ebpfVars, procVars
<1>7. CASE Receive
  <2>1. Head(pidEvents) \in PID /\ Tail(pidEvents) \in Seq(PID)
    BY <1>7, RangeTail, Zenon DEF Receive
  <2> QED BY <1>7, <2>1, Zenon DEF Receive, ebpfVars, monVars
<1>8. ASSUME Synchronized \/ Denied \/ CleanupPIDs PROVE Types'
  <2>1. CASE Denied
    BY <2>1, Zenon DEF Denied, ebpfVars, monVars
  <2>2. CASE CleanupPIDs
    BY <2>2, Zenon DEF CleanupPIDs, ebpfVars, monVars
  <2>3. CASE Synchronized
    BY <2>3, Zenon DEF Synchronized, ebpfVars, monVars
  <2> QED BY <1>8, <2>1, <2>2, <2>3, Zenon
<1>9. ASSUME RemoveReportedPID \/ \E p \in PID : CleanupPID(p) PROVE Types'
  BY <1>9 DEF RemoveReportedPID, CleanupPID, ebpfVars, monVars
<1>10. CASE UNCHANGED vars
  BY <1>10, Zenon DEF vars, ebpfVars, monVars, procVars
<1> QED BY Zenon, <1>1, <1>2, <1>3, <1>4, <1>5, <1>6, <1>7, <1>8, <1>9, <1>10
        DEF Next, EnvStep, MonitorStep, ProcStep

----------------------------------------------------------------------------
\* No report is lost.

LEMMA LostInit == Init => NoLostReport
BY Zenon DEF Init, NoLostReport

LEMMA LostStep == Types /\ NoLostReport /\ [Next]_vars => NoLostReport'
<1> SUFFICES ASSUME Types, NoLostReport, [Next]_vars PROVE NoLostReport'
  BY Zenon
<1> USE DEF NoLostReport
<1>1. ASSUME NEW p \in PID, Spawn(p) \/ LoadCode(p) \/ Evict(p) \/ Expire(p) PROVE NoLostReport'
  BY <1>1, Zenon DEF Spawn, LoadCode, Evict, Expire, ebpfVars, monVars
<1>2. ASSUME NEW p \in PID, NEW c \in CPU, Exit(c, p) \/ Sample(c, p) PROVE NoLostReport'
  BY <1>2, Zenon DEF Exit, Sample, ebpfVars, monVars
<1>3. ASSUME NEW p \in PID, Populate(p) \/ Send(p) PROVE NoLostReport'
  <2>0. pidEvents' = Append(pidEvents, p) /\ pidEvents \in Seq(PID)
    BY <1>3, Zenon DEF Populate, Send, Types
  <2>1. Range(Append(pidEvents, p)) = Range(pidEvents) \cup {p}
    BY <2>0, RangeAppend
  <2> QED BY <1>3, <2>0, <2>1, Zenon DEF Populate, Send, ebpfVars, monVars
<1>4. ASSUME NEW c \in CPU, ReportStep(c) PROVE NoLostReport'
  BY <1>4, Zenon DEF ReportStep, Check, Mark, Insert, InsertFails, Latch, Output, ebpfVars, monVars
<1>5. ASSUME StartMapMonitors \/ ReadEvent \/ Tick \/ Triggered PROVE NoLostReport'
  BY <1>5, Zenon DEF StartMapMonitors, ReadEvent, Tick, Triggered, ebpfVars
<1>6. ASSUME EnableEvent \/ DeleteKeys \/ Sent \/ \E p \in PID : NextKey(p) PROVE NoLostReport'
  BY <1>6, Zenon DEF EnableEvent, DeleteKeys, Sent, NextKey, ebpfVars
<1>7. CASE Receive
  <2>1. Range(pidEvents) \subseteq Range(pidEvents') \cup {Head(pidEvents)}
    BY <1>7, RangeTail, Zenon DEF Receive, Types
  <2> QED BY <1>7, <2>1, Zenon DEF Receive, ebpfVars, monVars
<1>8. ASSUME Synchronized \/ Denied \/ CleanupPIDs PROVE NoLostReport'
  BY <1>8, Zenon DEF Synchronized, Denied, CleanupPIDs, ebpfVars, monVars
<1>9. ASSUME RemoveReportedPID \/ \E p \in PID : CleanupPID(p) PROVE NoLostReport'
  BY <1>9, Zenon DEF RemoveReportedPID, CleanupPID, ebpfVars, monVars
<1>10. CASE UNCHANGED vars
  BY <1>10, Zenon DEF vars, ebpfVars, monVars
<1> QED BY Zenon, <1>1, <1>2, <1>3, <1>4, <1>5, <1>6, <1>7, <1>8, <1>9, <1>10
        DEF Next, EnvStep, MonitorStep, ProcStep

----------------------------------------------------------------------------
\* No wake-up is lost.

LEMMA WakeInit == Init => WakeInv
BY Zenon DEF Init, WakeInv, LatchIsAwake, SendIsAwake, IdleHasNoKeys, NoLostWakeup

\* Steps that leave the monitor, the ring and what wakes them up as they are.
LEMMA WakeQuiet ==
  ASSUME WakeInv, UNCHANGED <<ring, trigger, mode, mon, must, keys, pid_events, inhibit>>,
         \A c \in CPU : cpu[c].pc \in {"latch", "output"} => cpu'[c].pc = cpu[c].pc
  PROVE  WakeInv'
<1>1. Awake => Awake'
  BY Zenon DEF Awake
<1>2. \A p : WakeupPending(p) => WakeupPending(p)'
  BY Zenon DEF WakeupPending
<1> QED BY <1>1, <1>2, Zenon DEF WakeInv, LatchIsAwake, SendIsAwake, IdleHasNoKeys, NoLostWakeup

\* A wake-up that does not depend on the PID is one for every PID.
LEMMA AwakeWakes == Awake => \A p : WakeupPending(p)
BY Zenon DEF Awake, WakeupPending

LEMMA WakeStep == Types /\ WakeInv /\ [Next]_vars => WakeInv'
<1> SUFFICES ASSUME Types, WakeInv, [Next]_vars PROVE WakeInv'
  BY Zenon
<1>1. ASSUME NEW p \in PID, Spawn(p) \/ LoadCode(p) \/ Evict(p) \/ Expire(p) PROVE WakeInv'
  BY <1>1, WakeQuiet, Zenon DEF Spawn, LoadCode, Evict, Expire, ebpfVars, monVars
<1>2. ASSUME NEW p \in PID, NEW c \in CPU, Exit(c, p) \/ Sample(c, p) PROVE WakeInv'
  BY <1>2, WakeQuiet, Zenon DEF Exit, Sample, Report, ebpfVars, monVars, Types
<1>3. ASSUME NEW p \in PID, Populate(p) PROVE WakeInv'
  BY <1>3, WakeQuiet, Zenon DEF Populate, ebpfVars, monVars
<1>4. ASSUME NEW c \in CPU, Check(c) \/ Mark(c) \/ InsertFails(c) PROVE WakeInv'
  BY <1>4, WakeQuiet DEF Check, Mark, InsertFails, Return, Goto, ebpfVars, monVars, Types
<1>5. ASSUME NEW c \in CPU, Insert(c) PROVE WakeInv'
  <2>1. cpu'[c].pc = "latch" /\ \A d \in CPU \ {c} : cpu'[d] = cpu[d]
    BY <1>5, Zenon DEF Insert, Goto, Types
  <2>2. \A p : WakeupPending(p)'
    BY <2>1, Zenon DEF WakeupPending
  <2>3. Awake => Awake'
    BY <1>5, <2>1, Zenon DEF Awake, Insert, monVars
  <2> QED BY Zenon, <1>5, <2>2, <2>3
          DEF Insert, WakeInv, LatchIsAwake, SendIsAwake, IdleHasNoKeys, NoLostWakeup, monVars
<1>6. ASSUME NEW c \in CPU, Latch(c) PROVE WakeInv'
  <2>1. mode = "running" => Awake'
    <3>1. CASE inhibit
      <4>1. \A d \in CPU : cpu[d].pc = "output" => cpu'[d].pc = "output"
        BY <1>6, Zenon DEF Latch, Return, Goto, Types
      <4> QED BY <1>6, <3>1, <4>1, Zenon DEF Latch, monVars, Awake, WakeInv, LatchIsAwake
    <3>2. CASE ~inhibit
      <4>1. cpu'[c].pc = "output"
        BY <1>6, <3>2 DEF Latch, Goto, Types
      <4> QED BY <4>1, Zenon DEF Awake
    <3> QED BY <3>1, <3>2, Zenon
  <2>2. mode = "running" => \A p : WakeupPending(p)'
    BY <2>1, Zenon DEF Awake, WakeupPending
  <2> QED BY Zenon, <1>6, <2>1, <2>2
          DEF Latch, WakeInv, LatchIsAwake, SendIsAwake, IdleHasNoKeys, NoLostWakeup, monVars
<1>7. ASSUME NEW c \in CPU, Output(c) PROVE WakeInv'
  <2>1. mode # "starting" => ring' > 0
    BY <1>7, PIDEventsAssumption DEF Output, Types
  <2>2. mode = "running" => Awake' /\ \A p : WakeupPending(p)'
    BY <2>1, Zenon DEF Awake, WakeupPending
  <2>3. mode = "starting" => ring' = ring
    BY <1>7, Zenon DEF Output
  <2> QED BY Zenon, <1>7, <2>2, <2>3
          DEF Output, WakeInv, LatchIsAwake, SendIsAwake, IdleHasNoKeys, NoLostWakeup, monVars
<1>8. CASE StartMapMonitors
  BY <1>8, Zenon DEF StartMapMonitors, WakeInv, LatchIsAwake, SendIsAwake, IdleHasNoKeys,
     NoLostWakeup,
              ebpfVars
<1>9. CASE ReadEvent
  <2>1. Awake' /\ \A p : WakeupPending(p)'
    BY <1>9, Zenon DEF ReadEvent, Awake, WakeupPending
  <2>2. mode # "starting"
    BY <1>9 DEF ReadEvent, WakeInv, IdleHasNoKeys, Types
  <2> QED BY Zenon, <1>9, <2>1, <2>2
          DEF ReadEvent, WakeInv, LatchIsAwake, SendIsAwake, IdleHasNoKeys, NoLostWakeup
<1>10. CASE Tick \/ Triggered
  <2>1. Awake' /\ \A p : WakeupPending(p)'
    BY <1>10, Zenon DEF Tick, Triggered, Awake, WakeupPending
  <2> QED BY Zenon, <1>10, <2>1
          DEF Tick, Triggered, WakeInv, LatchIsAwake, SendIsAwake, IdleHasNoKeys, NoLostWakeup,
              ebpfVars
<1>11. CASE EnableEvent
  <2>1. \A p \in pid_events' : WakeupPending(p)'
    BY <1>11, Zenon DEF EnableEvent, WakeupPending
  <2> QED BY Zenon, <1>11, <2>1
          DEF EnableEvent, WakeInv, LatchIsAwake, SendIsAwake, IdleHasNoKeys, NoLostWakeup
<1>12. ASSUME NEW p \in PID, NextKey(p) PROVE WakeInv'
  <2>1. Awake => Awake'
    BY <1>12, Zenon DEF NextKey, Awake, ebpfVars
  <2>2. \A q : q # p /\ WakeupPending(q) => WakeupPending(q)'
    BY <1>12, Zenon DEF NextKey, WakeupPending, ebpfVars
  <2> QED BY Zenon, <1>12, <2>1, <2>2
          DEF NextKey, WakeInv, LatchIsAwake, SendIsAwake, IdleHasNoKeys, NoLostWakeup, ebpfVars
<1>13. CASE DeleteKeys
  <2>1. Awake => Awake'
    BY <1>13, Zenon DEF DeleteKeys, Awake
  <2>2. \A q : WakeupPending(q) => WakeupPending(q)'
    BY <1>13, Zenon DEF DeleteKeys, WakeupPending
  <2> QED BY Zenon, <1>13, <2>1, <2>2
          DEF DeleteKeys, WakeInv, LatchIsAwake, SendIsAwake, IdleHasNoKeys, NoLostWakeup
<1>14. ASSUME NEW p \in PID, Send(p) PROVE WakeInv'
  <2>1. Awake => Awake'
    BY <1>14, Zenon DEF Send, Awake, ebpfVars
  <2>2. \A q : WakeupPending(q) => WakeupPending(q)'
    BY <1>14, Zenon DEF Send, WakeupPending, ebpfVars
  <2> QED BY Zenon, <1>14, <2>1, <2>2
          DEF Send, WakeInv, LatchIsAwake, SendIsAwake, IdleHasNoKeys, NoLostWakeup, ebpfVars
<1>15. CASE Sent
  <2>1. Awake => Awake'
    BY <1>15, Zenon DEF Sent, Awake, ebpfVars
  <2>2. \A q : WakeupPending(q) => WakeupPending(q)'
    BY <1>15, Zenon DEF Sent, WakeupPending, ebpfVars
  <2> QED BY Zenon, <1>15, <2>1, <2>2
          DEF Sent, WakeInv, LatchIsAwake, SendIsAwake, IdleHasNoKeys, NoLostWakeup, ebpfVars
<1>16. ASSUME Receive \/ Synchronized \/ Denied \/ CleanupPIDs \/ RemoveReportedPID
              \/ \E p \in PID : CleanupPID(p)
       PROVE  WakeInv'
  BY Zenon, <1>16, WakeQuiet
     DEF Receive, Synchronized, Denied, CleanupPIDs, RemoveReportedPID, CleanupPID, ebpfVars,
     monVars
<1>17. CASE UNCHANGED vars
  BY <1>17, WakeQuiet, Zenon DEF vars, ebpfVars, monVars
<1> QED BY Zenon, <1>1, <1>2, <1>3, <1>4, <1>5, <1>6, <1>7, <1>8, <1>9, <1>10, <1>11, <1>12,
           <1>13, <1>14,
           <1>15, <1>16, <1>17
        DEF Next, EnvStep, ReportStep, MonitorStep, ProcStep

----------------------------------------------------------------------------
\* reported_pids silences only processes that are being handled.

LEMMA SilencedInit == Init => SilencedInv
BY Zenon DEF Init, SilencedInv

LEMMA SilencedStep ==
  ASSUME ~MayDeny PROVE Types /\ SilencedInv /\ [Next]_vars => SilencedInv'
<1> SUFFICES ASSUME Types, SilencedInv, [Next]_vars,
                    NEW p \in PID, p \notin tracked', reported_pids'[p] = "recent"
             PROVE  \/ p \in need'
                    \/ spid' = p
                    \/ \E c \in CPU : cpu'[c].pid = p /\ cpu'[c].pc = "insert" /\ cpu'[c].inhibit
  BY Zenon DEF SilencedInv
<1> DEFINE Reporting == \E c \in CPU : cpu[c].pid = p /\ cpu[c].pc = "insert" /\ cpu[c].inhibit
<1>1. ASSUME p \notin tracked, reported_pids[p] = "recent",
             need \subseteq need' \cup {spid'}, spid = p => spid' = p, Reporting => Reporting'
      PROVE  p \in need' \/ spid' = p \/ Reporting'
  BY <1>1 DEF SilencedInv
<1>2. ASSUME NEW q \in PID, Spawn(q) \/ LoadCode(q) \/ Evict(q) \/ Expire(q) \/ Populate(q)
             \/ NextKey(q) \/ Send(q)
      PROVE  p \in need' \/ spid' = p \/ Reporting'
  BY <1>1, <1>2, Zenon DEF Spawn, LoadCode, Evict, Expire, Populate, NextKey, Send, ebpfVars,
     procVars, Types
<1>3. ASSUME NEW q \in PID, NEW c \in CPU, Exit(c, q) \/ Sample(c, q)
      PROVE  p \in need' \/ spid' = p \/ Reporting'
  <2>1. Reporting => Reporting'
    BY <1>3 DEF Exit, Sample, Report, Types
  <2> QED BY <1>1, <1>3, <2>1, Zenon DEF Exit, Sample, ebpfVars, procVars
<1>4. ASSUME NEW c \in CPU, Check(c) \/ Latch(c) \/ Output(c)
      PROVE  p \in need' \/ spid' = p \/ Reporting'
  <2>1. Reporting => Reporting'
    BY <1>4, Zenon DEF Check, Latch, Output, Return, Goto, Types
  <2> QED BY <1>1, <1>4, <2>1, Zenon DEF Check, Latch, Output, ebpfVars, procVars
<1>5. ASSUME NEW c \in CPU, Mark(c) PROVE p \in need' \/ spid' = p \/ Reporting'
  <2>1. Reporting => Reporting'
    BY <1>5, Zenon DEF Mark, Goto, Types
  <2>2. CASE cpu[c].pid = p
    BY <1>5, <2>2, Zenon DEF Mark, Goto, Types
  <2>3. CASE cpu[c].pid # p
    BY <1>1, <1>5, <2>1, <2>3, Zenon DEF Mark, procVars, Types
  <2> QED BY <2>2, <2>3, Zenon
<1>6. ASSUME NEW c \in CPU, Insert(c) PROVE p \in need' \/ spid' = p \/ Reporting'
  <2>1. CASE cpu[c].pid = p
    BY <1>6, <2>1, Zenon DEF Insert
  <2>2. CASE cpu[c].pid # p
    <3>1. Reporting => Reporting'
      BY <1>6, <2>2, Zenon DEF Insert, Goto, Types
    <3> QED BY <1>1, <1>6, <3>1, Zenon DEF Insert, procVars
  <2> QED BY <2>1, <2>2, Zenon
<1>7. ASSUME NEW c \in CPU, InsertFails(c) PROVE p \in need' \/ spid' = p \/ Reporting'
  <2>1. cpu[c].pid # p \/ ~cpu[c].inhibit
    BY <1>7, Zenon DEF InsertFails, Types
  <2>2. Reporting => Reporting'
    BY <1>7, <2>1, Zenon DEF InsertFails, Return, Types
  <2>3. reported_pids[p] = "recent"
    BY <1>7, Zenon DEF InsertFails, Types
  <2> QED BY <1>1, <1>7, <2>2, <2>3, Zenon DEF InsertFails, procVars
<1>8. ASSUME StartMapMonitors \/ ReadEvent \/ Tick \/ Triggered \/ EnableEvent \/ DeleteKeys \/ Sent
      PROVE  p \in need' \/ spid' = p \/ Reporting'
  BY <1>1, <1>8, Zenon
     DEF StartMapMonitors, ReadEvent, Tick, Triggered, EnableEvent, DeleteKeys, Sent, ebpfVars,
     procVars
<1>9. CASE Receive
  <2>1. spid = NoPID /\ spid # p
    BY <1>9, PIDEventsAssumption, Zenon DEF Receive, Types
  <2>2. CASE p = spid'
    BY <2>2, Zenon
  <2>3. CASE p # spid'
    BY <1>1, <1>9, <2>1, <2>3, Zenon DEF Receive, ebpfVars
  <2> QED BY <2>2, <2>3, Zenon
<1>10. CASE Synchronized
  BY <1>1, <1>10, Zenon DEF Synchronized, ebpfVars
<1>11. CASE RemoveReportedPID
  <2>1. spid # p
    BY <1>11, Zenon DEF RemoveReportedPID, Types
  <2> QED BY <1>1, <1>11, <2>1, Zenon DEF RemoveReportedPID, Types
<1>12. CASE CleanupPIDs
  BY <1>1, <1>12, Zenon DEF CleanupPIDs, ebpfVars
<1>13. ASSUME NEW q \in PID, CleanupPID(q) PROVE p \in need' \/ spid' = p \/ Reporting'
  <2>1. spid # p
    BY <1>13, PIDEventsAssumption, Zenon DEF CleanupPID, Types
  <2>2. CASE p = q
    BY <1>13, <2>2, Zenon DEF CleanupPID
  <2>3. CASE p # q
    BY <1>1, <1>13, <2>1, <2>3, Zenon DEF CleanupPID, ebpfVars
  <2> QED BY <2>2, <2>3, Zenon
<1>14. CASE UNCHANGED vars
  BY <1>1, <1>14, Zenon DEF vars, ebpfVars, procVars
<1>15. ~Denied
  BY Zenon DEF Denied
<1> QED BY <1>2, <1>3, <1>4, <1>5, <1>6, <1>7, <1>8, <1>9, <1>10, <1>11,
           <1>12, <1>13, <1>14, <1>15, Zenon
        DEF Next, EnvStep, ReportStep, MonitorStep, ProcStep

----------------------------------------------------------------------------
\* No report and no wake-up is lost between report_pid and SynchronizeProcess,
\* for any number of CPUs reporting any number of processes, and whatever the
\* capacities of pid_events, of the ring and of the channel.
THEOREM NothingLost == Spec => [](NoLostReport /\ NoLostWakeup)
<1>1. Init => Types /\ NoLostReport /\ WakeInv
  BY TypesInit, LostInit, WakeInit, Zenon
<1>2. Types /\ NoLostReport /\ WakeInv /\ [Next]_vars => (Types /\ NoLostReport /\ WakeInv)'
  BY TypesStep, LostStep, WakeStep, Zenon
<1>3. Types /\ NoLostReport /\ WakeInv => NoLostReport /\ NoLostWakeup
  BY Zenon DEF WakeInv
<1> QED BY <1>1, <1>2, <1>3, PTL DEF Spec

\* When /proc is readable, report_pid silences a process that user space does
\* not know only while its report or its synchronisation is under way.
THEOREM SilencedHandled == ASSUME ~MayDeny PROVE Spec => []SilencedIsHandled
<1>1. Init => Types /\ SilencedInv
  BY TypesInit, SilencedInit, Zenon
<1>2. Types /\ SilencedInv /\ [Next]_vars => (Types /\ SilencedInv)'
  BY TypesStep, SilencedStep, Zenon
<1>3. Types /\ SilencedInv => SilencedIsHandled
  BY Zenon DEF SilencedInv, SilencedIsHandled
<1> QED BY <1>1, <1>2, <1>3, PTL DEF Spec

----------------------------------------------------------------------------
\* TraceDelivery

RingSample == [pid : TracePid, ktime : Nat, kstack : {StackID(ks) : ks \in KernelStack} \cup {Nothing}]
MadeTrace == [pid : TracePid, ktime : Nat, kernel : Seq(Addresses), left : Seq(Addresses)]
TransmittedEntry == [key : Symbolized, val : {TRUE}]

\* The types of what the kernel and the polling goroutine share, and the stack that
\* a sample names: kernel_stackmap may have another one by then, but has one.
RingTypes ==
  /\ ktime \in Nat
  /\ rings \in [TraceCpu -> Seq(RingSample)]
  /\ \A id \in DOMAIN kernelStackmap : kernelStackmap[id] \in KernelStack
  /\ \A c \in TraceCpu : \A i \in DOMAIN rings[c] :
       rings[c][i].kstack \in DOMAIN kernelStackmap \cup {Nothing}
AgentTypes ==
  /\ reading \in TraceCpu \cup {Nothing} /\ toRead \subseteq TraceCpu
  /\ channel # Nothing => channel \in MadeTrace
  /\ handling # Nothing => handling \in MadeTrace /\ handling.left = << >>
  /\ completed \in Nat
  /\ transmittedFallbackSymbols \in Seq(TransmittedEntry)

\* Exits are noticed after they happen, and only then are instances removed.
ExitsNoticed ==
  /\ running \subseteq instances
  /\ \A p \in DOMAIN exitEvents : p \notin running /\ exitEvents[p] \in Nat

\* A trace was captured before the exit of its process is noticed, and before some
\* trace that is handled already if the instances of its process are gone.
Timely(t) ==
  /\ t.ktime < ktime
  /\ t.pid \in DOMAIN exitEvents => t.ktime < exitEvents[t.pid]
  /\ t.pid \notin instances => t.ktime < completed
TracesTimely ==
  /\ \A c \in TraceCpu : \A i \in DOMAIN rings[c] : Timely(rings[c][i])
  /\ channel # Nothing => Timely(channel)
  /\ handling # Nothing => Timely(handling)

ExitInv == RingTypes /\ AgentTypes /\ ExitsNoticed /\ TracesTimely /\ InstancesAwaitTraces

\* The symbols of a trace are sent, but for the frames that are left.
SymbolsSent(t) ==
  \A i \in DOMAIN t.kernel :
    t.kernel[i] \in Symbolized =>
      t.kernel[i] \in fallbackSymbols \/ \E j \in DOMAIN t.left : t.left[j] = t.kernel[i]
SymbolInv ==
  /\ LRU!Keys(transmittedFallbackSymbols) \subseteq fallbackSymbols
  /\ channel # Nothing => SymbolsSent(channel)
  /\ handling # Nothing => SymbolsSent(handling)
  /\ FallbackSent

DeliveryInv == ExitInv /\ SymbolInv

----------------------------------------------------------------------------
\* What an addition to an LRU cache leaves there.
LEMMA AddedKeys ==
  ASSUME NEW lru \in Seq(TransmittedEntry), NEW a \in Symbolized
  PROVE  /\ LRU!Add(lru, LRUSize, a, TRUE) \in Seq(TransmittedEntry)
         /\ LRU!Keys(LRU!Add(lru, LRUSize, a, TRUE)) \subseteq LRU!Keys(lru) \cup {a}
<1> DEFINE n == [key |-> a, val |-> TRUE]
           r == LRU!Remove(lru, a)
           added == Append(r, n)
<1>1. r \in Seq(TransmittedEntry) /\ \A i \in DOMAIN r : \E j \in DOMAIN lru : r[i] = lru[j]
  <2>1. CASE a \notin LRU!Keys(lru)
    BY <2>1, Zenon DEF LRU!Remove
  <2>2. CASE a \in LRU!Keys(lru)
    <3>1. r = [i \in 1..Len(lru) - 1 |-> lru[IF i < LRU!Position(lru, a) THEN i ELSE i + 1]]
      BY <2>2, Zenon DEF LRU!Remove
    <3>2. Len(lru) \in Nat \ {0} /\ DOMAIN lru = 1..Len(lru)
      BY <2>2 DEF LRU!Keys
    <3>3. \A i \in 1..Len(lru) - 1 : (IF i < LRU!Position(lru, a) THEN i ELSE i + 1) \in DOMAIN lru
      BY <3>2
    <3> HIDE DEF r
    <3>4. \A i \in DOMAIN r : i \in 1..Len(lru) - 1 /\ \E j \in DOMAIN lru : r[i] = lru[j]
      BY <3>1, <3>3, Zenon
    <3>5. \A j \in DOMAIN lru : lru[j] \in TransmittedEntry
      OBVIOUS
    <3> QED
      BY <3>1, <3>2, <3>4, <3>5
  <2> QED
    BY <2>1, <2>2, Zenon
<1> HIDE DEF r
<1>2. n \in TransmittedEntry
  BY Zenon DEF TransmittedEntry
<1> HIDE DEF n
<1>3. /\ added \in Seq(TransmittedEntry)
      /\ \A i \in DOMAIN added : added[i] = n \/ \E j \in DOMAIN lru : added[i] = lru[j]
  BY <1>1, <1>2
<1>4. Len(added) > LRUSize => /\ Tail(added) \in Seq(TransmittedEntry)
                              /\ \A i \in DOMAIN Tail(added) :
                                   Tail(added)[i] = n \/ \E j \in DOMAIN lru : Tail(added)[i] = lru[j]
  BY <1>3, TraceDeliveryAssumption
<1>5. LRU!Add(lru, LRUSize, a, TRUE) = IF Len(added) > LRUSize THEN Tail(added) ELSE added
  BY Zenon DEF LRU!Add, n, r
<1> DEFINE new == LRU!Add(lru, LRUSize, a, TRUE)
<1>6. /\ new \in Seq(TransmittedEntry)
      /\ \A i \in DOMAIN new : new[i] = n \/ \E j \in DOMAIN lru : new[i] = lru[j]
  BY <1>3, <1>4, <1>5, Zenon
<1> HIDE DEF new
<1>7. LRU!Keys(new) \subseteq LRU!Keys(lru) \cup {a}
  <2>1. n.key = a
    BY Zenon DEF n
  <2> QED
    BY <1>6, <2>1, Zenon DEF LRU!Keys
<1> QED
  BY <1>6, <1>7, Zenon DEF new

----------------------------------------------------------------------------
\* When the agent starts, nothing is on its way.
LEMMA DeliveryInitially ==
  ASSUME DeliveryInit
  PROVE  DeliveryInv
BY TraceDeliveryAssumption
   DEF DeliveryInit, DeliveryInv, ExitInv, SymbolInv, RingTypes, AgentTypes, ExitsNoticed,
   TracesTimely,
       Timely, InstancesAwaitTraces, FallbackSent, LRU!Keys

\* A sample is of a process that runs, so that its exit is not known yet, and is
\* older than anything the kernel does later.
LEMMA TakeSampleStep ==
  ASSUME ExitInv, NEW c \in TraceCpu, NEW p \in TracePid, NEW ks \in KernelStack, TakeSample(c, p, ks)
  PROVE  ExitInv'
<1> USE DEF ExitInv
<1>1. PICK id \in {StackID(ks), Nothing} :
        /\ kernelStackmap' = IF id = Nothing THEN kernelStackmap ELSE Put(kernelStackmap, id, ks)
        /\ IF Len(rings[c]) < TraceRingSize
           THEN rings' = [rings EXCEPT ![c] = Append(@, [pid |-> p, ktime |-> ktime, kstack |-> id])]
           ELSE UNCHANGED rings
  BY Zenon DEF TakeSample
<1>2. /\ p \in running /\ ktime' = ktime + 1
      /\ UNCHANGED <<running, reading, toRead, channel, handling, transmittedFallbackSymbols,
                     exitEvents, instances, completed, reordered, early>>
  BY Zenon DEF TakeSample, agentSide, exitVars
<1>3. /\ \A x \in DOMAIN kernelStackmap' : kernelStackmap'[x] \in KernelStack
      /\ DOMAIN kernelStackmap \subseteq DOMAIN kernelStackmap'
      /\ id \in DOMAIN kernelStackmap' \cup {Nothing}
  BY <1>1, Zenon DEF Put, RingTypes
<1>4. PICK new \in RingSample : new = [pid |-> p, ktime |-> ktime, kstack |-> id]
  BY Zenon DEF RingSample, RingTypes
<1>5. /\ rings' \in [TraceCpu -> Seq(RingSample)]
      /\ \A d \in TraceCpu : \A i \in DOMAIN rings'[d] :
           rings'[d][i] = new \/ (i \in DOMAIN rings[d] /\ rings'[d][i] = rings[d][i])
  <2>1. CASE Len(rings[c]) < TraceRingSize
    <3>1. rings' = [rings EXCEPT ![c] = Append(@, new)]
      BY <1>1, <1>4, <2>1, Zenon
    <3> QED
      BY <1>4, <3>1 DEF RingTypes
  <2>2. CASE ~(Len(rings[c]) < TraceRingSize)
    BY <1>1, <2>2, Zenon DEF RingTypes
  <2> QED
    BY <2>1, <2>2, Zenon
<1>6. RingTypes'
  <2>1. \A d \in TraceCpu : \A i \in DOMAIN rings'[d] :
          rings'[d][i].kstack \in DOMAIN kernelStackmap' \cup {Nothing}
    <3>1. new.kstack = id
      BY <1>4, Zenon
    <3> QED
      BY <1>3, <1>5, <3>1, Zenon DEF RingTypes
  <2> QED
    BY <1>2, <1>3, <1>5, <2>1 DEF RingTypes
<1>7. AgentTypes' /\ ExitsNoticed' /\ InstancesAwaitTraces'
  BY <1>2, ZenonT(40) DEF AgentTypes, ExitsNoticed, InstancesAwaitTraces
<1>8. Timely(new)'
  <2>1. p \notin DOMAIN exitEvents /\ p \in instances /\ ktime \in Nat
    BY <1>2, ZenonT(40) DEF ExitsNoticed, RingTypes
  <2> QED
    BY <1>2, <1>4, <2>1 DEF Timely
<1>9. \A t : Timely(t) /\ t.ktime \in Nat => Timely(t)'
  BY <1>2 DEF Timely, RingTypes
<1>10. ASSUME NEW d \in TraceCpu, NEW i \in DOMAIN rings'[d]
       PROVE  Timely(rings[d][i])'
  <2>1. CASE rings'[d][i] = new
    BY <1>8, <2>1, Zenon DEF Timely
  <2>2. CASE i \in DOMAIN rings[d] /\ rings'[d][i] = rings[d][i]
    <3>1. rings[d][i] \in RingSample /\ Timely(rings[d][i])
      BY <2>2 DEF RingTypes, TracesTimely
    <3> QED
      BY <1>9, <2>2, <3>1, Zenon DEF Timely, RingSample
  <2> QED
    BY <1>5, <2>1, <2>2, Zenon
<1>11. TracesTimely'
  <2>1. channel # Nothing => channel.ktime \in Nat
    BY Zenon DEF AgentTypes, MadeTrace
  <2>2. handling # Nothing => handling.ktime \in Nat
    BY Zenon DEF AgentTypes, MadeTrace
  <2>3. channel # Nothing => Timely(channel)'
    BY <1>2, <1>9, <2>1, Zenon DEF TracesTimely, Timely
  <2>4. handling # Nothing => Timely(handling)'
    BY <1>2, <1>9, <2>2, Zenon DEF TracesTimely, Timely
  <2> QED
    BY <1>2, <1>10, <2>3, <2>4, Zenon DEF TracesTimely
<1> QED
  BY <1>6, <1>7, <1>11, Zenon

\* An exit moves the clock on, past every sample of the process.
LEMMA KernelExitStep ==
  ASSUME ExitInv, NEW p \in TracePid, KernelExit(p)
  PROVE  ExitInv'
<1> USE DEF ExitInv
<1>1. /\ ktime' = ktime + 1 /\ running' = running \ {p}
      /\ UNCHANGED <<rings, kernelStackmap, reading, toRead, channel, handling, transmittedFallbackSymbols,
                     exitEvents, instances, completed, reordered, early>>
  BY Zenon DEF KernelExit, agentSide, exitVars
<1>2. RingTypes' /\ AgentTypes' /\ ExitsNoticed' /\ InstancesAwaitTraces'
  BY <1>1 DEF RingTypes, AgentTypes, ExitsNoticed, InstancesAwaitTraces
<1>3. \A t : Timely(t) /\ t.ktime \in Nat => Timely(t)'
  BY <1>1 DEF Timely, RingTypes
<1>4. ASSUME NEW d \in TraceCpu, NEW i \in DOMAIN rings[d]
      PROVE  Timely(rings[d][i])'
  <2>1. rings[d][i] \in RingSample /\ Timely(rings[d][i])
    BY DEF RingTypes, TracesTimely
  <2> QED
    BY <1>1, <1>3, <2>1, Zenon DEF Timely, RingSample
<1>5. channel # Nothing => Timely(channel)'
  <2>1. channel # Nothing => channel.ktime \in Nat
    BY Zenon DEF AgentTypes, MadeTrace
  <2> QED
    BY <1>1, <1>3, <2>1, Zenon DEF TracesTimely, Timely
<1>6. handling # Nothing => Timely(handling)'
  <2>1. handling # Nothing => handling.ktime \in Nat
    BY Zenon DEF AgentTypes, MadeTrace
  <2> QED
    BY <1>1, <1>3, <2>1, Zenon DEF TracesTimely, Timely
<1>7. TracesTimely'
  BY <1>1, <1>4, <1>5, <1>6, Zenon DEF TracesTimely
<1> QED
  BY <1>2, <1>7, Zenon

\* A poll, the next ring and a record of lost samples leave the traces alone.
LEMMA RingsStep ==
  ASSUME ExitInv, Poll \/ Exhausted \/ ReadLost
  PROVE  ExitInv'
<1>1. UNCHANGED <<ktime, running, rings, kernelStackmap, channel, handling, transmittedFallbackSymbols,
                  exitEvents, instances, completed, reordered, early>>
  BY Zenon DEF Poll, Exhausted, ReadLost, kernelVars, exitVars
<1>2. reading' \in TraceCpu \cup {Nothing} /\ toRead' \subseteq TraceCpu
  BY Zenon DEF Poll, Exhausted, ReadLost, ReadRing, ExitInv, AgentTypes
<1> QED
  BY <1>1, <1>2, Zenon DEF ExitInv, RingTypes, AgentTypes, ExitsNoticed, TracesTimely, Timely,
     InstancesAwaitTraces

\* loadBpfTrace takes the oldest sample of a ring, with a stack that was sampled.
LEMMA ReadTraceStep ==
  ASSUME ExitInv, ReadTrace
  PROVE  ExitInv'
<1> USE DEF ExitInv
<1>1. /\ reading \in TraceCpu /\ rings[reading] # << >>
      /\ rings' = [rings EXCEPT ![reading] = Tail(@)]
      /\ UNCHANGED <<ktime, running, kernelStackmap, reading, toRead, handling, transmittedFallbackSymbols,
                     exitEvents, instances, completed, reordered, early>>
  BY Zenon DEF ReadTrace, AgentTypes, exitVars
<1>2. PICK raw \in RingSample :
        raw = Head(rings[reading]) /\ raw = rings[reading][1] /\ 1 \in DOMAIN rings[reading]
  BY <1>1 DEF RingTypes
<1>3. PICK kernel \in KernelFrames(raw.kstack) :
        channel' = [pid |-> raw.pid, ktime |-> raw.ktime, kernel |-> kernel, left |-> kernel]
  BY <1>2, Zenon DEF ReadTrace
<1>4. kernel \in Seq(Addresses)
  <2>1. raw.kstack \in DOMAIN kernelStackmap \cup {Nothing}
    BY <1>1, <1>2, Zenon DEF RingTypes
  <2> QED
    <3>1. kernel = << >> \/ kernel \in KernelStack
      BY <2>1, Zenon DEF KernelFrames, RingTypes
    <3>2. << >> \in Seq(Addresses)
      OBVIOUS
    <3> QED
      BY <3>1, <3>2, TraceDeliveryAssumption, Zenon
<1>5. channel' \in MadeTrace /\ channel'.pid = raw.pid /\ channel'.ktime = raw.ktime
  BY <1>3, <1>4, ZenonT(40) DEF MadeTrace, RingSample
<1>6. /\ rings' \in [TraceCpu -> Seq(RingSample)]
      /\ \A d \in TraceCpu : \A i \in DOMAIN rings'[d] : \E j \in DOMAIN rings[d] : rings'[d][i] = rings[d][j]
  <2>1. rings'[reading] = Tail(rings[reading]) /\ \A d \in TraceCpu \ {reading} : rings'[d] = rings[d]
    BY <1>1, Zenon DEF RingTypes
  <2>2. /\ Tail(rings[reading]) \in Seq(RingSample)
        /\ \A i \in DOMAIN Tail(rings[reading]) :
             \E j \in DOMAIN rings[reading] : Tail(rings[reading])[i] = rings[reading][j]
    BY <1>1 DEF RingTypes
  <2> QED
    BY <1>1, <2>1, <2>2 DEF RingTypes
<1>7. RingTypes' /\ AgentTypes'
  BY <1>1, <1>5, <1>6 DEF RingTypes, AgentTypes
<1>8. ASSUME NEW d \in TraceCpu, NEW i \in DOMAIN rings'[d]
      PROVE  Timely(rings[d][i])'
  BY <1>1, <1>6 DEF TracesTimely, Timely
<1>9. Timely(channel)'
  <2>1. Timely(raw)
    BY <1>1, <1>2, Zenon DEF TracesTimely
  <2> QED
    BY <1>1, <1>5, <2>1, Zenon DEF Timely
<1>10. TracesTimely'
  BY <1>1, <1>8, <1>9, Zenon DEF TracesTimely, Timely
<1> QED
  BY <1>1, <1>7, <1>10, Zenon DEF ExitsNoticed, InstancesAwaitTraces

\* insertKernelFrames does not touch when and for whom the trace was captured.
LEMMA InsertKernelFrameStep ==
  ASSUME ExitInv, InsertKernelFrame
  PROVE  ExitInv'
<1> USE DEF ExitInv
<1>1. /\ channel # Nothing /\ channel.left # << >>
      /\ channel' = [channel EXCEPT !.left = Tail(@)] /\ Transmit(Head(channel.left))
      /\ UNCHANGED <<ktime, running, rings, kernelStackmap, reading, toRead, handling,
                     exitEvents, instances, completed, reordered, early>>
  BY Zenon DEF InsertKernelFrame, kernelVars, exitVars
<1>2. channel' \in MadeTrace /\ channel'.pid = channel.pid /\ channel'.ktime = channel.ktime
  <2>1. channel \in MadeTrace
    BY <1>1, Zenon DEF AgentTypes
  <2>2. Tail(channel.left) \in Seq(Addresses)
    BY <1>1, <2>1 DEF MadeTrace
  <2> QED
    BY <1>1, <2>1, <2>2, Zenon DEF MadeTrace
<1>3. transmittedFallbackSymbols' \in Seq(TransmittedEntry)
  <2> DEFINE a == Head(channel.left)
  <2>1. CASE a \in Symbolized /\ a \notin LRU!Keys(transmittedFallbackSymbols)
    <3>1. transmittedFallbackSymbols' = LRU!Add(transmittedFallbackSymbols, LRUSize, a, TRUE)
      BY <1>1, <2>1, Zenon DEF Transmit
    <3> QED
      BY <2>1, <3>1, AddedKeys, Zenon DEF AgentTypes
  <2>2. CASE ~(a \in Symbolized /\ a \notin LRU!Keys(transmittedFallbackSymbols))
    BY <1>1, <2>2, Zenon DEF Transmit, AgentTypes
  <2> QED
    BY <2>1, <2>2, Zenon
<1>4. RingTypes' /\ AgentTypes' /\ ExitsNoticed' /\ InstancesAwaitTraces'
  BY <1>1, <1>2, <1>3, Zenon DEF RingTypes, AgentTypes, ExitsNoticed, InstancesAwaitTraces
<1>5. TracesTimely'
  BY <1>1, <1>2 DEF TracesTimely, Timely
<1> QED
  BY <1>4, <1>5, Zenon

\* The trace changes hands.
LEMMA ReceiveTraceStep ==
  ASSUME ExitInv, ReceiveTrace
  PROVE  ExitInv'
BY Zenon DEF ExitInv, ReceiveTrace, kernelVars, exitVars, RingTypes, AgentTypes, ExitsNoticed,
   TracesTimely, Timely,
       InstancesAwaitTraces

\* The exit is dated after all traces of the process, which were captured before now.
LEMMA ProcessPIDExitStep ==
  ASSUME ExitInv, NEW p \in TracePid, ProcessPIDExit(p)
  PROVE  ExitInv'
<1> USE DEF ExitInv
<1>1. /\ p \notin running /\ exitEvents' = Put(exitEvents, p, ktime)
      /\ UNCHANGED <<ktime, running, rings, kernelStackmap, reading, toRead, channel, handling,
                     transmittedFallbackSymbols, instances, completed, reordered, early>>
  BY Zenon DEF ProcessPIDExit, kernelVars, agentSide
<1>2. /\ DOMAIN exitEvents' = DOMAIN exitEvents \cup {p}
      /\ \A q \in DOMAIN exitEvents' : exitEvents'[q] = IF q = p THEN ktime ELSE exitEvents[q]
  BY <1>1, Zenon DEF Put
<1>3. RingTypes' /\ AgentTypes' /\ ExitsNoticed' /\ InstancesAwaitTraces'
  BY <1>1, <1>2, Zenon DEF RingTypes, AgentTypes, ExitsNoticed, InstancesAwaitTraces
<1>4. \A t : Timely(t) => Timely(t)'
  BY <1>1, <1>2, Zenon DEF Timely
<1>5. ASSUME NEW d \in TraceCpu, NEW i \in DOMAIN rings[d]
      PROVE  Timely(rings[d][i])'
  BY <1>1, <1>4, Zenon DEF TracesTimely, Timely
<1>6. /\ channel # Nothing => Timely(channel)'
      /\ handling # Nothing => Timely(handling)'
  BY <1>1, <1>4, Zenon DEF TracesTimely, Timely
<1>7. TracesTimely'
  BY <1>1, <1>5, <1>6, Zenon DEF TracesTimely
<1> QED
  BY <1>3, <1>7, Zenon

\* The instances of a process go with a trace as late as its exit; a trace of the
\* process that is still on its way is an earlier one.
LEMMA HandleDeliveredStep ==
  ASSUME ExitInv, HandleDelivered
  PROVE  ExitInv'
<1> USE DEF ExitInv
<1>1. PICK over : over = {p \in DOMAIN exitEvents : exitEvents[p] <= handling.ktime}
  BY Zenon
<1>2. /\ handling # Nothing /\ handling' = Nothing
      /\ exitEvents' = Drop(exitEvents, over) /\ instances' = instances \ over
      /\ completed' = IF handling.ktime > completed THEN handling.ktime ELSE completed
      /\ reordered' = (reordered \/ handling.ktime < completed)
      /\ early' = (early \/ handling.pid \notin instances)
      /\ UNCHANGED <<ktime, running, rings, kernelStackmap, reading, toRead, channel,
                     transmittedFallbackSymbols>>
  BY <1>1, Zenon DEF HandleDelivered, SymbolizationComplete, kernelVars
<1>3. /\ handling.ktime \in Nat /\ completed \in Nat /\ completed' \in Nat
      /\ handling.ktime <= completed' /\ completed <= completed'
  BY <1>2 DEF AgentTypes, MadeTrace
<1>4. /\ DOMAIN exitEvents' = DOMAIN exitEvents \ over
      /\ \A p \in DOMAIN exitEvents' : exitEvents'[p] = exitEvents[p]
  BY <1>2, Zenon DEF Drop
<1>5. RingTypes' /\ AgentTypes'
  BY <1>2, <1>3, Zenon DEF RingTypes, AgentTypes
<1>6. ExitsNoticed'
  BY <1>1, <1>2, <1>4, Zenon DEF ExitsNoticed
<1>7. InstancesAwaitTraces'
  BY <1>2, Zenon DEF InstancesAwaitTraces, TracesTimely, Timely
<1>8. \A t : Timely(t) /\ t.ktime \in Nat => Timely(t)'
  <2> SUFFICES ASSUME NEW t, Timely(t), t.ktime \in Nat
               PROVE  Timely(t)'
    BY Zenon
  <2>1. t.pid \in DOMAIN exitEvents' => t.ktime < exitEvents'[t.pid]
    BY <1>4, Zenon DEF Timely
  <2>2. t.pid \notin instances' => t.ktime < completed'
    <3>1. CASE t.pid \notin instances
      BY <1>3, <3>1 DEF Timely
    <3>2. CASE t.pid \in over
      BY <1>1, <1>3, <3>2 DEF Timely, ExitsNoticed
    <3> QED
      BY <1>2, <3>1, <3>2, Zenon
  <2> QED
    BY <1>2, <2>1, <2>2, Zenon DEF Timely
<1>9. ASSUME NEW d \in TraceCpu, NEW i \in DOMAIN rings[d]
      PROVE  Timely(rings[d][i])'
  <2>1. rings[d][i] \in RingSample /\ Timely(rings[d][i])
    BY DEF RingTypes, TracesTimely
  <2> QED
    BY <1>2, <1>8, <2>1, Zenon DEF Timely, RingSample
<1>10. channel # Nothing => Timely(channel)'
  <2>1. channel # Nothing => channel.ktime \in Nat
    BY Zenon DEF AgentTypes, MadeTrace
  <2> QED
    BY <1>2, <1>8, <2>1, Zenon DEF TracesTimely, Timely
<1>11. TracesTimely'
  BY <1>2, <1>9, <1>10, Zenon DEF TracesTimely
<1> QED
  BY <1>5, <1>6, <1>7, <1>11, Zenon

----------------------------------------------------------------------------
\* A frame leaves the frames that are left only when its symbol was sent, now or at
\* the time it was put in the list of those transmitted.
LEMMA SymbolsStep ==
  ASSUME AgentTypes, SymbolInv, InsertKernelFrame
  PROVE  SymbolInv'
<1> USE DEF SymbolInv
<1> DEFINE lru == transmittedFallbackSymbols
<1>1. PICK a : a = Head(channel.left)
  BY Zenon
<1>2. /\ channel # Nothing /\ channel.left # << >> /\ channel \in MadeTrace
      /\ channel' = [channel EXCEPT !.left = Tail(@)] /\ Transmit(a)
      /\ UNCHANGED <<handling, shown>>
  BY <1>1, Zenon DEF InsertKernelFrame, AgentTypes
<1>3. /\ fallbackSymbols \subseteq fallbackSymbols'
      /\ LRU!Keys(lru') \subseteq fallbackSymbols'
      /\ a \in Symbolized => a \in fallbackSymbols'
  <2>1. CASE a \in Symbolized /\ a \notin LRU!Keys(lru)
    <3>1. lru' = LRU!Add(lru, LRUSize, a, TRUE) /\ fallbackSymbols' = fallbackSymbols \cup {a}
      BY <1>2, <2>1, Zenon DEF Transmit
    <3>2. LRU!Keys(LRU!Add(lru, LRUSize, a, TRUE)) \subseteq LRU!Keys(lru) \cup {a}
      BY <2>1, AddedKeys, Zenon DEF AgentTypes
    <3> QED
      BY <3>1, <3>2, Zenon
  <2>2. CASE ~(a \in Symbolized /\ a \notin LRU!Keys(lru))
    <3>1. UNCHANGED <<transmittedFallbackSymbols, fallbackSymbols>>
      BY <1>2, <2>2, Zenon DEF Transmit
    <3> QED
      BY <2>2, <3>1, Zenon DEF LRU!Keys
  <2> QED
    BY <2>1, <2>2, Zenon
<1>4. channel'.kernel = channel.kernel /\ channel'.left = Tail(channel.left)
  BY <1>2, Zenon DEF MadeTrace
<1>5. \A j \in DOMAIN channel.left :
        channel.left[j] = a \/ \E k \in DOMAIN Tail(channel.left) : Tail(channel.left)[k] = channel.left[j]
  <2>1. channel.left \in Seq(Addresses)
    BY <1>2, Zenon DEF MadeTrace
  <2>2. ASSUME NEW j \in DOMAIN channel.left, j # 1
        PROVE  j - 1 \in DOMAIN Tail(channel.left) /\ Tail(channel.left)[j - 1] = channel.left[j]
    BY <1>2, <2>1, <2>2
  <2>3. channel.left[1] = a
    BY <1>1, <1>2, <2>1
  <2> QED
    BY <2>2, <2>3, Zenon
<1>6. SymbolsSent(channel)'
  BY <1>2, <1>3, <1>4, <1>5 DEF SymbolsSent
<1>7. handling # Nothing => SymbolsSent(handling)'
  BY <1>2, <1>3, Zenon DEF SymbolsSent
<1> QED
  BY <1>2, <1>3, <1>6, <1>7, Zenon DEF FallbackSent

\* A new trace has all of its frames left, and one that is handed over none.
LEMMA SymbolsKept ==
  ASSUME AgentTypes, SymbolInv,
         ReadTrace \/ ReceiveTrace \/ HandleDelivered
  PROVE  SymbolInv'
<1> USE DEF SymbolInv
<1>1. CASE ReadTrace
  <2>1. /\ \E raw, kernel :
             channel' = [pid |-> raw.pid, ktime |-> raw.ktime, kernel |-> kernel, left |-> kernel]
        /\ UNCHANGED <<transmittedFallbackSymbols, fallbackSymbols, shown, handling>>
    BY <1>1, Zenon DEF ReadTrace
  <2>2. channel'.kernel = channel'.left
    BY <2>1
  <2>3. SymbolsSent(channel)'
    BY <2>2, Zenon DEF SymbolsSent
  <2> QED
    BY <2>1, <2>3, ZenonT(40) DEF SymbolsSent, FallbackSent, LRU!Keys
<1>2. CASE ReceiveTrace
  BY <1>2 DEF ReceiveTrace, SymbolsSent, FallbackSent, LRU!Keys
<1>3. CASE HandleDelivered
  <2>1. /\ handling # Nothing /\ handling' = Nothing /\ shown' = shown \cup Elements(handling.kernel)
        /\ UNCHANGED <<transmittedFallbackSymbols, fallbackSymbols, channel>>
    BY <1>3, Zenon DEF HandleDelivered
  <2>2. \A i \in DOMAIN handling.kernel :
          handling.kernel[i] \in Symbolized => handling.kernel[i] \in fallbackSymbols
    BY <2>1 DEF SymbolsSent, AgentTypes
  <2> QED
    BY <2>1, <2>2, ZenonT(40) DEF SymbolsSent, FallbackSent, LRU!Keys, Elements
<1> QED
  BY <1>1, <1>2, <1>3, Zenon

----------------------------------------------------------------------------
\* What is on its way from the eBPF programs to the trace handler was captured before
\* its process was noticed to have exited, and its symbols are sent before it is.
THEOREM DeliveryInvariant == DeliverySpec => []DeliveryInv
<1>1. DeliveryInit => DeliveryInv
  BY DeliveryInitially, Zenon
<1>2. DeliveryInv /\ [DeliveryNext]_deliveryVars => DeliveryInv'
  <2> SUFFICES ASSUME ExitInv, SymbolInv, [DeliveryNext]_deliveryVars
               PROVE  ExitInv' /\ SymbolInv'
    BY Zenon DEF DeliveryInv
  <2>0. AgentTypes
    BY Zenon DEF ExitInv
  <2>1. UNCHANGED <<channel, handling, transmittedFallbackSymbols, fallbackSymbols,
  shown>> => SymbolInv'
    BY DEF SymbolInv, SymbolsSent, FallbackSent, LRU!Keys
  <2>2. ASSUME NEW c \in TraceCpu, NEW p \in TracePid, NEW ks \in KernelStack, TakeSample(c, p, ks)
        PROVE  ExitInv' /\ SymbolInv'
    BY <2>1, <2>2, TakeSampleStep, Zenon DEF TakeSample, agentSide
  <2>3. ASSUME NEW p \in TracePid, KernelExit(p)
        PROVE  ExitInv' /\ SymbolInv'
    BY <2>1, <2>3, KernelExitStep, Zenon DEF KernelExit, agentSide
  <2>4. ASSUME NEW p \in TracePid, ProcessPIDExit(p)
        PROVE  ExitInv' /\ SymbolInv'
    BY <2>1, <2>4, ProcessPIDExitStep, Zenon DEF ProcessPIDExit, agentSide
  <2>5. CASE Poll \/ Exhausted \/ ReadLost
    BY <2>1, <2>5, RingsStep, Zenon DEF Poll, Exhausted, ReadLost
  <2>6. CASE ReadTrace
    BY <2>0, <2>6, ReadTraceStep, SymbolsKept, Zenon
  <2>7. CASE InsertKernelFrame
    BY <2>0, <2>7, InsertKernelFrameStep, SymbolsStep, Zenon
  <2>8. CASE ReceiveTrace
    BY <2>0, <2>8, ReceiveTraceStep, SymbolsKept, Zenon
  <2>9. CASE HandleDelivered
    BY <2>0, <2>9, HandleDeliveredStep, SymbolsKept, Zenon
  <2>10. CASE UNCHANGED deliveryVars
    <3>1. ExitInv'
      BY <2>10, Zenon DEF deliveryVars, ExitInv, RingTypes, AgentTypes, ExitsNoticed,
         TracesTimely, Timely,
                   InstancesAwaitTraces
    <3> QED
      BY <2>1, <2>10, <3>1, Zenon DEF deliveryVars
  <2> QED
    BY <2>2, <2>3, <2>4, <2>5, <2>6, <2>7, <2>8, <2>9, <2>10, Zenon DEF DeliveryNext
<1> QED
  BY <1>1, <1>2, PTL DEF DeliverySpec

\* Interpreter instances outlast the traces of their process, if traces are handled in
\* the order they were captured in: for any number of CPUs and processes.
THEOREM InstancesOutlastTraces == DeliverySpec => []InstancesAwaitTraces
<1>1. DeliveryInv => InstancesAwaitTraces
  BY Zenon DEF DeliveryInv, ExitInv
<1> QED
  BY <1>1, DeliveryInvariant, PTL

\* The reporter was given the symbol of every kernel frame that is handled, however
\* few symbols transmittedFallbackSymbols remembers.
THEOREM KernelSymbolsAreSent == DeliverySpec => []FallbackSent
<1>1. DeliveryInv => FallbackSent
  BY Zenon DEF DeliveryInv, SymbolInv
<1> QED
  BY <1>1, DeliveryInvariant, PTL

============================================================================
