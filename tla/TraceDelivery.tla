---------------------------- MODULE TraceDelivery ----------------------------
(***************************************************************************)
(* A sample on its way from the eBPF programs to the trace handler: the    *)
(* perf ring of its CPU, the poll that empties one ring after the other,   *)
(* the kernel stack that the sample names by an ID, and the exit of its    *)
(* process, which is acted upon when the traces up to it have been         *)
(* handled.                                                                *)
(***************************************************************************)
EXTENDS Naturals, Sequences

CONSTANTS TraceCpu, TracePid,
          KernelStack,    \* sequences of kernel addresses
          StackID(_),     \* the hash of a kernel stack
          Symbolized,     \* the addresses in a module with a file ID and a symbol
          TraceRingSize,  \* in samples
          LRUSize,        \* of transmittedFallbackSymbols
          MaxKTime,       \* bound on what happens in the kernel
          Nothing

LRU == INSTANCE LRUCache

Elements(s) == {s[i] : i \in DOMAIN s}
Addresses == UNION {Elements(ks) : ks \in KernelStack}

ASSUME TraceDeliveryAssumption ==
         KernelStack \subseteq Seq(Addresses) /\ LRUSize \in Nat /\ Nothing \notin TraceCpu

VARIABLES
  ktime,                       \* the kernel's clock
  running,                     \* the processes
  rings, overflow,             \* per CPU: its samples, and how many had no room
  kernelStackmap,              \* the eBPF map kernel_stackmap
  reading, toRead,             \* of this poll, the ring that is read and those that follow
  lostEventsCount,
  channel, handling,           \* the trace being made for the handler, and the one it has
  exitEvents, instances,       \* of the process manager
  completed,                   \* the latest time SymbolizationComplete was told
  transmittedFallbackSymbols, fallbackSymbols,
  shown,                       \* the kernel addresses of the traces handled
  reordered, early             \* a trace came after a later one; or too late for its instances

deliveryVars == <<ktime, running, rings, overflow, kernelStackmap, reading, toRead, lostEventsCount,
                  channel, handling, exitEvents, instances, completed, transmittedFallbackSymbols,
                  fallbackSymbols, shown, reordered, early>>
kernelVars == <<ktime, running, rings, overflow, kernelStackmap>>
agentSide == <<reading, toRead, lostEventsCount, channel, handling, transmittedFallbackSymbols,
               fallbackSymbols, shown>>
exitVars == <<exitEvents, instances, completed, reordered, early>>

DeliveryInit ==
  /\ ktime = 1 /\ running = TracePid
  /\ rings = [c \in TraceCpu |-> << >>] /\ overflow = [c \in TraceCpu |-> 0]
  /\ kernelStackmap = << >>
  /\ reading = Nothing /\ toRead = {} /\ lostEventsCount = 0 /\ channel = Nothing /\ handling = Nothing
  /\ exitEvents = << >> /\ instances = TracePid /\ completed = 0
  /\ transmittedFallbackSymbols = << >> /\ fallbackSymbols = {} /\ shown = {}
  /\ reordered = FALSE /\ early = FALSE

----------------------------------------------------------------------------
\* In the kernel

Put(f, k, v) == [x \in DOMAIN f \cup {k} |-> IF x = k THEN v ELSE f[x]]
Drop(f, ks) == [x \in DOMAIN f \ ks |-> f[x]]

\* A sample.  bpf_get_stackid, with BPF_F_REUSE_STACKID, puts its kernel stack in the
\* place of another one of the same ID; it may fail.  A ring that is full counts.
TakeSample(c, p, ks) ==
  /\ p \in running /\ ktime < MaxKTime
  /\ ktime' = ktime + 1
  /\ \E id \in {StackID(ks), Nothing} :
       /\ kernelStackmap' = IF id = Nothing THEN kernelStackmap ELSE Put(kernelStackmap, id, ks)
       /\ IF Len(rings[c]) < TraceRingSize
          THEN /\ rings' = [rings EXCEPT ![c] = Append(@, [pid |-> p, ktime |-> ktime, kstack |-> id])]
               /\ UNCHANGED overflow
          ELSE /\ overflow' = [overflow EXCEPT ![c] = @ + 1]
               /\ UNCHANGED rings
  /\ UNCHANGED <<running, agentSide, exitVars>>

KernelExit(p) ==
  /\ p \in running /\ ktime < MaxKTime
  /\ ktime' = ktime + 1
  /\ running' = running \ {p}
  /\ UNCHANGED <<rings, overflow, kernelStackmap, agentSide, exitVars>>

----------------------------------------------------------------------------
\* startPollingPerfEventMonitor: a tick, and the records of the rings that have any.

ReadRing(c, others) == reading' = c /\ toRead' = others \ {c}

Poll ==
  /\ reading = Nothing
  /\ LET ready == {c \in TraceCpu : rings[c] # << >> \/ overflow[c] # 0}
     IN  \E c \in ready : ReadRing(c, ready)
  /\ UNCHANGED <<kernelVars, lostEventsCount, channel, handling, transmittedFallbackSymbols,
                 fallbackSymbols, shown, exitVars>>

\* The next ring, in whichever order epoll names them.
Exhausted ==
  /\ reading # Nothing /\ channel = Nothing
  /\ rings[reading] = << >> /\ overflow[reading] = 0
  /\ \/ toRead = {} /\ ReadRing(Nothing, {})
     \/ \E c \in toRead : ReadRing(c, toRead)
  /\ UNCHANGED <<kernelVars, lostEventsCount, channel, handling, transmittedFallbackSymbols,
                 fallbackSymbols, shown, exitVars>>

\* A record of lost samples follows those that had room.
ReadLost ==
  /\ reading # Nothing /\ channel = Nothing
  /\ rings[reading] = << >> /\ overflow[reading] # 0
  /\ lostEventsCount' = lostEventsCount + overflow[reading]
  /\ overflow' = [overflow EXCEPT ![reading] = 0]
  /\ UNCHANGED <<ktime, running, rings, kernelStackmap, reading, toRead, channel, handling,
                 transmittedFallbackSymbols, fallbackSymbols, shown, exitVars>>

\* insertKernelFrames: the kernel stack that the ID names by now, nothing if the
\* lookup fails.
KernelFrames(id) == IF id = Nothing THEN {<< >>} ELSE {kernelStackmap[id], << >>}

\* loadBpfTrace, with the kernel frames before the others.  Those that are left are
\* yet to be looked at.
ReadTrace ==
  /\ reading # Nothing /\ channel = Nothing /\ rings[reading] # << >>
  /\ LET raw == Head(rings[reading])
     IN  \E kernel \in KernelFrames(raw.kstack) :
           channel' = [pid |-> raw.pid, ktime |-> raw.ktime, kernel |-> kernel, left |-> kernel]
  /\ rings' = [rings EXCEPT ![reading] = Tail(@)]
  /\ UNCHANGED <<ktime, running, overflow, kernelStackmap, reading, toRead, lostEventsCount, handling,
                 transmittedFallbackSymbols, fallbackSymbols, shown, exitVars>>

\* A plausible bug: a symbol counts as transmitted when another one is.
TransmitOnce(a) ==
  IF a \in Symbolized /\ LRU!Keys(transmittedFallbackSymbols) = {}
  THEN /\ transmittedFallbackSymbols' = LRU!Add(transmittedFallbackSymbols, LRUSize, a, TRUE)
       /\ fallbackSymbols' = fallbackSymbols \cup {a}
  ELSE UNCHANGED <<transmittedFallbackSymbols, fallbackSymbols>>

\* reportFallbackKernelSymbol
Transmit(a) ==
  IF a \in Symbolized /\ a \notin LRU!Keys(transmittedFallbackSymbols)
  THEN /\ transmittedFallbackSymbols' = LRU!Add(transmittedFallbackSymbols, LRUSize, a, TRUE)
       /\ fallbackSymbols' = fallbackSymbols \cup {a}
  ELSE UNCHANGED <<transmittedFallbackSymbols, fallbackSymbols>>

\* The next kernel frame of the trace.
InsertKernelFrame ==
  /\ channel # Nothing /\ channel.left # << >>
  /\ Transmit(Head(channel.left))
  /\ channel' = [channel EXCEPT !.left = Tail(@)]
  /\ UNCHANGED <<kernelVars, reading, toRead, lostEventsCount, handling, shown, exitVars>>

----------------------------------------------------------------------------
\* The process manager and the trace handler

\* ProcessPIDExit: the time it is called stands for that of the exit.
ProcessPIDExit(p) ==
  /\ p \notin running /\ p \in instances /\ p \notin DOMAIN exitEvents
  /\ exitEvents' = Put(exitEvents, p, ktime)
  /\ UNCHANGED <<kernelVars, agentSide, instances, completed, reordered, early>>

\* A plausible bug: every exit event is acted upon.
SymbolizationCompleteAll(t) ==
  /\ exitEvents' = << >>
  /\ instances' = instances \ DOMAIN exitEvents

SymbolizationComplete(t) ==
  LET over == {p \in DOMAIN exitEvents : exitEvents[p] <= t}
  IN  /\ exitEvents' = Drop(exitEvents, over)
      /\ instances' = instances \ over

\* The handler's goroutine takes the trace from the channel, which has no buffer.
ReceiveTrace ==
  /\ channel # Nothing /\ channel.left = << >> /\ handling = Nothing
  /\ handling' = channel /\ channel' = Nothing
  /\ UNCHANGED <<kernelVars, reading, toRead, lostEventsCount, transmittedFallbackSymbols, fallbackSymbols,
                 shown, exitVars>>

\* HandleTrace, and SymbolizationComplete, which it defers.
HandleDelivered ==
  /\ handling # Nothing
  /\ SymbolizationComplete(handling.ktime)
  /\ completed' = IF handling.ktime > completed THEN handling.ktime ELSE completed
  /\ shown' = shown \cup Elements(handling.kernel)
  /\ reordered' = (reordered \/ handling.ktime < completed)
  /\ early' = (early \/ handling.pid \notin instances)
  /\ handling' = Nothing
  /\ UNCHANGED <<kernelVars, reading, toRead, lostEventsCount, channel, transmittedFallbackSymbols,
                 fallbackSymbols>>

DeliveryNext ==
  \/ \E c \in TraceCpu, p \in TracePid, ks \in KernelStack : TakeSample(c, p, ks)
  \/ \E p \in TracePid : KernelExit(p) \/ ProcessPIDExit(p)
  \/ Poll \/ Exhausted \/ ReadLost \/ ReadTrace \/ InsertKernelFrame \/ ReceiveTrace \/ HandleDelivered

DeliverySpec == DeliveryInit /\ [][DeliveryNext]_deliveryVars

----------------------------------------------------------------------------
\* Properties

\* The interpreter instances of a process that has exited stay until its traces have
\* been converted, as long as traces are handled in the order they were captured in:
\* an instance is gone too early only if a trace of another CPU's ring overtook.
InstancesAwaitTraces == early => reordered

\* The symbol of every kernel frame that is handled, if it has one, was given to the
\* reporter, whichever the bounded list of transmitted symbols has forgotten.
FallbackSent == shown \cap Symbolized \subseteq fallbackSymbols

\* "The timestamp is in essence an indicator that all Traces until that time have been
\* now processed" (tracehandler.TraceProcessor): no ring holds an earlier one.
CompletedMeansProcessed ==
  \A c \in TraceCpu, i \in 1..TraceRingSize :
    i \in DOMAIN rings[c] => rings[c][i].ktime > completed
==============================================================================
