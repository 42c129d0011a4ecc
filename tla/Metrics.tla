------------------------------- MODULE Metrics -------------------------------
(***************************************************************************)
(* The agent's metrics: counters in eBPF maps and in the agent, the        *)
(* periodic collectors that turn them into values, and package metrics,    *)
(* which gathers the values of one second into a batch.  Collectors run in *)
(* goroutines of their own: each reads its counters, then the clock, and   *)
(* only then takes the lock of the batch.                                  *)
(***************************************************************************)
EXTENDS Integers, FiniteSets

CONSTANTS Collector,     \* the goroutines that hand in metrics
          IDsOf,         \* the metrics of each of them
          Cumulative,    \* those kept in eBPF, reported as differences
          MetricsBufferSize,
          MaxTime, MaxCount  \* bounds on the clock and on each counter

ID == UNION {IDsOf[c] : c \in Collector}

\* A metric is collected in one place.  The buffer has an entry for each possible
\* metric and one more.
ASSUME MetricsAssumption ==
         /\ DOMAIN IDsOf = Collector /\ IsFiniteSet(ID)
         /\ \A c, d \in Collector : IDsOf[c] \cap IDsOf[d] # {} => c = d
         /\ MetricsBufferSize \in Nat /\ Cardinality(ID) < MetricsBufferSize

VARIABLES
  clock,                          \* in seconds
  counter,                        \* per metric, what is to be collected
  previousMetricValue,            \* of the cumulative metrics
  hand,                           \* per collector: what it has read, and when
  prevTimestamp, metricsBuffer, metricIDSet,
  counted, reported, repeated,    \* totals per metric: events, sent, left out
  capped                          \* the buffer was full

metricsVars == <<clock, counter, previousMetricValue, hand, prevTimestamp, metricsBuffer,
                 metricIDSet, counted, reported, repeated, capped>>

Idle == [at |-> "idle", metrics |-> [id \in {} |-> 0], now |-> 0]

MetricsInit ==
  /\ clock = 1
  /\ counter = [id \in ID |-> 0] /\ previousMetricValue = [id \in ID |-> 0]
  /\ hand = [c \in Collector |-> Idle]
  /\ prevTimestamp = 0 /\ metricsBuffer = {} /\ metricIDSet = {}
  /\ counted = [id \in ID |-> 0] /\ reported = [id \in ID |-> 0] /\ repeated = [id \in ID |-> 0]
  /\ capped = FALSE

Tick ==
  /\ clock < MaxTime
  /\ clock' = clock + 1
  /\ UNCHANGED <<counter, previousMetricValue, hand, prevTimestamp, metricsBuffer, metricIDSet,
                 counted, reported, repeated, capped>>

----------------------------------------------------------------------------
\* The counters

RPCMetrics == {"WireBytesIn", "RPCBytesIn", "WireBytesOut", "RPCBytesOut"}

Increment(f, ids) == [id \in ID |-> IF id \in ids THEN f[id] + 1 ELSE f[id]]

\* One more of what the metric counts: an eBPF program, a perf reader or the lookup
\* of a kernel symbol increments its counter.
Count(id) ==
  /\ id \notin RPCMetrics /\ counted[id] < MaxCount
  /\ counter' = Increment(counter, {id})
  /\ counted' = Increment(counted, {id})
  /\ UNCHANGED <<clock, previousMetricValue, hand, prevTimestamp, metricsBuffer, metricIDSet,
                 reported, repeated, capped>>

\* HandleRPC: the bytes of a payload, on the wire and uncompressed.  For one that
\* goes out, only the counter of bytes on the wire is incremented.
HandleRPC(wire, rpc) ==
  /\ {wire, rpc} \subseteq ID /\ counted[wire] < MaxCount
  /\ counter' = Increment(counter, {wire, rpc} \ {"RPCBytesOut"})
  /\ counted' = Increment(counted, {wire, rpc})
  /\ UNCHANGED <<clock, previousMetricValue, hand, prevTimestamp, metricsBuffer, metricIDSet,
                 reported, repeated, capped>>

----------------------------------------------------------------------------
\* The collectors

\* eBPFMetricsCollector leaves out a metric that has not changed; a lookup may fail,
\* for the metrics of skip.
Difference(id) == IF id \in Cumulative THEN counter[id] - previousMetricValue[id] ELSE counter[id]

Collected(c, skip) ==
  [id \in {id \in IDsOf[c] \ skip : id \in Cumulative => Difference(id) # 0} |-> Difference(id)]

\* The counters kept in the agent are swapped for 0.
Swapped(c) == [id \in ID |-> IF id \in IDsOf[c] \ Cumulative THEN 0 ELSE counter[id]]

\* A plausible bug: the previous value is not kept.
CollectAgain(c) ==
  /\ hand[c] = Idle
  /\ \E skip \in SUBSET (IDsOf[c] \cap Cumulative) :
       /\ hand' = [hand EXCEPT ![c] = [at |-> "collected", metrics |-> Collected(c, skip), now |-> 0]]
       /\ counter' = Swapped(c)
  /\ UNCHANGED <<clock, previousMetricValue, prevTimestamp, metricsBuffer, metricIDSet, counted,
                 reported, repeated, capped>>

Collect(c) ==
  /\ hand[c] = Idle
  /\ \E skip \in SUBSET (IDsOf[c] \cap Cumulative) :
       /\ hand' = [hand EXCEPT ![c] = [at |-> "collected", metrics |-> Collected(c, skip), now |-> 0]]
       /\ previousMetricValue' =
            [id \in ID |-> IF id \in (IDsOf[c] \cap Cumulative) \ skip
                           THEN counter[id] ELSE previousMetricValue[id]]
       /\ counter' = Swapped(c)
  /\ UNCHANGED <<clock, prevTimestamp, metricsBuffer, metricIDSet, counted, reported, repeated, capped>>

----------------------------------------------------------------------------
\* AddSlice

\* The clock is read before the lock is taken.
ReadClock(c) ==
  /\ hand[c].at = "collected"
  /\ hand' = [hand EXCEPT ![c] = [at |-> "waiting", metrics |-> hand[c].metrics, now |-> clock]]
  /\ UNCHANGED <<clock, counter, previousMetricValue, prevTimestamp, metricsBuffer, metricIDSet,
                 counted, reported, repeated, capped>>

\* The value of a metric in a batch.
InBuffer(buffer, id) ==
  IF \E m \in buffer : m.id = id THEN (CHOOSE m \in buffer : m.id = id).value ELSE 0

\* report: the batch is sent, with the time it was begun.
Report == [id \in ID |-> reported[id] + InBuffer(metricsBuffer, id)]

\* Of new metrics, those that find room in a buffer of n entries.
Fitting(new, n) ==
  {kept \in SUBSET new : /\ n + Cardinality(kept) <= MetricsBufferSize
                         /\ kept = new \/ n + Cardinality(kept) = MetricsBufferSize}

\* The metrics of a collector are added to a buffer, those that are not in it and
\* for which it has room.  The field at, the second the metric is of, is not in
\* the code: it shows under which second the metric is sent.
AddMetrics(c, buffer, ids) ==
  LET metrics == hand[c].metrics
      new == DOMAIN metrics \ ids
  IN  \E kept \in Fitting(new, Cardinality(buffer)) :
        /\ metricsBuffer' = buffer \cup {[id |-> id, value |-> metrics[id], at |-> hand[c].now] : id \in kept}
        /\ metricIDSet' = ids \cup kept
        /\ repeated' = [id \in ID |-> repeated[id] + IF id \in DOMAIN metrics \cap ids THEN metrics[id] ELSE 0]
        /\ capped' = (capped \/ kept # new)

\* A plausible bug: a batch is closed only by a later second.
AddSliceLater(c) ==
  /\ hand[c].at = "waiting"
  /\ IF hand[c].now > prevTimestamp /\ metricsBuffer # {}
     THEN reported' = Report /\ AddMetrics(c, {}, {})
     ELSE UNCHANGED reported /\ AddMetrics(c, metricsBuffer, metricIDSet)
  /\ prevTimestamp' = IF hand[c].now > prevTimestamp THEN hand[c].now ELSE prevTimestamp
  /\ hand' = [hand EXCEPT ![c] = Idle]
  /\ UNCHANGED <<clock, counter, previousMetricValue, counted>>

\* With the lock held.
AddSlice(c) ==
  /\ hand[c].at = "waiting"
  /\ IF prevTimestamp # hand[c].now /\ metricsBuffer # {}
     THEN reported' = Report /\ AddMetrics(c, {}, {})
     ELSE UNCHANGED reported /\ AddMetrics(c, metricsBuffer, metricIDSet)
  /\ prevTimestamp' = hand[c].now
  /\ hand' = [hand EXCEPT ![c] = Idle]
  /\ UNCHANGED <<clock, counter, previousMetricValue, counted>>

MetricsNext ==
  \/ Tick \/ HandleRPC("WireBytesIn", "RPCBytesIn") \/ HandleRPC("WireBytesOut", "RPCBytesOut")
  \/ \E id \in ID : Count(id)
  \/ \E c \in Collector : Collect(c) \/ ReadClock(c) \/ AddSlice(c)

MetricsSpec == MetricsInit /\ [][MetricsNext]_metricsVars

----------------------------------------------------------------------------
\* Properties

\* A metric in the hands of its collector.
CollectorOf(id) == CHOOSE c \in Collector : id \in IDsOf[c]
ValueIn(metrics, id) == IF id \in DOMAIN metrics THEN metrics[id] ELSE 0
InHand(id) == ValueIn(hand[CollectorOf(id)].metrics, id)

\* What was counted is still to be collected, in the hands of a collector, in the
\* batch, sent, or left out as a repetition.
Accounted(id) ==
  counted[id] = Difference(id) + InHand(id) + InBuffer(metricsBuffer, id) + reported[id] + repeated[id]

\* Nothing that is counted is lost or counted twice on its way to the reporter.  The
\* exception that AddSlice makes is a metric handed in twice in a second.
MetricsAccounted == \A id \in ID \ {"RPCBytesOut"} : Accounted(id)

\* "Total number of uncompressed bytes in/out" (statsHandlerImpl), for those out.
RPCBytesCounted == "RPCBytesOut" \in ID => Accounted("RPCBytesOut")

\* A batch holds the metrics of one second, that it is sent under, each once, and
\* does not overflow ("Should not happen"): collectors that read the clock in one
\* order and take the lock in another do not mix seconds.
BatchIsOfOneSecond ==
  /\ \A m \in metricsBuffer : m.at = prevTimestamp
  /\ \A m, n \in metricsBuffer : m.id = n.id => m = n
  /\ ~capped
==============================================================================
