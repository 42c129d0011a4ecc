--------------------------- MODULE TraceReporting ----------------------------
(***************************************************************************)
(* From a trace read from eBPF to a profile sent to the collector: the     *)
(* goroutine of tracehandler, with its two caches, and the goroutine of    *)
(* the OTLP reporter, which share the reporter's caches traces and         *)
(* samples.  Each call of a synchronised cache is a step.                  *)
(*                                                                         *)
(* A sample is the number of a HandleTrace call, which is its timestamp    *)
(* too: no two share a second.  What a trace's frames are is abstracted to *)
(* whether the reporter has them, and a profile to the samples in it.      *)
(***************************************************************************)
EXTENDS Naturals, Sequences, LRUCache

CONSTANTS Trace,       \* the hashes eBPF traces have
          Hash,        \* the hashes converted traces have
          Conversions, \* the hashes ConvertTrace may return for a trace
          CacheSize,   \* TraceCacheEntries
          MaxSamples,  \* bound: how many traces are handled
          MayFail,     \* may Export fail?
          None

ASSUME TraceReportingAssumption ==
         /\ Conversions \in [Trace -> SUBSET Hash]
         /\ CacheSize \in Nat \ {0} /\ MaxSamples \in Nat /\ MayFail \in BOOLEAN
         /\ None \notin Hash

VARIABLES
  bpfTraceCache, umTraceCache, \* the caches of traceHandler
  traces,    \* OTLPReporter.traces: are the frames of a hash known?
  samples,   \* OTLPReporter.samples: the samples of a hash
  now,       \* how many traces were handled
  pc, hash, hit, peeked,              \* HandleTrace
  rpc, keys, copy, todo, missing,     \* getProfile and reportOTLPProfile
  startTS, endTS,
  exported,  \* history: how often each sample was exported
  dropped,   \* history: samples of failed exports and of evicted entries
  evicted,   \* history: hashes that traces has evicted
  raced      \* history: the goroutines met between two calls for one hash

handlerVars == <<bpfTraceCache, umTraceCache, pc, hash, hit, peeked, now>>
getVars == <<rpc, keys, copy, todo, missing>>
profileVars == <<startTS, endTS>>
history == <<exported, dropped, evicted, raced>>
reportingVars == <<traces, samples, handlerVars, getVars, profileVars, history>>

Sample == 1..MaxSamples
NoCopy == [h \in Hash |-> {}]
Copies == UNION {copy[h] : h \in Hash}

ReportingInit ==
  /\ bpfTraceCache = << >> /\ umTraceCache = << >>
  /\ traces = << >> /\ samples = << >>
  /\ now = 0 /\ pc = "idle" /\ hash = None /\ hit = FALSE /\ peeked = {}
  /\ rpc = "idle" /\ keys = << >> /\ copy = NoCopy /\ todo = {} /\ missing = {}
  /\ startTS = 0 /\ endTS = 0
  /\ exported = [n \in Sample |-> 0] /\ dropped = {} /\ evicted = {} /\ raced = FALSE

----------------------------------------------------------------------------
\* traceHandler.HandleTrace

\* The fast path, for a trace that was converted before, and the slow path.
HandleTrace(t) ==
  /\ pc = "idle" /\ now < MaxSamples
  /\ now' = now + 1
  /\ pc' = "count"
  /\ \/ /\ t \in Keys(bpfTraceCache)
        /\ hash' = Peek(bpfTraceCache, t) /\ hit' = TRUE
        /\ bpfTraceCache' = Get(bpfTraceCache, t)
     \/ /\ t \notin Keys(bpfTraceCache)
        /\ hash' \in Conversions[t] /\ hit' = FALSE
        /\ bpfTraceCache' = Add(bpfTraceCache, CacheSize, t, hash')
  /\ UNCHANGED <<traces, samples, umTraceCache, peeked, getVars, profileVars, history>>

\* A plausible bug: the frames of a trace are forgotten when it is counted.
CountForgetsFrames ==
  /\ pc = "count"
  /\ traces' = Add(traces, CacheSize, hash, FALSE)
  /\ evicted' = evicted \cup (Keys(traces) \ Keys(traces'))
  /\ pc' = "peek"
  /\ UNCHANGED <<samples, bpfTraceCache, umTraceCache, hash, hit, peeked, now, getVars, profileVars,
                 exported, dropped, raced>>

\* ReportCountForTrace: traces.Peek and traces.Add.  Only this goroutine adds to
\* traces, so nothing comes between the two.
CountTrace ==
  /\ pc = "count"
  /\ traces' = Add(traces, CacheSize, hash, hash \in Keys(traces) /\ Peek(traces, hash))
  /\ evicted' = evicted \cup (Keys(traces) \ Keys(traces'))
  /\ pc' = "peek"
  /\ UNCHANGED <<samples, bpfTraceCache, umTraceCache, hash, hit, peeked, now, getVars, profileVars,
                 exported, dropped, raced>>

\* samples.Peek
PeekSample ==
  /\ pc = "peek"
  /\ peeked' = IF hash \in Keys(samples) THEN Peek(samples, hash) ELSE {}
  /\ pc' = "add"
  /\ UNCHANGED <<traces, samples, bpfTraceCache, umTraceCache, hash, hit, now, getVars, profileVars, history>>

\* The samples in cache c for hashes other than h.
Others(c, h) == UNION {Peek(c, k) : k \in Keys(c) \ {h}}

\* samples.Add(h, s), by either goroutine: an eviction drops samples, unless
\* they were copied or are about to be written back.
AddTo(h, s) ==
  /\ samples' = Add(samples, CacheSize, h, s)
  /\ dropped' = dropped \cup (Others(samples, h) \ (Others(samples', h) \cup peeked \cup Copies))

\* samples.Add
AddSample ==
  /\ pc = "add"
  /\ AddTo(hash, peeked \cup {now})
  /\ raced' = (raced \/ (rpc = "remove" /\ Head(keys) = hash))
  /\ pc' = IF hit THEN "idle" ELSE "frames"
  /\ peeked' = {}
  /\ UNCHANGED <<traces, bpfTraceCache, umTraceCache, hash, hit, now, getVars, profileVars,
                 exported, evicted>>

\* A trace that the collector does not know yet: ReportFramesForTrace.
ReportFrames ==
  /\ pc = "frames"
  /\ \/ /\ hash \in Keys(umTraceCache)
        /\ umTraceCache' = Get(umTraceCache, hash)
        /\ UNCHANGED <<traces, evicted>>
     \/ /\ hash \notin Keys(umTraceCache)
        /\ traces' = Add(traces, CacheSize, hash, TRUE)
        /\ evicted' = evicted \cup (Keys(traces) \ Keys(traces'))
        /\ umTraceCache' = Add(umTraceCache, CacheSize, hash, TRUE)
  /\ pc' = "idle"
  /\ UNCHANGED <<samples, bpfTraceCache, hash, hit, peeked, now, getVars, profileVars,
                 exported, dropped, raced>>

----------------------------------------------------------------------------
\* OTLPReporter.reportOTLPProfile: getProfile copies and removes the samples ...

Tick ==
  /\ rpc = "idle"
  /\ keys' = [i \in DOMAIN samples |-> samples[i].key]
  /\ rpc' = "get"
  /\ UNCHANGED <<traces, samples, handlerVars, copy, todo, missing, profileVars, history>>

GetSample ==
  /\ rpc = "get" /\ keys # << >>
  /\ LET k == Head(keys) IN
     \/ /\ k \in Keys(samples)
        /\ copy' = [copy EXCEPT ![k] = Peek(samples, k)]
        /\ samples' = Get(samples, k)
        /\ rpc' = "remove"
        /\ UNCHANGED keys
     \/ /\ k \notin Keys(samples)
        /\ keys' = Tail(keys)
        /\ UNCHANGED <<copy, samples, rpc>>
  /\ UNCHANGED <<traces, handlerVars, todo, missing, profileVars, history>>

\* The handler has read the samples of h and is about to write them back.
BeingAdded(h) == pc = "add" /\ hash = h

RemoveSample ==
  /\ rpc = "remove"
  /\ samples' = Remove(samples, Head(keys))
  /\ raced' = (raced \/ BeingAdded(Head(keys)))
  /\ rpc' = "get" /\ keys' = Tail(keys)
  /\ UNCHANGED <<traces, handlerVars, copy, todo, missing, profileVars, exported, dropped, evicted>>

\* ... returns those without trace information ...

Copied == {h \in Hash : copy[h] # {}}

CheckTraces ==
  /\ rpc = "get" /\ keys = << >>
  /\ rpc' = "check" /\ todo' = Copied
  /\ UNCHANGED <<traces, samples, handlerVars, keys, copy, missing, profileVars, history>>

CheckTrace(h) ==
  /\ rpc = "check" /\ h \in todo
  /\ todo' = todo \ {h}
  /\ missing' = IF h \in Keys(traces) THEN missing ELSE missing \cup {h}
  /\ UNCHANGED <<traces, samples, handlerVars, rpc, keys, copy, profileVars, history>>

\* A plausible bug: the samples are returned, and reported none the less.
ReturnKeepsCopy(h) ==
  /\ rpc = "check" /\ todo = {} /\ h \in missing
  /\ AddTo(h, copy[h])
  /\ raced' = (raced \/ BeingAdded(h) \/ h \in Keys(samples))
  /\ missing' = missing \ {h}
  /\ UNCHANGED <<traces, handlerVars, rpc, keys, todo, copy, profileVars, exported, evicted>>

ReturnSample(h) ==
  /\ rpc = "check" /\ todo = {} /\ h \in missing
  /\ AddTo(h, copy[h])
  /\ raced' = (raced \/ BeingAdded(h) \/ h \in Keys(samples))
  /\ copy' = [copy EXCEPT ![h] = {}]
  /\ missing' = missing \ {h}
  /\ UNCHANGED <<traces, handlerVars, rpc, keys, todo, profileVars, exported, evicted>>

\* ... and makes a profile of the others.

BuildProfile ==
  /\ rpc = "check" /\ todo = {} /\ missing = {}
  /\ rpc' = "build" /\ todo' = Copied
  /\ UNCHANGED <<traces, samples, handlerVars, keys, copy, missing, profileVars, history>>

\* traces.Get and the loop over the timestamps of a sample, which ascend: the
\* one that becomes startTS is not compared with endTS.
BuildSample(h) ==
  /\ rpc = "build" /\ h \in todo
  /\ todo' = todo \ {h}
  /\ traces' = Get(traces, h)
  /\ \E first \in copy[h] :
       LET earlier == startTS = 0 \/ first < startTS
           ends == {endTS} \cup (IF earlier THEN copy[h] \ {first} ELSE copy[h])
       IN  /\ \A n \in copy[h] : first <= n
           /\ startTS' = IF earlier THEN first ELSE startTS
           /\ endTS' \in ends /\ \A n \in ends : n <= endTS'
  /\ UNCHANGED <<samples, handlerVars, rpc, keys, copy, missing, history>>

\* A plausible bug: a profile that could not be exported is built and sent again,
\* without end.
ExportRetries ==
  /\ rpc = "build" /\ todo = {}
  /\ \/ /\ exported' = [n \in Sample |-> IF n \in Copies THEN 1 ELSE exported[n]]
        /\ rpc' = "idle" /\ copy' = NoCopy /\ todo' = {}
     \/ /\ MayFail /\ Copied # {}
        /\ rpc' = "check" /\ todo' = Copied
        /\ UNCHANGED <<exported, copy>>
  /\ startTS' = 0 /\ endTS' = 0
  /\ UNCHANGED <<traces, samples, handlerVars, keys, missing, dropped, evicted, raced>>

\* client.Export, unless the profile is empty.  Nothing is kept for a retry.
Export ==
  /\ rpc = "build" /\ todo = {}
  /\ \/ /\ exported' = [n \in Sample |-> IF n \in Copies /\ exported[n] < 2
                                         THEN exported[n] + 1 ELSE exported[n]]
        /\ UNCHANGED dropped
     \/ /\ MayFail /\ Copied # {}
        /\ dropped' = dropped \cup Copies
        /\ UNCHANGED exported
  /\ rpc' = "idle" /\ copy' = NoCopy
  /\ startTS' = 0 /\ endTS' = 0
  /\ UNCHANGED <<traces, samples, handlerVars, keys, todo, missing, evicted, raced>>

----------------------------------------------------------------------------
HandlerStep == CountTrace \/ PeekSample \/ AddSample \/ ReportFrames

ReporterStep == \/ GetSample \/ RemoveSample \/ CheckTraces \/ BuildProfile \/ Export
                \/ \E h \in Hash : CheckTrace(h) \/ ReturnSample(h) \/ BuildSample(h)

ReportingNext == (\E t \in Trace : HandleTrace(t)) \/ HandlerStep \/ Tick \/ ReporterStep

ReportingSpec == ReportingInit /\ [][ReportingNext]_reportingVars

\* Both goroutines finish what they do, and the ticker ticks.
ReportingFairness ==
  WF_reportingVars(HandlerStep) /\ WF_reportingVars(Tick) /\ WF_reportingVars(ReporterStep)

----------------------------------------------------------------------------
\* Properties

\* The handler has counted a trace and will report its frames.
FramesComing(h) == pc \in {"peek", "add", "frames"} /\ hash = h /\ ~hit

\* Counting a trace never separates it from its frames: the reporter lacks the
\* frames of a trace it counts only while HandleTrace is about to report them,
\* or after it has evicted the trace.
FramesFollow ==
  \A h \in Keys(traces) : Peek(traces, h) \/ FramesComing(h) \/ h \in evicted

\* The samples that wait in the cache, or to be written back to it: the entry they
\* were read from may have been evicted by then.  Between samples.Get and
\* samples.Remove the samples of a hash are in two places, and count as copied.
Taken(h) == rpc = "remove" /\ Head(keys) = h
Waiting == (UNION {Peek(samples, h) : h \in {k \in Keys(samples) : ~Taken(k)}}) \cup (peeked \ Copies)

\* The number of places where sample n is.
Places(n) ==
  (IF n \in Waiting THEN 1 ELSE 0) + (IF n \in Copies THEN 1 ELSE 0)
  + (IF n \in dropped THEN 1 ELSE 0) + exported[n]

\* Samples are neither lost nor reported twice: each is waiting, in a profile
\* that is being built, exported once, or gone with an eviction or a failed
\* export.  The exception is a HandleTrace that reads and writes the samples of
\* a hash while getProfile takes or returns those of the same hash.  A finished
\* profile starts with the earliest of its samples, in whatever order its hashes are met.
ExactlyOnce ==
  /\ ~raced => \A n \in 1..now :
                 Places(n) = IF n = now /\ pc \in {"count", "peek", "add"} THEN 0 ELSE 1
  /\ rpc = "build" /\ todo = {} /\ Copied # {} =>
       startTS \in Copies /\ \A n \in Copies : startTS <= n

\* A sample leaves the agent in the end, unless its trace was evicted, which
\* makes getProfile return it to the cache each time.
SamplesLeave ==
  \A n \in Sample : n <= now ~>
    \/ exported[n] > 0 \/ n \in dropped \/ raced
    \/ \E h \in Keys(samples) \cap evicted : n \in Peek(samples, h)
=============================================================================
