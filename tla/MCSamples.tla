----------------------------- MODULE MCSamples -------------------------------
(***************************************************************************)
(* The way of a sample.  Either traces are on their way from two CPUs to   *)
(* the trace handler, two kernel stacks with the same ID among them; or    *)
(* they are handled and reported: t1 and t2 convert to traces of their own *)
(* or, when their interpreter is gone, to the unsymbolised one that t3     *)
(* converts to.                                                            *)
(***************************************************************************)
EXTENDS TraceDelivery, TraceReporting, TLC

CONSTANTS t1, t2, t3, h1, h2, u

MCConversions == t1 :> {h1, u} @@ t2 :> {h2, u} @@ t3 :> {u}
MCKernelStack == {<<"a">>, <<"b", "a">>}
MCStackID(ks) == 1

NoDelivery ==
  /\ ktime = MaxKTime /\ running = {} /\ rings = [c \in TraceCpu |-> << >>]
  /\ overflow = [c \in TraceCpu |-> 0] /\ kernelStackmap = << >>
  /\ reading = Nothing /\ toRead = {} /\ lostEventsCount = 0 /\ channel = Nothing /\ handling = Nothing
  /\ exitEvents = << >> /\ instances = {} /\ completed = 0
  /\ transmittedFallbackSymbols = << >> /\ fallbackSymbols = {} /\ shown = {}
  /\ reordered = FALSE /\ early = FALSE

NoReporting ==
  /\ bpfTraceCache = << >> /\ umTraceCache = << >> /\ traces = << >> /\ samples = << >>
  /\ now = MaxSamples /\ pc = "idle" /\ hash = None /\ hit = FALSE /\ peeked = {}
  /\ rpc = "none" /\ keys = << >> /\ copy = NoCopy /\ todo = {} /\ missing = {}
  /\ startTS = 0 /\ endTS = 0
  /\ exported = [n \in Sample |-> 0] /\ dropped = {} /\ evicted = {} /\ raced = TRUE

MCInit == (DeliveryInit /\ NoReporting) \/ (NoDelivery /\ ReportingInit)

MCNext == \/ DeliveryNext /\ UNCHANGED reportingVars
          \/ ReportingNext /\ UNCHANGED deliveryVars

MCSpec == MCInit /\ [][MCNext]_<<deliveryVars, reportingVars>> /\ ReportingFairness
==============================================================================
