---------------------------- MODULE ReporterProofs ----------------------------
(***************************************************************************)
(* The reporter, whatever the sizes of its queues and caches: the queue of *)
(* the gRPC reporter loses only its oldest elements; no frames are lost    *)
(* between the caches of the trace handler and of the OTLP reporter, and   *)
(* no sample is lost or reported twice between their goroutines.           *)
(***************************************************************************)
EXTENDS FifoRingBuffer, TraceReporting, TLAPS

----------------------------------------------------------------------------
\* Traces and samples

IsCache(c, K, V) ==
  /\ c \in Seq([key : K, val : V])
  /\ \A i, j \in DOMAIN c : c[i].key = c[j].key => i = j

CachesType ==
  /\ IsCache(bpfTraceCache, Trace, Hash) /\ IsCache(umTraceCache, Hash, {TRUE})
  /\ IsCache(traces, Hash, BOOLEAN)

SamplesType == IsCache(samples, Hash, SUBSET Sample)

HandlerType ==
  /\ now \in 0..MaxSamples /\ peeked \in SUBSET Sample
  /\ pc # "idle" => hash \in Hash /\ now # 0

ProfileType == keys \in Seq(Hash) /\ copy \in [Hash -> SUBSET Sample]

ReportingType == CachesType /\ SamplesType /\ HandlerType /\ ProfileType

\* The frames of h are with the reporter, unless it has evicted the trace.
Known(h) == h \in evicted \/ (h \in Keys(traces) /\ Peek(traces, h))

\* A trace that the caches of the handler remember has its frames reported.
FramesInv ==
  /\ \A h \in Keys(traces) : Known(h) \/ FramesComing(h)
  /\ \A h \in Keys(umTraceCache) : Known(h)
  /\ \A t \in Keys(bpfTraceCache) :
       LET h == Peek(bpfTraceCache, t) IN Known(h) \/ (pc # "idle" /\ hash = h /\ ~hit)
  /\ hit /\ pc # "idle" => Known(hash)

\* The samples of h in the cache.
HeldIn(s, h) == IF h \in Keys(s) THEN Peek(s, h) ELSE {}
Held(h) == HeldIn(samples, h)

\* The samples that HandleTrace has added, and where they are.
Handled == IF pc \in {"count", "peek", "add"} THEN 1..now - 1 ELSE 1..now
InCache(n) == \E h \in Hash : n \in Held(h) /\ ~Taken(h)
Wait(n) == InCache(n) \/ (n \in peeked /\ n \notin Copies)
Out(n) == exported[n] # 0

\* Sample n is in one place, once it was added.
Placed(n) ==
  /\ n \in Handled <=> Wait(n) \/ n \in Copies \/ n \in dropped \/ Out(n)
  /\ Wait(n) => n \notin Copies /\ n \notin dropped /\ ~Out(n)
  /\ n \in Copies => n \notin dropped /\ ~Out(n)
  /\ n \in dropped => ~Out(n)
  /\ exported[n] \in {0, 1}

PlaceInv == \A n \in Sample : Placed(n)

\* A sample is with one hash.
HashInv ==
  /\ \A g, h \in Hash : g # h => Held(g) \cap Held(h) = {} /\ copy[g] \cap copy[h] = {}
  /\ \A h \in Hash : Taken(h) => Held(h) \subseteq copy[h]

\* What HandleTrace has read is what it overwrites.
PeekInv ==
  /\ pc # "add" => peeked = {}
  /\ \A h \in Hash : BeingAdded(h) =>
       /\ Held(h) \subseteq peeked
       /\ peeked \cap Copies = {} \/ Taken(h)
       /\ \A g \in Hash : g # h => Held(g) \cap peeked = {}

\* getProfile has not met the keys that are left.
KeysInv ==
  /\ \A i, j \in DOMAIN keys : keys[i] = keys[j] => i = j
  /\ rpc = "idle" => copy = NoCopy
  /\ rpc = "get" => \A i \in DOMAIN keys : copy[keys[i]] = {}
  /\ rpc = "remove" => keys # << >> /\ \A i \in DOMAIN keys \ {1} : copy[keys[i]] = {}

SamplesInv == ~raced => PlaceInv /\ HashInv /\ PeekInv

Built == UNION {copy[h] : h \in Copied \ todo}

\* The start of the profile as far as it is built.
TimesInv ==
  /\ startTS \in Nat /\ (rpc # "build" => startTS = 0)
  /\ rpc = "build" => /\ todo \subseteq Copied
                      /\ Built = {} => startTS = 0
                      /\ Built # {} => startTS \in Built /\ \A n \in Built : startTS <= n

ReportingInv == ReportingType /\ FramesInv /\ KeysInv /\ SamplesInv /\ TimesInv

----------------------------------------------------------------------------
\* Caches: lists of entries with different keys.

\* Peek finds the value of an entry.
LEMMA PeekIs ==
  ASSUME NEW K, NEW V, NEW c, IsCache(c, K, V), NEW i \in DOMAIN c
  PROVE  Position(c, c[i].key) = i /\ Peek(c, c[i].key) = c[i].val
  BY Zenon DEF IsCache, Position, Peek

\* The entries of a cache have keys and values of their types.
LEMMA EntryOf ==
  ASSUME NEW K, NEW V, NEW c, IsCache(c, K, V)
  PROVE  /\ Len(c) \in Nat /\ DOMAIN c = 1..Len(c)
         /\ \A i \in DOMAIN c : c[i] \in [key : K, val : V] /\ c[i].key \in K /\ c[i].val \in V
<1> DEFINE R == [key : K, val : V]
<1>1. c \in Seq(R)
  BY Zenon DEF IsCache
<1>2. \A e \in R : e.key \in K /\ e.val \in V
  BY Zenon
<1> HIDE DEF R
<1>3. Len(c) \in Nat /\ DOMAIN c = 1..Len(c) /\ \A i \in DOMAIN c : c[i] \in R
  BY <1>1
<1> QED
  BY <1>2, <1>3, Zenon DEF R

\* Position finds the entry of a key.
LEMMA KeyOf ==
  ASSUME NEW K, NEW V, NEW c, IsCache(c, K, V), NEW k \in Keys(c)
  PROVE  /\ Position(c, k) \in DOMAIN c /\ c[Position(c, k)].key = k
         /\ k \in K /\ Peek(c, k) \in V
<1>1. Position(c, k) \in DOMAIN c /\ c[Position(c, k)].key = k
  BY Zenon DEF Keys, Position
<1>2. c[Position(c, k)].key \in K /\ c[Position(c, k)].val \in V
  BY <1>1, EntryOf, Zenon
<1> QED
  BY <1>1, <1>2, Zenon DEF Peek

\* Remove takes out one entry.
LEMMA RemoveIs ==
  ASSUME NEW K, NEW V, NEW c, IsCache(c, K, V), NEW k
  PROVE  /\ IsCache(Remove(c, k), K, V)
         /\ Keys(Remove(c, k)) = Keys(c) \ {k}
         /\ \A j \in Keys(c) \ {k} : Peek(Remove(c, k), j) = Peek(c, j)
<1>1. CASE k \notin Keys(c)
  BY <1>1, Zenon DEF Remove
<1>2. CASE k \in Keys(c)
  <2> DEFINE p == Position(c, k)
             r == [i \in 1..Len(c) - 1 |-> c[IF i < p THEN i ELSE i + 1]]
  <2>1. Remove(c, k) = r
    BY <1>2, Zenon DEF Remove
  <2>2. Len(c) \in Nat /\ DOMAIN c = 1..Len(c) /\ p \in 1..Len(c) /\ c[p].key = k
    BY <1>2, KeyOf, EntryOf
  <2>3. \A i \in 1..Len(c) : c[i] \in [key : K, val : V]
    BY EntryOf
  <2>4. DOMAIN r = 1..Len(c) - 1 /\ Len(c) - 1 \in Nat
    BY <2>2
  <2>5. \A i \in DOMAIN r : i < p => r[i] = c[i]
    BY <2>4, Zenon
  <2>6. \A i \in DOMAIN r : ~(i < p) => r[i] = c[i + 1]
    BY <2>4, Zenon
  <2> HIDE DEF r
  <2>7. \A i \in DOMAIN r : r[i] \in [key : K, val : V]
    BY <2>2, <2>3, <2>4, <2>5, <2>6
  <2>8. r \in Seq([key : K, val : V])
    <3>1. r = [i \in 1..Len(c) - 1 |-> r[i]]
      BY <2>4, Zenon DEF r
    <3> QED
      BY <2>4, <2>7, <3>1
  <2>9. \A i \in DOMAIN r : r[i].key # k
    BY <2>2, <2>4, <2>5, <2>6 DEF IsCache
  <2>10. \A i, j \in DOMAIN r : r[i].key = r[j].key => i = j
    BY SMTT(30), <2>2, <2>4, <2>5, <2>6 DEF IsCache
  <2>11. IsCache(r, K, V)
    BY <2>8, <2>10, Zenon DEF IsCache
  <2>12. ASSUME NEW j \in Keys(c), j # k
         PROVE  j \in Keys(r) /\ Peek(r, j) = Peek(c, j)
    <3>1. PICK i \in 1..Len(c) : c[i].key = j
      BY <2>2, Zenon DEF Keys
    <3>2. Peek(c, j) = c[i].val
      BY <2>2, <3>1, PeekIs
    <3>3. CASE i < p
      <4>1. i \in DOMAIN r /\ r[i] = c[i]
        BY <2>2, <2>4, <2>5, <3>3
      <4> QED
        BY <2>11, <3>1, <3>2, <4>1, PeekIs DEF Keys
    <3>4. CASE i > p
      <4>1. i - 1 \in DOMAIN r /\ r[i - 1] = c[i]
        BY <2>2, <2>4, <2>6, <3>4
      <4> QED
        BY <2>11, <3>1, <3>2, <4>1, PeekIs DEF Keys
    <3> QED
      BY <2>2, <2>12, <3>1, <3>3, <3>4
  <2>13. ASSUME NEW j \in Keys(r)
         PROVE  j \in Keys(c) \ {k}
    <3>1. PICK i \in DOMAIN r : r[i].key = j
      BY Zenon DEF Keys
    <3> QED
      BY <2>2, <2>4, <2>5, <2>6, <2>9, <3>1 DEF Keys
  <2> QED
    BY <2>1, <2>11, <2>12, <2>13, Zenon
<1> QED
  BY <1>1, <1>2, Zenon

\* An entry that is added comes last.
LEMMA AppendIs ==
  ASSUME NEW K, NEW V, NEW c, IsCache(c, K, V), NEW k \in K, NEW v \in V, k \notin Keys(c)
  PROVE  LET a == Append(c, [key |-> k, val |-> v])
         IN  /\ IsCache(a, K, V) /\ Keys(a) = Keys(c) \cup {k} /\ Len(a) = Len(c) + 1
             /\ a[Len(a)].key = k /\ Peek(a, k) = v
             /\ \A j \in Keys(c) : Peek(a, j) = Peek(c, j)
<1> DEFINE a == Append(c, [key |-> k, val |-> v])
<1>1. /\ a \in Seq([key : K, val : V]) /\ Len(c) \in Nat /\ Len(a) = Len(c) + 1
      /\ DOMAIN a = 1..Len(c) + 1 /\ DOMAIN c = 1..Len(c)
      /\ a[Len(c) + 1] = [key |-> k, val |-> v]
  BY DEF IsCache
<1>2. \A i \in 1..Len(c) : a[i] = c[i]
  BY <1>1 DEF IsCache
<1> HIDE DEF a
<1>3. \A i \in 1..Len(c) : c[i].key # k
  BY <1>1, Zenon DEF Keys
<1>4. IsCache(a, K, V)
  BY <1>1, <1>2, <1>3 DEF IsCache
<1>5. Peek(a, k) = v /\ k \in Keys(a)
  BY <1>1, <1>4, PeekIs DEF Keys
<1>6. ASSUME NEW j \in Keys(c)
      PROVE  j \in Keys(a) /\ Peek(a, j) = Peek(c, j)
  <2>1. PICK i \in 1..Len(c) : c[i].key = j
    BY <1>1, Zenon DEF Keys
  <2> QED
    BY <1>1, <1>2, <1>4, <2>1, PeekIs DEF Keys
<1>7. ASSUME NEW j \in Keys(a)
      PROVE  j \in Keys(c) \cup {k}
  BY <1>1, <1>2 DEF Keys
<1> QED
  BY <1>1, <1>4, <1>5, <1>6, <1>7 DEF a

\* The cache t is c without its first entry.
IsTail(t, c, K, V) ==
  /\ t \in Seq([key : K, val : V]) /\ Len(t) = Len(c) - 1
  /\ \A i \in 1..Len(t) : t[i] = c[i + 1]

\* Evicting the oldest entry keeps the others.
LEMMA TailIs ==
  ASSUME NEW K, NEW V, NEW c, IsCache(c, K, V), c # << >>, NEW t, IsTail(t, c, K, V)
  PROVE  /\ IsCache(t, K, V) /\ Keys(t) \subseteq Keys(c)
         /\ \A j \in Keys(t) : Peek(t, j) = Peek(c, j)
         /\ Len(c) > 1 => c[Len(c)].key \in Keys(t)
<1>1. /\ Len(c) \in Nat \ {0} /\ DOMAIN t = 1..Len(c) - 1 /\ DOMAIN c = 1..Len(c)
  BY DEF IsCache, IsTail
<1>2. \A i \in DOMAIN t : t[i] = c[i + 1] /\ i + 1 \in DOMAIN c
  BY <1>1 DEF IsTail
<1>3. IsCache(t, K, V)
  BY <1>1, <1>2 DEF IsCache, IsTail
<1>4. ASSUME NEW j \in Keys(t)
      PROVE  j \in Keys(c) /\ Peek(t, j) = Peek(c, j)
  <2>1. PICK i \in DOMAIN t : t[i].key = j
    BY Zenon DEF Keys
  <2> QED
    BY <1>2, <1>3, <2>1, PeekIs DEF Keys
<1>5. ASSUME Len(c) > 1
      PROVE  c[Len(c)].key \in Keys(t)
  <2>1. Len(c) - 1 \in DOMAIN t /\ t[Len(c) - 1] = c[Len(c)]
    BY <1>1, <1>2, <1>5
  <2> QED
    BY <2>1, Zenon DEF Keys
<1> QED
  BY <1>3, <1>4, <1>5, Zenon

\* Get changes the order only.
LEMMA GetIs ==
  ASSUME NEW K, NEW V, NEW c, IsCache(c, K, V), NEW k
  PROVE  /\ IsCache(Get(c, k), K, V) /\ Keys(Get(c, k)) = Keys(c)
         /\ \A j \in Keys(c) : Peek(Get(c, k), j) = Peek(c, j)
<1>1. CASE k \notin Keys(c)
  BY <1>1, Zenon DEF Get
<1>2. CASE k \in Keys(c)
  <2> DEFINE r == Remove(c, k)
  <2>1. k \in K /\ Peek(c, k) \in V
    BY <1>2, KeyOf, Zenon
  <2>2. IsCache(r, K, V) /\ Keys(r) = Keys(c) \ {k} /\ \A j \in Keys(c) \ {k} : Peek(r,
  j) = Peek(c, j)
    BY RemoveIs
  <2>3. Get(c, k) = Append(r, [key |-> k, val |-> Peek(c, k)])
    BY <1>2, Zenon DEF Get
  <2> HIDE DEF r
  <2> DEFINE a == Append(r, [key |-> k, val |-> Peek(c, k)])
  <2>4. /\ IsCache(a, K, V) /\ Keys(a) = Keys(r) \cup {k} /\ Peek(a, k) = Peek(c, k)
        /\ \A j \in Keys(r) : Peek(a, j) = Peek(r, j)
    BY <2>1, <2>2, AppendIs
  <2> HIDE DEF a
  <2> QED
    BY <1>2, <2>2, <2>3, <2>4, Zenon DEF a
<1> QED
  BY <1>1, <1>2, Zenon

\* Add never evicts the key that is added, and changes no other entry.
LEMMA AddIs ==
  ASSUME NEW K, NEW V, NEW c, IsCache(c, K, V), NEW k \in K, NEW v \in V, NEW size \in Nat \ {0}
  PROVE  LET a == Add(c, size, k, v)
         IN  /\ IsCache(a, K, V) /\ k \in Keys(a) /\ Keys(a) \subseteq Keys(c) \cup {k}
             /\ Peek(a, k) = v
             /\ \A j \in Keys(a) \ {k} : Peek(a, j) = Peek(c, j)
<1> DEFINE r == Remove(c, k)
           b == Append(r, [key |-> k, val |-> v])
<1>1. IsCache(r, K, V) /\ Keys(r) = Keys(c) \ {k} /\ \A j \in Keys(c) \ {k} : Peek(r, j) = Peek(c, j)
  BY RemoveIs
<1>2. /\ IsCache(b, K, V) /\ Keys(b) = Keys(r) \cup {k} /\ Len(b) = Len(r) + 1
      /\ b[Len(b)].key = k /\ Peek(b, k) = v
      /\ \A j \in Keys(r) : Peek(b, j) = Peek(r, j)
  BY <1>1, AppendIs
<1>3. Add(c, size, k, v) = IF Len(b) > size THEN Tail(b) ELSE b
  BY Zenon DEF Add
<1>4. Len(b) \in Nat /\ b # << >>
  BY <1>2 DEF IsCache
<1> HIDE DEF r, b
<1>5. CASE Len(b) > size
  <2> DEFINE t == Tail(b)
  <2>1. Len(b) > 1
    BY <1>4, <1>5
  <2>2. IsTail(t, b, K, V)
    BY <1>2, <1>4 DEF IsCache, IsTail
  <2> HIDE DEF t
  <2>3. /\ IsCache(t, K, V) /\ Keys(t) \subseteq Keys(b)
        /\ \A j \in Keys(t) : Peek(t, j) = Peek(b, j)
        /\ k \in Keys(t)
    BY <1>2, <1>4, <2>1, <2>2, TailIs, Zenon
  <2> QED
    BY <1>1, <1>2, <1>3, <1>5, <2>3 DEF t
<1>6. CASE ~(Len(b) > size)
  BY <1>1, <1>2, <1>3, <1>6, Zenon
<1> QED
  BY <1>5, <1>6, Zenon


----------------------------------------------------------------------------
\* Samples

\* The samples that a cache has for other hashes.
LEMMA OthersHeld ==
  ASSUME NEW s, IsCache(s, Hash, SUBSET Sample), NEW h, NEW n
  PROVE  n \in Others(s, h) <=> \E g \in Hash : g # h /\ n \in HeldIn(s, g)
<1>1. \A g \in Keys(s) : g \in Hash
  BY KeyOf, Zenon
<1> QED
  BY <1>1, Zenon DEF Others, HeldIn

\* What was copied was copied for a hash.
LEMMA InCopies ==
  ASSUME NEW c \in [Hash -> SUBSET Sample], NEW n
  PROVE  n \in UNION {c[h] : h \in Hash} <=> \E h \in Hash : n \in c[h]
  BY Zenon

\* What samples.Add does to the samples in the cache and to dropped.
LEMMA AddToIs ==
  ASSUME SamplesType, NEW h \in Hash, NEW v \in SUBSET Sample, AddTo(h, v)
  PROVE  /\ SamplesType' /\ Held(h)' = v
         /\ \A g \in Hash : g # h => Held(g)' = Held(g) \/ Held(g)' = {}
         /\ \A n : n \in dropped' <=>
              \/ n \in dropped
              \/ /\ \E g \in Hash : g # h /\ n \in Held(g)
                 /\ ~\E g \in Hash : g # h /\ n \in Held(g)'
                 /\ n \notin peeked /\ n \notin Copies
<1> DEFINE V == SUBSET Sample
           a == Add(samples, CacheSize, h, v)
<1>1. /\ samples' = a /\ IsCache(samples, Hash, V) /\ v \in V /\ CacheSize \in Nat \ {0}
      /\ dropped' = dropped \cup (Others(samples, h) \ (Others(a, h) \cup peeked \cup Copies))
  BY TraceReportingAssumption, Zenon DEF AddTo, SamplesType
<1> HIDE DEF V
<1>2. /\ IsCache(a, Hash, V) /\ h \in Keys(a) /\ Keys(a) \subseteq Keys(samples) \cup {h}
      /\ Peek(a, h) = v /\ \A g \in Keys(a) \ {h} : Peek(a, g) = Peek(samples, g)
  BY <1>1, AddIs
<1> HIDE DEF a
<1>3. /\ HeldIn(a, h) = v
      /\ \A g \in Hash : g # h => HeldIn(a, g) = HeldIn(samples, g) \/ HeldIn(a, g) = {}
  BY <1>2, Zenon DEF HeldIn
<1>4. /\ \A n : n \in Others(samples, h) <=> \E g \in Hash : g # h /\ n \in HeldIn(samples, g)
      /\ \A n : n \in Others(a, h) <=> \E g \in Hash : g # h /\ n \in HeldIn(a, g)
  BY <1>1, <1>2, OthersHeld, Zenon DEF V
<1> QED
  BY <1>1, <1>2, <1>3, <1>4, Zenon DEF Held, SamplesType, V

\* What leaves the samples where they are keeps the invariant.
LEMMA SamplesKept ==
  ASSUME SamplesInv, UNCHANGED <<samples, copy, dropped, exported, peeked, raced>>,
         Handled' = Handled, pc' = "add" <=> pc = "add", UNCHANGED hash \/ pc # "add",
         UNCHANGED <<rpc, keys>> \/ (rpc # "remove" /\ rpc' # "remove")
  PROVE  SamplesInv'
<1> SUFFICES ASSUME ~raced, PlaceInv, HashInv, PeekInv
             PROVE  PlaceInv' /\ HashInv' /\ PeekInv'
  BY Zenon DEF SamplesInv
<1>1. /\ \A h \in Hash : /\ Held(h)' = Held(h) /\ (Taken(h)' <=> Taken(h))
                         /\ BeingAdded(h)' <=> BeingAdded(h)
      /\ Copies' = Copies
  BY Zenon DEF Held, Taken, BeingAdded, Copies
<1>2. ASSUME NEW n \in Sample
      PROVE  Placed(n)'
  <2>1. InCache(n)' <=> InCache(n)
    BY <1>1, Zenon DEF InCache
  <2> QED
    BY <1>1, <2>1, Zenon DEF PlaceInv, Placed, Wait, Out
<1>3. PlaceInv'
  BY <1>2, Zenon DEF PlaceInv, Sample
<1> QED
  BY <1>1, <1>3 DEF HashInv, PeekInv

\* samples.Peek: what is read is in the cache, or copied already.
LEMMA PeekKeeps ==
  ASSUME ReportingType, SamplesInv, PeekSample
  PROVE  SamplesInv'
<1> SUFFICES ASSUME ~raced, PlaceInv, HashInv, PeekInv, pc = "peek", pc' = "add",
                    hash \in Hash, peeked = {}, peeked' = Held(hash),
                    UNCHANGED <<hash, now, samples, copy, dropped, exported, rpc, keys>>
             PROVE  PlaceInv' /\ HashInv' /\ PeekInv'
  BY Zenon DEF SamplesInv, PeekSample, getVars, history, Held, HeldIn, ReportingType, HandlerType,
     PeekInv
<1>1. /\ \A h : Held(h)' = Held(h) /\ (Taken(h)' <=> Taken(h))
      /\ Handled' = Handled /\ Copies' = Copies
  BY Zenon DEF Held, Taken, Handled, Copies
<1>2. \A n : n \in Held(hash) => InCache(n) \/ (Taken(hash) /\ n \in Copies)
  BY InCopies, Zenon DEF HashInv, InCache, Copies, ReportingType, ProfileType
<1>3. ASSUME NEW n \in Sample
      PROVE  Placed(n)'
  <2>1. InCache(n)' <=> InCache(n)
    BY <1>1, Zenon DEF InCache
  <2> QED
    BY <1>1, <1>2, <2>1, Zenon DEF PlaceInv, Placed, Wait, Out
<1>4. PlaceInv'
  BY <1>3, Zenon DEF PlaceInv, Sample
<1>5. ~Taken(hash) => Held(hash) \cap Copies = {}
  <2>1. \A n \in Copies : n \in Sample
    BY InCopies, Zenon DEF Copies, ReportingType, ProfileType
  <2> QED
    BY <1>2, <2>1, Zenon DEF PlaceInv, Placed, Wait
<1> QED
  BY <1>1, <1>4, <1>5, Zenon DEF HashInv, PeekInv, BeingAdded

\* samples.Get: what is copied was in the cache.
LEMMA GetKeeps ==
  ASSUME ReportingType, KeysInv, SamplesInv, GetSample, NEW k, k = Head(keys), k \in Keys(samples)
  PROVE  SamplesInv'
<1> DEFINE c == [copy EXCEPT ![k] = Held(k)]
<1> SUFFICES ASSUME ~raced, PlaceInv, HashInv, PeekInv, k \in Hash, copy[k] = {}, rpc = "get",
                    rpc' = "remove", samples' = Get(samples, k), copy' = c,
                    UNCHANGED <<keys, pc, hash, now, peeked, dropped, exported>>
             PROVE  PlaceInv' /\ HashInv' /\ PeekInv'
  <2>1. keys \in Seq(Hash) /\ keys # << >> /\ rpc = "get"
    BY Zenon DEF GetSample, ReportingType, ProfileType
  <2>2. k \in Hash /\ k = keys[1] /\ 1 \in DOMAIN keys
    BY <2>1
  <2>3. copy[k] = {}
    BY <2>1, <2>2, Zenon DEF KeysInv
  <2> QED
    BY <2>1, <2>2, <2>3, Zenon DEF GetSample, SamplesInv, handlerVars, history, Held, HeldIn
<1>1. /\ IsCache(samples, Hash, SUBSET Sample) /\ copy \in [Hash -> SUBSET Sample]
      /\ \A h : Held(h)' = Held(h)
  BY GetIs DEF ReportingType, SamplesType, ProfileType, Held, HeldIn
<1>2. Held(k) \in SUBSET Sample
  BY <1>1, KeyOf DEF Held, HeldIn
<1>3. /\ c \in [Hash -> SUBSET Sample] /\ c[k] = Held(k)
      /\ \A h \in Hash : h # k => c[h] = copy[h]
  BY <1>1, <1>2, Zenon
<1>4. /\ \A h : ~Taken(h) /\ (Taken(h)' <=> h = k) /\ (BeingAdded(h)' <=> BeingAdded(h))
      /\ Handled' = Handled
  BY Zenon DEF Taken, BeingAdded, Handled
<1> HIDE DEF c
<1>5. \A n : n \in Copies' <=> n \in Copies \/ n \in Held(k)
  <2>1. \A n : /\ n \in Copies <=> \E h \in Hash : n \in copy[h]
               /\ n \in Copies' <=> \E h \in Hash : n \in c[h]
    BY <1>1, <1>3, InCopies DEF Copies
  <2> QED
    BY <1>3, <2>1, Zenon
<1>6. \A n \in Sample : n \in Held(k) => Wait(n)
  BY <1>4, Zenon DEF Wait, InCache
<1>7. ASSUME NEW n \in Sample
      PROVE  Placed(n)'
  <2>1. /\ n \notin Held(k) => (InCache(n)' <=> InCache(n))
        /\ n \in Held(k) => ~InCache(n)'
    BY <1>1, <1>4, Zenon DEF InCache, HashInv
  <2>2. /\ n \notin Held(k) => (Wait(n)' <=> Wait(n))
        /\ n \in Held(k) => ~Wait(n)'
    BY <1>5, <2>1, Zenon DEF Wait
  <2> QED
    BY <1>4, <1>5, <1>6, <2>2, Zenon DEF PlaceInv, Placed, Out
<1>8. PlaceInv'
  BY <1>7, Zenon DEF PlaceInv, Sample
<1>9. \A h \in Hash : Held(k) \cap copy[h] = {}
  BY <1>1, <1>2, <1>6, InCopies, Zenon DEF PlaceInv, Placed, Copies
<1>10. HashInv'
  BY <1>1, <1>3, <1>4, <1>9 DEF HashInv
<1>11. PeekInv'
  BY <1>1, <1>4, <1>5, Zenon DEF PeekInv, BeingAdded
<1> QED
  BY <1>8, <1>10, <1>11, Zenon

\* samples.Remove: what is removed was copied.
LEMMA RemoveKeeps ==
  ASSUME ReportingType, KeysInv, SamplesInv, RemoveSample
  PROVE  SamplesInv'
<1> PICK k : k = Head(keys)
  BY Zenon
<1> SUFFICES ASSUME ~raced, ~BeingAdded(k), PlaceInv, HashInv, PeekInv, k \in Hash,
                    rpc = "remove", rpc' = "get", samples' = Remove(samples, k),
                    UNCHANGED <<pc, hash, now, peeked, copy, dropped, exported>>
             PROVE  PlaceInv' /\ HashInv' /\ PeekInv'
  <2>1. k \in Hash
    BY DEF RemoveSample, ReportingType, ProfileType, KeysInv
  <2> QED
    BY <2>1, Zenon DEF RemoveSample, SamplesInv, handlerVars
<1>1. Held(k)' = {} /\ \A h : h # k => Held(h)' = Held(h)
  BY RemoveIs DEF ReportingType, SamplesType, Held, HeldIn
<1>2. /\ \A h : /\ ~Taken(h)' /\ (Taken(h) <=> h = k)
                /\ BeingAdded(h)' <=> BeingAdded(h)
      /\ Handled' = Handled /\ Copies' = Copies
  BY Zenon DEF Taken, BeingAdded, Handled, Copies
<1>3. ASSUME NEW n \in Sample
      PROVE  Placed(n)'
  <2>1. InCache(n)' <=> InCache(n)
    BY <1>1, <1>2, Zenon DEF InCache
  <2> QED
    BY <1>2, <2>1, Zenon DEF PlaceInv, Placed, Wait, Out
<1>4. PlaceInv'
  BY <1>3, Zenon DEF PlaceInv, Sample
<1>5. HashInv'
  BY <1>1, <1>2, Zenon DEF HashInv
<1>6. PeekInv'
  BY <1>1, <1>2, Zenon DEF PeekInv
<1> QED
  BY <1>4, <1>5, <1>6, Zenon

\* client.Export: what was copied is exported or dropped.
LEMMA ExportKeeps ==
  ASSUME ReportingType, SamplesInv, Export
  PROVE  SamplesInv'
<1> SUFFICES ASSUME ~raced, PlaceInv, HashInv, PeekInv, rpc = "build", rpc' = "idle",
                    copy' = NoCopy, UNCHANGED <<pc, hash, now, peeked, samples>>
             PROVE  PlaceInv' /\ HashInv' /\ PeekInv'
  BY Zenon DEF Export, SamplesInv, handlerVars
<1>1. /\ \A g : /\ ~Taken(g) /\ ~Taken(g)' /\ Held(g)' = Held(g)
                /\ BeingAdded(g)' <=> BeingAdded(g)
      /\ Handled' = Handled
      /\ NoCopy \in [Hash -> SUBSET Sample] /\ \A h \in Hash : NoCopy[h] = {}
  BY Zenon DEF Taken, BeingAdded, Handled, Held, NoCopy
<1>2. (\A n : n \notin Copies') /\ peeked \cap Copies = {}
  BY <1>1, InCopies DEF Copies, PeekInv, BeingAdded, ReportingType, HandlerType
<1>3. ASSUME NEW n \in Sample
      PROVE  Placed(n)'
  <2>1. InCache(n)' <=> InCache(n)
    BY <1>1, Zenon DEF InCache
  <2>2. Placed(n) /\ (Wait(n)' <=> Wait(n))
    BY <1>2, <2>1, Zenon DEF PlaceInv, Wait
  <2>3. CASE UNCHANGED exported /\ dropped' = dropped \cup Copies
    BY <1>1, <1>2, <2>2, <2>3, Zenon DEF Placed, Out
  <2>4. CASE /\ UNCHANGED dropped
             /\ exported' = [m \in Sample |-> IF m \in Copies /\ exported[m] < 2
                                              THEN exported[m] + 1 ELSE exported[m]]
    <3>1. \/ n \in Copies /\ exported'[n] = 1 /\ exported[n] = 0
          \/ n \notin Copies /\ exported'[n] = exported[n]
      BY <2>2, <2>4 DEF Placed, Out
    <3> QED
      BY <1>1, <1>2, <2>2, <2>4, <3>1 DEF Placed, Out
  <2> QED
    BY <2>3, <2>4, Zenon DEF Export
<1>4. PlaceInv'
  BY <1>3, Zenon DEF PlaceInv, Sample
<1>5. HashInv' /\ PeekInv'
  BY <1>1, <1>2 DEF HashInv, PeekInv
<1> QED
  BY <1>4, <1>5, Zenon

\* samples.Add of the handler: what it overwrites it has read, and nobody has taken.
LEMMA AddKeeps ==
  ASSUME ReportingType, SamplesInv, AddSample, NEW h \in Hash, h = hash
  PROVE  SamplesInv'
<1> SUFFICES ASSUME ~raced, ~Taken(h), PlaceInv, HashInv, PeekInv
             PROVE  PlaceInv' /\ HashInv' /\ PeekInv'
  BY Zenon DEF SamplesInv, AddSample, Taken
<1> SUFFICES ASSUME Held(h) \subseteq peeked, peeked \cap Copies = {},
                    \A g \in Hash : g # h => Held(g) \cap peeked = {},
                    now \in Sample, now \in Nat \ {0}, peeked \in SUBSET Sample,
                    copy \in [Hash -> SUBSET Sample], pc = "add", AddTo(h, peeked \cup {now}),
                    peeked' = {}, pc' \in {"idle", "frames"},
                    UNCHANGED <<hash, now, copy, exported, rpc, keys>>
             PROVE  PlaceInv' /\ HashInv' /\ PeekInv'
  BY TraceReportingAssumption
  DEF AddSample, getVars, ReportingType, HandlerType, ProfileType, PeekInv, BeingAdded, Sample
<1>1. /\ (\A g : Taken(g)' <=> Taken(g)) /\ Copies' = Copies
      /\ (\A n \in Sample : n \in Handled' <=> n \in Handled \/ n = now) /\ now \notin Handled
  BY TraceReportingAssumption DEF Taken, Copies, Handled, Sample
<1>2. /\ Held(h)' = peeked \cup {now}
      /\ \A g \in Hash : g # h => Held(g)' = Held(g) \/ Held(g)' = {}
      /\ \A n : n \in dropped' <=>
           \/ n \in dropped
           \/ /\ \E g \in Hash : g # h /\ n \in Held(g)
              /\ ~\E g \in Hash : g # h /\ n \in Held(g)'
              /\ n \notin peeked /\ n \notin Copies
  <2>1. SamplesType /\ peeked \cup {now} \in SUBSET Sample
    BY Zenon DEF ReportingType
  <2> QED
    BY <2>1, AddToIs, Zenon
<1>3. \A n \in Sample : \A g \in Hash : n \in Held(g) => Wait(n) \/ (Taken(g) /\ n \in Copies)
  BY InCopies, Zenon DEF Wait, InCache, HashInv, Copies
<1>4. \A g \in Hash : now \notin Held(g)
  BY <1>1, <1>3, Zenon DEF PlaceInv, Placed
<1>5. ASSUME NEW n \in Sample
      PROVE  Placed(n)'
  <2>1. InCache(n)' <=> \/ n \in peeked \/ n = now
                        \/ \E g \in Hash : g # h /\ n \in Held(g)' /\ ~Taken(g)
    BY <1>1, <1>2, Zenon DEF InCache
  <2>2. Placed(n) /\ (Wait(n)' <=> InCache(n)') /\ (Out(n)' <=> Out(n))
    BY Zenon DEF PlaceInv, Wait, Out
  <2>3. CASE n = now
    <3>1. ~Wait(n) /\ n \notin Copies /\ n \notin dropped /\ ~Out(n) /\ n \notin dropped'
      BY <1>1, <1>2, <1>4, <2>2, <2>3, Zenon DEF Placed
    <3> QED
      BY <1>1, <2>1, <2>2, <2>3, <3>1, Zenon DEF Placed
  <2>4. CASE n # now /\ n \in peeked
    <3>1. Wait(n) /\ (n \in dropped' <=> n \in dropped)
      BY <1>2, <2>4, Zenon DEF Wait
    <3> QED
      BY <1>1, <2>1, <2>2, <2>4, <3>1, Zenon DEF Placed
  <2>5. CASE n # now /\ n \notin peeked
    <3>1. /\ Wait(n) <=> \E g \in Hash : g # h /\ n \in Held(g) /\ ~Taken(g)
          /\ InCache(n)' <=> \E g \in Hash : g # h /\ n \in Held(g)' /\ ~Taken(g)
      BY <2>1, <2>5, Zenon DEF Wait, InCache
    <3>2. /\ InCache(n)' => Wait(n) /\ (n \in dropped' <=> n \in dropped)
          /\ ~Wait(n) => (n \in dropped' <=> n \in dropped)
      BY <1>2, <1>3, <3>1, Zenon
    <3>3. ASSUME ~InCache(n)', Wait(n) PROVE n \in dropped'
      <4>1. PICK g \in Hash : g # h /\ n \in Held(g) /\ ~Taken(g)
        BY <3>1, <3>3, Zenon
      <4>2. n \notin Copies /\ n \notin Held(g)'
        BY <2>2, <3>1, <3>3, <4>1, Zenon DEF Placed
      <4>3. \A f \in Hash : f # h => n \notin Held(f)'
        BY <1>2, <4>1, <4>2 DEF HashInv
      <4> QED
        BY <1>2, <2>5, <4>1, <4>2, <4>3, Zenon
    <3> QED
      BY <1>1, <2>2, <2>5, <3>2, <3>3, Zenon DEF Placed
  <2> QED
    BY <2>3, <2>4, <2>5, Zenon
<1>6. PlaceInv'
  BY <1>5, Zenon DEF PlaceInv, Sample
<1>7. HashInv'
  <2>1. ASSUME NEW f \in Hash, NEW g \in Hash, f # g
        PROVE  Held(f)' \cap Held(g)' = {} /\ copy'[f] \cap copy'[g] = {}
    BY <1>2, <1>4, <2>1 DEF HashInv
  <2>2. ASSUME NEW g \in Hash, Taken(g)
        PROVE  Held(g)' \subseteq copy'[g]
    BY <1>2, <2>2 DEF HashInv
  <2> QED
    BY <1>1, <2>1, <2>2, Zenon DEF HashInv
<1> QED
  BY <1>6, <1>7, Zenon DEF PeekInv, BeingAdded

\* samples.Add of the reporter: what it returns is no longer copied.
LEMMA ReturnKeeps ==
  ASSUME ReportingType, SamplesInv, NEW h \in Hash, ReturnSample(h)
  PROVE  SamplesInv'
<1> SUFFICES ASSUME ~raced, ~BeingAdded(h), h \notin Keys(samples), PlaceInv, HashInv, PeekInv,
                    rpc = "check", AddTo(h, copy[h]), copy \in [Hash -> SUBSET Sample],
                    copy' = [copy EXCEPT ![h] = {}],
                    UNCHANGED <<pc, hash, now, peeked, exported, rpc, keys>>
             PROVE  PlaceInv' /\ HashInv' /\ PeekInv'
  BY Zenon DEF SamplesInv, ReturnSample, handlerVars, ReportingType, ProfileType
<1>1. /\ \A g : ~Taken(g) /\ ~Taken(g)' /\ (BeingAdded(g)' <=> BeingAdded(g))
      /\ Handled' = Handled /\ Held(h) = {}
  BY Zenon DEF Taken, BeingAdded, Handled, Held, HeldIn
<1>2. /\ copy' \in [Hash -> SUBSET Sample] /\ copy'[h] = {} /\ copy[h] \in SUBSET Sample
      /\ \A g \in Hash : g # h => copy'[g] = copy[g]
  BY Zenon
<1>3. \A n : /\ n \in Copies <=> \E g \in Hash : n \in copy[g]
             /\ n \in Copies' <=> \E g \in Hash : n \in copy'[g]
  BY <1>2, InCopies, Zenon DEF Copies
<1>4. \A n : n \in Copies' <=> n \in Copies /\ n \notin copy[h]
  BY <1>2, <1>3, Zenon DEF HashInv
<1>5. /\ Held(h)' = copy[h]
      /\ \A g \in Hash : g # h => Held(g)' = Held(g) \/ Held(g)' = {}
      /\ \A n : n \in dropped' <=>
           \/ n \in dropped
           \/ /\ \E g \in Hash : g # h /\ n \in Held(g)
              /\ ~\E g \in Hash : g # h /\ n \in Held(g)'
              /\ n \notin peeked /\ n \notin Copies
  BY <1>2, AddToIs, Zenon DEF ReportingType
<1>6. ASSUME NEW n \in Sample
      PROVE  Placed(n)'
  <2>1. InCache(n)' <=> n \in copy[h] \/ \E g \in Hash : g # h /\ n \in Held(g)'
    BY <1>1, <1>5, Zenon DEF InCache
  <2>2. /\ Placed(n) /\ (Out(n)' <=> Out(n))
        /\ InCache(n) <=> \E g \in Hash : g # h /\ n \in Held(g)
    BY <1>1, Zenon DEF PlaceInv, Out, InCache
  <2>3. CASE n \in copy[h]
    <3>1. /\ n \in Copies /\ n \notin Copies' /\ (n \in dropped' <=> n \in dropped)
          /\ Wait(n)'
      BY <1>3, <1>4, <1>5, <2>1, <2>3, Zenon DEF Wait
    <3> QED
      BY <1>1, <2>2, <3>1, Zenon DEF Placed
  <2>4. CASE n \notin copy[h]
    <3>1. /\ n \in Copies' <=> n \in Copies
          /\ ~InCache(n)' /\ InCache(n) => n \in dropped' \/ n \in peeked \/ n \in Copies
          /\ ~InCache(n) \/ n \in peeked \/ n \in Copies => (n \in dropped' <=> n \in dropped)
      BY <1>4, <1>5, <2>1, <2>2, <2>4, Zenon
    <3>2. InCache(n)' => InCache(n) /\ (n \in dropped' <=> n \in dropped)
      BY <1>5, <2>1, <2>2, <2>4, Zenon
    <3> QED
      BY <1>1, <2>2, <3>1, <3>2, Zenon DEF Placed, Wait
  <2> QED
    BY <2>3, <2>4, Zenon
<1>7. PlaceInv'
  BY <1>6, Zenon DEF PlaceInv, Sample
<1>8. \A g \in Hash : Held(g) \cap Copies = {}
  <2>1. \A n \in Copies : n \in Sample
    BY <1>3, Zenon
  <2>2. \A g \in Hash : \A n \in Held(g) : Wait(n)
    BY <1>1, Zenon DEF Wait, InCache
  <2> QED
    BY <2>1, <2>2, Zenon DEF PlaceInv, Placed
<1>9. HashInv'
  <2>1. ASSUME NEW f \in Hash, NEW g \in Hash, f # g
        PROVE  Held(f)' \cap Held(g)' = {} /\ copy'[f] \cap copy'[g] = {}
    <3>1. g # h => Held(g)' \cap copy[h] = {}
      BY <1>3, <1>5, <1>8
    <3>2. f # h => Held(f)' \cap copy[h] = {}
      BY <1>3, <1>5, <1>8
    <3> QED
      BY <1>2, <1>5, <2>1, <3>1, <3>2 DEF HashInv
  <2> QED
    BY <1>1, <2>1, Zenon DEF HashInv
<1>10. PeekInv'
  <2>1. ASSUME NEW g \in Hash, BeingAdded(g)
        PROVE  /\ Held(g)' \subseteq peeked /\ peeked \cap Copies' = {}
               /\ \A f \in Hash : f # g => Held(f)' \cap peeked = {}
    <3>1. /\ g # h /\ Held(g) \subseteq peeked /\ peeked \cap Copies = {}
          /\ \A f \in Hash : f # g => Held(f) \cap peeked = {}
      BY <1>1, <2>1, Zenon DEF PeekInv
    <3> QED
      BY <1>3, <1>4, <1>5, <3>1
  <2> QED
    BY <1>1, <2>1, Zenon DEF PeekInv
<1> QED
  BY <1>7, <1>9, <1>10, Zenon

----------------------------------------------------------------------------
\* Frames, keys and the start of a profile

\* What traces.Add does to the entries of traces.
LEMMA TracesAdd ==
  ASSUME CachesType, hash \in Hash, NEW v \in BOOLEAN, traces' = Add(traces, CacheSize, hash, v),
         evicted' = evicted \cup (Keys(traces) \ Keys(traces'))
  PROVE  /\ IsCache(traces', Hash, BOOLEAN)
         /\ hash \in Keys(traces') /\ Keys(traces') \subseteq Keys(traces) \cup {hash}
         /\ Peek(traces', hash) = v
         /\ \A h \in Keys(traces') : h # hash => Peek(traces', h) = Peek(traces, h)
         /\ \A h : Known(h) /\ (h = hash => h \in evicted \/ v) => Known(h)'
<1> DEFINE a == Add(traces, CacheSize, hash, v)
<1>1. CacheSize \in Nat \ {0} /\ IsCache(traces, Hash, BOOLEAN)
  BY TraceReportingAssumption, Zenon DEF CachesType
<1>2. /\ IsCache(a, Hash, BOOLEAN)
      /\ hash \in Keys(a) /\ Keys(a) \subseteq Keys(traces) \cup {hash} /\ Peek(a, hash) = v
      /\ \A h \in Keys(a) \ {hash} : Peek(a, h) = Peek(traces, h)
  BY <1>1, AddIs
<1> HIDE DEF a
<1>3. traces' = a
  BY Zenon DEF a
<1>4. ASSUME NEW h, Known(h), h = hash => h \in evicted \/ v
      PROVE  Known(h)'
  BY <1>2, <1>3, <1>4, Zenon DEF Known
<1> QED
  BY <1>2, <1>3, <1>4, Zenon

\* The keys that getProfile has left after one.
LEMMA TailKeys ==
  ASSUME keys \in Seq(Hash), keys # << >>
  PROVE  /\ Len(keys) \in Nat \ {0} /\ DOMAIN keys = 1..Len(keys) /\ Head(keys) = keys[1]
         /\ DOMAIN Tail(keys) = 1..Len(keys) - 1 /\ Head(keys) \in Hash /\ Tail(keys) \in Seq(Hash)
         /\ \A i \in 1..Len(keys) - 1 : Tail(keys)[i] = keys[i + 1]
  OBVIOUS

\* The samples of the hashes that are built already.
LEMMA BuiltIs ==
  ASSUME ReportingType
  PROVE  /\ Built \subseteq Nat \ {0}
         /\ \A n : n \in Built <=> \E h \in Hash : h \notin todo /\ n \in copy[h]
<1>1. \A n : n \in Built <=> \E h \in Hash : h \notin todo /\ n \in copy[h]
  BY Zenon DEF Built, Copied
<1>2. \A n \in Sample : n \in Nat \ {0}
  BY TraceReportingAssumption DEF Sample
<1> QED
  BY <1>1, <1>2, Zenon DEF ReportingType, ProfileType

----------------------------------------------------------------------------
\* The steps

\* When a step leaves each part of the invariant alone.
LEMMA Kept ==
  ASSUME ReportingInv
  PROVE  /\ UNCHANGED <<bpfTraceCache, umTraceCache, traces>> => CachesType'
         /\ UNCHANGED samples => SamplesType'
         /\ UNCHANGED <<now, peeked, hash>> /\ (UNCHANGED pc \/ pc # "idle") => HandlerType'
         /\ UNCHANGED <<keys, copy>> => ProfileType'
         /\ /\ UNCHANGED <<traces, evicted, bpfTraceCache, umTraceCache, hash, hit>>
            /\ \/ UNCHANGED pc
               \/ pc \in {"peek", "add"} /\ (pc' \in {"add", "frames"} \/ hit)
            => FramesInv'
         /\ /\ UNCHANGED keys
            /\ \/ UNCHANGED <<copy, rpc>>
               \/ rpc' \in {"check", "build"} \/ (rpc' = "idle" /\ copy' = NoCopy)
            => KeysInv'
         /\ /\ UNCHANGED <<samples, copy, dropped, exported, peeked, raced, hash, now>>
            /\ UNCHANGED pc \/ (pc = "count" /\ pc' = "peek") \/ (pc = "frames" /\ pc' = "idle")
            /\ UNCHANGED <<rpc, keys>> \/ (rpc # "remove" /\ rpc' # "remove")
            => SamplesInv'
         /\ /\ UNCHANGED startTS
            /\ UNCHANGED <<rpc, copy, todo>> \/ (rpc # "build" /\ rpc' # "build")
            => TimesInv'
<1> USE DEF ReportingInv, ReportingType
<1>1. /\ UNCHANGED <<bpfTraceCache, umTraceCache, traces>> => CachesType'
      /\ UNCHANGED samples => SamplesType'
      /\ UNCHANGED <<now, peeked, hash>> /\ (UNCHANGED pc \/ pc # "idle") => HandlerType'
      /\ UNCHANGED <<keys, copy>> => ProfileType'
  BY Zenon DEF CachesType, SamplesType, HandlerType, ProfileType
<1>2. /\ UNCHANGED <<traces, evicted, bpfTraceCache, umTraceCache, hash, hit>>
      /\ \/ UNCHANGED pc
         \/ pc \in {"peek", "add"} /\ (pc' \in {"add", "frames"} \/ hit)
      => FramesInv'
  BY DEF FramesInv, Known, FramesComing
<1>3. /\ UNCHANGED keys
      /\ \/ UNCHANGED <<copy, rpc>>
         \/ rpc' \in {"check", "build"} \/ (rpc' = "idle" /\ copy' = NoCopy)
      => KeysInv'
  BY Zenon DEF KeysInv
<1>4. /\ UNCHANGED <<samples, copy, dropped, exported, peeked, raced, hash, now>>
      /\ UNCHANGED pc \/ (pc = "count" /\ pc' = "peek") \/ (pc = "frames" /\ pc' = "idle")
      /\ UNCHANGED <<rpc, keys>> \/ (rpc # "remove" /\ rpc' # "remove")
      => SamplesInv'
  BY SamplesKept, ZenonT(40) DEF Handled
<1>5. /\ UNCHANGED startTS
      /\ UNCHANGED <<rpc, copy, todo>> \/ (rpc # "build" /\ rpc' # "build")
      => TimesInv'
  BY DEF TimesInv, Built, Copied
<1> QED
  BY <1>1, <1>2, <1>3, <1>4, <1>5, Zenon

\* HandleTrace: a trace that was converted before has its frames reported, the
\* frames of another follow.
LEMMA HandleTraceStep ==
  ASSUME ReportingInv, NEW t \in Trace, HandleTrace(t)
  PROVE  ReportingInv'
<1>1. CachesType' /\ FramesInv' /\ hash' \in Hash
  <2> SUFFICES ASSUME pc = "idle", pc' = "count", UNCHANGED <<traces, umTraceCache, evicted>>,
                      CacheSize \in Nat \ {0}, CachesType, FramesInv
               PROVE  CachesType' /\ FramesInv' /\ hash' \in Hash
    BY TraceReportingAssumption, Zenon DEF HandleTrace, history, ReportingInv, ReportingType
  <2>0. IsCache(bpfTraceCache, Trace, Hash)
    BY Zenon DEF CachesType
  <2>1. \A h : Known(h)' <=> Known(h)
    BY Zenon DEF Known
  <2>2. \A h \in Keys(traces) : Known(h)
    BY Zenon DEF FramesComing, FramesInv
  <2>3. CASE t \in Keys(bpfTraceCache)
    <3>1. hash' = Peek(bpfTraceCache, t) /\ hit' /\ bpfTraceCache' = Get(bpfTraceCache, t)
      BY <2>3, Zenon DEF HandleTrace
    <3>2. /\ IsCache(bpfTraceCache', Trace, Hash) /\ Keys(bpfTraceCache') = Keys(bpfTraceCache)
          /\ \A k \in Keys(bpfTraceCache) : Peek(bpfTraceCache', k) = Peek(bpfTraceCache, k)
      BY <2>0, <3>1, GetIs
    <3>3. hash' \in Hash
      BY <2>3, <3>1, KeyOf, Zenon DEF CachesType
    <3> QED
      BY <2>1, <2>2, <2>3, <3>1, <3>2, <3>3, Zenon DEF FramesInv, CachesType
  <2>4. CASE t \notin Keys(bpfTraceCache)
    <3>1. hash' \in Hash /\ ~hit' /\ bpfTraceCache' = Add(bpfTraceCache, CacheSize, t, hash')
      BY <2>4, TraceReportingAssumption, Zenon DEF HandleTrace
    <3>2. PICK v \in Hash : v = hash'
      BY <3>1, Zenon
    <3>3. /\ IsCache(bpfTraceCache', Trace, Hash)
          /\ Keys(bpfTraceCache') \subseteq Keys(bpfTraceCache) \cup {t}
          /\ Peek(bpfTraceCache', t) = v
          /\ \A k \in Keys(bpfTraceCache') \ {t} : Peek(bpfTraceCache', k) = Peek(bpfTraceCache, k)
      BY <2>0, <3>1, <3>2, AddIs
    <3> QED
      BY <2>1, <2>2, <3>1, <3>2, <3>3, Zenon DEF FramesInv, CachesType
  <2> QED
    BY <2>3, <2>4, Zenon
<1>2. HandlerType' /\ Handled' = Handled
  BY <1>1, TraceReportingAssumption DEF HandleTrace, HandlerType, Handled, ReportingInv,
     ReportingType
<1>3. SamplesInv'
  BY <1>2, SamplesKept, Zenon DEF HandleTrace, getVars, history, ReportingInv
<1> QED
  BY <1>1, <1>2, <1>3, Kept, Zenon
  DEF HandleTrace, getVars, profileVars, ReportingInv, ReportingType

\* ReportCountForTrace keeps the frames that are there.
LEMMA CountTraceStep ==
  ASSUME ReportingInv, CountTrace
  PROVE  ReportingInv'
<1>1. CachesType' /\ FramesInv'
  <2> DEFINE v == (hash \in Keys(traces) /\ Peek(traces, hash))
  <2> SUFFICES ASSUME pc = "count", pc' = "peek", UNCHANGED <<bpfTraceCache, umTraceCache, hash, hit>>,
                      hash \in Hash, v \in BOOLEAN, traces' = Add(traces, CacheSize, hash, v),
                      evicted' = evicted \cup (Keys(traces) \ Keys(traces')), CachesType, FramesInv
               PROVE  CachesType' /\ FramesInv'
    BY Zenon DEF CountTrace, HandlerType, ReportingInv, ReportingType
  <2>1. /\ \A h : Known(h) /\ (h = hash => h \in evicted \/ v) => Known(h)'
        /\ IsCache(traces', Hash, BOOLEAN) /\ Keys(traces') \subseteq Keys(traces) \cup {hash}
    BY TracesAdd, Zenon
  <2>2. \A h : Known(h) => Known(h)'
    BY <2>1, Zenon DEF Known
  <2> HIDE DEF v
  <2>3. \A h \in Keys(traces') : Known(h)' \/ FramesComing(h)'
    BY <2>1, <2>2, Zenon DEF FramesComing, FramesInv
  <2> QED
    BY <2>1, <2>2, <2>3, Zenon DEF FramesInv, CachesType
<1> QED
  BY <1>1, Kept, Zenon DEF CountTrace, getVars, profileVars, ReportingInv, ReportingType

\* samples.Peek reads and changes nothing else.
LEMMA PeekSampleStep ==
  ASSUME ReportingInv, PeekSample
  PROVE  ReportingInv'
<1> USE DEF getVars, profileVars, history, ReportingInv, ReportingType
<1>1. HandlerType' /\ SamplesInv'
  BY KeyOf, PeekKeeps, Zenon DEF PeekSample, HandlerType, SamplesType
<1> QED
  BY <1>1, Kept, Zenon DEF PeekSample

\* samples.Add of ReportCountForTrace.
LEMMA AddSampleStep ==
  ASSUME ReportingInv, AddSample
  PROVE  ReportingInv'
<1> USE DEF getVars, profileVars, history, ReportingInv, ReportingType
<1>1. peeked \cup {now} \in SUBSET Sample /\ hash \in Hash /\ HandlerType'
  BY TraceReportingAssumption DEF AddSample, HandlerType, Sample
<1>2. SamplesType' /\ SamplesInv'
  BY <1>1, AddToIs, AddKeeps, Zenon DEF AddSample
<1> QED
  BY <1>1, <1>2, Kept, Zenon DEF AddSample

\* ReportFramesForTrace: the frames are reported, or were before.
LEMMA ReportFramesStep ==
  ASSUME ReportingInv, ReportFrames
  PROVE  ReportingInv'
<1>1. CachesType' /\ FramesInv'
  <2> SUFFICES ASSUME pc = "frames", pc' = "idle", UNCHANGED <<bpfTraceCache, hash, hit>>, hash \in Hash,
                      TRUE \in BOOLEAN, TRUE \in {TRUE}, CacheSize \in Nat \ {0}, CachesType,
                      FramesInv
               PROVE  CachesType' /\ FramesInv'
    BY TraceReportingAssumption, Zenon DEF ReportFrames, HandlerType, ReportingInv, ReportingType
  <2>1. CASE hash \in Keys(umTraceCache)
    <3>1. umTraceCache' = Get(umTraceCache, hash) /\ UNCHANGED <<traces, evicted>>
      BY <2>1, Zenon DEF ReportFrames
    <3>2. /\ Keys(umTraceCache') = Keys(umTraceCache) /\ IsCache(umTraceCache', Hash, {TRUE})
      BY <3>1, GetIs, ZenonT(30) DEF CachesType
    <3>3. \A h : Known(h)' <=> Known(h)
      BY <3>1, Zenon DEF Known
    <3> QED
      BY <2>1, <3>1, <3>2, <3>3, Zenon DEF FramesComing, FramesInv, CachesType
  <2>2. CASE hash \notin Keys(umTraceCache)
    <3>1. /\ traces' = Add(traces, CacheSize, hash, TRUE)
          /\ evicted' = evicted \cup (Keys(traces) \ Keys(traces'))
          /\ umTraceCache' = Add(umTraceCache, CacheSize, hash, TRUE)
      BY <2>2, Zenon DEF ReportFrames
    <3>2. /\ IsCache(traces', Hash, BOOLEAN)
          /\ hash \in Keys(traces') /\ Keys(traces') \subseteq Keys(traces) \cup {hash}
          /\ Peek(traces', hash) = TRUE /\ \A h : Known(h) => Known(h)'
      BY <3>1, TracesAdd, Zenon
    <3>3. /\ IsCache(umTraceCache', Hash, {TRUE})
          /\ Keys(umTraceCache') \subseteq Keys(umTraceCache) \cup {hash}
      BY <3>1, AddIs, Zenon DEF CachesType
    <3>4. Known(hash)' /\ \A h \in Keys(traces') : Known(h)'
      BY <3>2, Zenon DEF Known, FramesComing, FramesInv
    <3> QED
      BY <3>2, <3>3, <3>4, Zenon DEF FramesInv, CachesType
  <2> QED
    BY <2>1, <2>2, Zenon
<1> QED
  BY <1>1, Kept, Zenon DEF ReportFrames, getVars, profileVars, ReportingInv, ReportingType

\* getProfile starts with the keys of the cache, which are all different.
LEMMA TickStep ==
  ASSUME ReportingInv, Tick
  PROVE  ReportingInv'
<1> USE DEF handlerVars, profileVars, history, ReportingInv, ReportingType
<1>1. /\ DOMAIN keys' = DOMAIN samples /\ \A i \in DOMAIN samples : keys'[i] = samples[i].key
      /\ rpc' = "get" /\ copy' = NoCopy /\ copy' = copy
  BY Zenon DEF Tick, KeysInv
<1>2. \A i \in DOMAIN samples : samples[i].key \in Hash
  BY EntryOf, Zenon DEF SamplesType
<1>3. ProfileType'
  BY <1>2 DEF Tick, ProfileType, SamplesType, IsCache
<1>4. KeysInv'
  BY <1>1, <1>2 DEF NoCopy, SamplesType, KeysInv, IsCache
<1> QED
  BY <1>3, <1>4, Kept, Zenon DEF Tick

\* getProfile meets a key once.
LEMMA GetSampleStep ==
  ASSUME ReportingInv, GetSample
  PROVE  ReportingInv'
<1> USE DEF handlerVars, profileVars, history, ReportingInv, ReportingType
<1> PICK k : k = Head(keys)
  BY Zenon
<1>1. /\ rpc = "get" /\ keys # << >> /\ k \in Hash /\ Tail(keys) \in Seq(Hash)
      /\ Len(keys) \in Nat \ {0} /\ DOMAIN keys = 1..Len(keys) /\ k = keys[1]
      /\ DOMAIN Tail(keys) = 1..Len(keys) - 1
      /\ \A i \in 1..Len(keys) - 1 : Tail(keys)[i] = keys[i + 1]
  BY TailKeys, Zenon DEF GetSample, ProfileType
<1>2. CASE k \in Keys(samples)
  <2>1. /\ samples' = Get(samples, k) /\ keys' = keys /\ rpc' = "remove"
        /\ copy' = [copy EXCEPT ![k] = Peek(samples, k)]
    BY <1>2, Zenon DEF GetSample
  <2>2. SamplesType' /\ Peek(samples, k) \in SUBSET Sample
    BY <1>2, <2>1, GetIs, KeyOf, Zenon DEF SamplesType
  <2>3. ProfileType'
    BY <1>1, <2>1, <2>2, Zenon DEF ProfileType
  <2>4. KeysInv'
    <3>1. \A i \in DOMAIN keys \ {1} : keys[i] # k /\ keys[i] \in Hash
      BY <1>1 DEF KeysInv, ProfileType
    <3> QED
      BY <1>1, <2>1, <3>1, Zenon DEF ProfileType, KeysInv
  <2>5. SamplesInv'
    BY <1>2, GetKeeps, Zenon
  <2> QED
    BY <2>1, <2>2, <2>3, <2>4, <2>5, <1>1, Kept, Zenon DEF GetSample
<1>3. CASE k \notin Keys(samples)
  <2>1. keys' = Tail(keys) /\ UNCHANGED <<copy, samples, rpc>>
    BY <1>3, Zenon DEF GetSample
  <2>2. ProfileType' /\ KeysInv'
    BY <1>1, <2>1 DEF KeysInv, ProfileType
  <2> QED
    BY <1>1, <2>1, <2>2, Kept, Zenon DEF GetSample
<1> QED
  BY <1>2, <1>3, Zenon

\* samples.Remove, after samples.Get.
LEMMA RemoveSampleStep ==
  ASSUME ReportingInv, RemoveSample
  PROVE  ReportingInv'
<1> USE DEF handlerVars, profileVars, history, ReportingInv, ReportingType
<1>1. /\ rpc = "remove" /\ rpc' = "get" /\ keys # << >> /\ keys \in Seq(Hash)
      /\ keys' = Tail(keys) /\ copy' = copy /\ Tail(keys) \in Seq(Hash)
  BY DEF RemoveSample, ProfileType, KeysInv
<1>2. ProfileType' /\ KeysInv'
  BY SMTT(30), <1>1, TailKeys DEF KeysInv, ProfileType
<1>3. SamplesType' /\ SamplesInv'
  BY RemoveIs, RemoveKeeps, Zenon DEF RemoveSample, SamplesType
<1> QED
  BY <1>1, <1>2, <1>3, Kept, Zenon DEF RemoveSample

\* Samples without trace information are returned to the cache.
LEMMA ReturnSampleStep ==
  ASSUME ReportingInv, NEW h \in Hash, ReturnSample(h)
  PROVE  ReportingInv'
<1> USE DEF handlerVars, profileVars, history, ReportingInv, ReportingType
<1>1. ProfileType' /\ copy[h] \in SUBSET Sample
  BY Zenon DEF ReturnSample, ProfileType
<1>2. SamplesType' /\ SamplesInv'
  BY <1>1, AddToIs, ReturnKeeps, Zenon DEF ReturnSample
<1> QED
  BY <1>1, <1>2, Kept, Zenon DEF ReturnSample

\* startTS is the earliest of the samples that were built.
LEMMA BuildSampleStep ==
  ASSUME ReportingInv, NEW h \in Hash, BuildSample(h)
  PROVE  ReportingInv'
<1>1. CachesType' /\ FramesInv'
  <2> SUFFICES ASSUME CachesType, FramesInv
               PROVE  CachesType' /\ FramesInv'
    BY Zenon DEF ReportingInv, ReportingType
  <2>1. /\ traces' = Get(traces, h)
        /\ UNCHANGED <<evicted, bpfTraceCache, umTraceCache, hash, hit, pc>>
    BY Zenon DEF BuildSample, handlerVars, history
  <2>2. /\ Keys(traces') = Keys(traces) /\ IsCache(traces', Hash, BOOLEAN)
        /\ \A k \in Keys(traces) : Peek(traces', k) = Peek(traces, k)
    BY <2>1, GetIs DEF CachesType
  <2> QED
    BY <2>1, <2>2, Zenon DEF Known, FramesComing, FramesInv, CachesType
<1>2. TimesInv'
  <2>1. \A n \in Sample : n \in Nat \ {0}
    BY TraceReportingAssumption DEF Sample
  <2> SUFFICES ASSUME rpc = "build", rpc' = "build", h \in todo, todo' = todo \ {h}, copy' = copy,
                      copy[h] \subseteq Nat \ {0}, TimesInv
               PROVE  TimesInv'
    BY <2>1, Zenon DEF BuildSample, ProfileType, ReportingInv, ReportingType
  <2>2. PICK first \in copy[h] :
          /\ \A n \in copy[h] : first <= n
          /\ startTS' = IF startTS = 0 \/ first < startTS THEN first ELSE startTS
    BY Zenon DEF BuildSample
  <2>3. /\ \A n : n \in Built' <=> n \in Built \/ n \in copy[h]
        /\ Built \subseteq Nat \ {0} /\ todo' \subseteq Copied'
    <3>1. Built \subseteq Nat \ {0} /\ \A n : n \in Built <=> \E g \in Hash : g \notin todo /\ n \in copy[g]
      BY BuiltIs, Zenon DEF ReportingInv
    <3>2. \A n : n \in Built' <=> \E g \in Hash : g \notin todo' /\ n \in copy[g]
      BY Zenon DEF Built, Copied
    <3>3. todo' \subseteq Copied'
      BY Zenon DEF Copied, TimesInv
    <3> QED
      BY <3>1, <3>2, <3>3, Zenon
  <2>4. CASE Built = {}
    BY <2>2, <2>3, <2>4, Zenon DEF TimesInv
  <2>5. CASE Built # {}
    <3>1. startTS \in Built /\ startTS \in Nat \ {0} /\ \A n \in Built : startTS <= n
      BY <2>3, <2>5, Zenon DEF TimesInv
    <3>2. startTS' \in Built' /\ startTS' \in Nat /\ startTS' <= first /\ startTS' <= startTS
      BY <2>2, <2>3, <3>1
    <3>3. \A n \in Built' : startTS' <= n
      BY <2>2, <2>3, <3>1, <3>2
    <3> QED
      BY <2>3, <3>2, <3>3, Zenon DEF TimesInv
  <2> QED
    BY <2>4, <2>5, Zenon
<1> QED
  BY <1>1, <1>2, Kept, Zenon
  DEF BuildSample, handlerVars, history, ReportingInv, ReportingType

\* Export ends the profile, whether it succeeds or not.
LEMMA ExportStep ==
  ASSUME ReportingInv, Export
  PROVE  ReportingInv'
<1> USE DEF handlerVars, ReportingInv, ReportingType
<1>1. ProfileType' /\ TimesInv'
  BY Zenon DEF Export, NoCopy, ProfileType, TimesInv
<1>2. SamplesInv'
  BY ExportKeeps, Zenon
<1> QED
  BY <1>1, <1>2, Kept, Zenon DEF Export

\* Every step keeps the invariant.
LEMMA ReportingStep ==
  ASSUME ReportingInv, [ReportingNext]_reportingVars
  PROVE  ReportingInv'
<1> USE DEF handlerVars, getVars, profileVars, history
<1>1. CASE CheckTraces
  BY <1>1, Kept, Zenon DEF CheckTraces, ReportingInv, ReportingType
<1>2. ASSUME NEW h \in Hash, CheckTrace(h) PROVE ReportingInv'
  BY <1>2, Kept, Zenon DEF CheckTrace, ReportingInv, ReportingType
<1>3. CASE BuildProfile
  <2>1. rpc' = "build" /\ startTS' = 0 /\ todo' = Copied /\ copy' = copy
    BY <1>3, Zenon DEF BuildProfile, TimesInv, ReportingInv
  <2>2. TimesInv'
    BY <2>1, Zenon DEF Built, Copied, TimesInv
  <2> QED
    BY <1>3, <2>1, <2>2, Kept, Zenon DEF BuildProfile, ReportingInv, ReportingType
<1>4. CASE UNCHANGED reportingVars
  BY <1>4, Kept, Zenon DEF reportingVars, ReportingInv, ReportingType
<1> QED
  BY Zenon, <1>1, <1>2, <1>3, <1>4, HandleTraceStep, CountTraceStep, PeekSampleStep, AddSampleStep,
     ReportFramesStep, TickStep, GetSampleStep, RemoveSampleStep, ReturnSampleStep, BuildSampleStep,
     ExportStep
  DEF ReportingNext, HandlerStep, ReporterStep

----------------------------------------------------------------------------
\* Theorems

\* The caches are empty at the start.
LEMMA ReportingStarts == ReportingInit => ReportingInv
<1> SUFFICES ASSUME ReportingInit
             PROVE  ReportingInv
  BY Zenon
<1>1. Keys(<< >>) = {} /\ \A K, V : IsCache(<< >>, K, V)
  BY DEF Keys, IsCache
<1> USE DEF ReportingInit
<1>2. ReportingType
  <2>1. 0 \in 0..MaxSamples
    BY TraceReportingAssumption
  <2>2. copy \in [Hash -> SUBSET Sample] /\ keys \in Seq(Hash)
    BY DEF NoCopy
  <2>4. /\ IsCache(bpfTraceCache, Trace, Hash) /\ IsCache(umTraceCache, Hash, {TRUE})
        /\ IsCache(traces, Hash, BOOLEAN) /\ IsCache(samples, Hash, SUBSET Sample)
    BY <1>1, Zenon
  <2> QED
    BY <2>1, <2>2, <2>4, Zenon DEF ReportingType, CachesType, SamplesType, HandlerType, ProfileType
<1>3. FramesInv
  BY <1>1, Zenon DEF FramesInv
<1>4. KeysInv
  <2>1. DOMAIN keys = {} /\ rpc = "idle" /\ copy = NoCopy
    OBVIOUS
  <2> HIDE DEF ReportingInit
  <2> QED
    BY <2>1, Zenon DEF KeysInv
<1>5. NoCopy \in [Hash -> SUBSET Sample] /\ \A h \in Hash : NoCopy[h] = {}
  BY Zenon DEF NoCopy
<1>6. \A n : n \notin Copies
  BY <1>5, InCopies DEF Copies
<1>7. \A h : Held(h) = {}
  BY <1>1, Zenon DEF Held, HeldIn
<1>8. SamplesInv
  <2>1. PlaceInv
    <3>1. ASSUME NEW n \in Sample
          PROVE  Placed(n)
      <4>1. n \notin Handled
        BY DEF Handled
      <4>2. exported[n] = 0
        BY Zenon
      <4> QED
        BY <1>6, <1>7, <4>1, <4>2, Zenon DEF Placed, Wait, InCache, Out
    <3> QED
      BY <3>1, Zenon DEF PlaceInv
  <2> QED
    BY <1>5, <1>7, <2>1, Zenon DEF SamplesInv, HashInv, PeekInv, Taken, BeingAdded
<1>9. TimesInv
  BY Zenon DEF TimesInv
<1> QED
  BY <1>2, <1>3, <1>4, <1>8, <1>9, Zenon DEF ReportingInv

\* The invariant holds in every reachable state.
LEMMA ReportingInvariant == ReportingSpec => []ReportingInv
<1>1. ReportingInit => ReportingInv
  BY ReportingStarts, Zenon
<1>2. ReportingInv /\ [ReportingNext]_reportingVars => ReportingInv'
  BY ReportingStep, Zenon
<1> QED
  BY <1>1, <1>2, PTL DEF ReportingSpec

\* ReportCountForTrace never separates a trace from its frames: the reporter has
\* the frames of every trace it counts, unless HandleTrace is about to report them
\* or the cache has evicted them, whatever the conversions and the cache size are.
THEOREM FramesAreReported == ReportingSpec => []FramesFollow
<1>1. ReportingInv => FramesFollow
  BY Zenon DEF ReportingInv, FramesInv, FramesFollow, Known
<1> QED
  BY <1>1, ReportingInvariant, PTL

\* A sample that is placed is in exactly one place.
LEMMA PlacedOnce ==
  ASSUME ReportingType, PlaceInv, NEW n \in 1..now
  PROVE  Places(n) = IF n = now /\ pc \in {"count", "peek", "add"} THEN 0 ELSE 1
<1>1. n \in Sample /\ now \in Nat /\ n \in Nat
  BY TraceReportingAssumption DEF ReportingType, HandlerType, Sample
<1>2. n \in Waiting <=> Wait(n)
  <2>1. \A k \in Keys(samples) : k \in Hash
    BY KeyOf, Zenon DEF ReportingType, SamplesType
  <2>2. InCache(n) <=> \E k \in Keys(samples) : ~Taken(k) /\ n \in Peek(samples, k)
    BY <2>1, Zenon DEF InCache, Held, HeldIn
  <2>3. n \in Waiting <=> \/ \E k \in Keys(samples) : ~Taken(k) /\ n \in Peek(samples, k)
                          \/ n \in peeked \ Copies
    BY Zenon DEF Waiting
  <2> QED
    BY <2>2, <2>3, Zenon DEF Wait
<1>3. n \in Handled <=> ~(n = now /\ pc \in {"count", "peek", "add"})
  BY <1>1 DEF Handled
<1>4. Placed(n)
  BY <1>1, Zenon DEF PlaceInv
<1> QED
  BY <1>2, <1>3, <1>4 DEF Placed, Places, Out

\* A finished profile starts with its earliest sample.
LEMMA StartIsEarliest ==
  ASSUME ReportingType, TimesInv, rpc = "build", todo = {}, Copied # {}
  PROVE  startTS \in Copies /\ \A n \in Copies : startTS <= n
<1>1. \A n : n \in Built <=> n \in Copies
  BY BuiltIs, InCopies, Zenon DEF ReportingType, ProfileType, Copies
<1>2. Built # {}
  BY BuiltIs, Zenon DEF Copied
<1> QED
  BY <1>1, <1>2, Zenon DEF TimesInv

\* Between the goroutines of HandleTrace and of reportOTLPProfile a sample is
\* neither lost nor reported twice, unless they meet between two calls for one
\* hash, and a profile starts with its earliest sample: for every number of
\* traces and samples, and every size of the caches.
THEOREM SamplesAreReportedOnce == ReportingSpec => []ExactlyOnce
<1>1. ReportingInv => ExactlyOnce
  BY PlacedOnce, StartIsEarliest, Zenon DEF ReportingInv, SamplesInv, ExactlyOnce
<1> QED
  BY <1>1, ReportingInvariant, PTL

----------------------------------------------------------------------------
\* The ring buffer

IInv == TypeOK /\ PositionsAgree /\ HeldIffQueued

\* The modulo of the code's "(i + readPos) % q.size" is at most one
\* subtraction, because both summands are positions.
LEMMA ModOnce ==
  ASSUME NEW x \in Nat, NEW n \in Nat \ {0}, x < 2 * n
  PROVE  x % n = IF x < n THEN x ELSE x - n
<1>1. CASE x < n
  BY <1>1
<1>2. CASE ~(x < n)
  <2>1. x - n \in 0..n-1
    BY <1>2
  <2>2. x = n * 1 + (x - n)
    OBVIOUS
  <2> QED BY <1>2, <2>1, <2>2
<1> QED BY <1>1, <1>2, Zenon

\* Slot(i) without the modulo.
LEMMA SlotIs ==
  ASSUME TypeOK, NEW i \in 1..Size
  PROVE  /\ Slot(i) = IF i - 1 + readPos < Size THEN i - 1 + readPos
                                                ELSE i - 1 + readPos - Size
         /\ Slot(i) \in 0..Size-1
<1>1. Size \in Nat \ {0} /\ readPos \in 0..Size-1
  BY FifoAssumption, Zenon DEF TypeOK
<1>2. /\ i - 1 + readPos \in Nat
      /\ i - 1 + readPos < 2 * Size
  BY <1>1
<1>3. Slot(i) = IF i - 1 + readPos < Size THEN i - 1 + readPos
                                          ELSE i - 1 + readPos - Size
  BY <1>1, <1>2, ModOnce DEF Slot
<1> QED BY <1>1, <1>2, <1>3

\* The occupied slots are exactly the slots readAll visits.
LEMMA OccupiedIsSlot ==
  ASSUME TypeOK, NEW p \in 0..Size-1
  PROVE  Occupied(p) <=> \E i \in 1..count : p = Slot(i)
<1>1. /\ Size \in Nat \ {0} /\ readPos \in 0..Size-1 /\ count \in 0..Size
  BY FifoAssumption, Zenon DEF TypeOK
<1>2. \A i \in 1..count : /\ i \in 1..Size
                          /\ Slot(i) = IF i - 1 + readPos < Size THEN i - 1 + readPos
                                       ELSE i - 1 + readPos - Size
  BY <1>1, SlotIs
<1>3. ASSUME Occupied(p) PROVE \E i \in 1..count : p = Slot(i)
  <2>1. CASE readPos <= p /\ p < readPos + count
    <3>1. p - readPos + 1 \in 1..count
      BY <1>1, <2>1
    <3>2. p = Slot(p - readPos + 1)
      BY <1>1, <1>2, <3>1, <2>1
    <3> QED BY <3>1, <3>2, Zenon
  <2>2. CASE p + Size < readPos + count
    <3>1. p - readPos + Size + 1 \in 1..count
      BY <1>1, <2>2
    <3>2. p = Slot(p - readPos + Size + 1)
      BY <1>1, <1>2, <3>1, <2>2
    <3> QED BY <3>1, <3>2, Zenon
  <2> QED BY <1>3, <2>1, <2>2, Zenon DEF Occupied
<1>4. ASSUME NEW i \in 1..count, p = Slot(i) PROVE Occupied(p)
  BY <1>1, <1>2, <1>4 DEF Occupied
<1> QED BY <1>3, <1>4, Zenon

\* initFifo establishes the invariant.
LEMMA InitIInv == Init => IInv
  BY FifoAssumption DEF Init, IInv, TypeOK, PositionsAgree, HeldIffQueued,
                        EmptyData, Occupied

\* append keeps it, also when it overwrites.
LEMMA AppendKeepsIInv ==
  ASSUME IInv, NEW v \in Value, append(v)
  PROVE  IInv'
<1> USE FifoAssumption DEF NextPos
<1>1. TypeOK'
  BY DEF IInv, TypeOK, append
<1>2. PositionsAgree'
  BY DEF IInv, TypeOK, PositionsAgree, append
<1>3. HeldIffQueued'
  BY DEF IInv, TypeOK, PositionsAgree, HeldIffQueued, Occupied, append
<1> QED BY <1>1, <1>2, <1>3, Zenon DEF IInv

\* readAll empties the slots it visits.
LEMMA ReadAllKeepsIInv ==
  ASSUME IInv, readAll
  PROVE  IInv'
<1> USE FifoAssumption
<1>1. TypeOK'
  BY DEF IInv, TypeOK, readAll
<1>2. PositionsAgree'
  BY DEF IInv, TypeOK, PositionsAgree, readAll
<1>3. HeldIffQueued'
  <2>1. \A p \in 0..Size-1 : data'[p] = emptyT
    BY OccupiedIsSlot, Zenon DEF IInv, HeldIffQueued, readAll
  <2> QED BY <2>1 DEF IInv, TypeOK, HeldIffQueued, Occupied, readAll
<1> QED BY <1>1, <1>2, <1>3, Zenon DEF IInv

\* So does every other method.
LEMMA StepIInv == IInv /\ [Next]_vars => IInv'
<1> SUFFICES ASSUME IInv, [Next]_vars PROVE IInv'
  BY Zenon
<1> USE FifoAssumption
<1>1. CASE \E v \in Value : append(v)
  BY <1>1, AppendKeepsIInv, Zenon
<1>2. CASE readAll
  BY <1>2, ReadAllKeepsIInv, Zenon
<1>3. CASE getOverwriteCount
  BY <1>3 DEF IInv, TypeOK, PositionsAgree, HeldIffQueued, Occupied, getOverwriteCount
<1>4. CASE zeroFifo
  BY <1>4 DEF IInv, TypeOK, PositionsAgree, HeldIffQueued, Occupied, zeroFifo, EmptyData
<1>5. CASE UNCHANGED vars
  BY <1>5, Zenon DEF IInv, TypeOK, PositionsAgree, HeldIffQueued, Occupied, vars
<1> QED BY <1>1, <1>2, <1>3, <1>4, <1>5, Zenon DEF Next

\* The counters always agree and a slot of the array holds an element exactly
\* while that element is queued.
THEOREM FifoInvariant == Spec => [](TypeOK /\ PositionsAgree /\ HeldIffQueued)
<1>1. IInv => TypeOK /\ PositionsAgree /\ HeldIffQueued
  BY Zenon DEF IInv
<1> QED BY <1>1, InitIInv, StepIInv, PTL DEF Spec
-----------------------------------------------------------------------------
(* The ring buffer implements the overwriting queue.                        *)

\* The slice readAll would return is a sequence of length count.
LEMMA QueuedIsSeq ==
  ASSUME TypeOK
  PROVE  /\ Queued \in Seq(Value \cup {emptyT})
         /\ Len(Queued) = count
         /\ \A i \in 1..count : Queued[i] = data[Slot(i)]
<1>1. Size \in Nat \ {0} /\ count \in 0..Size
  BY FifoAssumption, Zenon DEF TypeOK
<1>2. \A i \in 1..count : data[Slot(i)] \in Value \cup {emptyT}
  <2> SUFFICES ASSUME NEW i \in 1..count
               PROVE  data[Slot(i)] \in Value \cup {emptyT}
    BY Zenon
  <2>1. Slot(i) \in 0..Size-1
    BY <1>1, SlotIs
  <2> QED BY <2>1, Zenon DEF TypeOK
<1> QED BY <1>1, <1>2 DEF Queued

\* The sequence Append makes.
LEMMA AppendedIs ==
  ASSUME NEW S, NEW q \in Seq(S), NEW v \in S
  PROVE  Append(q, v) = [i \in 1..Len(q)+1 |-> IF i = Len(q) + 1 THEN v ELSE q[i]]
<1> DEFINE f == [i \in 1..Len(q)+1 |-> IF i = Len(q) + 1 THEN v ELSE q[i]]
<1>1. f \in Seq(S) /\ Len(f) = Len(q) + 1
  OBVIOUS
<1>2. \A i \in 1..Len(q)+1 : f[i] = Append(q, v)[i]
  OBVIOUS
<1>3. Append(q, v) \in Seq(S) /\ Len(Append(q, v)) = Len(q) + 1
  OBVIOUS
<1> HIDE DEF f
<1>4. f = Append(q, v)
  BY <1>1, <1>2, <1>3
<1> QED BY <1>4, Zenon DEF f

\* Dropping the first element and adding one shifts a sequence by a place.
LEMMA ShiftIs ==
  ASSUME NEW S, NEW q \in Seq(S), q # <<>>, NEW v \in S
  PROVE  Append(Tail(q), v)
           = [i \in 1..Len(q) |-> IF i = Len(q) THEN v ELSE q[i + 1]]
<1> DEFINE t == Tail(q)
<1>1. t \in Seq(S) /\ Len(t) = Len(q) - 1
  OBVIOUS
<1>2. Len(q) \in Nat \ {0}
  OBVIOUS
<1>3. \A i \in 1..Len(q)-1 : t[i] = q[i + 1]
  OBVIOUS
<1> HIDE DEF t
<1>4. Append(t, v) = [i \in 1..Len(t)+1 |-> IF i = Len(t) + 1 THEN v ELSE t[i]]
  <2>1. \A u \in Seq(S) :
          Append(u, v) = [i \in 1..Len(u)+1 |-> IF i = Len(u) + 1 THEN v ELSE u[i]]
    <3> TAKE u \in Seq(S)
    <3> QED BY AppendedIs
  <2> QED BY <1>1, <2>1, Zenon
<1>5. \A n \in Nat : \A i \in 1..n : i # n => i \in 1..n-1
  OBVIOUS
<1>6. Len(t) + 1 = Len(q)
  BY <1>1, <1>2
<1>7. \A i \in 1..Len(q) : (IF i = Len(q) THEN v ELSE t[i])
                             = IF i = Len(q) THEN v ELSE q[i + 1]
  BY <1>2, <1>3, <1>5, Zenon
<1>8. Append(t, v) = [i \in 1..Len(q) |-> IF i = Len(q) THEN v ELSE q[i + 1]]
  BY <1>4, <1>6, <1>7, Zenon
<1> QED BY <1>8, Zenon DEF t

\* append to a buffer that has room.
LEMMA AppendWithRoom ==
  ASSUME IInv, NEW v \in Value, append(v), count < Size
  PROVE  Queued' = Append(Queued, v)
<1>0. TypeOK /\ TypeOK'
  BY AppendKeepsIInv, Zenon DEF IInv
<1>1. /\ Size \in Nat \ {0} /\ count \in 0..Size /\ readPos \in 0..Size-1
      /\ writePos \in 0..Size-1
      /\ count' = count + 1 /\ readPos' = readPos
      /\ data' = [data EXCEPT ![writePos] = v]
      /\ data \in [0..Size-1 -> Value \cup {emptyT}]
  BY <1>0, FifoAssumption, Zenon DEF TypeOK, append
<1>2. Slot(count + 1) = writePos /\ count + 1 \in 1..Size
  BY <1>0, <1>1, SlotIs DEF IInv, PositionsAgree
<1>3. \A i \in 1..count : Slot(i) \in 0..Size-1 /\ Slot(i) # writePos
  BY <1>0, <1>1, SlotIs DEF IInv, PositionsAgree
<1>4. Queued' = [i \in 1..count+1 |-> data'[Slot(i)]]
  BY <1>1 DEF Queued, Slot
<1>5. Append(Queued, v) = [i \in 1..count+1 |-> IF i = count + 1 THEN v ELSE Queued[i]]
  <2>1. v \in Value \cup {emptyT} /\ Queued \in Seq(Value \cup {emptyT}) /\ Len(Queued) = count
    BY <1>0, QueuedIsSeq, Zenon
  <2>2. Append(Queued,
  v) = [i \in 1..Len(Queued)+1 |-> IF i = Len(Queued) + 1 THEN v ELSE Queued[i]]
    BY <2>1, AppendedIs
  <2> QED BY <2>1, <2>2, Zenon
<1>6. \A i \in 1..count+1 : data'[Slot(i)] = IF i = count + 1 THEN v ELSE Queued[i]
  BY <1>0, <1>1, <1>2, <1>3, QueuedIsSeq
<1> QED BY <1>4, <1>5, <1>6, Zenon

\* append to a full buffer drops the oldest element.
LEMMA AppendWhenFull ==
  ASSUME IInv, NEW v \in Value, append(v), ~(count < Size)
  PROVE  Queued' = Append(Tail(Queued), v)
<1>0. TypeOK /\ TypeOK'
  BY AppendKeepsIInv, Zenon DEF IInv
<1>1. /\ Size \in Nat \ {0} /\ count = Size /\ readPos \in 0..Size-1
      /\ writePos = readPos
      /\ count' = Size /\ readPos' = NextPos(readPos)
      /\ data' = [data EXCEPT ![readPos] = v]
      /\ data \in [0..Size-1 -> Value \cup {emptyT}]
  <2>1. Size \in Nat \ {0} /\ count = Size /\ readPos \in 0..Size-1
    BY <1>0, FifoAssumption DEF TypeOK
  <2>2. writePos = readPos
    BY <2>1 DEF IInv, PositionsAgree
  <2>3. /\ count' = count /\ readPos' = NextPos(writePos)
        /\ data' = [data EXCEPT ![writePos] = v]
    BY Zenon DEF append
  <2> QED BY <1>0, <2>1, <2>2, <2>3, Zenon DEF TypeOK
<1>2. \A i \in 1..Size : /\ Slot(i) \in 0..Size-1
                         /\ Slot(i) = IF i - 1 + readPos < Size THEN i - 1 + readPos
                                      ELSE i - 1 + readPos - Size
  BY <1>0, SlotIs, Zenon
<1>3. \A i \in 1..Size : (i - 1 + NextPos(readPos)) % Size
                           = IF i = Size THEN readPos ELSE Slot(i + 1)
  <2> SUFFICES ASSUME NEW i \in 1..Size
               PROVE  (i - 1 + NextPos(readPos)) % Size
                           = IF i = Size THEN readPos ELSE Slot(i + 1)
    BY Zenon
  <2> DEFINE x == i - 1 + NextPos(readPos)
  <2>1. x \in Nat /\ x < 2 * Size
    BY <1>1 DEF NextPos
  <2>2. x % Size = IF x < Size THEN x ELSE x - Size
    <3> HIDE DEF x
    <3> QED BY <1>1, <2>1, ModOnce, Zenon
  <2>3. i # Size => i + 1 \in 1..Size
    BY <1>1
  <2> QED BY <1>1, <1>2, <2>2, <2>3 DEF NextPos
<1>4. Queued' = [i \in 1..Size |-> data'[(i - 1 + NextPos(readPos)) % Size]]
  BY <1>1 DEF Queued, Slot
<1>5. /\ Queued \in Seq(Value \cup {emptyT}) /\ Len(Queued) = Size
      /\ \A i \in 1..Size : Queued[i] = data[Slot(i)]
  BY <1>0, <1>1, QueuedIsSeq, Zenon
<1>6. Append(Tail(Queued), v)
        = [i \in 1..Size |-> IF i = Size THEN v ELSE Queued[i + 1]]
  <2>1. Queued # <<>> /\ v \in Value \cup {emptyT}
    BY <1>1, <1>5, Zenon
  <2> QED BY <1>5, <2>1, ShiftIs
<1>7. \A i \in 1..Size : data'[(i - 1 + NextPos(readPos)) % Size]
                           = IF i = Size THEN v ELSE Queued[i + 1]
  <2> SUFFICES ASSUME NEW i \in 1..Size
               PROVE  data'[(i - 1 + NextPos(readPos)) % Size]
                           = IF i = Size THEN v ELSE Queued[i + 1]
    BY Zenon
  <2>1. CASE i = Size
    BY <1>1, <1>3, <2>1, Zenon
  <2>2. CASE i # Size
    <3>1. i + 1 \in 1..Size /\ Slot(i + 1) # readPos
      BY <1>1, <1>2, <2>2
    <3> QED BY <1>1, <1>2, <1>3, <1>5, <2>2, <3>1, Zenon
  <2> QED BY <2>1, <2>2, Zenon
<1> QED BY <1>4, <1>6, <1>7, Zenon

\* Every behaviour of the ring buffer is a behaviour of the overwriting queue
\* under the mapping that reads count elements from readPos on: first in,
\* first out, and only an append to a full buffer loses an element, the
\* oldest one, and counts it.
THEOREM FifoImplementsQueue == Spec => RefinesQueue
<1>1. Init => Q!QInit
  BY FifoAssumption DEF Init, Q!QInit, Queued
<1>2. IInv /\ [Next]_vars => [Q!QNext]_(Q!qvars)
  <2> SUFFICES ASSUME IInv, [Next]_vars PROVE [Q!QNext]_(Q!qvars)
    BY Zenon
  <2>0. TypeOK /\ Len(Queued) = count
    BY QueuedIsSeq, Zenon DEF IInv
  <2>1. ASSUME NEW v \in Value, append(v) PROVE Q!QNext
    <3>1. CASE count < Size
      BY <2>0, <2>1, <3>1, AppendWithRoom, Zenon DEF append, Q!QNext, Q!QAppend
    <3>2. CASE ~(count < Size)
      <4>1. Len(Queued) = Size
        BY <2>0, <3>2, FifoAssumption DEF TypeOK
      <4> QED BY <4>1, <2>1, <3>2, AppendWhenFull, Zenon DEF append, Q!QNext, Q!QAppend
    <3> QED BY <3>1, <3>2, Zenon
  <2>2. CASE readAll
    <3>1. Queued' = << >>
      BY <2>2 DEF readAll, Queued
    <3> QED BY <2>2, <3>1, Zenon DEF readAll, Q!QNext, Q!QReadAll
  <2>3. CASE getOverwriteCount
    BY <2>3, Zenon DEF getOverwriteCount, Q!QNext, Q!QCollect, Queued, Slot
  <2>4. CASE zeroFifo
    <3>1. Queued' = << >>
      BY <2>4 DEF zeroFifo, Queued
    <3> QED BY <2>4, <3>1, Zenon DEF zeroFifo, Q!QNext, Q!QReset
  <2>5. CASE UNCHANGED vars
    BY <2>5, Zenon DEF vars, Q!qvars, Queued, Slot
  <2> QED BY <2>1, <2>2, <2>3, <2>4, <2>5, Zenon DEF Next
<1> QED BY <1>1, <1>2, InitIInv, StepIInv, PTL DEF Spec, RefinesQueue, Q!QSpec
=============================================================================
