------------------------- MODULE IntervalCacheProofs ------------------------
(***************************************************************************)
(* Proofs about IntervalCache, for any executables, sizes, numbers of      *)
(* requests and deaths of the agent: the elements, their list and the      *)
(* files of the directory agree, and the list is in the order of use.  The *)
(* sum of the sizes is the number of bytes <<executable, byte>>, so that   *)
(* what a step adds to it or takes from it is a fact about finite sets.    *)
(***************************************************************************)
EXTENDS IntervalCache, FiniteSetTheorems, TLAPS, WellFoundedInduction

Phases == {"idle", "read", "utime", "extract", "write", "written", "evict", "forget"}

\* What the variables hold.
Types ==
  /\ files \in [Exe -> {None} \cup File]
  /\ entries \in [Exe -> {None} \cup Nat]
  /\ lru \in Seq(Exe)
  /\ phase \in Phases /\ (phase # "idle" => exe \in Exe)
  /\ phase \in {"utime", "write"} => files[exe] \in File
  /\ toDelete \in Nat /\ now \in Nat /\ crashes \in Nat
  /\ lastUse \in [Exe -> Nat] /\ \A e \in Exe : lastUse[e] <= now

\* How much is deleted is enough for the new element.
SizeInv ==
  /\ phase \in {"evict", "forget"} => SumOf(entries) + Size[exe] <= MaxSize + toDelete
  /\ crashes = 0 \/ settled => SumOf(entries) <= MaxSize

\* SaveIntervalData
Saving == {"write", "written", "evict", "forget"}

\* The list has every element, once unless it is odd, and the one that is saved is new.
ListInv ==
  /\ \A e \in Exe : On(entries[e]) => \E i \in DOMAIN lru : lru[i] = e
  /\ \A i, j \in DOMAIN lru : lru[i] = lru[j] /\ lru[i] \notin odd => i = j
  /\ \A i \in DOMAIN lru : lru[i] \notin odd => On(entries[lru[i]])
  /\ phase = "forget" => lru # << >>
  /\ phase = "read" => On(entries[exe])
  /\ phase \in Saving /\ exe \notin odd => ~On(entries[exe])

\* What the directory has of an element, and of the one in hand.
FilesInv ==
  \A e \in Exe \ odd :
    /\ On(files[e]) /\ (phase = "write" => e # exe) => files[e].complete
    /\ (phase \in {"written", "evict", "forget"} => e # exe) /\ (phase = "forget" => e # Oldest) =>
         (On(entries[e]) <=> On(files[e]) /\ files[e].complete)
    /\ phase \in Saving /\ e = exe =>
         On(files[e]) /\ files[e].atime = now /\ (phase # "write" <=> files[e].complete)
    /\ phase = "forget" /\ e = Oldest => ~On(files[e])

\* Access times tell when an element was used, to the second.
TimesInv ==
  \A e \in Exe \ odd :
    /\ On(files[e]) /\ (phase \in Saving \cup {"utime"} => e # exe) =>
         Seconds(files[e].atime) = Seconds(lastUse[e])
    /\ phase = "utime" /\ e = exe => lastUse[e] = now /\ On(files[e])

Older(t, u) == IF crashes = 0 THEN t < u ELSE Seconds(t) < Seconds(u)

\* The list is in the order of use; after a restart only as far as access times tell.
OrderInv ==
  \A i, j \in DOMAIN lru :
    lru[i] \notin odd /\ lru[j] \notin odd /\ Older(lastUse[lru[i]], lastUse[lru[j]]) => j < i

\* The inductive invariant.
CacheInv == Types /\ SizeInv /\ ListInv /\ FilesInv /\ TimesInv /\ OrderInv

----------------------------------------------------------------------------
BytesOf(m, S) == UNION {{e} \X (1..m[e]) : e \in S}
SizeIn(x) == IF On(x) THEN x ELSE 0

\* The bytes of some elements are finitely many.
LEMMA BytesFinite ==
  ASSUME NEW m \in [Exe -> {None} \cup Nat], NEW S \in SUBSET Elements(m)
  PROVE  IsFiniteSet(BytesOf(m, S)) /\ Cardinality(BytesOf(m, S)) \in Nat
<1> DEFINE P == {{e} \X (1..m[e]) : e \in S}
           g == [e \in S |-> {e} \X (1..m[e])]
<1>1. S \in SUBSET Exe
  BY Zenon DEF Elements
<1>2. IsFiniteSet(S)
  BY <1>1, IntervalCacheAssumption, FS_Subset, Zenon
<1>3. g \in Surjection(S, P)
  BY Zenon DEF Surjection
<1>4. IsFiniteSet(P)
  BY <1>2, <1>3, FS_Surjection, Zenon
<1>5. ASSUME NEW e \in S
      PROVE  IsFiniteSet({e} \X (1..m[e]))
  <2>1. m[e] \in Nat
    BY Zenon DEF Elements, On
  <2>2. IsFiniteSet(1..m[e])
    BY <2>1, FS_Interval
  <2>3. IsFiniteSet({e})
    BY FS_Singleton, Zenon
  <2> QED
    BY <2>2, <2>3, FS_Product, Zenon
<1>6. \A T \in P : IsFiniteSet(T)
  BY <1>5, Zenon
<1>7. IsFiniteSet(BytesOf(m, S))
  BY <1>4, <1>6, FS_UNION, Zenon DEF BytesOf
<1> QED
  BY <1>7, FS_CardinalityType, Zenon

\* The sum of the sizes, without one element.
LEMMA SumWithout ==
  ASSUME NEW m \in [Exe -> {None} \cup Nat], NEW e \in Exe
  PROVE  /\ Cardinality(BytesOf(m, Elements(m) \ {e})) \in Nat
         /\ SumOf(m) = Cardinality(BytesOf(m, Elements(m) \ {e})) + SizeIn(m[e])
<1> DEFINE R == BytesOf(m, Elements(m) \ {e})
           own == {e} \X (1..m[e])
<1>1. IsFiniteSet(R) /\ Cardinality(R) \in Nat
  BY BytesFinite, Zenon
<1>2. CASE ~On(m[e])
  <2>1. Elements(m) \ {e} = Elements(m)
    BY <1>2, Zenon DEF Elements
  <2>2. Bytes(m) = R
    BY <2>1, Zenon DEF Bytes, BytesOf
  <2>3. SizeIn(m[e]) = 0
    BY <1>2, Zenon DEF SizeIn
  <2> QED
    BY <1>1, <2>2, <2>3 DEF SumOf
<1>3. CASE On(m[e])
  <2>1. m[e] \in Nat /\ SizeIn(m[e]) = m[e] /\ e \in Elements(m)
    BY <1>3, Zenon DEF SizeIn, Elements, On
  <2>2. IsFiniteSet(own) /\ Cardinality(own) = m[e]
    <3>1. IsFiniteSet(1..m[e]) /\ Cardinality(1..m[e]) = m[e]
      BY <2>1, FS_Interval
    <3>2. IsFiniteSet({e}) /\ Cardinality({e}) = 1
      BY FS_Singleton, Zenon
    <3>3. IsFiniteSet(own) /\ Cardinality(own) = Cardinality({e}) * Cardinality(1..m[e])
      BY <3>1, <3>2, FS_Product, Zenon
    <3> QED
      BY <2>1, <3>1, <3>2, <3>3
  <2>3. Bytes(m) = R \cup own
    BY <2>1, Zenon DEF Bytes, BytesOf
  <2>4. R \cap own = {}
    BY DEF BytesOf
  <2>5. Cardinality(R \cap own) = 0
    BY <2>4, FS_EmptySet, Zenon
  <2>6. Cardinality(R \cup own) = Cardinality(R) + Cardinality(own) - Cardinality(R \cap own)
    BY <1>1, <2>2, FS_Union, Zenon
  <2> HIDE DEF R, own
  <2>7. SumOf(m) = Cardinality(R \cup own)
    BY <2>3, Zenon DEF SumOf
  <2>8. SumOf(m) = Cardinality(R) + m[e]
    BY <1>1, <2>1, <2>2, <2>5, <2>6, <2>7
  <2> QED
    BY <1>1, <2>1, <2>8, Zenon DEF R
<1> QED
  BY <1>2, <1>3, Zenon

\* What the sum becomes when one element changes.
LEMMA SumChanges ==
  ASSUME NEW m \in [Exe -> {None} \cup Nat], NEW e \in Exe, NEW n \in {None} \cup Nat
  PROVE  /\ SumOf(m) \in Nat /\ SumOf([m EXCEPT ![e] = n]) \in Nat
         /\ SumOf([m EXCEPT ![e] = n]) + SizeIn(m[e]) = SumOf(m) + SizeIn(n)
<1> DEFINE o == [m EXCEPT ![e] = n]
<1>1. o \in [Exe -> {None} \cup Nat] /\ o[e] = n
  BY Zenon
<1>2. Elements(o) \ {e} = Elements(m) \ {e}
  BY Zenon DEF Elements
<1>3. \A d \in Elements(m) \ {e} : o[d] = m[d]
  BY Zenon DEF Elements
<1> HIDE DEF o
<1>4. BytesOf(o, Elements(o) \ {e}) = BytesOf(m, Elements(m) \ {e})
  BY <1>2, <1>3, Zenon DEF BytesOf
<1>5. PICK k : k = Cardinality(BytesOf(m, Elements(m) \ {e}))
  BY Zenon
<1>6. k \in Nat /\ SumOf(m) = k + SizeIn(m[e])
  BY <1>5, SumWithout, Zenon
<1>7. SumOf(o) = k + SizeIn(o[e])
  BY <1>1, <1>4, <1>5, SumWithout, Zenon
<1>8. SizeIn(m[e]) \in Nat /\ SizeIn(n) \in Nat
  BY Zenon DEF SizeIn, On
<1>9. SumOf(o) = k + SizeIn(n)
  BY <1>1, <1>7, Zenon
<1>10. SumOf(m) \in Nat /\ SumOf(o) \in Nat /\ SumOf(o) + SizeIn(m[e]) = SumOf(m) + SizeIn(n)
  BY <1>6, <1>8, <1>9
<1> QED
  BY <1>10, Zenon DEF o

----------------------------------------------------------------------------
\* Access times are kept to the second.
LEMMA SecondsOrder ==
  /\ \A t \in Nat : Seconds(t) \in Nat /\ Seconds(Seconds(t)) = Seconds(t)
  /\ \A t, u \in Nat : t <= u => Seconds(t) <= Seconds(u)
BY DEF Seconds

\* MoveToFront finds an element: its first place in the list.
LEMMA PositionOf ==
  ASSUME lru \in Seq(Exe), NEW e, \E i \in DOMAIN lru : lru[i] = e
  PROVE  Position(e) \in DOMAIN lru /\ lru[Position(e)] = e
<1> DEFINE S == {i \in DOMAIN lru : lru[i] = e}
<1>1. S \subseteq Nat /\ S # {}
  OBVIOUS
<1>2. PICK i \in S : \A j \in S : <<j, i>> \notin OpToRel(<, Nat)
  BY <1>1, NatLessThanWellFounded, WFMin, Zenon
<1>3. ASSUME NEW j \in S
      PROVE  i <= j
  <2>1. ~(j < i)
    <3> SUFFICES ASSUME j < i
                 PROVE  FALSE
      BY Zenon
    <3>1. <<j, i>> \in {ss \in Nat \X Nat : ss[1] < ss[2]}
      BY <1>1, Zenon
    <3> QED
      BY <1>2, <3>1, Zenon DEF OpToRel
  <2> QED
    BY <1>1, <2>1
<1>4. i \in DOMAIN lru /\ lru[i] = e /\ \A j \in DOMAIN lru : lru[j] = e => i <= j
  BY <1>3, Zenon
<1> QED
  BY <1>4, Zenon DEF Position

\* GetIntervalStructuresForFile is called.
LEMMA RequestKeeps ==
  ASSUME CacheInv, NEW e \in Exe, Request(e)
  PROVE  CacheInv'
<1> USE DEF Request, cacheVars, history
<1>1. Types'
  BY IntervalCacheAssumption DEF CacheInv, Types, Phases
<1>2. SizeInv'
  BY Zenon DEF CacheInv, SizeInv
<1>3. ListInv'
  BY Zenon DEF CacheInv, ListInv, Saving
<1>4. FilesInv'
  BY Zenon DEF CacheInv, FilesInv, Saving
<1>5. TimesInv'
  BY Zenon DEF CacheInv, TimesInv, Saving
<1>6. OrderInv'
  BY Zenon DEF CacheInv, OrderInv, Older
<1> QED
  BY <1>1, <1>2, <1>3, <1>4, <1>5, <1>6, Zenon DEF CacheInv

\* The file of an element cannot be read, and the intervals are extracted again.
LEMMA ReadFailsKeeps ==
  ASSUME CacheInv, ReadFails
  PROVE  CacheInv'
<1> USE DEF ReadFails, cacheVars, history
<1>1. Types'
  BY IntervalCacheAssumption, Zenon DEF CacheInv, Types, Phases
<1>2. SizeInv'
  BY Zenon DEF CacheInv, SizeInv
<1>3. ListInv'
  BY Zenon DEF CacheInv, ListInv, Saving
<1>4. FilesInv'
  BY Zenon DEF CacheInv, FilesInv, Saving
<1>5. TimesInv'
  BY Zenon DEF CacheInv, TimesInv, Saving
<1>6. OrderInv'
  BY Zenon DEF CacheInv, OrderInv, Older
<1> QED
  BY <1>1, <1>2, <1>3, <1>4, <1>5, <1>6, Zenon DEF CacheInv

\* The access time of the file is set, or that fails.
LEMMA UtimeKeeps ==
  ASSUME CacheInv, Utime
  PROVE  CacheInv'
<1>1. exe \in Exe /\ files[exe] \in File /\ On(files[exe])
  BY IntervalCacheAssumption, Zenon DEF CacheInv, Types, Utime, On
<1>2. PICK f \in File : /\ f.complete = files[exe].complete /\ On(f)
                        /\ files' = [files EXCEPT ![exe] = f]
                        /\ exe \notin odd' => f.atime = Seconds(now)
  <2>1. CASE files' = [files EXCEPT ![exe].atime = Seconds(now)]
    <3>1. [files[exe] EXCEPT !.atime = Seconds(now)] \in File
      BY <1>1, SecondsOrder, Zenon DEF File, CacheInv, Types
    <3> QED
      BY <1>1, <2>1, <3>1, IntervalCacheAssumption, Zenon DEF File, On
  <2>2. CASE odd' = odd \cup {exe} /\ UNCHANGED files
    BY <1>1, <2>2, Zenon DEF CacheInv, Types
  <2> QED
    BY <2>1, <2>2, Zenon DEF Utime
<1>3. /\ odd \subseteq odd' /\ phase = "utime" /\ phase' = "idle"
      /\ UNCHANGED <<entries, lru, exe, toDelete, now, crashes, lastUse, settled>>
  BY Zenon DEF Utime, cacheVars
<1>4. Types'
  BY <1>1, <1>2, <1>3, Zenon DEF CacheInv, Types, Phases
<1>5. SizeInv'
  BY <1>3, Zenon DEF CacheInv, SizeInv
<1>6. ListInv'
  BY <1>3, Zenon DEF CacheInv, ListInv, Saving
<1>7. FilesInv'
  BY <1>1, <1>2, <1>3, Zenon DEF CacheInv, Types, FilesInv, Saving
<1>8. TimesInv'
  BY <1>1, <1>2, <1>3, SecondsOrder DEF CacheInv, Types, TimesInv, Saving
<1>9. OrderInv'
  BY <1>3, Zenon DEF CacheInv, OrderInv, Older
<1> QED
  BY <1>4, <1>5, <1>6, <1>7, <1>8, <1>9, Zenon DEF CacheInv

\* No intervals can be extracted.
LEMMA ExtractFailsKeeps ==
  ASSUME CacheInv, ExtractFails
  PROVE  CacheInv'
<1> USE DEF ExtractFails, cacheVars, history
<1>1. Types'
  BY IntervalCacheAssumption, Zenon DEF CacheInv, Types, Phases
<1>2. SizeInv'
  BY Zenon DEF CacheInv, SizeInv
<1>3. ListInv'
  BY Zenon DEF CacheInv, ListInv, Saving
<1>4. FilesInv'
  BY Zenon DEF CacheInv, FilesInv, Saving
<1>5. TimesInv'
  BY Zenon DEF CacheInv, TimesInv, Saving
<1>6. OrderInv'
  BY Zenon DEF CacheInv, OrderInv, Older
<1> QED
  BY <1>1, <1>2, <1>3, <1>4, <1>5, <1>6, Zenon DEF CacheInv

\* SaveIntervalData creates or truncates the file.
LEMMA OpenFileKeeps ==
  ASSUME CacheInv, OpenFile
  PROVE  CacheInv'
<1>1. exe \in Exe /\ phase = "extract" /\ now \in Nat
  BY Zenon DEF CacheInv, Types, OpenFile
<1>2. PICK f \in File : /\ ~f.complete /\ On(f)
                        /\ files' = [files EXCEPT ![exe] = f]
                        /\ ~On(files[exe]) => f.atime = now
  <2>1. PICK n \in 0..Size[exe] - 1 :
          files' = [files EXCEPT ![exe] = [size |-> n, complete |-> FALSE,
                                           atime |-> IF On(files[exe]) THEN files[exe].atime ELSE now]]
    BY Zenon DEF OpenFile
  <2>2. On(files[exe]) => files[exe].atime \in Nat
    BY <1>1, Zenon DEF CacheInv, Types, File, On
  <2> DEFINE f == [size |-> n, complete |-> FALSE,
                   atime |-> IF On(files[exe]) THEN files[exe].atime ELSE now]
  <2>3. n \in Nat
    BY <1>1, <2>1, IntervalCacheAssumption
  <2>4. f \in File
    BY <1>1, <2>2, <2>3, Zenon DEF File
  <2>5. On(f)
    BY <2>4, IntervalCacheAssumption, Zenon DEF On
  <2> QED
    BY <2>1, <2>4, <2>5, Zenon
<1>3. /\ odd \subseteq odd' /\ phase' = "write" /\ (exe \notin odd' => ~On(entries[exe]))
      /\ UNCHANGED <<entries, lru, exe, toDelete, now, crashes, lastUse, settled>>
  BY Zenon DEF OpenFile, cacheVars
<1>4. exe \notin odd' => ~On(files[exe])
  BY <1>1, <1>3, Zenon DEF CacheInv, FilesInv
<1>5. Types'
  BY <1>1, <1>2, <1>3, Zenon DEF CacheInv, Types, Phases
<1>6. SizeInv'
  BY <1>3, Zenon DEF CacheInv, SizeInv
<1>7. ListInv'
  BY <1>1, <1>3, Zenon DEF CacheInv, ListInv, Saving
<1>8. FilesInv'
  BY <1>1, <1>2, <1>3, <1>4, Zenon DEF CacheInv, Types, FilesInv, Saving
<1>9. TimesInv'
  BY <1>1, <1>2, <1>3 DEF CacheInv, Types, TimesInv, Saving
<1>10. OrderInv'
  BY <1>3, Zenon DEF CacheInv, OrderInv, Older
<1> QED
  BY <1>5, <1>6, <1>7, <1>8, <1>9, <1>10, Zenon DEF CacheInv

\* The file cannot be written: what there is of it stays.
LEMMA WriteFailsKeeps ==
  ASSUME CacheInv, WriteFails
  PROVE  CacheInv'
<1> USE DEF WriteFails, cacheVars, history
<1>1. Types'
  BY IntervalCacheAssumption, Zenon DEF CacheInv, Types, Phases
<1>2. SizeInv'
  BY Zenon DEF CacheInv, SizeInv
<1>3. ListInv'
  BY Zenon DEF CacheInv, ListInv, Saving
<1>4. FilesInv'
  BY Zenon DEF CacheInv, FilesInv, Saving
<1>5. TimesInv'
  BY Zenon DEF CacheInv, TimesInv, Saving
<1>6. OrderInv'
  BY DEF CacheInv, OrderInv, Older
<1> QED
  BY <1>1, <1>2, <1>3, <1>4, <1>5, <1>6 DEF CacheInv

\* The file is complete, but not yet an element.
LEMMA WriteFileKeeps ==
  ASSUME CacheInv, WriteFile
  PROVE  CacheInv'
<1>1. exe \in Exe /\ phase = "write" /\ files[exe] \in File /\ On(files[exe]) /\ Size[exe] \in Nat
  BY IntervalCacheAssumption, Zenon DEF CacheInv, Types, WriteFile, On
<1>2. PICK f \in File : f.complete /\ On(f) /\ f.atime = files[exe].atime /\ files' = [files EXCEPT ![exe] = f]
  <2> DEFINE f == [files[exe] EXCEPT !.size = Size[exe], !.complete = TRUE]
  <2>1. f \in File /\ f.complete /\ f.atime = files[exe].atime
    BY <1>1, Zenon DEF File
  <2>2. On(f)
    BY <2>1, IntervalCacheAssumption, Zenon DEF On
  <2>3. files' = [files EXCEPT ![exe] = f]
    BY <1>1, Zenon DEF WriteFile, CacheInv, Types
  <2> QED
    BY <2>1, <2>2, <2>3, Zenon
<1>3. phase' = "written" /\ UNCHANGED <<entries, lru, exe, toDelete, now, crashes, lastUse, odd, settled>>
  BY Zenon DEF WriteFile, cacheVars, history
<1>4. Types'
  BY <1>1, <1>2, <1>3, Zenon DEF CacheInv, Types, Phases
<1>5. SizeInv'
  BY <1>3, Zenon DEF CacheInv, SizeInv
<1>6. ListInv'
  BY <1>1, <1>3, Zenon DEF CacheInv, ListInv, Saving
<1>7. FilesInv'
  BY <1>1, <1>2, <1>3, Zenon DEF CacheInv, Types, FilesInv, Saving
<1>8. TimesInv'
  BY <1>1, <1>2, <1>3, Zenon DEF CacheInv, Types, TimesInv, Saving
<1>9. OrderInv'
  BY <1>3, Zenon DEF CacheInv, OrderInv, Older
<1> QED
  BY <1>4, <1>5, <1>6, <1>7, <1>8, <1>9, Zenon DEF CacheInv

\* A file that is larger than the cache is removed again.
LEMMA RejectLargeKeeps ==
  ASSUME CacheInv, RejectLarge
  PROVE  CacheInv'
<1>1. /\ exe \in Exe /\ phase = "written" /\ phase' = "idle" /\ files' = [files EXCEPT ![exe] = None]
      /\ UNCHANGED <<entries, lru, exe, toDelete, now, crashes, lastUse, odd, settled>>
  BY Zenon DEF CacheInv, Types, RejectLarge, cacheVars, history
<1>2. exe \notin odd => ~On(entries[exe])
  BY <1>1, Zenon DEF CacheInv, ListInv, Saving
<1>3. \A e \in Exe : On(files'[e]) => e # exe /\ files'[e] = files[e]
  BY <1>1, Zenon DEF CacheInv, Types, On
<1>4. \A e \in Exe : e # exe => files'[e] = files[e]
  BY <1>1, Zenon DEF CacheInv, Types
<1>5. Types'
  BY <1>1, Zenon DEF CacheInv, Types, Phases
<1>6. SizeInv'
  BY <1>1, Zenon DEF CacheInv, SizeInv
<1>7. ListInv'
  BY <1>1, Zenon DEF CacheInv, ListInv, Saving
<1>8. FilesInv'
  BY <1>1, <1>2, <1>3, <1>4 DEF CacheInv, FilesInv, Saving
<1>9. TimesInv'
  BY <1>1, <1>3, Zenon DEF CacheInv, TimesInv, Saving
<1>10. OrderInv'
  BY <1>1 DEF CacheInv, OrderInv, Older
<1> QED
  BY <1>5, <1>6, <1>7, <1>8, <1>9, <1>10 DEF CacheInv

\* evictEntries works out how much is to be deleted.
LEMMA MakeRoomKeeps ==
  ASSUME CacheInv, MakeRoom
  PROVE  CacheInv'
<1>1. /\ exe \in Exe /\ phase = "written" /\ phase' = "evict"
      /\ UNCHANGED <<files, entries, lru, exe, now, crashes, lastUse, odd, settled>>
  BY Zenon DEF CacheInv, Types, MakeRoom, cacheVars, history
<1>2. SumOf(entries) \in Nat /\ Size[exe] \in Nat /\ MaxSize \in Nat
  BY <1>1, SumChanges, IntervalCacheAssumption, Zenon DEF CacheInv, Types
<1>3. toDelete' \in Nat /\ SumOf(entries) + Size[exe] <= MaxSize + toDelete'
  BY <1>2 DEF MakeRoom, Minus
<1>4. Types'
  BY <1>1, <1>3, Zenon DEF CacheInv, Types, Phases
<1>5. SizeInv'
  BY <1>1, <1>3, Zenon DEF CacheInv, SizeInv
<1>6. ListInv'
  BY <1>1, Zenon DEF CacheInv, ListInv, Saving
<1>7. FilesInv'
  BY <1>1, Zenon DEF CacheInv, FilesInv, Saving
<1>8. TimesInv'
  BY <1>1, Zenon DEF CacheInv, TimesInv, Saving
<1>9. OrderInv'
  BY <1>1 DEF CacheInv, OrderInv, Older
<1> QED
  BY <1>4, <1>5, <1>6, <1>7, <1>8, <1>9, Zenon DEF CacheInv

\* evictEntries removes the file of the oldest element ...
LEMMA RemoveFileKeeps ==
  ASSUME CacheInv, RemoveFile
  PROVE  CacheInv'
<1>1. /\ exe \in Exe /\ phase = "evict" /\ phase' = "forget" /\ lru # << >>
      /\ files' = [files EXCEPT ![Oldest] = None]
      /\ UNCHANGED <<entries, lru, exe, toDelete, now, crashes, lastUse, odd, settled>>
  BY Zenon DEF CacheInv, Types, RemoveFile, cacheVars, history
<1>2. Len(lru) \in DOMAIN lru /\ Oldest \in Exe /\ Oldest' = Oldest
  BY <1>1 DEF CacheInv, Types, Oldest
<1>3. Oldest \notin odd => Oldest # exe
  BY <1>1, <1>2, Zenon DEF CacheInv, ListInv, Saving, Oldest
<1>4. \A e \in Exe : On(files'[e]) => e # Oldest /\ files'[e] = files[e]
  BY <1>1, Zenon DEF CacheInv, Types, On
<1>5. \A e \in Exe : e # Oldest => files'[e] = files[e]
  BY <1>1, Zenon DEF CacheInv, Types
<1>6. Types'
  BY <1>1, <1>2, Zenon DEF CacheInv, Types, Phases
<1>7. SizeInv'
  BY <1>1, Zenon DEF CacheInv, SizeInv
<1>8. ListInv'
  BY <1>1, Zenon DEF CacheInv, ListInv, Saving
<1>9. FilesInv'
  BY <1>1, <1>2, <1>3, <1>4, <1>5 DEF CacheInv, FilesInv, Saving
<1>10. TimesInv'
  BY <1>1, <1>4, Zenon DEF CacheInv, TimesInv, Saving
<1>11. OrderInv'
  BY <1>1, Zenon DEF CacheInv, OrderInv, Older
<1> QED
  BY <1>6, <1>7, <1>8, <1>9, <1>10, <1>11, Zenon DEF CacheInv

\* ... or cannot, and gives up ...
LEMMA EvictFailsKeeps ==
  ASSUME CacheInv, EvictFails
  PROVE  CacheInv'
<1> USE DEF EvictFails, cacheVars, history
<1>1. Types'
  BY IntervalCacheAssumption, Zenon DEF CacheInv, Types, Phases
<1>2. SizeInv'
  BY Zenon DEF CacheInv, SizeInv
<1>3. ListInv'
  BY Zenon DEF CacheInv, ListInv, Saving
<1>4. FilesInv'
  BY Zenon DEF CacheInv, FilesInv, Saving
<1>5. TimesInv'
  BY Zenon DEF CacheInv, TimesInv, Saving
<1>6. OrderInv'
  BY DEF CacheInv, OrderInv, Older
<1> QED
  BY <1>1, <1>2, <1>3, <1>4, <1>5, <1>6 DEF CacheInv

\* ... and forgets the element: what is left to delete goes down by its size.
LEMMA ForgetElementKeeps ==
  ASSUME CacheInv, ForgetElement
  PROVE  CacheInv'
<1>1. /\ exe \in Exe /\ phase = "forget" /\ phase' = "evict" /\ lru # << >>
      /\ lru' = SubSeq(lru, 1, Len(lru) - 1) /\ entries' = [entries EXCEPT ![Oldest] = None]
      /\ UNCHANGED <<files, exe, now, crashes, lastUse, odd, settled>>
  BY Zenon DEF CacheInv, Types, ListInv, ForgetElement, history
<1>2. /\ Oldest \in Exe /\ lru' \in Seq(Exe) /\ Len(lru) \in DOMAIN lru /\ lru[Len(lru)] = Oldest
      /\ DOMAIN lru' = 1..Len(lru) - 1 /\ DOMAIN lru = 1..Len(lru) /\ Len(lru) \in Nat
      /\ \A i \in DOMAIN lru' : lru'[i] = lru[i]
  BY <1>1 DEF CacheInv, Types, Oldest
<1>3. toDelete' = Minus(toDelete, SizeIn(entries[Oldest]))
  BY Zenon DEF ForgetElement, SizeIn
<1>4. entries' \in [Exe -> {None} \cup Nat] /\ SizeIn(entries[Oldest]) \in Nat /\ SizeIn(None) = 0
  BY <1>1, <1>2, Zenon DEF CacheInv, Types, SizeIn, On
<1>5. /\ SumOf(entries) \in Nat /\ SumOf(entries') \in Nat
      /\ SumOf(entries') + SizeIn(entries[Oldest]) = SumOf(entries)
  <2>1. entries \in [Exe -> {None} \cup Nat] /\ None \in {None} \cup Nat
    BY Zenon DEF CacheInv, Types
  <2>2. /\ SumOf(entries) \in Nat /\ SumOf([entries EXCEPT ![Oldest] = None]) \in Nat
        /\ SumOf([entries EXCEPT ![Oldest] = None]) + SizeIn(entries[Oldest]) = SumOf(entries) + SizeIn(None)
    BY <1>2, <2>1, SumChanges, Zenon
  <2> QED
    BY <1>1, <1>4, <2>2
<1>6. Types'
  BY SMTT(30), <1>1, <1>2, <1>3, <1>4 DEF CacheInv, Types, Phases, Minus
<1>7. SizeInv'
  <2>1. toDelete \in Nat /\ MaxSize \in Nat /\ Size[exe] \in Nat
    BY <1>1, IntervalCacheAssumption, Zenon DEF CacheInv, Types
  <2>2. SumOf(entries') + Size[exe] <= MaxSize + toDelete'
    <3>1. SumOf(entries) + Size[exe] <= MaxSize + toDelete
      BY <1>1, Zenon DEF CacheInv, SizeInv
    <3>2. toDelete' >= toDelete - SizeIn(entries[Oldest]) /\ toDelete' \in Nat
      BY <1>3, <1>4, <2>1 DEF Minus
    <3> QED
      BY <1>4, <1>5, <2>1, <3>1, <3>2
  <2>3. SumOf(entries') <= SumOf(entries)
    BY <1>4, <1>5
  <2> QED
    BY <1>1, <1>5, <2>1, <2>2, <2>3 DEF CacheInv, SizeInv
<1>8. \A e \in Exe : On(entries'[e]) => e # Oldest /\ entries'[e] = entries[e]
  BY <1>1, Zenon DEF CacheInv, Types, On
<1>9. \A e \in Exe : e # Oldest => entries'[e] = entries[e]
  BY <1>1, Zenon DEF CacheInv, Types
<1>10. \A i \in DOMAIN lru' : i \in DOMAIN lru /\ (lru[i] \notin odd => lru[i] # Oldest)
  BY <1>2 DEF CacheInv, ListInv
<1>11. ListInv'
  <2>1. \A e \in Exe : On(entries'[e]) => \E i \in DOMAIN lru' : lru'[i] = e
    BY <1>2, <1>8 DEF CacheInv, ListInv
  <2>2. \A i, j \in DOMAIN lru' : lru'[i] = lru'[j] /\ lru'[i] \notin odd => i = j
    BY <1>2, <1>10, Zenon DEF CacheInv, ListInv
  <2>3. \A i \in DOMAIN lru' : lru'[i] \notin odd => On(entries'[lru'[i]])
    BY SMTT(30), <1>2, <1>9, <1>10 DEF CacheInv, ListInv, Types
  <2>4. exe \notin odd => ~On(entries'[exe])
    BY <1>1, <1>8, Zenon DEF CacheInv, ListInv, Saving
  <2> QED
    BY <1>1, <2>1, <2>2, <2>3, <2>4, Zenon DEF ListInv
<1>12. FilesInv'
  <2>1. ASSUME NEW e \in Exe \ odd
        PROVE  e # exe => (On(entries'[e]) <=> On(files[e]) /\ files[e].complete)
    <3>1. CASE e = Oldest
      BY <1>1, <1>8, <3>1, Zenon DEF CacheInv, FilesInv
    <3>2. CASE e # Oldest
      BY <1>1, <1>9, <3>2, Zenon DEF CacheInv, FilesInv
    <3> QED
      BY <3>1, <3>2, Zenon
  <2> QED
    BY <1>1, <2>1, Zenon DEF CacheInv, FilesInv, Saving
<1>13. TimesInv'
  BY <1>1, Zenon DEF CacheInv, TimesInv, Saving
<1>14. OrderInv'
  BY <1>1, <1>2, <1>10, Zenon DEF CacheInv, OrderInv, Older
<1> QED
  BY <1>6, <1>7, <1>11, <1>12, <1>13, <1>14, Zenon DEF CacheInv

\* There is room, and the new element is the first of the list.
LEMMA AddElementKeeps ==
  ASSUME CacheInv, AddElement
  PROVE  CacheInv'
<1>1. /\ exe \in Exe /\ phase = "evict" /\ phase' = "idle" /\ toDelete = 0 /\ settled'
      /\ lru' = <<exe>> \o lru /\ entries' = [entries EXCEPT ![exe] = Size[exe]]
      /\ lastUse' = [lastUse EXCEPT ![exe] = now]
      /\ UNCHANGED <<files, exe, toDelete, now, crashes, odd>>
  BY Zenon DEF CacheInv, Types, AddElement
<1>2. /\ lru' \in Seq(Exe) /\ DOMAIN lru' = 1..Len(lru) + 1 /\ lru'[1] = exe
      /\ DOMAIN lru = 1..Len(lru) /\ Len(lru) \in Nat
      /\ \A i \in DOMAIN lru : lru'[i + 1] = lru[i] /\ i + 1 \in DOMAIN lru'
      /\ \A i \in DOMAIN lru' : i = 1 \/ (i - 1 \in DOMAIN lru /\ lru'[i] = lru[i - 1])
  BY SMTT(30), <1>1 DEF CacheInv, Types
<1>3. Size[exe] \in Nat /\ SizeIn(Size[exe]) = Size[exe] /\ On(Size[exe])
  BY <1>1, IntervalCacheAssumption, Zenon DEF SizeIn, On
<1>4. entries' \in [Exe -> {None} \cup Nat] /\ SizeIn(entries[exe]) \in Nat
  BY <1>1, <1>3, Zenon DEF CacheInv, Types, SizeIn, On
<1>5. /\ SumOf(entries) \in Nat /\ SumOf(entries') \in Nat
      /\ SumOf(entries') + SizeIn(entries[exe]) = SumOf(entries) + Size[exe]
  <2>1. entries \in [Exe -> {None} \cup Nat] /\ Size[exe] \in {None} \cup Nat
    BY <1>3, Zenon DEF CacheInv, Types
  <2>2. /\ SumOf(entries) \in Nat /\ SumOf([entries EXCEPT ![exe] = Size[exe]]) \in Nat
        /\ SumOf([entries EXCEPT ![exe] = Size[exe]]) + SizeIn(entries[exe]) = SumOf(entries) + SizeIn(Size[exe])
    BY <1>1, <2>1, SumChanges, Zenon
  <2> QED
    BY <1>1, <1>3, <2>2, Zenon
<1>6. Types'
  BY <1>1, <1>2, <1>4 DEF CacheInv, Types, Phases
<1>7. SizeInv'
  BY <1>1, <1>3, <1>4, <1>5, IntervalCacheAssumption DEF CacheInv, Types, SizeInv
<1>8. exe \notin odd => ~On(entries[exe]) /\ \A i \in DOMAIN lru : lru[i] # exe
  BY <1>1, Zenon DEF CacheInv, ListInv, Saving
<1>9. \A e \in Exe : e # exe => entries'[e] = entries[e] /\ lastUse'[e] = lastUse[e]
  BY <1>1, Zenon DEF CacheInv, Types
<1>10. On(entries'[exe]) /\ lastUse'[exe] = now
  BY <1>1, <1>3, Zenon DEF CacheInv, Types
<1>11. ListInv'
  <2>1. \A e \in Exe : On(entries'[e]) => \E i \in DOMAIN lru' : lru'[i] = e
    <3> SUFFICES ASSUME NEW e \in Exe, On(entries'[e]), e # exe
                 PROVE  \E i \in DOMAIN lru' : lru'[i] = e
      BY <1>2
    <3>1. PICK i \in DOMAIN lru : lru[i] = e
      BY <1>9, Zenon DEF CacheInv, ListInv
    <3> QED
      BY <1>2, <3>1, Zenon
  <2>2. \A i, j \in DOMAIN lru' : lru'[i] = lru'[j] /\ lru'[i] \notin odd => i = j
    BY <1>2, <1>8 DEF CacheInv, ListInv
  <2>3. \A i \in DOMAIN lru' : lru'[i] \notin odd => On(entries'[lru'[i]])
    <3>1. \A i \in DOMAIN lru : lru[i] \in Exe /\ (lru[i] \notin odd => On(entries[lru[i]]))
      BY DEF CacheInv, ListInv, Types
    <3> QED
      BY <1>2, <1>9, <1>10, <3>1
  <2> QED
    BY <1>1, <2>1, <2>2, <2>3, Zenon DEF ListInv, Saving
<1>12. FilesInv'
  BY <1>1, <1>9, <1>10, Zenon DEF CacheInv, FilesInv, Saving
<1>13. TimesInv'
  BY <1>1, <1>9, <1>10 DEF CacheInv, FilesInv, TimesInv, Saving
<1>14. ASSUME NEW e \in Exe, NEW f \in Exe, Older(lastUse'[e], lastUse'[f])
       PROVE  e # exe /\ (f # exe => Older(lastUse[e], lastUse[f]))
  <2>1. \A d \in Exe : /\ lastUse'[d] \in Nat /\ lastUse'[d] <= now
                       /\ Seconds(lastUse'[d]) \in Nat /\ Seconds(lastUse'[d]) <= Seconds(now)
    BY <1>1, <1>6, SecondsOrder DEF Types
  <2>2. now \in Nat /\ Seconds(now) \in Nat
    BY SecondsOrder, Zenon DEF CacheInv, Types
  <2>3. e # exe
    BY <1>1, <1>10, <1>14, <2>1, <2>2 DEF Older
  <2> QED
    BY <1>9, <1>14, <2>3, Zenon
<1>15. OrderInv'
  <2> SUFFICES ASSUME NEW i \in DOMAIN lru', NEW j \in DOMAIN lru',
                      lru'[i] \notin odd, lru'[j] \notin odd,
                      Older(lastUse'[lru'[i]], lastUse'[lru'[j]])
               PROVE  j < i
    BY <1>1, Zenon DEF OrderInv, Older
  <2>1. lru'[i] # exe /\ (lru'[j] # exe => Older(lastUse[lru'[i]], lastUse[lru'[j]]))
    BY <1>2, <1>14
  <2>2. i # 1 /\ i - 1 \in DOMAIN lru /\ lru'[i] = lru[i - 1]
    BY <1>2, <2>1, Zenon
  <2>3. CASE j = 1
    BY <1>2, <2>2, <2>3
  <2>4. CASE j # 1
    <3>1. j - 1 \in DOMAIN lru /\ lru'[j] = lru[j - 1]
      BY <1>2, <2>4, Zenon
    <3>2. lru[j - 1] # exe
      BY <1>8, <3>1, Zenon
    <3>3. j - 1 < i - 1
      BY <2>1, <2>2, <3>1, <3>2, Zenon DEF CacheInv, OrderInv
    <3> QED
      BY <1>2, <3>3
  <2> QED
    BY <2>3, <2>4, Zenon
<1> QED
  BY <1>6, <1>7, <1>11, <1>12, <1>13, <1>15, Zenon DEF CacheInv

\* Where the elements of the list come from that MoveToFront makes.
From(p, i) == IF i = 1 THEN p ELSE IF i <= p THEN i - 1 ELSE i

\* MoveToFront changes the order of no other elements.
LEMMA FromOrder ==
  ASSUME NEW n \in Nat, NEW p \in 1..n, NEW i \in 1..n, NEW j \in 1..n
  PROVE  /\ From(p, i) = From(p, j) => i = j
         /\ i # 1 /\ j # 1 /\ From(p, j) < From(p, i) => j < i
<1>1. CASE i <= p /\ j <= p
  BY <1>1 DEF From
<1>2. CASE i <= p /\ ~(j <= p)
  BY <1>2 DEF From
<1>3. CASE ~(i <= p) /\ j <= p
  BY <1>3 DEF From
<1>4. CASE ~(i <= p) /\ ~(j <= p)
  BY <1>4 DEF From
<1> QED
  BY <1>1, <1>2, <1>3, <1>4, Zenon

\* The list that MoveToFront makes.
LEMMA MoveToFrontOrder ==
  ASSUME lru \in Seq(Exe), NEW e \in Exe, \E i \in DOMAIN lru : lru[i] = e
  PROVE  \E p \in DOMAIN lru :
           /\ lru[p] = e /\ MoveToFront(e) \in Seq(Exe) /\ DOMAIN MoveToFront(e) = DOMAIN lru
           /\ \A i \in DOMAIN lru : From(p, i) \in DOMAIN lru /\ MoveToFront(e)[i] = lru[From(p, i)]
           /\ \A i \in DOMAIN lru : \E j \in DOMAIN lru : From(p, j) = i
<1>1. PICK p \in DOMAIN lru : p = Position(e)
  BY PositionOf, Zenon
<1>2. lru[p] = e
  BY <1>1, PositionOf, Zenon
<1>3. DOMAIN lru = 1..Len(lru) /\ Len(lru) \in Nat
  OBVIOUS
<1>4. \A i \in DOMAIN lru : From(p, i) \in DOMAIN lru
  BY <1>1, <1>3 DEF From
<1>5. ASSUME NEW i \in DOMAIN lru
      PROVE  MoveToFront(e)[i] = lru[From(p, i)]
  <2>1. MoveToFront(e)[i] = CASE i = 1 -> e [] i > 1 /\ i <= p -> lru[i - 1] [] OTHER -> lru[i]
    BY <1>1, Zenon DEF MoveToFront
  <2>2. CASE i = 1
    BY <1>2, <2>1, <2>2 DEF From
  <2>3. CASE i > 1 /\ i <= p
    BY <1>3, <2>1, <2>3 DEF From
  <2>4. CASE i > 1 /\ ~(i <= p)
    BY <1>3, <2>1, <2>4 DEF From
  <2> QED
    BY <1>3, <2>2, <2>3, <2>4
<1>6. DOMAIN MoveToFront(e) = 1..Len(lru)
  BY <1>3, Zenon DEF MoveToFront
<1>7. MoveToFront(e) \in Seq(Exe)
  <2>1. MoveToFront(e) = [i \in 1..Len(lru) |-> MoveToFront(e)[i]]
    BY <1>3 DEF MoveToFront
  <2>2. \A i \in 1..Len(lru) : MoveToFront(e)[i] \in Exe
    BY <1>3, <1>4, <1>5
  <2>3. MoveToFront(e) \in [1..Len(lru) -> Exe]
    BY <2>1, <2>2, Zenon
  <2> QED
    BY <1>3, <2>3
<1>8. ASSUME NEW i \in DOMAIN lru
      PROVE  \E j \in DOMAIN lru : From(p, j) = i
  <2>1. CASE i = p
    BY <1>1, <1>3, <2>1 DEF From
  <2>2. CASE i < p
    <3>1. i + 1 \in DOMAIN lru /\ From(p, i + 1) = i
      BY <1>1, <1>3, <2>2 DEF From
    <3> QED
      BY <3>1, Zenon
  <2>3. CASE i > p
    <3>1. From(p, i) = i
      BY <1>1, <1>3, <2>3 DEF From
    <3> QED
      BY <3>1, Zenon
  <2> QED
    BY <1>1, <1>3, <2>1, <2>2, <2>3
<1> QED
  BY <1>2, <1>3, <1>4, <1>5, <1>6, <1>7, <1>8, Zenon

\* An element is read and moved to the front of the list.
LEMMA ReadDataKeeps ==
  ASSUME CacheInv, ReadData
  PROVE  CacheInv'
<1>1. /\ exe \in Exe /\ phase = "read" /\ phase' = "utime" /\ On(files[exe]) /\ files[exe].complete
      /\ lru' = MoveToFront(exe) /\ lastUse' = [lastUse EXCEPT ![exe] = now]
      /\ UNCHANGED <<entries, exe, toDelete, now, crashes, odd, settled>>
  BY Zenon DEF CacheInv, Types, ReadData
<1>2. PICK f \in File : f.complete /\ On(f) /\ files' = [files EXCEPT ![exe] = f]
  <2>1. files[exe] \in File /\ now \in Nat /\ files \in [Exe -> {None} \cup File]
    BY <1>1, Zenon DEF CacheInv, Types, On
  <2>2. CASE files' = files
    BY <1>1, <2>1, <2>2, Zenon
  <2>3. CASE files' = [files EXCEPT ![exe].atime = now]
    <3>1. [files[exe] EXCEPT !.atime = now] \in File /\ [files[exe] EXCEPT !.atime = now].complete
      BY <1>1, <2>1, Zenon DEF File
    <3> QED
      BY <1>1, <2>1, <2>3, <3>1, IntervalCacheAssumption, Zenon DEF On
  <2> QED
    BY <2>2, <2>3, Zenon DEF ReadData
<1>3. \E i \in DOMAIN lru : lru[i] = exe
  BY <1>1, Zenon DEF CacheInv, ListInv
<1>4. PICK p \in DOMAIN lru :
        /\ lru[p] = exe /\ MoveToFront(exe) \in Seq(Exe) /\ DOMAIN MoveToFront(exe) = DOMAIN lru
        /\ \A i \in DOMAIN lru : From(p, i) \in DOMAIN lru /\ MoveToFront(exe)[i] = lru[From(p, i)]
        /\ \A i \in DOMAIN lru : \E j \in DOMAIN lru : From(p, j) = i
  <2>1. lru \in Seq(Exe)
    BY Zenon DEF CacheInv, Types
  <2> QED
    BY <1>1, <1>3, <2>1, MoveToFrontOrder, Zenon
<1>5. /\ DOMAIN lru = 1..Len(lru) /\ Len(lru) \in Nat /\ DOMAIN lru' = DOMAIN lru /\ lru' \in Seq(Exe)
      /\ \A i \in DOMAIN lru : From(p, i) \in DOMAIN lru /\ lru'[i] = lru[From(p, i)] /\ lru[i] \in Exe
      /\ \A i, j \in DOMAIN lru : From(p, i) = From(p, j) => i = j
  <2>1. DOMAIN lru = 1..Len(lru) /\ Len(lru) \in Nat /\ \A i \in DOMAIN lru : lru[i] \in Exe
    BY DEF CacheInv, Types
  <2>2. \A i, j \in DOMAIN lru : From(p, i) = From(p, j) => i = j
    BY <2>1, FromOrder, Zenon
  <2> QED
    BY <1>1, <1>4, <2>1, <2>2, Zenon
<1>6. \A e \in Exe : e # exe => files'[e] = files[e] /\ lastUse'[e] = lastUse[e]
  BY <1>1, <1>2, Zenon DEF CacheInv, Types
<1>7. files'[exe] = f /\ lastUse'[exe] = now
  BY <1>1, <1>2, Zenon DEF CacheInv, Types
<1>8. Types'
  BY <1>1, <1>2, <1>5 DEF CacheInv, Types, Phases
<1>9. SizeInv'
  BY <1>1, Zenon DEF CacheInv, SizeInv
<1>10. ListInv'
  <2>1. \A e \in Exe : On(entries'[e]) => \E i \in DOMAIN lru' : lru'[i] = e
    <3> SUFFICES ASSUME NEW e \in Exe, On(entries[e])
                 PROVE  \E i \in DOMAIN lru' : lru'[i] = e
      BY <1>1, Zenon
    <3>1. PICK k \in DOMAIN lru : lru[k] = e
      BY Zenon DEF CacheInv, ListInv
    <3>2. PICK i \in DOMAIN lru : From(p, i) = k
      BY <1>4, Zenon
    <3> QED
      BY <1>5, <3>1, <3>2, Zenon
  <2>2. ASSUME NEW i \in DOMAIN lru', NEW j \in DOMAIN lru', lru'[i] = lru'[j], lru'[i] \notin odd
        PROVE  i = j
    <3>1. From(p, i) = From(p, j)
      BY <1>5, <2>2, Zenon DEF CacheInv, ListInv
    <3> QED
      BY <1>5, <3>1, Zenon
  <2>3. \A i \in DOMAIN lru' : lru'[i] \notin odd => On(entries'[lru'[i]])
    BY <1>1, <1>5 DEF CacheInv, ListInv
  <2> QED
    BY <1>1, <2>1, <2>2, <2>3, Zenon DEF ListInv, Saving
<1>11. FilesInv'
  BY <1>1, <1>2, <1>6, <1>7 DEF CacheInv, FilesInv, Saving
<1>12. TimesInv'
  BY <1>1, <1>2, <1>6, <1>7 DEF CacheInv, TimesInv, Saving
<1>13. ASSUME NEW e \in Exe, NEW g \in Exe, Older(lastUse'[e], lastUse'[g])
       PROVE  e # exe /\ (g # exe => Older(lastUse[e], lastUse[g]))
  <2>1. \A d \in Exe : /\ lastUse'[d] \in Nat /\ lastUse'[d] <= now
                       /\ Seconds(lastUse'[d]) \in Nat /\ Seconds(lastUse'[d]) <= Seconds(now)
    BY <1>1, <1>8, SecondsOrder, Zenon DEF Types
  <2>2. now \in Nat /\ Seconds(now) \in Nat
    BY SecondsOrder, Zenon DEF CacheInv, Types
  <2>3. e # exe
    BY <1>7, <1>13, <2>1, <2>2 DEF Older
  <2> QED
    BY <1>6, <1>13, <2>3, Zenon
<1>14. OrderInv'
  <2> SUFFICES ASSUME NEW i \in DOMAIN lru', NEW j \in DOMAIN lru',
                      lru'[i] \notin odd, lru'[j] \notin odd,
                      Older(lastUse'[lru'[i]], lastUse'[lru'[j]])
               PROVE  j < i
    BY <1>1, Zenon DEF OrderInv, Older
  <2>1. lru'[i] # exe /\ (lru'[j] # exe => Older(lastUse[lru'[i]], lastUse[lru'[j]]))
    BY <1>5, <1>13, Zenon
  <2>2. i # 1
    <3>1. From(p, 1) = p
      BY Zenon DEF From
    <3> QED
      BY <1>4, <1>5, <2>1, <3>1
  <2>3. CASE j = 1
    BY <1>5, <2>2, <2>3
  <2>4. CASE j # 1
    <3>1. lru'[j] # exe
      <4>1. From(p, 1) = p /\ 1 \in DOMAIN lru
        BY <1>5 DEF From
      <4>2. From(p, j) # p
        BY <1>5, <2>4, <4>1, Zenon
      <4> QED
        BY <1>4, <1>5, <4>2 DEF CacheInv, ListInv
    <3>2. From(p, j) < From(p, i)
      BY <1>5, <2>1, <3>1, Zenon DEF CacheInv, OrderInv
    <3> QED
      BY <1>5, <2>2, <2>4, <3>2, FromOrder, ZenonT(40)
  <2> QED
    BY <2>3, <2>4, Zenon
<1> QED
  BY <1>8, <1>9, <1>10, <1>11, <1>12, <1>14, Zenon DEF CacheInv

\* The agent dies anywhere; New reads the directory back, ordered by access time.
LEMMA RestartKeeps ==
  ASSUME CacheInv, Restart
  PROVE  CacheInv'
<1>1. /\ crashes' = crashes + 1 /\ phase' = "idle" /\ toDelete' = 0 /\ settled' = FALSE
      /\ entries' = [e \in Exe |-> IF On(files[e]) THEN files[e].size ELSE None]
      /\ odd \subseteq odd' /\ (phase # "idle" => exe \in odd')
      /\ UNCHANGED <<files, now, lastUse>>
  BY Zenon DEF Restart
<1>2. \A e \in Exe : On(files[e]) => files[e] \in File /\ files[e].size \in Nat /\ files[e].atime \in Nat
  BY Zenon DEF CacheInv, Types, File, On
<1>3. \A e \in Exe : entries'[e] \in {None} \cup Nat /\ (On(entries'[e]) <=> On(files[e]))
  BY <1>1, <1>2, IntervalCacheAssumption, Zenon DEF On
<1>4. /\ lru' \in [1..Cardinality(Elements(files)) -> Elements(files)]
      /\ \A i, j \in DOMAIN lru' : lru'[i] = lru'[j] => i = j
      /\ \A e \in Elements(files) : \E i \in DOMAIN lru' : lru'[i] = e
      /\ \A i, j \in DOMAIN lru' : i < j => files[lru'[i]].atime >= files[lru'[j]].atime
  BY Zenon DEF Restart, Lists
<1>5. Cardinality(Elements(files)) \in Nat
  BY IntervalCacheAssumption, FS_Subset, FS_CardinalityType, Zenon DEF Elements
<1>6. /\ lru' \in Seq(Exe) /\ DOMAIN lru' \subseteq Nat
      /\ \A i \in DOMAIN lru' : lru'[i] \in Exe /\ On(files[lru'[i]])
  <2>1. \A e \in Elements(files) : e \in Exe /\ On(files[e])
    BY Zenon DEF Elements
  <2>2. lru' \in [1..Cardinality(Elements(files)) -> Exe]
    BY <1>4, <2>1, Zenon
  <2>3. lru' \in Seq(Exe)
    BY <1>5, <2>2
  <2> QED
    BY <1>4, <1>5, <2>1, <2>3
<1>7. Types'
  <2>1. crashes' \in Nat /\ now \in Nat
    BY <1>1 DEF CacheInv, Types
  <2>2. entries' \in [Exe -> {None} \cup Nat]
    BY <1>1, <1>3, Zenon
  <2> QED
    BY <1>1, <1>6, <2>1, <2>2, Zenon DEF CacheInv, Types, Phases
<1>8. SizeInv'
  BY <1>1 DEF CacheInv, Types, SizeInv
<1>9. ListInv'
  <2>1. \A e \in Exe : On(entries'[e]) => \E i \in DOMAIN lru' : lru'[i] = e
    BY <1>3, <1>4, Zenon DEF Elements
  <2>2. \A i \in DOMAIN lru' : On(entries'[lru'[i]])
    BY <1>3, <1>6, Zenon
  <2> QED
    BY <1>1, <1>4, <2>1, <2>2, Zenon DEF ListInv, Saving
<1>10. \A e \in Exe \ odd' : e \notin odd /\ (phase # "idle" => e # exe)
  BY <1>1, Zenon
<1>11. ASSUME NEW e \in Exe \ odd', On(files[e])
       PROVE  files[e].complete /\ Seconds(files[e].atime) = Seconds(lastUse[e])
  BY <1>10, <1>11, Zenon DEF CacheInv, FilesInv, TimesInv, Saving
<1>12. FilesInv'
  BY <1>1, <1>3, <1>11, Zenon DEF FilesInv, Saving
<1>13. TimesInv'
  BY <1>1, <1>11, Zenon DEF TimesInv, Saving
<1>14. OrderInv'
  <2> SUFFICES ASSUME NEW i \in DOMAIN lru', NEW j \in DOMAIN lru',
                      lru'[i] \notin odd', lru'[j] \notin odd',
                      Seconds(lastUse[lru'[i]]) < Seconds(lastUse[lru'[j]])
               PROVE  j < i
    BY <1>1 DEF CacheInv, Types, OrderInv, Older
  <2>1. /\ files[lru'[i]].atime \in Nat /\ files[lru'[j]].atime \in Nat
        /\ Seconds(files[lru'[i]].atime) < Seconds(files[lru'[j]].atime)
    BY <1>2, <1>6, <1>11, Zenon
  <2>2. files[lru'[i]].atime < files[lru'[j]].atime
    BY <2>1, SecondsOrder
  <2>3. ~(i < j) /\ i # j
    BY <1>4, <2>1, <2>2
  <2> QED
    BY <1>6, <2>3
<1> QED
  BY <1>7, <1>8, <1>9, <1>12, <1>13, <1>14, Zenon DEF CacheInv

----------------------------------------------------------------------------
\* The agent starts with an empty directory.
LEMMA CacheInitHolds == CacheInit => CacheInv
<1> SUFFICES ASSUME CacheInit
             PROVE  CacheInv
  BY Zenon
<1> USE DEF CacheInit
<1>1. Types
  BY DEF Types, Phases
<1>2. SizeInv
  <2>1. Elements(entries) = {}
    BY Zenon DEF Elements, On
  <2>2. Bytes(entries) = {}
    BY <2>1, Zenon DEF Bytes
  <2>3. SumOf(entries) = 0
    BY <2>2, FS_EmptySet, Zenon DEF SumOf
  <2> QED
    BY <2>3, IntervalCacheAssumption DEF SizeInv
<1>3. ListInv /\ OrderInv
  BY DEF ListInv, OrderInv, Saving, On
<1>4. FilesInv /\ TimesInv
  BY Zenon DEF FilesInv, TimesInv, Saving, On
<1> QED
  BY <1>1, <1>2, <1>3, <1>4, Zenon DEF CacheInv

\* The invariant of the cache of interval data holds from the first start of the agent on.
THEOREM CacheInvariant == IntervalSpec => []CacheInv
<1>1. CacheInv /\ [CacheNext]_intervalVars => CacheInv'
  <2> SUFFICES ASSUME CacheInv, [CacheNext]_intervalVars
               PROVE  CacheInv'
    BY Zenon
  <2>1. CASE \E e \in Exe : Request(e)
    BY <2>1, RequestKeeps, Zenon
  <2>2. CASE ReadData
    BY <2>2, ReadDataKeeps, Zenon
  <2>3. CASE ReadFails
    BY SMTT(30), <2>3, ReadFailsKeeps
  <2>4. CASE Utime
    BY <2>4, UtimeKeeps, Zenon
  <2>5. CASE ExtractFails
    BY <2>5, ExtractFailsKeeps, Zenon
  <2>6. CASE OpenFile
    BY <2>6, OpenFileKeeps, Zenon
  <2>7. CASE WriteFails
    BY <2>7, WriteFailsKeeps, Zenon
  <2>8. CASE WriteFile
    BY <2>8, WriteFileKeeps, Zenon
  <2>9. CASE RejectLarge
    BY <2>9, RejectLargeKeeps, Zenon
  <2>10. CASE MakeRoom
    BY <2>10, MakeRoomKeeps, Zenon
  <2>11. CASE RemoveFile
    BY <2>11, RemoveFileKeeps, Zenon
  <2>12. CASE ForgetElement
    BY <2>12, ForgetElementKeeps, Zenon
  <2>13. CASE EvictFails
    BY <2>13, EvictFailsKeeps, Zenon
  <2>14. CASE AddElement
    BY <2>14, AddElementKeeps, Zenon
  <2>15. CASE Restart
    BY <2>15, RestartKeeps, Zenon
  <2>16. CASE UNCHANGED intervalVars
    BY <2>16 DEF intervalVars, cacheVars, requestVars, history, CacheInv, Types, SizeInv, ListInv,
                 FilesInv, TimesInv, OrderInv, Older, Oldest
  <2> QED
    BY Zenon, <2>1, <2>2, <2>3, <2>4, <2>5, <2>6, <2>7, <2>8, <2>9, <2>10, <2>11, <2>12, <2>13,
       <2>14,
       <2>15, <2>16 DEF CacheNext
<1> QED
  BY <1>1, CacheInitHolds, PTL DEF IntervalSpec

\* Between requests GetIntervalData finds a complete file for the elements HasIntervals
\* knows, and only for those; the list is in order of use, also after a restart; and the
\* cache keeps within its size.
THEOREM CacheMatchesDirectory == IntervalSpec => []EntriesMatchFiles
<1>1. CacheInv => EntriesMatchFiles
  <2> SUFFICES ASSUME CacheInv
               PROVE  EntriesMatchFiles
    BY Zenon
  <2>1. crashes = 0 \/ settled => SumOf(entries) <= MaxSize
    BY Zenon DEF CacheInv, SizeInv
  <2>2. phase = "idle" => \A e \in Exe \ odd : On(entries[e]) <=> On(files[e]) /\ files[e].complete
    BY Zenon DEF CacheInv, FilesInv
  <2>3. ASSUME NEW e \in Elements(entries) \ odd
        PROVE  Position(e) \in DOMAIN lru /\ lru[Position(e)] = e
    BY PositionOf, Zenon DEF CacheInv, Types, ListInv, Elements
  <2>4. ASSUME NEW e \in Elements(entries) \ odd, NEW f \in Elements(entries) \ odd,
               Older(lastUse[e], lastUse[f])
        PROVE  Position(f) < Position(e)
    BY <2>3, <2>4, Zenon DEF CacheInv, OrderInv
  <2> QED
    BY <2>1, <2>2, <2>4, Zenon DEF EntriesMatchFiles, Older
<1> QED
  BY <1>1, CacheInvariant, PTL

=============================================================================
