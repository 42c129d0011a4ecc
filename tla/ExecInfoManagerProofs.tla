----------------------- MODULE ExecInfoManagerProofs -----------------------
(***************************************************************************)
(* Theorems about ExecInfoManager, for any number of holders, executables  *)
(* and pages: the inductive invariant with the finite sets it counts, the  *)
(* steps that keep it (those that look an executable up, load its maps or  *)
(* give up, then those that give a reference back), and that the manager   *)
(* implements ExecLeases.                                                  *)
(***************************************************************************)
EXTENDS ExecInfoManager, FiniteSetTheorems, TLAPS

Locked == {"loading", "filling", "paging", "unpaging"}

\* What the position of a holder says about its other variables.
CallShape ==
  \A h \in Holder :
    /\ pc[h] = "idle" => file[h] = NoFile /\ op[h] = "ref"
    /\ pc[h] # "idle" => file[h] \in FileID
    /\ pc[h] \notin {"paging", "unpaging"} => page[h] = 0
    /\ pc[h] \in {"paging", "unpaging"} => page[h] <= NumPages[file[h]]
    /\ pc[h] \in Locked => NumPages[file[h]] > 0
    /\ pc[h] = "extracting" => op[h] = "ref"
    /\ ~err[h]

\* The write lock is held by the one holder that loads or unloads.
LockShape == \A h \in Holder : pc[h] \in Locked <=> lock = h

\* How far the loading holder has got with its maps.
LoadShape ==
  \A h \in Holder :
    /\ pc[h] \in {"loading", "filling", "paging"} => file[h] \notin executables
    /\ pc[h] = "filling" => exeIDToStackDeltas[file[h]] = "empty"
    /\ pc[h] = "paging" =>
         /\ exeIDToStackDeltas[file[h]] = "filled"
         /\ \A i \in 0..page[h]-1 : <<file[h], i>> \in stackDeltaPageToInfo

\* How far the unloading holder has got: it is the last one, the pages it has
\* passed are gone and the others are still there.
UnloadShape ==
  \A h \in Holder : pc[h] = "unpaging" =>
    /\ file[h] \in executables /\ rc[file[h]] = 1
    /\ exeIDToStackDeltas[file[h]] = "filled"
    /\ \A i \in page[h]..NumPages[file[h]]-1 :
         <<file[h], i>> \in stackDeltaPageToInfo
    /\ \A i \in 0..page[h]-1 : <<file[h], i>> \notin stackDeltaPageToInfo

\* The count is right even while the lock is held.
CountShape ==
  numStackDeltaMapPages = Cardinality(UNION {Pages(f) : f \in executables})

IInv == /\ TypeOK /\ CallShape /\ LockShape /\ LoadShape /\ UnloadShape
        /\ CountsHolders /\ KnownIsUsable /\ PagesHaveDeltas /\ CountShape

----------------------------------------------------------------------------
\* Finite sets of pages and of holders

LEMMA PagesCardinality ==
  ASSUME NEW f \in FileID
  PROVE  IsFiniteSet(Pages(f)) /\ Cardinality(Pages(f)) = NumPages[f]
<1> DEFINE n == NumPages[f]
<1>1. n \in Nat
  BY ExecAssumption, Zenon
<1>2. Pages(f) = {f} \X (0..n-1)
  BY DEF Pages
<1>3. IsFiniteSet({f}) /\ Cardinality({f}) = 1
  BY FS_Singleton, Zenon
<1>4. IsFiniteSet(0..n-1) /\ Cardinality(0..n-1) = n
  <2>1. 0 \in Int /\ n - 1 \in Int
    BY <1>1
  <2>2. /\ IsFiniteSet(0..n-1)
        /\ Cardinality(0..n-1) = IF 0 > n-1 THEN 0 ELSE n-1-0+1
    BY <2>1, FS_Interval, Zenon
  <2> QED BY <1>1, <2>2
<1>5. /\ IsFiniteSet({f} \X (0..n-1))
      /\ Cardinality({f} \X (0..n-1)) = Cardinality({f}) * Cardinality(0..n-1)
  BY <1>3, <1>4, FS_Product, Zenon
<1> QED BY <1>1, <1>2, <1>3, <1>4, <1>5

PagesOf(S) == UNION {Pages(f) : f \in S}

LEMMA PagesOfFinite ==
  ASSUME NEW S \in SUBSET FileID
  PROVE  IsFiniteSet(PagesOf(S)) /\ Cardinality(PagesOf(S)) \in Nat
<1> DEFINE P == {Pages(f) : f \in S}
           g == [f \in S |-> Pages(f)]
<1>1. IsFiniteSet(S)
  BY ExecAssumption, FS_Subset, Zenon
<1>2. g \in Surjection(S, P)
  BY Zenon DEF Surjection
<1>3. IsFiniteSet(P)
  BY <1>1, <1>2, FS_Surjection, Zenon
<1>4. \A T \in P : IsFiniteSet(T)
  BY PagesCardinality, Zenon
<1>5. IsFiniteSet(PagesOf(S))
  BY <1>3, <1>4, FS_UNION, Zenon DEF PagesOf
<1> QED BY <1>5, FS_CardinalityType, Zenon

\* Pages of different files are different.
LEMMA PagesOfAdd ==
  ASSUME NEW S \in SUBSET FileID, NEW f \in FileID, f \notin S
  PROVE  Cardinality(PagesOf(S \cup {f})) = Cardinality(PagesOf(S)) + NumPages[f]
<1>1. PagesOf(S \cup {f}) = PagesOf(S) \cup Pages(f)
  BY Zenon DEF PagesOf
<1>2. PagesOf(S) \cap Pages(f) = {}
  BY DEF PagesOf, Pages
<1>3. IsFiniteSet(PagesOf(S)) /\ Cardinality(PagesOf(S)) \in Nat
  BY PagesOfFinite, Zenon
<1>4. IsFiniteSet(Pages(f)) /\ Cardinality(Pages(f)) = NumPages[f]
  BY PagesCardinality, Zenon
<1>5. Cardinality(PagesOf(S) \cup Pages(f)) =
        Cardinality(PagesOf(S)) + Cardinality(Pages(f))
          - Cardinality(PagesOf(S) \cap Pages(f))
  BY <1>3, <1>4, FS_Union, Zenon
<1>6. NumPages[f] \in Nat
  BY ExecAssumption, Zenon
<1>7. Cardinality(PagesOf(S) \cap Pages(f)) = 0
  BY <1>2, FS_EmptySet, Zenon
<1>8. Cardinality(PagesOf(S) \cup Pages(f)) = Cardinality(PagesOf(S)) + NumPages[f]
  BY <1>3, <1>4, <1>5, <1>6, <1>7
<1> QED BY <1>1, <1>8, Zenon

LEMMA PagesOfRemove ==
  ASSUME NEW S \in SUBSET FileID, NEW f \in S
  PROVE  Cardinality(PagesOf(S \ {f})) = Cardinality(PagesOf(S)) - NumPages[f]
<1>1. S \ {f} \in SUBSET FileID /\ f \in FileID /\ f \notin S \ {f}
  BY Zenon
<1>2. (S \ {f}) \cup {f} = S
  BY Zenon
<1>3. Cardinality(PagesOf(S)) = Cardinality(PagesOf(S \ {f})) + NumPages[f]
  BY <1>1, <1>2, PagesOfAdd, Zenon
<1>4. Cardinality(PagesOf(S \ {f})) \in Nat /\ NumPages[f] \in Nat
  BY <1>1, PagesOfFinite, ExecAssumption, Zenon
<1> QED BY <1>3, <1>4

LEMMA HoldersFinite ==
  \A f : IsFiniteSet(HoldersOf(f)) /\ Cardinality(HoldersOf(f)) \in Nat
<1> TAKE f
<1>1. HoldersOf(f) \in SUBSET Holder
  BY Zenon DEF HoldersOf
<1>2. IsFiniteSet(HoldersOf(f))
  BY <1>1, ExecAssumption, FS_Subset, Zenon
<1> QED BY <1>2, FS_CardinalityType, Zenon

Holding == {"holding", "unpaging"}

\* A step that gives no reference and takes none leaves the holders alone.
LEMMA HoldersStay ==
  ASSUME \A k \in Holder : (pc'[k] \in Holding) <=> (pc[k] \in Holding),
         \A k \in Holder : pc[k] \in Holding => file'[k] = file[k]
  PROVE  \A g \in FileID : HoldersOf(g)' = HoldersOf(g)
BY Zenon DEF HoldersOf, Holding

LEMMA HoldersGain ==
  ASSUME TypeOK, NEW h \in Holder, NEW f \in FileID, pc[h] \notin Holding,
         pc' = [pc EXCEPT ![h] = "holding"], file' = [file EXCEPT ![h] = f]
  PROVE  /\ \A g \in FileID \ {f} : HoldersOf(g)' = HoldersOf(g)
         /\ Cardinality(HoldersOf(f)') = Cardinality(HoldersOf(f)) + 1
<1>1. \A g \in FileID \ {f} : HoldersOf(g)' = HoldersOf(g)
  BY DEF HoldersOf, Holding, TypeOK
<1>2. HoldersOf(f)' = HoldersOf(f) \cup {h} /\ h \notin HoldersOf(f)
  BY DEF HoldersOf, Holding, TypeOK
<1>3. IsFiniteSet(HoldersOf(f))
  BY HoldersFinite, Zenon
<1>4. Cardinality(HoldersOf(f) \cup {h}) = Cardinality(HoldersOf(f)) + 1
  BY <1>2, <1>3, FS_AddElement, Zenon
<1>5. Cardinality(HoldersOf(f)') = Cardinality(HoldersOf(f)) + 1
  BY <1>2, <1>4, Zenon
<1> QED BY <1>1, <1>5, Zenon

LEMMA HoldersLose ==
  ASSUME TypeOK, NEW h \in Holder, NEW f \in FileID, file[h] = f, pc[h] \in Holding,
         pc' = [pc EXCEPT ![h] = "idle"], file' = [file EXCEPT ![h] = NoFile]
  PROVE  /\ \A g \in FileID \ {f} : HoldersOf(g)' = HoldersOf(g)
         /\ HoldersOf(f)' = HoldersOf(f) \ {h}
         /\ h \in HoldersOf(f)
         /\ Cardinality(HoldersOf(f)') = Cardinality(HoldersOf(f)) - 1
<1>1. \A g \in FileID \ {f} : HoldersOf(g)' = HoldersOf(g)
  BY ExecAssumption DEF HoldersOf, Holding, TypeOK
<1>2. /\ HoldersOf(f)' = HoldersOf(f) \ {h}
      /\ h \in HoldersOf(f)
  BY ExecAssumption, Zenon DEF HoldersOf, Holding, TypeOK
<1>3. IsFiniteSet(HoldersOf(f))
  BY HoldersFinite, Zenon
<1>4. Cardinality(HoldersOf(f) \ {h}) = Cardinality(HoldersOf(f)) - 1
  BY <1>2, <1>3, FS_RemoveElement, Zenon
<1>5. Cardinality(HoldersOf(f)') = Cardinality(HoldersOf(f)) - 1
  BY <1>2, <1>4, Zenon
<1> QED BY <1>1, <1>2, <1>5, Zenon

----------------------------------------------------------------------------
LEMMA InitIInv == Init => IInv
<1> SUFFICES ASSUME Init PROVE IInv
  BY Zenon
<1>1. TypeOK /\ CallShape /\ LockShape /\ LoadShape /\ UnloadShape
  BY ExecAssumption, Zenon DEF Init, TypeOK, CallShape, LockShape, LoadShape,
                        UnloadShape, Locked, PageKey
<1>2. \A f \in FileID : HoldersOf(f) = {}
  BY Zenon DEF Init, HoldersOf
<1>3. CountsHolders /\ KnownIsUsable /\ PagesHaveDeltas
  BY <1>2, Zenon DEF Init, CountsHolders, KnownIsUsable, PagesHaveDeltas
<1>4. CountShape
  <2>1. UNION {Pages(f) : f \in {}} = {}
    BY Zenon
  <2> QED BY <2>1, FS_EmptySet, Zenon DEF Init, CountShape
<1> QED BY <1>1, <1>3, <1>4, Zenon DEF IInv

\* IncRef, from the fast path and from the second look-up.
LEMMA IncRefKeeps ==
  ASSUME IInv, NEW h \in Holder, NEW f \in executables, lock = NoHolder,
         pc[h] \in {"idle", "extracting"}, IncRef(h, f)
  PROVE  IInv'
<1> f \in FileID
  BY Zenon DEF IInv, TypeOK
<1> \A k \in Holder : pc[k] \notin Locked
  BY ExecAssumption, Zenon DEF IInv, LockShape

<1>1. TypeOK'
  BY ExecAssumption DEF IInv, TypeOK, CallShape, PageKey, Pages, IncRef,
    ReturnHolding, Goto, mapVars, eimVars
<1>2. CallShape'
  BY ExecAssumption DEF IInv, TypeOK, CallShape, Locked, IncRef,
    ReturnHolding, Goto, mapVars, eimVars
<1>3. LockShape'
  BY ExecAssumption, Zenon DEF IInv, TypeOK, LockShape, Locked, IncRef,
    ReturnHolding, Goto, mapVars, eimVars
<1>4. LoadShape'
  BY ExecAssumption DEF IInv, TypeOK, CallShape, LockShape, Locked,
    LoadShape, IncRef, ReturnHolding, Goto, mapVars, eimVars
<1>5. UnloadShape'
  BY ExecAssumption DEF IInv, TypeOK, CallShape, LockShape, Locked,
    UnloadShape, IncRef, ReturnHolding, Goto, mapVars, eimVars
<1>6. CountsHolders'
  <2>1. /\ \A g \in FileID \ {f} : HoldersOf(g)' = HoldersOf(g)
        /\ Cardinality(HoldersOf(f)') = Cardinality(HoldersOf(f))
            + 1
    BY HoldersGain, Zenon DEF IInv, IncRef, ReturnHolding, Goto, Holding
  <2> QED BY <2>1 DEF IInv, TypeOK, CountsHolders, IncRef
<1>7. KnownIsUsable'
  BY ExecAssumption DEF IInv, TypeOK, CallShape, LockShape, Locked,
    LoadShape, KnownIsUsable, Pages, IncRef, ReturnHolding, Goto, mapVars,
    eimVars
<1>8. PagesHaveDeltas'
  BY ExecAssumption, Zenon DEF IInv, TypeOK, CallShape, LoadShape, PagesHaveDeltas,
    PageKey, Pages, IncRef, ReturnHolding, Goto, mapVars, eimVars
<1>9. CountShape'
  BY Zenon DEF IInv, CountShape, Pages, IncRef, ReturnHolding, Goto, mapVars,
    eimVars
<1> QED BY <1>1, <1>2, <1>3, <1>4, <1>5, <1>6, <1>7, <1>8, <1>9 DEF IInv

\* A new entry for an executable without deltas.
LEMMA InsertWithoutDeltasKeeps ==
  ASSUME IInv, NEW h \in Holder, NEW f \in FileID \ executables, lock = NoHolder,
         pc[h] \in {"idle", "extracting"}, NEW o \in {"ref", "synth"},
         InsertWithoutDeltas(h, f, o)
  PROVE  IInv'
<1> \A k \in Holder : pc[k] \notin Locked
  BY ExecAssumption, Zenon DEF IInv, LockShape

<1>1. TypeOK'
  BY ExecAssumption, Zenon DEF IInv, TypeOK, CallShape, PageKey, Pages,
    InsertWithoutDeltas, InsertEntry, ReturnHolding, Goto, mapVars,
    eimVars
<1>2. CallShape'
  BY ExecAssumption DEF IInv, TypeOK, CallShape, Locked,
    InsertWithoutDeltas, InsertEntry, ReturnHolding, Goto, mapVars,
    eimVars
<1>3. LockShape'
  BY ExecAssumption, Zenon DEF IInv, TypeOK, LockShape, Locked,
    InsertWithoutDeltas, InsertEntry, ReturnHolding, Goto, mapVars,
    eimVars
<1>4. LoadShape'
  BY ExecAssumption DEF IInv, TypeOK, CallShape, LockShape, Locked,
    LoadShape, InsertWithoutDeltas, InsertEntry, ReturnHolding, Goto,
    mapVars, eimVars
<1>5. UnloadShape'
  BY ExecAssumption DEF IInv, TypeOK, CallShape, LockShape, Locked,
    UnloadShape, InsertWithoutDeltas, InsertEntry, ReturnHolding, Goto,
    mapVars, eimVars
<1>6. CountsHolders'
  <2>1. /\ \A g \in FileID \ {f} : HoldersOf(g)' = HoldersOf(g)
        /\ Cardinality(HoldersOf(f)') = Cardinality(HoldersOf(f))
            + 1
    BY HoldersGain, Zenon DEF IInv, InsertWithoutDeltas, ReturnHolding, Goto,
        Holding
  <2>2. Cardinality(HoldersOf(f)) = 0
    BY FS_EmptySet, Zenon DEF IInv, CountsHolders
  <2> QED BY <2>1, <2>2 DEF IInv, TypeOK, CountsHolders,
      InsertWithoutDeltas, InsertEntry
<1>7. KnownIsUsable'
  BY ExecAssumption, Zenon DEF IInv, TypeOK, CallShape, LockShape, Locked,
    LoadShape, KnownIsUsable, Pages, InsertWithoutDeltas, InsertEntry,
    ReturnHolding, Goto, mapVars, eimVars
<1>8. PagesHaveDeltas'
  BY ExecAssumption, Zenon DEF IInv, TypeOK, CallShape, LoadShape, PagesHaveDeltas,
    PageKey, Pages, InsertWithoutDeltas, InsertEntry, ReturnHolding, Goto,
    mapVars, eimVars
<1>9. CountShape'
  <2>1. Cardinality(PagesOf(executables \cup {f})) =
    Cardinality(PagesOf(executables)) + NumPages[f]
    BY PagesOfAdd, Zenon DEF IInv, TypeOK
  <2>2. Cardinality(PagesOf(executables)) \in Nat
    BY PagesOfFinite, Zenon DEF IInv, TypeOK
  <2> QED BY <2>1, <2>2 DEF IInv, CountShape, PagesOf, Pages,
      InsertWithoutDeltas, InsertEntry
<1> QED BY <1>1, <1>2, <1>3, <1>4, <1>5, <1>6, <1>7, <1>8, <1>9 DEF IInv

\* The lock is kept and loading starts.
LEMMA StartLoadingKeeps ==
  ASSUME IInv, NEW h \in Holder, NEW f \in FileID \ executables, lock = NoHolder,
         pc[h] \in {"idle", "extracting"}, NEW o \in {"ref", "synth"},
         StartLoading(h, f, o)
  PROVE  IInv'
<1> \A k \in Holder : pc[k] \notin Locked
  BY ExecAssumption, Zenon DEF IInv, LockShape

<1>1. TypeOK'
  BY ExecAssumption, Zenon DEF IInv, TypeOK, CallShape, PageKey, Pages,
    StartLoading, Goto, mapVars, eimVars
<1>2. CallShape'
  BY ExecAssumption DEF IInv, TypeOK, CallShape, Locked, StartLoading, Goto,
    mapVars, eimVars
<1>3. LockShape'
  BY ExecAssumption, Zenon DEF IInv, TypeOK, LockShape, Locked, StartLoading, Goto,
    mapVars, eimVars
<1>4. LoadShape'
  BY ExecAssumption DEF IInv, TypeOK, CallShape, LockShape, Locked,
    LoadShape, StartLoading, Goto, mapVars, eimVars
<1>5. UnloadShape'
  BY ExecAssumption DEF IInv, TypeOK, CallShape, LockShape, Locked,
    UnloadShape, StartLoading, Goto, mapVars, eimVars
<1>6. CountsHolders'
  <2>1. \A g \in FileID : HoldersOf(g)' = HoldersOf(g)
    BY ExecAssumption, HoldersStay, Zenon DEF IInv, TypeOK, Holding,
        StartLoading, Goto, mapVars, eimVars
  <2> QED BY <2>1, Zenon DEF IInv, CountsHolders, StartLoading, Goto, mapVars,
      eimVars
<1>7. KnownIsUsable'
  BY ExecAssumption DEF IInv, TypeOK, CallShape, LockShape, Locked,
    LoadShape, KnownIsUsable, Pages, StartLoading, Goto, mapVars, eimVars
<1>8. PagesHaveDeltas'
  BY ExecAssumption, Zenon DEF IInv, TypeOK, CallShape, LoadShape, PagesHaveDeltas,
    PageKey, Pages, StartLoading, Goto, mapVars, eimVars
<1>9. CountShape'
  BY Zenon DEF IInv, CountShape, Pages, StartLoading, Goto, mapVars, eimVars
<1> QED BY <1>1, <1>2, <1>3, <1>4, <1>5, <1>6, <1>7, <1>8, <1>9, Zenon DEF IInv

\* The lock is dropped for the extraction.
LEMMA ExtractingKeeps ==
  ASSUME IInv, NEW h \in Holder, NEW f \in FileID \ executables, lock = NoHolder,
         AddOrIncRef(h, f)
  PROVE  IInv'
<1> \A k \in Holder : pc[k] \notin Locked
  BY ExecAssumption, Zenon DEF IInv, LockShape

<1>1. TypeOK'
  BY ExecAssumption DEF IInv, TypeOK, CallShape, PageKey, Pages,
    AddOrIncRef, Goto, mapVars, eimVars
<1>2. CallShape'
  BY ExecAssumption DEF IInv, TypeOK, CallShape, Locked, AddOrIncRef, Goto,
    mapVars, eimVars
<1>3. LockShape'
  BY ExecAssumption DEF IInv, TypeOK, LockShape, Locked, AddOrIncRef, Goto,
    mapVars, eimVars
<1>4. LoadShape'
  BY ExecAssumption DEF IInv, TypeOK, CallShape, LockShape, Locked,
    LoadShape, AddOrIncRef, Goto, mapVars, eimVars
<1>5. UnloadShape'
  BY ExecAssumption DEF IInv, TypeOK, CallShape, LockShape, Locked,
    UnloadShape, AddOrIncRef, Goto, mapVars, eimVars
<1>6. CountsHolders'
  <2>1. \A g \in FileID : HoldersOf(g)' = HoldersOf(g)
    BY ExecAssumption, HoldersStay DEF IInv, TypeOK, Holding,
        AddOrIncRef, Goto, mapVars, eimVars
  <2> QED BY <2>1, Zenon DEF IInv, CountsHolders, AddOrIncRef, Goto, mapVars,
      eimVars
<1>7. KnownIsUsable'
  BY ExecAssumption DEF IInv, TypeOK, CallShape, LockShape, Locked,
    LoadShape, KnownIsUsable, Pages, AddOrIncRef, Goto, mapVars, eimVars
<1>8. PagesHaveDeltas'
  BY ExecAssumption, Zenon DEF IInv, TypeOK, CallShape, LoadShape, PagesHaveDeltas,
    PageKey, Pages, AddOrIncRef, Goto, mapVars, eimVars
<1>9. CountShape'
  BY Zenon DEF IInv, CountShape, Pages, AddOrIncRef, Goto, mapVars, eimVars
<1> QED BY <1>1, <1>2, <1>3, <1>4, <1>5, <1>6, <1>7, <1>8, <1>9, Zenon DEF IInv

\* The extraction fails.
LEMMA ExtractionFailsKeeps ==
  ASSUME IInv, NEW h \in Holder, ExtractionFails(h)
  PROVE  IInv'

<1>1. TypeOK'
  BY ExecAssumption, Zenon DEF IInv, TypeOK, CallShape, PageKey, Pages,
    ExtractionFails, ReturnEmpty, Goto, mapVars, eimVars
<1>2. CallShape'
  BY ExecAssumption DEF IInv, TypeOK, CallShape, Locked, ExtractionFails,
    ReturnEmpty, Goto, mapVars, eimVars
<1>3. LockShape'
  BY ExecAssumption, Zenon DEF IInv, TypeOK, LockShape, Locked, ExtractionFails,
    ReturnEmpty, Goto, mapVars, eimVars
<1>4. LoadShape'
  BY ExecAssumption DEF IInv, TypeOK, CallShape, LockShape, Locked,
    LoadShape, ExtractionFails, ReturnEmpty, Goto, mapVars, eimVars
<1>5. UnloadShape'
  BY ExecAssumption DEF IInv, TypeOK, CallShape, LockShape, Locked,
    UnloadShape, ExtractionFails, ReturnEmpty, Goto, mapVars, eimVars
<1>6. CountsHolders'
  <2>1. \A g \in FileID : HoldersOf(g)' = HoldersOf(g)
    BY ExecAssumption, HoldersStay, Zenon DEF IInv, TypeOK, Holding,
        ExtractionFails, ReturnEmpty, Goto, mapVars, eimVars
  <2> QED BY <2>1, Zenon DEF IInv, CountsHolders, ExtractionFails, ReturnEmpty,
      Goto, mapVars, eimVars
<1>7. KnownIsUsable'
  BY ExecAssumption DEF IInv, TypeOK, CallShape, LockShape, Locked,
    LoadShape, KnownIsUsable, Pages, ExtractionFails, ReturnEmpty, Goto,
    mapVars, eimVars
<1>8. PagesHaveDeltas'
  BY ExecAssumption, Zenon DEF IInv, TypeOK, CallShape, LoadShape, PagesHaveDeltas,
    PageKey, Pages, ExtractionFails, ReturnEmpty, Goto, mapVars, eimVars
<1>9. CountShape'
  BY Zenon DEF IInv, CountShape, Pages, ExtractionFails, ReturnEmpty, Goto,
    mapVars, eimVars
<1> QED BY <1>1, <1>2, <1>3, <1>4, <1>5, <1>6, <1>7, <1>8, <1>9, Zenon DEF IInv

\* Loading fails at any of its three places.
LEMMA GiveUpKeeps ==
  ASSUME IInv, NEW h \in Holder, LoadFails(h) \/ FillFails(h) \/ InsertPageFails(h)
  PROVE  IInv'
<1>a. /\ pc[h] \in {"loading", "filling", "paging"} /\ ReturnEmpty(h)
      /\ lock' = NoHolder /\ UNCHANGED <<eimVars, mapVars>>
  BY Zenon DEF LoadFails, FillFails, InsertPageFails

<1>1. TypeOK'
  BY <1>a, ExecAssumption, Zenon DEF IInv, TypeOK, CallShape, PageKey, Pages,
    ReturnEmpty, Goto, mapVars, eimVars
<1>2. CallShape'
  BY <1>a, ExecAssumption DEF IInv, TypeOK, CallShape, Locked, ReturnEmpty,
    Goto, mapVars, eimVars
<1>3. LockShape'
  BY <1>a, ExecAssumption, Zenon DEF IInv, TypeOK, LockShape, Locked, ReturnEmpty,
    Goto, mapVars, eimVars
<1>4. LoadShape'
  BY <1>a, ExecAssumption DEF IInv, TypeOK, CallShape, LockShape, Locked,
    LoadShape, ReturnEmpty, Goto, mapVars, eimVars
<1>5. UnloadShape'
  BY <1>a, ExecAssumption DEF IInv, TypeOK, CallShape, LockShape, Locked,
    UnloadShape, ReturnEmpty, Goto, mapVars, eimVars
<1>6. CountsHolders'
  <2>1. \A g \in FileID : HoldersOf(g)' = HoldersOf(g)
    BY <1>a, ExecAssumption, HoldersStay, Zenon DEF IInv, TypeOK, Holding,
        ReturnEmpty, Goto, mapVars, eimVars
  <2> QED BY <1>a, <2>1, Zenon DEF IInv, CountsHolders, ReturnEmpty, Goto,
      mapVars, eimVars
<1>7. KnownIsUsable'
  BY <1>a, ExecAssumption DEF IInv, TypeOK, CallShape, LockShape, Locked,
    LoadShape, KnownIsUsable, Pages, ReturnEmpty, Goto, mapVars, eimVars
<1>8. PagesHaveDeltas'
  BY <1>a, ExecAssumption, Zenon DEF IInv, TypeOK, CallShape, LoadShape,
    PagesHaveDeltas, PageKey, Pages, ReturnEmpty, Goto, mapVars, eimVars
<1>9. CountShape'
  BY <1>a, Zenon DEF IInv, CountShape, Pages, ReturnEmpty, Goto, mapVars, eimVars
<1> QED BY <1>1, <1>2, <1>3, <1>4, <1>5, <1>6, <1>7, <1>8, <1>9, Zenon DEF IInv

\* The inner map is inserted.
LEMMA InsertOuterKeeps ==
  ASSUME IInv, NEW h \in Holder, InsertOuter(h)
  PROVE  IInv'

<1>1. TypeOK'
  BY ExecAssumption, Zenon DEF IInv, TypeOK, CallShape, PageKey, Pages,
    InsertOuter, SetInner, Goto, mapVars, eimVars
<1>2. CallShape'
  BY ExecAssumption DEF IInv, TypeOK, CallShape, Locked, InsertOuter,
    SetInner, Goto, mapVars, eimVars
<1>3. LockShape'
  BY ExecAssumption DEF IInv, TypeOK, LockShape, Locked, InsertOuter,
    SetInner, Goto, mapVars, eimVars
<1>4. LoadShape'
  BY ExecAssumption DEF IInv, TypeOK, CallShape, LockShape, Locked,
    LoadShape, InsertOuter, SetInner, Goto, mapVars, eimVars
<1>5. UnloadShape'
  BY ExecAssumption DEF IInv, TypeOK, CallShape, LockShape, Locked,
    UnloadShape, InsertOuter, SetInner, Goto, mapVars, eimVars
<1>6. CountsHolders'
  <2>1. \A g \in FileID : HoldersOf(g)' = HoldersOf(g)
    BY ExecAssumption, HoldersStay, Zenon DEF IInv, TypeOK, Holding,
        InsertOuter, SetInner, Goto, mapVars, eimVars
  <2> QED BY <2>1, Zenon DEF IInv, CountsHolders, InsertOuter, SetInner, Goto,
      mapVars, eimVars
<1>7. KnownIsUsable'
  BY ExecAssumption DEF IInv, TypeOK, CallShape, LockShape, Locked,
    LoadShape, KnownIsUsable, Pages, InsertOuter, SetInner, Goto, mapVars,
    eimVars
<1>8. PagesHaveDeltas'
  BY ExecAssumption DEF IInv, TypeOK, CallShape, LoadShape, PagesHaveDeltas,
    PageKey, Pages, InsertOuter, SetInner, Goto, mapVars, eimVars
<1>9. CountShape'
  BY Zenon DEF IInv, CountShape, Pages, InsertOuter, SetInner, Goto, mapVars,
    eimVars
<1> QED BY <1>1, <1>2, <1>3, <1>4, <1>5, <1>6, <1>7, <1>8, <1>9, Zenon DEF IInv

\* The inner map is filled.
LEMMA FillInnerKeeps ==
  ASSUME IInv, NEW h \in Holder, FillInner(h)
  PROVE  IInv'
<1>a. file[h] \in FileID /\ NumPages[file[h]] \in Nat /\ page[h] = 0
  BY ExecAssumption, Zenon DEF IInv, CallShape, FillInner

<1>1. TypeOK'
  BY <1>a, ExecAssumption, Zenon DEF IInv, TypeOK, CallShape, PageKey, Pages,
    FillInner, SetInner, Goto, mapVars, eimVars
<1>2. CallShape'
  BY <1>a, ExecAssumption DEF IInv, TypeOK, CallShape, Locked, FillInner,
    SetInner, Goto, mapVars, eimVars
<1>3. LockShape'
  BY <1>a, ExecAssumption, Zenon DEF IInv, TypeOK, LockShape, Locked, FillInner,
    SetInner, Goto, mapVars, eimVars
<1>4. LoadShape'
  BY <1>a, ExecAssumption DEF IInv, TypeOK, CallShape, LockShape, Locked,
    LoadShape, FillInner, SetInner, Goto, mapVars, eimVars
<1>5. UnloadShape'
  BY <1>a, ExecAssumption DEF IInv, TypeOK, CallShape, LockShape, Locked,
    UnloadShape, FillInner, SetInner, Goto, mapVars, eimVars
<1>6. CountsHolders'
  <2>1. \A g \in FileID : HoldersOf(g)' = HoldersOf(g)
    BY <1>a, ExecAssumption, HoldersStay, Zenon DEF IInv, TypeOK, Holding,
        FillInner, SetInner, Goto, mapVars, eimVars
  <2> QED BY <1>a, <2>1, Zenon DEF IInv, CountsHolders, FillInner, SetInner,
      Goto, mapVars, eimVars
<1>7. KnownIsUsable'
  BY <1>a, ExecAssumption DEF IInv, TypeOK, CallShape, LockShape, Locked,
    LoadShape, KnownIsUsable, Pages, FillInner, SetInner, Goto, mapVars,
    eimVars
<1>8. PagesHaveDeltas'
  BY <1>a, ExecAssumption DEF IInv, TypeOK, CallShape, LoadShape,
    PagesHaveDeltas, PageKey, Pages, FillInner, SetInner, Goto, mapVars,
    eimVars
<1>9. CountShape'
  BY <1>a, Zenon DEF IInv, CountShape, Pages, FillInner, SetInner, Goto, mapVars,
    eimVars
<1> QED BY <1>1, <1>2, <1>3, <1>4, <1>5, <1>6, <1>7, <1>8, <1>9, Zenon DEF IInv

\* A page is inserted.
LEMMA InsertPageKeeps ==
  ASSUME IInv, NEW h \in Holder, InsertPage(h)
  PROVE  IInv'

<1>1. TypeOK'
  BY ExecAssumption DEF IInv, TypeOK, CallShape, PageKey, Pages, InsertPage,
    SetInner, Goto, mapVars, eimVars
<1>2. CallShape'
  BY ExecAssumption DEF IInv, TypeOK, CallShape, Locked, InsertPage,
    SetInner, Goto, mapVars, eimVars
<1>3. LockShape'
  BY ExecAssumption, Zenon DEF IInv, TypeOK, LockShape, Locked, InsertPage,
    SetInner, Goto, mapVars, eimVars
<1>4. LoadShape'
  BY SMTT(30), ExecAssumption DEF IInv, TypeOK, CallShape, LockShape, Locked,
    LoadShape, InsertPage, SetInner, Goto, mapVars, eimVars
<1>5. UnloadShape'
  BY ExecAssumption DEF IInv, TypeOK, CallShape, LockShape, Locked,
    UnloadShape, InsertPage, SetInner, Goto, mapVars, eimVars
<1>6. CountsHolders'
  <2>1. \A g \in FileID : HoldersOf(g)' = HoldersOf(g)
    BY ExecAssumption, HoldersStay, Zenon DEF IInv, TypeOK, Holding,
        InsertPage, SetInner, Goto, mapVars, eimVars
  <2> QED BY <2>1, Zenon DEF IInv, CountsHolders, InsertPage, SetInner, Goto,
      mapVars, eimVars
<1>7. KnownIsUsable'
  BY ExecAssumption DEF IInv, TypeOK, CallShape, LockShape, Locked,
    LoadShape, KnownIsUsable, Pages, InsertPage, SetInner, Goto, mapVars,
    eimVars
<1>8. PagesHaveDeltas'
  BY ExecAssumption DEF IInv, TypeOK, CallShape, LoadShape, PagesHaveDeltas,
    PageKey, Pages, InsertPage, SetInner, Goto, mapVars, eimVars
<1>9. CountShape'
  BY Zenon DEF IInv, CountShape, Pages, InsertPage, SetInner, Goto, mapVars,
    eimVars
<1> QED BY <1>1, <1>2, <1>3, <1>4, <1>5, <1>6, <1>7, <1>8, <1>9, Zenon DEF IInv

\* The pages are counted and the entry appears.
LEMMA PublishKeeps ==
  ASSUME IInv, NEW h \in Holder, Publish(h)
  PROVE  IInv'
<1> PICK f : f = file[h]
  BY Zenon
<1>a. f \in FileID \ executables /\ NumPages[f] \in Nat
  BY ExecAssumption, Zenon DEF IInv, CallShape, LoadShape, Publish

<1>1. TypeOK'
  BY ExecAssumption DEF IInv, TypeOK, CallShape, PageKey, Pages, Publish,
    InsertEntry, ReturnHolding, Goto, mapVars, eimVars
<1>2. CallShape'
  BY ExecAssumption DEF IInv, TypeOK, CallShape, Locked, Publish,
    InsertEntry, ReturnHolding, Goto, mapVars, eimVars
<1>3. LockShape'
  BY ExecAssumption DEF IInv, TypeOK, LockShape, Locked, Publish,
    InsertEntry, ReturnHolding, Goto, mapVars, eimVars
<1>4. LoadShape'
  BY SMTT(30), ExecAssumption DEF IInv, TypeOK, CallShape, LockShape, Locked,
    LoadShape, Publish, InsertEntry, ReturnHolding, Goto, mapVars, eimVars
<1>5. UnloadShape'
  BY ExecAssumption DEF IInv, TypeOK, CallShape, LockShape, Locked,
    UnloadShape, Publish, InsertEntry, ReturnHolding, Goto, mapVars,
    eimVars
<1>6. CountsHolders'
  <2>1. /\ \A g \in FileID \ {f} : HoldersOf(g)' = HoldersOf(g)
        /\ Cardinality(HoldersOf(f)') = Cardinality(HoldersOf(f))
            + 1
    BY <1>a, HoldersGain, Zenon DEF IInv, Publish, ReturnHolding, Goto,
        Holding
  <2>2. Cardinality(HoldersOf(f)) = 0
    BY <1>a, FS_EmptySet, ZenonT(40) DEF IInv, CountsHolders
  <2> QED BY <1>a, <2>1, <2>2 DEF IInv, TypeOK, CountsHolders, Publish,
      InsertEntry
<1>7. KnownIsUsable'
  BY ExecAssumption DEF IInv, TypeOK, CallShape, LockShape, Locked,
    LoadShape, KnownIsUsable, Pages, Publish, InsertEntry, ReturnHolding,
    Goto, mapVars, eimVars
<1>8. PagesHaveDeltas'
  BY ExecAssumption, Zenon DEF IInv, TypeOK, CallShape, LoadShape, PagesHaveDeltas,
    PageKey, Pages, Publish, InsertEntry, ReturnHolding, Goto, mapVars,
    eimVars
<1>9. CountShape'
  <2>1. Cardinality(PagesOf(executables \cup {f})) =
    Cardinality(PagesOf(executables)) + NumPages[f]
    BY <1>a, PagesOfAdd, Zenon DEF IInv, TypeOK
  <2> QED BY <2>1, Zenon DEF IInv, CountShape, PagesOf, Pages, Publish,
      InsertEntry
<1> QED BY <1>1, <1>2, <1>3, <1>4, <1>5, <1>6, <1>7, <1>8, <1>9, Zenon DEF IInv

----------------------------------------------------------------------------

\* A reference that is not the last one is given back.
LEMMA DecRefKeeps ==
  ASSUME IInv, NEW h \in Holder, DecRef(h)
  PROVE  IInv'
<1> PICK f : f = file[h]
  BY Zenon
<1>a. /\ f \in FileID /\ f \in executables
      /\ rc[f] = Cardinality(HoldersOf(f)) /\ rc[f] \in Nat \ {0}
  <2>1. f \in FileID /\ h \in HoldersOf(f)
    BY Zenon DEF IInv, CallShape, HoldersOf, DecRef
  <2> QED BY <2>1 DEF IInv, TypeOK, CountsHolders
<1>b. rc[f] > 1
  BY <1>a DEF DecRef
<1> \A k \in Holder : pc[k] \notin Locked
  BY ExecAssumption, Zenon DEF IInv, LockShape, DecRef

<1>1. TypeOK'
  BY <1>a, <1>b, ExecAssumption DEF IInv, TypeOK, PageKey, Pages, DecRef,
    ReturnEmpty, Goto, mapVars, eimVars
<1>2. CallShape'
  BY ExecAssumption DEF IInv, TypeOK, CallShape, Locked, DecRef,
    ReturnEmpty, Goto, mapVars, eimVars
<1>3. LockShape'
  BY ExecAssumption, Zenon DEF IInv, TypeOK, LockShape, Locked, DecRef,
    ReturnEmpty, Goto, mapVars, eimVars
<1>4. LoadShape'
  BY ExecAssumption DEF IInv, TypeOK, CallShape, LockShape, Locked,
    LoadShape, DecRef, ReturnEmpty, Goto, mapVars, eimVars
<1>5. UnloadShape'
  BY ExecAssumption DEF IInv, TypeOK, CallShape, LockShape, Locked,
    UnloadShape, DecRef, ReturnEmpty, Goto, mapVars, eimVars
<1>6. CountsHolders'
  <2>1. /\ \A g \in FileID \ {f} : HoldersOf(g)' = HoldersOf(g)
        /\ HoldersOf(f)' = HoldersOf(f) \ {h}
        /\ h \in HoldersOf(f)
        /\ Cardinality(HoldersOf(f)') = Cardinality(HoldersOf(f))
            - 1
    BY <1>a, HoldersLose, Zenon DEF IInv, ReturnEmpty, Goto, Holding, DecRef
  <2>2. rc' = [rc EXCEPT ![f] = @ - 1] /\ executables' = executables
    BY <1>a, <1>b, Zenon DEF DecRef
  <2>3. rc' \in [FileID -> Nat] /\ rc'[f] = rc[f] - 1
    BY <1>a, <1>b, <2>2 DEF IInv, TypeOK
  <2>4. ASSUME NEW g \in FileID \ {f} PROVE rc'[g] = rc[g] /\
      HoldersOf(g)' = HoldersOf(g)
    BY <2>1, <2>2, Zenon DEF IInv, TypeOK
  <2>5. f \in executables' /\ rc'[f] > 0 /\ rc'[f] =
      Cardinality(HoldersOf(f)')
    BY <1>a, <1>b, <2>1, <2>2, <2>3
  <2> QED BY <2>2, <2>4, <2>5 DEF IInv, CountsHolders
<1>7. KnownIsUsable'
  BY ExecAssumption DEF IInv, TypeOK, CallShape, LockShape, Locked,
    LoadShape, KnownIsUsable, Pages, DecRef, ReturnEmpty, Goto, mapVars,
    eimVars
<1>8. PagesHaveDeltas'
  BY ExecAssumption, Zenon DEF IInv, TypeOK, CallShape, LoadShape, PagesHaveDeltas,
    PageKey, Pages, DecRef, ReturnEmpty, Goto, mapVars, eimVars
<1>9. CountShape'
  BY Zenon DEF IInv, CountShape, Pages, DecRef, ReturnEmpty, Goto, mapVars,
    eimVars
<1> QED BY <1>1, <1>2, <1>3, <1>4, <1>5, <1>6, <1>7, <1>8, <1>9, Zenon DEF IInv

\* The last reference on an executable without deltas is given back.
LEMMA RemoveEmptyKeeps ==
  ASSUME IInv, NEW h \in Holder, RemoveRef(h), NumPages[file[h]] = 0
  PROVE  IInv'
<1> PICK f : f = file[h]
  BY Zenon
<1>a. /\ f \in FileID /\ f \in executables
      /\ rc[f] = Cardinality(HoldersOf(f)) /\ rc[f] \in Nat \ {0}
  <2>1. f \in FileID /\ h \in HoldersOf(f)
    BY Zenon DEF IInv, CallShape, HoldersOf, RemoveRef
  <2> QED BY <2>1 DEF IInv, TypeOK, CountsHolders
<1>b. rc[f] = 1 /\ NumPages[f] = 0
  BY <1>a, Zenon DEF RemoveRef
<1>c. /\ executables' = executables \ {f}
      /\ rc' = [rc EXCEPT ![f] = 0]
      /\ ReturnEmpty(h)
      /\ UNCHANGED <<numStackDeltaMapPages, mapVars, lock>>
  BY <1>b DEF RemoveRef
<1> \A k \in Holder : pc[k] \notin Locked
  BY ExecAssumption, Zenon DEF IInv, LockShape, RemoveRef

<1>1. TypeOK'
  BY <1>a, <1>c, ExecAssumption, Zenon DEF IInv, TypeOK, PageKey, Pages,
    ReturnEmpty, Goto, mapVars, eimVars
<1>2. CallShape'
  BY <1>c, ExecAssumption DEF IInv, TypeOK, CallShape, Locked, ReturnEmpty,
    Goto, mapVars, eimVars
<1>3. LockShape'
  BY <1>c, ExecAssumption, Zenon DEF IInv, TypeOK, LockShape, Locked, ReturnEmpty,
    Goto, mapVars, eimVars
<1>4. LoadShape'
  BY <1>c, ExecAssumption DEF IInv, TypeOK, LoadShape, Locked, ReturnEmpty,
    Goto, mapVars, eimVars
<1>5. UnloadShape'
  BY <1>c, ExecAssumption DEF IInv, TypeOK, UnloadShape, Locked,
    ReturnEmpty, Goto, mapVars, eimVars
<1>6. CountsHolders'
  <2>1. /\ \A g \in FileID \ {f} : HoldersOf(g)' = HoldersOf(g)
        /\ HoldersOf(f)' = HoldersOf(f) \ {h}
        /\ h \in HoldersOf(f)
        /\ Cardinality(HoldersOf(f)') = Cardinality(HoldersOf(f))
            - 1
    BY <1>a, <1>c, HoldersLose, Zenon DEF IInv, ReturnEmpty, Goto, Holding,
        RemoveRef
  <2>2. HoldersOf(f)' = {}
    <3>1. IsFiniteSet(HoldersOf(f)) /\ Cardinality(HoldersOf(f)) = 1
      BY <1>a, <1>b, HoldersFinite, Zenon
    <3>2. IsFiniteSet(HoldersOf(f) \ {h}) /\ Cardinality(HoldersOf(f)
        \ {h}) = 0
      BY <3>1, <2>1, FS_RemoveElement
    <3> QED BY <2>1, <3>2, FS_EmptySet, Zenon
  <2> QED BY <1>a, <1>b, <1>c, <2>1, <2>2 DEF IInv, TypeOK,
      CountsHolders
<1>7. KnownIsUsable'
  BY <1>c, ExecAssumption, Zenon DEF IInv, TypeOK, KnownIsUsable, Locked, Pages,
    ReturnEmpty, Goto, mapVars, eimVars
<1>8. PagesHaveDeltas'
  BY <1>c, Zenon DEF IInv, PagesHaveDeltas, ReturnEmpty, Goto, mapVars, eimVars
<1>9. CountShape'
  <2>1. Cardinality(PagesOf(executables \ {f})) =
    Cardinality(PagesOf(executables)) - NumPages[f]
    BY <1>a, PagesOfRemove, Zenon DEF IInv, TypeOK
  <2>2. Cardinality(PagesOf(executables)) \in Nat
    BY PagesOfFinite, Zenon DEF IInv, TypeOK
  <2> QED BY <1>b, <1>c, <2>1, <2>2 DEF IInv, CountShape, PagesOf, Pages
<1> QED BY <1>1, <1>2, <1>3, <1>4, <1>5, <1>6, <1>7, <1>8, <1>9, Zenon DEF IInv

\* The last reference is given back and unloading starts.
LEMMA StartUnloadKeeps ==
  ASSUME IInv, NEW h \in Holder, RemoveRef(h), NumPages[file[h]] # 0
  PROVE  IInv'
<1>a. /\ lock = NoHolder /\ pc[h] = "holding" /\ lock' = h
      /\ file[h] \in executables /\ rc[file[h]] = 1 /\ NumPages[file[h]] > 0
      /\ Goto(h, "unpaging")
      /\ UNCHANGED <<eimVars, mapVars, file, op, page, err>>
  BY Zenon DEF RemoveRef
<1> \A k \in Holder : pc[k] \notin Locked
  BY <1>a, ExecAssumption, Zenon DEF IInv, LockShape

<1>1. TypeOK'
  BY <1>a, ExecAssumption, Zenon DEF IInv, TypeOK, CallShape, LockShape, Locked,
    LoadShape, UnloadShape, KnownIsUsable, Pages, PageKey, Goto, mapVars,
    eimVars
<1>2. CallShape'
  BY <1>a, ExecAssumption DEF IInv, TypeOK, CallShape, LockShape, Locked,
    LoadShape, UnloadShape, KnownIsUsable, Pages, PageKey, Goto, mapVars,
    eimVars
<1>3. LockShape'
  BY <1>a, ExecAssumption DEF IInv, TypeOK, CallShape, LockShape, Locked,
    LoadShape, UnloadShape, KnownIsUsable, Pages, PageKey, Goto, mapVars,
    eimVars
<1>4. LoadShape'
  BY <1>a, ExecAssumption DEF IInv, TypeOK, CallShape, LockShape, Locked,
    LoadShape, UnloadShape, KnownIsUsable, Pages, PageKey, Goto, mapVars,
    eimVars
<1>5. UnloadShape'
  BY <1>a, ExecAssumption DEF IInv, TypeOK, CallShape, LockShape, Locked,
    LoadShape, UnloadShape, KnownIsUsable, Pages, PageKey, Goto, mapVars,
    eimVars
<1>6. CountsHolders'
  <2>1. \A g \in FileID : HoldersOf(g)' = HoldersOf(g)
    BY <1>a, HoldersStay, Zenon DEF IInv, TypeOK, Holding, Goto
  <2> QED BY <1>a, <2>1, Zenon DEF IInv, CountsHolders, eimVars
<1>7. KnownIsUsable'
  BY <1>a, ExecAssumption DEF IInv, TypeOK, CallShape, LockShape, Locked,
    LoadShape, UnloadShape, KnownIsUsable, Pages, PageKey, Goto, mapVars,
    eimVars
<1>8. PagesHaveDeltas'
  BY <1>a, Zenon DEF IInv, PagesHaveDeltas, mapVars
<1>9. CountShape'
  BY <1>a, Zenon DEF IInv, CountShape, Pages, eimVars
<1> QED BY <1>1, <1>2, <1>3, <1>4, <1>5, <1>6, <1>7, <1>8, <1>9, Zenon DEF IInv

\* A page is deleted; it was there.
LEMMA DeletePageKeeps ==
  ASSUME IInv, NEW h \in Holder, DeletePage(h)
  PROVE  IInv'
<1>a. <<file[h], page[h]>> \in stackDeltaPageToInfo
  BY ExecAssumption DEF IInv, TypeOK, CallShape, UnloadShape, DeletePage

<1>1. TypeOK'
  BY ExecAssumption DEF IInv, TypeOK, CallShape, PageKey, Pages, DeletePage,
    Goto, mapVars, eimVars
<1>2. CallShape'
  BY <1>a, ExecAssumption DEF IInv, TypeOK, CallShape, Locked, DeletePage
<1>3. LockShape'
  BY ExecAssumption, Zenon DEF IInv, TypeOK, LockShape, Locked, DeletePage, Goto,
    mapVars, eimVars
<1>4. LoadShape'
  BY ExecAssumption DEF IInv, TypeOK, CallShape, LockShape, Locked,
    LoadShape, DeletePage, Goto, mapVars, eimVars
<1>5. UnloadShape'
  BY SMTT(30), ExecAssumption DEF IInv, TypeOK, CallShape, LockShape, Locked,
    UnloadShape, DeletePage, Goto, mapVars, eimVars
<1>6. CountsHolders'
  <2>1. \A g \in FileID : HoldersOf(g)' = HoldersOf(g)
    BY ExecAssumption, HoldersStay, Zenon DEF IInv, TypeOK, Holding,
        DeletePage, Goto, mapVars, eimVars
  <2> QED BY <2>1, Zenon DEF IInv, CountsHolders, DeletePage, Goto, mapVars,
      eimVars
<1>7. KnownIsUsable'
  BY ExecAssumption DEF IInv, TypeOK, CallShape, LockShape, Locked,
    LoadShape, KnownIsUsable, Pages, DeletePage, Goto, mapVars, eimVars
<1>8. PagesHaveDeltas'
  BY Zenon DEF IInv, PagesHaveDeltas, DeletePage
<1>9. CountShape'
  BY Zenon DEF IInv, CountShape, Pages, DeletePage, Goto, mapVars, eimVars
<1> QED BY <1>1, <1>2, <1>3, <1>4, <1>5, <1>6, <1>7, <1>8, <1>9, Zenon DEF IInv

\* Everything was deleted: the count drops and the entry goes.
LEMMA FinishUnloadKeeps ==
  ASSUME IInv, NEW h \in Holder, FinishUnload(h)
  PROVE  IInv'
<1> PICK f : f = file[h]
  BY Zenon
<1>a. /\ f \in FileID /\ f \in executables
      /\ rc[f] = Cardinality(HoldersOf(f)) /\ rc[f] \in Nat \ {0}
  <2>1. f \in FileID /\ h \in HoldersOf(f)
    BY Zenon DEF IInv, CallShape, HoldersOf, FinishUnload
  <2> QED BY <2>1 DEF IInv, TypeOK, CountsHolders
<1>b. /\ rc[f] = 1 /\ ~err[h] /\ exeIDToStackDeltas[f] = "filled"
      /\ lock = h /\ \A k \in Holder \ {h} : pc[k] \notin Locked
  <2>1. pc[h] = "unpaging" /\ ~err[h]
    BY Zenon DEF IInv, CallShape, FinishUnload
  <2>2. rc[f] = 1 /\ exeIDToStackDeltas[f] = "filled"
    BY <2>1, Zenon DEF IInv, UnloadShape
  <2>3. lock = h
    BY <2>1, Zenon DEF IInv, LockShape, Locked
  <2>4. \A k \in Holder \ {h} : pc[k] \notin Locked
    BY <2>3, Zenon DEF IInv, LockShape
  <2> QED BY <2>1, <2>2, <2>3, <2>4, Zenon
<1>c. /\ executables' = executables \ {f}
      /\ rc' = [rc EXCEPT ![f] = 0]
      /\ SetInner(f, "absent") /\ ReturnEmpty(h) /\ lock' = NoHolder
      /\ numStackDeltaMapPages' = numStackDeltaMapPages - NumPages[f]
      /\ UNCHANGED stackDeltaPageToInfo
  BY <1>b, Zenon DEF FinishUnload
<1>d. /\ Cardinality(PagesOf(executables \ {f})) = Cardinality(PagesOf(executables)) - NumPages[f]
      /\ Cardinality(PagesOf(executables \ {f})) \in Nat
  BY <1>a, PagesOfRemove, PagesOfFinite, Zenon DEF IInv, TypeOK
<1>e. \A i \in 0..NumPages[f]-1 : <<f, i>> \notin stackDeltaPageToInfo
  BY Zenon DEF IInv, UnloadShape, FinishUnload

<1>1. TypeOK'
  BY <1>a, <1>c, <1>d, ExecAssumption, Zenon DEF IInv, TypeOK, CountShape, PagesOf,
    PageKey, Pages, SetInner, ReturnEmpty, Goto, mapVars, eimVars
<1>2. CallShape'
  BY SMTT(30), <1>a, <1>b, <1>c, ExecAssumption DEF IInv, TypeOK, CallShape,
    LockShape, Locked, LoadShape, UnloadShape, KnownIsUsable, Pages,
    SetInner, ReturnEmpty, Goto, mapVars, eimVars
<1>3. LockShape'
  BY SMTT(30), <1>a, <1>b, <1>c, ExecAssumption DEF IInv, TypeOK, CallShape,
    LockShape, Locked, LoadShape, UnloadShape, KnownIsUsable, Pages,
    SetInner, ReturnEmpty, Goto, mapVars, eimVars
<1>4. LoadShape'
  BY SMTT(30), <1>a, <1>b, <1>c, ExecAssumption DEF IInv, TypeOK, CallShape,
    LockShape, Locked, LoadShape, UnloadShape, KnownIsUsable, Pages,
    SetInner, ReturnEmpty, Goto, mapVars, eimVars
<1>5. UnloadShape'
  BY <1>a, <1>b, <1>c, ExecAssumption DEF IInv, TypeOK, CallShape,
    LockShape, Locked, LoadShape, UnloadShape, KnownIsUsable, Pages,
    SetInner, ReturnEmpty, Goto, mapVars, eimVars
<1>6. CountsHolders'
  <2>1. /\ \A g \in FileID \ {f} : HoldersOf(g)' = HoldersOf(g)
        /\ HoldersOf(f)' = HoldersOf(f) \ {h}
        /\ h \in HoldersOf(f)
        /\ Cardinality(HoldersOf(f)') = Cardinality(HoldersOf(f))
            - 1
    BY <1>a, <1>c, HoldersLose, Zenon DEF IInv, ReturnEmpty, Goto, Holding,
        FinishUnload
  <2>2. HoldersOf(f)' = {}
    <3>1. IsFiniteSet(HoldersOf(f)) /\ Cardinality(HoldersOf(f)) = 1
      BY <1>a, <1>b, HoldersFinite, Zenon
    <3>2. IsFiniteSet(HoldersOf(f) \ {h}) /\ Cardinality(HoldersOf(f)
        \ {h}) = 0
      BY <3>1, <2>1, FS_RemoveElement
    <3> QED BY <2>1, <3>2, FS_EmptySet, Zenon
  <2> QED BY <1>a, <1>b, <1>c, <2>1, <2>2 DEF IInv, TypeOK,
      CountsHolders
<1>7. KnownIsUsable'
  BY <1>a, <1>b, <1>c, ExecAssumption DEF IInv, TypeOK, CallShape,
    LockShape, Locked, LoadShape, UnloadShape, KnownIsUsable, Pages,
    SetInner, ReturnEmpty, Goto, mapVars, eimVars
<1>8. PagesHaveDeltas'
  BY <1>a, <1>c, <1>e, ExecAssumption DEF IInv, TypeOK, PagesHaveDeltas,
    PageKey, Pages, SetInner
<1>9. CountShape'
  BY <1>c, <1>d, Zenon DEF IInv, CountShape, PagesOf, Pages
<1> QED BY <1>1, <1>2, <1>3, <1>4, <1>5, <1>6, <1>7, <1>8, <1>9, Zenon DEF IInv

LEMMA StutterKeeps == IInv /\ UNCHANGED vars => IInv'
<1> SUFFICES ASSUME IInv, UNCHANGED vars PROVE IInv'
  BY Zenon
<1> USE DEF IInv, vars, eimVars, mapVars, callVars
<1>1. TypeOK'
  BY Zenon DEF TypeOK, PageKey, Pages
<1>2. CallShape' /\ LockShape'
  BY Zenon DEF CallShape, LockShape
<1>3. LoadShape'
  BY Zenon DEF LoadShape
<1>4. UnloadShape'
  BY Zenon DEF UnloadShape
<1>5. CountsHolders'
  BY Zenon DEF CountsHolders, HoldersOf
<1>6. KnownIsUsable' /\ PagesHaveDeltas' /\ CountShape'
  BY Zenon DEF KnownIsUsable, PagesHaveDeltas, CountShape, Pages
<1> QED BY <1>1, <1>2, <1>3, <1>4, <1>5, <1>6, Zenon

LEMMA StepIInv == IInv /\ [Next]_vars => IInv'
<1> SUFFICES ASSUME IInv, [Next]_vars PROVE IInv'
  BY Zenon
<1>1. ASSUME NEW h \in Holder, NEW f \in FileID, AddOrIncRef(h, f) PROVE IInv'
  <2>1. CASE f \in executables
    BY <1>1, <2>1, IncRefKeeps, Zenon DEF AddOrIncRef
  <2>2. CASE f \notin executables
    BY <1>1, <2>2, ExtractingKeeps, Zenon DEF AddOrIncRef
  <2> QED BY <2>1, <2>2, Zenon
<1>2. ASSUME NEW h \in Holder, NEW f \in FileID, AddSynthIntervalData(h, f)
      PROVE  IInv'
  BY <1>2, InsertWithoutDeltasKeeps, StartLoadingKeeps, Zenon DEF AddSynthIntervalData
<1>3. ASSUME NEW h \in Holder, Relock(h) PROVE IInv'
  <2>1. file[h] \in FileID
    BY <1>3, Zenon DEF IInv, CallShape, Relock
  <2> QED BY Zenon, <1>3, <2>1, IncRefKeeps, InsertWithoutDeltasKeeps, StartLoadingKeeps
          DEF Relock
<1>4. ASSUME NEW h \in Holder, Load(h) PROVE IInv'
  BY Zenon, <1>4, GiveUpKeeps, InsertOuterKeeps, FillInnerKeeps, InsertPageKeeps,
     PublishKeeps DEF Load
<1>5. ASSUME NEW h \in Holder, Unload(h) PROVE IInv'
  BY Zenon, <1>5, DecRefKeeps, RemoveEmptyKeeps, StartUnloadKeeps, DeletePageKeeps,
     FinishUnloadKeeps DEF Unload
<1>6. ASSUME NEW h \in Holder, ExtractionFails(h) PROVE IInv'
  BY <1>6, ExtractionFailsKeeps, Zenon
<1> QED BY <1>1, <1>2, <1>3, <1>4, <1>5, <1>6, StutterKeeps, Zenon DEF Next

\* In every reachable state the reference counts are the numbers of holders,
\* an executable with an entry has all its map data until its last holder
\* unloads it, no page refers to a missing or half-filled inner map, and the
\* page counter is exact whenever the lock is free.
THEOREM ExecInfoInvariant ==
  Spec => [](TypeOK /\ CountsHolders /\ KnownIsUsable /\ PagesHaveDeltas /\ PagesCounted)
<1>1. IInv => TypeOK /\ CountsHolders /\ KnownIsUsable /\ PagesHaveDeltas /\ PagesCounted
  BY Zenon DEF IInv, CountShape, PagesCounted
<1> QED BY InitIInv, StepIInv, <1>1, PTL DEF Spec

\* An executable that has an entry stays usable: until its last holder unloads it,
\* loadDeltas has completed and unloadDeltas has not begun, so the unwinder finds all
\* of its deltas and pages.
THEOREM KnownStaysUsable == Spec => []KnownIsUsable
<1> QED BY ExecInfoInvariant, PTL

\* The order of the map writes of loadDeltas and unloadDeltas, also when one of them
\* fails, leaves no page that leads the unwinder to a missing or half-filled inner map.
THEOREM PagesKeepDeltas == Spec => []PagesHaveDeltas
<1> QED BY ExecInfoInvariant, PTL

----------------------------------------------------------------------------
\* Refinement

leaseOf == [h \in Holder |-> IF pc[h] \in Holding THEN file[h] ELSE NoFile]

\* The count makes "known" and "leased" the same.
KnownLeased == executables = {f \in FileID : \E g \in Holder : leaseOf[g] = f}

LEMMA KnownIffLeased == IInv => KnownLeased
<1> SUFFICES ASSUME IInv PROVE KnownLeased
  BY Zenon
<1>1. \A f \in FileID : f \in executables <=> HoldersOf(f) # {}
  <2>1. \A f \in FileID : f \in executables => Cardinality(HoldersOf(f)) # 0
    BY DEF IInv, CountsHolders
  <2> QED BY <2>1, FS_EmptySet, Zenon DEF IInv, CountsHolders
<1>2. \A f \in FileID : HoldersOf(f) # {} <=> \E g \in Holder : leaseOf[g] = f
  BY ExecAssumption, Zenon DEF HoldersOf, leaseOf, Holding
<1> QED BY <1>1, <1>2, Zenon DEF IInv, TypeOK, KnownLeased

\* Getting a reference is an acquisition.
LEMMA GainAcquires ==
  ASSUME IInv, NEW h \in Holder, NEW f \in FileID, pc[h] \notin Holding,
         pc' = [pc EXCEPT ![h] = "holding"], file' = [file EXCEPT ![h] = f],
         executables' = executables \cup {f}
  PROVE  Leases!LNext
<1>1. leaseOf[h] = NoFile /\ leaseOf' = [leaseOf EXCEPT ![h] = f]
  BY Zenon DEF leaseOf, Holding, IInv, TypeOK
<1>2. Leases!LAcquire(h, f)
  BY <1>1, Zenon DEF Leases!LAcquire, leaseOf, Holding
<1> QED BY <1>2, Zenon DEF Leases!LNext

\* Giving a reference back is a release: by the count, the entry goes exactly
\* with the last one.
LEMMA LoseReleases ==
  ASSUME IInv, IInv', NEW h \in Holder, pc[h] \in Holding,
         pc' = [pc EXCEPT ![h] = "idle"], file' = [file EXCEPT ![h] = NoFile],
         executables' \subseteq executables
  PROVE  Leases!LNext
<1>1. leaseOf[h] # NoFile /\ leaseOf' = [leaseOf EXCEPT ![h] = NoFile]
  <2>1. leaseOf[h] # NoFile
    BY ExecAssumption DEF leaseOf, Holding, IInv, TypeOK, CallShape
  <2>2. leaseOf' = [leaseOf EXCEPT ![h] = NoFile]
    BY Zenon DEF leaseOf, Holding, IInv, TypeOK
  <2> QED BY <2>1, <2>2, Zenon
<1>2. executables' = {f \in executables : \E g \in Holder : leaseOf'[g] = f}
  <2>1. KnownLeased'
    BY KnownIffLeased, PTL
  <2> QED BY <2>1, Zenon DEF IInv, TypeOK, KnownLeased
<1>3. Leases!LRelease(h)
  BY <1>1, <1>2, Zenon DEF Leases!LRelease, leaseOf, Holding
<1> QED BY <1>3, Zenon DEF Leases!LNext

LEMMA StayLeases ==
  ASSUME \A k \in Holder : (pc'[k] \in Holding) <=> (pc[k] \in Holding),
         \A k \in Holder : pc[k] \in Holding => file'[k] = file[k],
         UNCHANGED executables
  PROVE  UNCHANGED Leases!leaseVars
BY Zenon DEF Leases!leaseVars, Holding

LEMMA StepLeases ==
  IInv /\ IInv' /\ [Next]_vars => [Leases!LNext]_(Leases!leaseVars)
<1> SUFFICES ASSUME IInv, IInv', [Next]_vars
             PROVE  Leases!LNext \/ UNCHANGED Leases!leaseVars
  BY Zenon
<1>1. ASSUME NEW h \in Holder, NEW f \in FileID, pc[h] \notin Holding,
             (f \in executables /\ IncRef(h, f))
               \/ \E o \in {"ref", "synth"} : InsertWithoutDeltas(h, f, o)
      PROVE  Leases!LNext
  BY <1>1, GainAcquires DEF IncRef, InsertWithoutDeltas, InsertEntry,
                            ReturnHolding, Goto
<1>2. ASSUME NEW h \in Holder, NEW f \in FileID, pc[h] \notin Holding,
             \E o \in {"ref", "synth"} : StartLoading(h, f, o)
      PROVE  UNCHANGED Leases!leaseVars
  BY <1>2, StayLeases DEF StartLoading, Goto, eimVars, IInv, TypeOK, Holding
<1>3. ASSUME NEW h \in Holder, NEW f \in FileID,
             AddOrIncRef(h, f) \/ AddSynthIntervalData(h, f)
      PROVE  Leases!LNext \/ UNCHANGED Leases!leaseVars
  <2>1. pc[h] \notin Holding
    BY <1>3, Zenon DEF AddOrIncRef, AddSynthIntervalData, Holding
  <2>2. CASE AddOrIncRef(h, f) /\ f \notin executables
    BY <2>1, <2>2, StayLeases DEF AddOrIncRef, Goto, eimVars, IInv, TypeOK, Holding
  <2>3. CASE AddOrIncRef(h, f) /\ f \in executables
    BY <2>1, <2>3, <1>1, Zenon DEF AddOrIncRef
  <2>4. CASE AddSynthIntervalData(h, f)
    BY <2>1, <2>4, <1>1, <1>2, Zenon DEF AddSynthIntervalData
  <2> QED BY <1>3, <2>2, <2>3, <2>4, Zenon
<1>12. ASSUME NEW h \in Holder, Relock(h)
       PROVE  Leases!LNext \/ UNCHANGED Leases!leaseVars
  <2>1. file[h] \in FileID /\ pc[h] \notin Holding
    BY <1>12, Zenon DEF Relock, IInv, CallShape, Holding
  <2> QED BY <1>12, <2>1, <1>1, <1>2, Zenon DEF Relock
<1>4. ASSUME NEW h \in Holder, ExtractionFails(h) \/ LoadFails(h) \/ FillFails(h)
                               \/ InsertPageFails(h)
      PROVE  UNCHANGED Leases!leaseVars
  <2>1. /\ pc[h] \in {"extracting", "loading", "filling", "paging"}
        /\ ReturnEmpty(h) /\ UNCHANGED executables
    BY <1>4, Zenon DEF ExtractionFails, LoadFails, FillFails, InsertPageFails, eimVars
  <2> QED BY <2>1, StayLeases DEF ReturnEmpty, Goto, IInv, TypeOK, Holding
<1>5. ASSUME NEW h \in Holder, InsertOuter(h) \/ FillInner(h)
      PROVE  UNCHANGED Leases!leaseVars
  BY <1>5, StayLeases DEF InsertOuter, FillInner, Goto, eimVars, IInv, TypeOK, Holding
<1>6. ASSUME NEW h \in Holder, InsertPage(h) \/ DeletePage(h)
      PROVE  UNCHANGED Leases!leaseVars
  BY <1>6, StayLeases, Zenon DEF InsertPage, DeletePage, eimVars
<1>7. ASSUME NEW h \in Holder, Publish(h) PROVE Leases!LNext
  <2>1. file[h] \in FileID /\ pc[h] \notin Holding
    BY <1>7, Zenon DEF Publish, IInv, CallShape, Holding
  <2> QED BY <1>7, <2>1, GainAcquires, Zenon DEF Publish, InsertEntry, ReturnHolding, Goto
<1>8. ASSUME NEW h \in Holder, DecRef(h) \/ FinishUnload(h) PROVE Leases!LNext
  <2>1. /\ pc[h] \in Holding /\ ReturnEmpty(h) /\ executables' \subseteq executables
    BY <1>8, Zenon DEF DecRef, FinishUnload, Holding
  <2> QED BY <2>1, LoseReleases, Zenon DEF ReturnEmpty, Goto
<1>9. ASSUME NEW h \in Holder, RemoveRef(h)
      PROVE  Leases!LNext \/ UNCHANGED Leases!leaseVars
  <2>1. CASE NumPages[file[h]] = 0
    <3>1. pc[h] \in Holding /\ ReturnEmpty(h) /\ executables' \subseteq executables
      BY <1>9, <2>1 DEF RemoveRef, Holding
    <3> QED BY <3>1, LoseReleases, Zenon DEF ReturnEmpty, Goto
  <2>2. CASE NumPages[file[h]] # 0
    <3>1. /\ pc[h] = "holding" /\ Goto(h, "unpaging")
          /\ UNCHANGED <<file, executables>>
      BY <1>9, <2>2, Zenon DEF RemoveRef, eimVars
    <3> QED BY <3>1, StayLeases, Zenon DEF Goto, IInv, TypeOK, Holding
  <2> QED BY <2>1, <2>2, Zenon
<1>10. CASE UNCHANGED vars
  BY <1>10, Zenon DEF vars, eimVars, callVars, Leases!leaseVars
<1>11. CASE Next
  BY <1>3, <1>4, <1>5, <1>6, <1>7, <1>8, <1>9, <1>11, <1>12, Zenon DEF Next, Load,
     Unload
<1> QED BY <1>10, <1>11, Zenon

\* The manager implements leases: whatever the interleaving and whichever map
\* write fails, an executable is known exactly while it is referenced.
THEOREM ExecInfoImplementsLeases == Spec => ImplementsLeases
<1>1. Init => Leases!LInit
  BY Zenon DEF Init, Leases!LInit
<1> QED BY <1>1, InitIInv, StepIInv, StepLeases, PTL
        DEF Spec, ImplementsLeases, Leases!LSpec
=============================================================================
