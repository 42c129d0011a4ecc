------------------------ MODULE ProcessManagerProofs ------------------------
(***************************************************************************)
(* The properties of ProcessManager, for any processes, areas, files,      *)
(* numbers of prefixes and failures.                                       *)
(***************************************************************************)
EXTENDS ProcessManagerSteps, FiniteSetTheorems

\* The same call that stops at a page it cannot insert: what it did insert is in
\* the prefixes of the instance.
LEMMA SyncFailsKeeps ==
  ASSUME Shape, Safe, \A q \in PID : PagesOK(q), NEW f \in Interp, SynchronizeInstanceFails(f)
  PROVE  Safe' /\ \A q \in PID : PagesOK(q)'
<1>1. /\ cur \in PID /\ f \in Attached(cur) /\ NewAreas(f) \subseteq Area
      /\ UNCHANGED <<known, info, tsd, exitEvents, dummy, cur>>
  BY Zenon DEF SynchronizeInstanceFails, Shape, StageOK, NewAreas, AnonAreas, infoVars
<1>2. PICK done \in SUBSET NewAreas(f), a \in NewAreas(f) :
        \E k \in 1..NumPrefixes[a] : InsertFails(f, done, a, k)
  BY Zenon DEF SynchronizeInstanceFails
<1>3. PICK k \in 1..NumPrefixes[a] : InsertFails(f, done, a, k)
  BY <1>2, Zenon
<1> DEFINE old == inst[cur][f].prefixes
           want == Wanted(done, a, k)
           M == inst[cur][f].mappings \cup done \cup {a}
           X == old \cup want
<1>4. want \subseteq Prefix
  <2>1. PrefixesOf(done) \subseteq Prefix
    BY <1>1, PrefixFacts, Zenon
  <2>2. \A i \in 1..(k - 1) : i \in 1..NumPrefixes[a]
    BY <1>1, PMAssumption
  <2> QED BY <1>1, <2>1, <2>2, PrefixFacts DEF Wanted
<1>5. M \in SUBSET Area /\ X \in SUBSET Prefix
  BY <1>1, <1>4, Zenon DEF Shape, InstOK, Instance
<1>6. /\ inst' = [inst EXCEPT ![cur][f].mappings = M, ![cur][f].prefixes = X]
      /\ pages' = [pages EXCEPT ![cur] = [x \in Prefix |-> IF x \in want \ old THEN JIT ELSE @[x]]]
  BY <1>1, <1>3, Zenon DEF InsertFails, Shape, TypeOK
<1> HIDE DEF want, M, X
<1>7. /\ \A q \in PID : Attached(q)' = Attached(q)
      /\ \A q \in PID : \A g \in Attached(q) : q # cur \/ g # f => inst'[q][g] = inst[q][g]
      /\ inst'[cur][f].tsd = inst[cur][f].tsd /\ inst'[cur][f].prefixes = X
  <2>1. TypeOK /\ InstOK
    BY Zenon DEF Shape
  <2>2. Edited(cur, f, X)
    BY <1>1, <1>5, <1>6, <2>1, InstEdited, Zenon
  <2> QED BY <2>2, Zenon DEF Edited
<1>8. TSDDelivered'
  <2>1. \A q \in PID : \A g \in Attached(q) : inst'[q][g].tsd = inst[q][g].tsd
    BY <1>7, Zenon
  <2>2. tsd \subseteq PID /\ tsd' = tsd /\ TSDDelivered /\ \A q \in PID : Attached(q)' = Attached(q)
    BY <1>1, <1>7, Zenon DEF Safe, Shape, TypeOK
  <2> QED BY <2>1, <2>2 DEF TSDDelivered
<1>9. InstancesAwaitExit'
  BY <1>1, <1>7, Zenon DEF Safe, InstancesAwaitExit
<1>10. /\ \A q \in PID \ {cur} : pages'[q] = pages[q] /\ inst'[q] = inst[q]
       /\ \A x \in Prefix : x \in want \ old => pages'[cur][x] = JIT
       /\ \A x \in Prefix : x \notin want \ old => pages'[cur][x] = pages[cur][x]
  BY <1>1, <1>6, Zenon DEF Shape, TypeOK
<1>11. ASSUME NEW q \in PID \ {cur} PROVE PagesOK(q)'
  BY <1>1, <1>10, QuietKeeps, Zenon DEF Busy
<1>12. ASSUME NEW q \in PID, q = cur PROVE PagesOK(q)'
  <2>1. JITOwned(q)'
    <3> SUFFICES ASSUME NEW x \in Prefix, pages'[q][x] = JIT
                 PROVE  \E g \in Attached(q) : x \in inst'[q][g].prefixes
      BY <1>7, Zenon DEF JITOwned
    <3>1. CASE x \in want \ old
      BY <1>1, <1>7, <1>12, <3>1, Zenon DEF X
    <3>2. CASE x \notin want \ old
      <4>1. PICK g \in Attached(q) : x \in inst[q][g].prefixes
        BY <1>10, <1>12, <3>2 DEF PagesOK, JITOwned
      <4> QED BY <1>7, <1>12, <4>1 DEF X
    <3> QED BY <3>1, <3>2, Zenon
  <2>2. ASSUME Clears PROVE FileOwned(q)'
    BY <1>1, <1>10, <1>12, <2>2, PMAssumption DEF PagesOK, FileOwned
  <2>3. ~Undisturbed
    BY SyncSucceeds, Zenon
  <2> QED BY <2>1, <2>2, <2>3, Zenon DEF PagesOK, Clears, Undisturbed
<1> QED BY <1>8, <1>9, <1>11, <1>12 DEF Safe

\* SymbolizationComplete detaches the instances of the processes it takes from
\* exitEvents, with their pages, and no others.
LEMMA SymbolizeKeeps ==
  ASSUME Shape, Safe, \A q \in PID : PagesOK(q), NEW n \in 1..Len(exitEvents), SymbolizationComplete(n)
  PROVE  Safe' /\ \A q \in PID : PagesOK(q)'
<1> DEFINE Taken(q, x) == \E f \in Attached(q) : x \in inst[q][f].prefixes
<1>1. /\ UNCHANGED <<known, info, tsd, dummy, stage, cur, todo>>
      /\ \A q \in PID : q \in Exited(n) => inst'[q] = << >>
      /\ \A q \in PID : q \notin Exited(n) => inst'[q] = inst[q]
  BY Zenon DEF SymbolizationComplete, infoVars, syncVars
<1>2. /\ \A q \in PID : q \notin Exited(n) => pages'[q] = pages[q]
      /\ \A q \in PID : q \in Exited(n) => \A x \in Prefix : Taken(q, x) => pages'[q][x] = None
      /\ \A q \in PID : q \in Exited(n) => \A x \in Prefix : ~Taken(q, x) => pages'[q][x] = pages[q][x]
  BY Zenon DEF SymbolizationComplete, Shape, TypeOK
<1>3. DOMAIN << >> = {}
  OBVIOUS
<1>4. TSDDelivered'
  BY <1>1, <1>3, Zenon DEF Safe, TSDDelivered, Attached, Shape, TypeOK
<1>5. InstancesAwaitExit'
  <2> SUFFICES ASSUME NEW q \in PID, q \notin known, DOMAIN inst'[q] # {}
               PROVE  \E j \in DOMAIN exitEvents' : exitEvents'[j] = q
    BY <1>1, Zenon DEF InstancesAwaitExit, Attached
  <2>1. q \notin Exited(n) /\ DOMAIN inst[q] # {}
    BY <1>1, <1>3
  <2>2. PICK i \in DOMAIN exitEvents : exitEvents[i] = q
    BY <2>1, Zenon DEF Safe, InstancesAwaitExit, Attached
  <2>3. /\ exitEvents \in Seq(PID) /\ i \in 1..Len(exitEvents)
        /\ exitEvents' = SubSeq(exitEvents, n + 1, Len(exitEvents))
    BY DEF SymbolizationComplete, Shape, TypeOK
  <2>4. i > n
    BY <2>1, <2>2, <2>3 DEF Exited
  <2>5. i - n \in DOMAIN exitEvents' /\ exitEvents'[i - n] = exitEvents[i]
    BY SMTT(30), <2>3, <2>4
  <2> QED BY <2>2, <2>5
<1>6. ASSUME NEW q \in PID, q \notin Exited(n) PROVE PagesOK(q)'
  BY <1>1, <1>2, <1>6, QuietKeeps, Zenon DEF Busy
<1>7. ASSUME NEW q \in PID, q \in Exited(n) PROVE PagesOK(q)'
  <2>1. Attached(q)' = {}
    BY <1>1, <1>3, <1>7, Zenon DEF Attached
  <2>2. \A x \in Prefix : pages'[q][x] # JIT
    BY <1>2, <1>7, PMAssumption DEF PagesOK, JITOwned
  <2>3. ASSUME Clears PROVE FileOwned(q)'
    <3> SUFFICES ASSUME NEW x \in Prefix, pages'[q][x] \in File PROVE info'[q][x[1]] = pages'[q][x]
      BY Zenon DEF FileOwned
    <3>1. pages'[q][x] = pages[q][x]
      BY <1>2, <1>7, PMAssumption, Zenon
    <3> QED BY <1>1, <2>3, <3>1, Zenon DEF PagesOK, FileOwned
  <2>4. ASSUME Undisturbed PROVE Calm(q)'
    <3>1. Calm(q)
      BY <2>4, Zenon DEF PagesOK
    <3>2. ASSUME NEW x \in Prefix, pages'[q][x] \in File, NEW i \in 1..x[2]
          PROVE  pages'[q][<<x[1], i>>] \in File
      <4>1. <<x[1], i>> \in Prefix
        BY PrefixFacts, PMAssumption
      <4>2. pages[q][<<x[1], i>>] \in File
        BY <1>2, <1>7, <3>1, <3>2, PMAssumption DEF Calm
      <4>3. ~Taken(q, <<x[1], i>>)
        BY <3>1, <4>2, PMAssumption DEF Calm
      <4> QED BY <1>2, <1>7, <4>1, <4>2, <4>3
    <3> QED BY <1>1, <2>1, <2>2, <3>1, <3>2, Zenon DEF Calm
  <2> QED BY <2>2, <2>3, <2>4, Zenon DEF PagesOK, JITOwned, Clears, Undisturbed
<1> QED BY <1>4, <1>5, <1>6, <1>7, Zenon DEF Safe

----------------------------------------------------------------------------

\* The inductive invariant, but for the counts.
Inv == Shape /\ Safe /\ \A q \in PID : PagesOK(q)

\* Nothing changes for the instances and the pages, unless an instance may now be
\* told of the mappings.
LEMMA StillInv ==
  ASSUME Safe, \A q \in PID : PagesOK(q), UNCHANGED <<known, info, tsd, instVars, pages, dummy>>,
         \A q \in PID : Busy(q) => Busy(q)' \/ Attached(q) = {}
  PROVE  Safe' /\ \A q \in PID : PagesOK(q)'
<1>1. Safe'
  BY Zenon DEF Safe, TSDDelivered, InstancesAwaitExit, Attached, instVars
<1>2. ASSUME NEW q \in PID PROVE PagesOK(q)'
  BY QuietKeeps, Zenon DEF instVars
<1> QED BY <1>1, <1>2, Zenon

\* Every step keeps the invariant.
LEMMA StepInv == Inv /\ [Next]_vars => Inv'
<1> SUFFICES ASSUME Inv, [Next]_vars PROVE Safe' /\ \A q \in PID : PagesOK(q)'
  BY StepShape, Zenon DEF Inv
<1> USE DEF Inv
<1>1. ASSUME EnvStep \/ UNCHANGED vars PROVE Safe' /\ \A q \in PID : PagesOK(q)'
  <2>1. /\ UNCHANGED <<known, info, tsd, instVars, pages, dummy>>
        /\ UNCHANGED <<stage, cur, todo>>
    BY <1>1, Zenon DEF EnvStep, Spawn, Exit, Remap, vars, infoVars, pageVars, syncVars
  <2> QED BY <2>1, StillInv, Zenon DEF Busy
<1>2. ASSUME NEW p \in PID, SynchronizeExited(p) \/ CleanupPID(p)
      PROVE  Safe' /\ \A q \in PID : PagesOK(q)'
  <2>1. ProcessPIDExit(p) /\ stage \in {"idle", "cleanup"} /\ stage' = stage
    BY <1>2, Zenon DEF SynchronizeExited, CleanupPID, syncVars
  <2> QED BY <2>1, ExitKeeps, Zenon
<1>3. ASSUME (\E p \in PID : SynchronizeProcess(p)) \/ CleanupPIDs \/ Done
      PROVE  Safe' /\ \A q \in PID : PagesOK(q)'
  <2>1. /\ UNCHANGED <<known, info, tsd, instVars, pages, dummy>>
        /\ \A q \in PID : ~Busy(q)
    BY <1>3, Zenon DEF SynchronizeProcess, CleanupPIDs, Done, infoVars, pageVars, Busy
  <2> QED BY <2>1, StillInv, Zenon
<1>4. ASSUME StartInstances PROVE Safe' /\ \A q \in PID : PagesOK(q)'
  <2>1. /\ UNCHANGED <<known, info, tsd, instVars, pages, dummy>>
        /\ \A q \in PID : Busy(q) => Busy(q)' \/ Attached(q) = {}
    BY <1>4, Zenon DEF StartInstances, infoVars, pageVars, Busy
  <2> QED BY <2>1, StillInv, Zenon
<1>5. ASSUME NEW a \in Area, AddOrIncRef(a) PROVE Safe' /\ \A q \in PID : PagesOK(q)'
  <2>1. /\ UNCHANGED <<known, info, tsd, instVars, pages, dummy>>
        /\ UNCHANGED <<stage, cur>> /\ stage = "adding"
    BY <1>5, Zenon DEF AddOrIncRef, infoVars, pageVars
  <2> QED BY <2>1, StillInv DEF Busy
<1>6. ASSUME NewMappingFails PROVE Safe' /\ \A q \in PID : PagesOK(q)'
  <2>1. /\ known \subseteq known' /\ UNCHANGED <<info, tsd, inst, exitEvents, pages, stage, cur>>
        /\ MayFail /\ stage = "adding"
    BY <1>6, Zenon DEF NewMappingFails, instVars, pageVars
  <2>2. Safe'
    BY <2>1, Zenon DEF Safe, TSDDelivered, InstancesAwaitExit, Attached
  <2>3. ASSUME NEW q \in PID PROVE PagesOK(q)'
    BY <2>1, QuietKeeps, Zenon DEF Busy
  <2> QED BY <2>2, <2>3
<1>7. ASSUME ProcessRemovedMappings \/ HandleNewMapping PROVE Safe' /\ \A q \in PID : PagesOK(q)'
  BY <1>7, RemovedKeeps, HandleKeeps, Zenon
<1>8. ASSUME NEW f \in Interp, SynchronizeInstance(f) \/ SynchronizeInstanceFails(f)
      PROVE  Safe' /\ \A q \in PID : PagesOK(q)'
  BY <1>8, SyncKeeps, SyncFailsKeeps
<1>9. ASSUME Symbolize PROVE Safe' /\ \A q \in PID : PagesOK(q)'
  BY <1>9, SymbolizeKeeps, Zenon DEF Symbolize
<1> QED BY SMTT(30), <1>1, <1>2, <1>3, <1>4, <1>5, <1>6, <1>7, <1>8, <1>9 DEF Next, SyncStep

----------------------------------------------------------------------------
\* The sets that are counted are finite

\* There are finitely many prefixes.
LEMMA FinitePrefix == IsFiniteSet(Prefix)
<1>1. ASSUME NEW a \in Area PROVE IsFiniteSet(AreaPrefixes(a))
  <2> DEFINE f == [i \in 1..NumPrefixes[a] |-> <<a, i>>]
  <2>1. IsFiniteSet(1..NumPrefixes[a])
    BY PMAssumption, FS_Interval
  <2>2. f \in Surjection(1..NumPrefixes[a], AreaPrefixes(a))
    BY Zenon DEF Surjection, AreaPrefixes
  <2> QED BY <2>1, <2>2, FS_Surjection
<1> DEFINE P == {AreaPrefixes(a) : a \in Area}
           g == [a \in Area |-> AreaPrefixes(a)]
<1>2. g \in Surjection(Area, P)
  BY Zenon DEF Surjection
<1>3. IsFiniteSet(P)
  BY <1>2, PMAssumption, FS_Surjection, Zenon
<1> QED BY <1>1, <1>3, FS_UNION DEF Prefix, PrefixesOf

\* The pairs of t with the elements of S.
Tagged(t, S) == {<<t, x>> : x \in S}

LEMMA TaggedCard ==
  ASSUME NEW S, IsFiniteSet(S), NEW t
  PROVE  IsFiniteSet(Tagged(t, S)) /\ Cardinality(Tagged(t, S)) = Cardinality(S)
<1> DEFINE f == [x \in S |-> <<t, x>>]
<1>1. f \in Bijection(S, Tagged(t, S))
  BY Zenon DEF Bijection, Injection, Surjection, IsInjective, Tagged
<1>2. ExistsBijection(S, Tagged(t, S))
  BY <1>1, Zenon DEF ExistsBijection
<1> QED BY <1>2, FS_Bijection, Zenon

\* The recorded mappings of f, and the pages of mappings.
Recorded(f) == {x \in PID \X Area : info[x[1]][x[2]] = f}
FilePages == {y \in PID \X Prefix : pages[y[1]][y[2]] \in File}

LEMMA FiniteCounted ==
  /\ \A f \in File : IsFiniteSet(Recorded(f)) /\ Cardinality(Recorded(f)) \in Nat
  /\ IsFiniteSet(FilePages) /\ Cardinality(FilePages) \in Nat
<1>1. IsFiniteSet(PID \X Area) /\ IsFiniteSet(PID \X Prefix)
  BY FinitePrefix, PMAssumption, FS_Product
<1>2. ASSUME NEW f \in File PROVE IsFiniteSet(Recorded(f))
  BY <1>1, FS_Subset, Zenon DEF Recorded
<1>3. IsFiniteSet(FilePages)
  BY <1>1, FS_Subset, Zenon DEF FilePages
<1> QED BY <1>2, <1>3, FS_CardinalityType, Zenon

----------------------------------------------------------------------------
\* References and sizes

\* deletePIDAddress gives back one reference for each mapping that it removes.
LEMMA DeleteReferences ==
  ASSUME Shape, NEW p \in PID, NEW A \in SUBSET Area, NEW X, DeletePIDAddresses(p, A, X),
         refs \in [File -> Int]
  PROVE  /\ refs' \in [File -> Int]
         /\ \A f \in File : /\ Cardinality(Recorded(f)') \in Int
                            /\ refs'[f] - Cardinality(Recorded(f)') = refs[f] - Cardinality(Recorded(f))
<1> DEFINE R(f) == {a \in A : info[p][a] = f}
<1>1. ASSUME NEW f \in File
      PROVE  /\ Cardinality(R(f)) \in Nat /\ refs'[f] = refs[f] - Cardinality(R(f))
             /\ Cardinality(Recorded(f)') = Cardinality(Recorded(f)) - Cardinality(R(f))
             /\ Cardinality(Recorded(f)) \in Nat
  <2>1. IsFiniteSet(R(f)) /\ Cardinality(R(f)) \in Nat
    BY PMAssumption, FS_Subset, FS_CardinalityType
  <2>2. /\ \A q \in PID \ {p} : info'[q] = info[q]
        /\ \A a \in Area : info'[p][a] = IF a \in A THEN None ELSE info[p][a]
    BY DeleteShape
  <2>3. Recorded(f)' = Recorded(f) \ Tagged(p, R(f))
    <3>1. ASSUME NEW x \in PID \X Area
          PROVE  info'[x[1]][x[2]] = f <=> info[x[1]][x[2]] = f /\ x \notin Tagged(p, R(f))
      <4>1. x[1] \in PID /\ x[2] \in Area /\ x = <<x[1], x[2]>>
        OBVIOUS
      <4>2. x \in Tagged(p, R(f)) <=> x[1] = p /\ x[2] \in R(f)
        BY <4>1 DEF Tagged
      <4>3. CASE x[1] # p
        BY <2>2, <4>1, <4>2, <4>3, Zenon
      <4>4. CASE x[1] = p
        BY <2>2, <4>1, <4>2, <4>4, PMAssumption, Zenon
      <4> QED BY <4>3, <4>4, Zenon
    <3> QED BY <3>1, Zenon DEF Recorded
  <2>4. Recorded(f) \cap Tagged(p, R(f)) = Tagged(p, R(f))
    BY DEF Recorded, Tagged
  <2>5. Cardinality(Recorded(f)') = Cardinality(Recorded(f)) - Cardinality(Tagged(p, R(f)))
    BY <2>3, <2>4, FiniteCounted, FS_Difference, ZenonT(40)
  <2>6. refs'[f] = refs[f] - Cardinality(R(f))
    BY Zenon DEF DeletePIDAddresses
  <2> QED BY <2>1, <2>5, <2>6, TaggedCard, FiniteCounted
<1>2. refs' = [f \in File |-> refs[f] - Cardinality(R(f))]
  BY Zenon DEF DeletePIDAddresses
<1> HIDE DEF R
<1>3. refs' \in [File -> Int]
  BY <1>1, <1>2
<1> QED BY <1>1, <1>3

\* The entries that deletePIDAddress reports as deleted are prefixes.
LEMMA GonePrefixes ==
  ASSUME NEW p \in PID, NEW A \in SUBSET Area
  PROVE  /\ Gone(p, A, {}) \subseteq Prefix /\ NumDeleted(p, A) = Cardinality(Gone(p, A, {}))
         /\ IsFiniteSet(Gone(p, A, {})) /\ NumDeleted(p, A) \in Nat
<1>1. Gone(p, A, {}) = UNION {Deleted(p, a) : a \in A}
  BY Zenon DEF Gone
<1>2. ASSUME NEW a \in A PROVE Deleted(p, a) \subseteq Prefix
  <2>1. \A x \in Deleted(p, a) : \E i \in 1..NumPrefixes[a] : x = <<a, i>>
    BY Zenon DEF Deleted
  <2> QED BY <2>1, PrefixFacts
<1>3. Gone(p, A, {}) \subseteq Prefix
  BY <1>1, <1>2, Zenon
<1>4. IsFiniteSet(Gone(p, A, {})) /\ Cardinality(Gone(p, A, {})) \in Nat
  BY <1>3, FinitePrefix, FS_Subset, FS_CardinalityType, Zenon
<1> QED BY <1>1, <1>3, <1>4, Zenon DEF NumDeleted

\* The entries that deletePIDAddress reports as deleted are pages of mappings, when
\* nothing fails.
LEMMA DeleteCounted ==
  ASSUME Shape, NEW p \in PID, PagesOK(p), ~Busy(p), Undisturbed, NEW A \in SUBSET Mapped(p),
         NEW X, \A x \in Prefix : x \in X => pages[p][x] \notin File, DeletePIDAddresses(p, A, X)
  PROVE  /\ NumDeleted(p, A) \in Nat
         /\ Cardinality(FilePages') = Cardinality(FilePages) - NumDeleted(p, A)
<1> DEFINE D == Gone(p, A, {})
<1>1. A \in SUBSET Area
  BY Zenon DEF Mapped
<1>2. D \subseteq Prefix /\ NumDeleted(p, A) = Cardinality(D) /\ IsFiniteSet(D) /\ NumDeleted(p, A) \in Nat
  BY <1>1, GonePrefixes
<1>3. /\ \A x \in Prefix : x \in D => pages[p][x] \in File
      /\ \A x \in Prefix : x \in X \/ x \in D => pages'[p][x] = None
      /\ \A x \in Prefix : x \notin X /\ x \notin D => pages'[p][x] = pages[p][x]
      /\ \A q \in PID \ {p} : pages'[q] = pages[q]
  <2>1. \A x \in Prefix : x \in D => pages[p][x] \in File
    BY DeleteClears
  <2>2. /\ \A x \in Prefix : x \in X \/ x \in D => pages'[p][x] = None
        /\ \A x \in Prefix : x \notin X /\ x \notin D => pages'[p][x] = pages[p][x]
    BY DeleteEffect
  <2>3. \A q \in PID \ {p} : pages'[q] = pages[q]
    BY DeleteShape, Zenon DEF Mapped
  <2> QED BY <2>1, <2>2, <2>3
<1> HIDE DEF D
<1>4. FilePages' = FilePages \ Tagged(p, D)
  <2>1. ASSUME NEW y \in PID \X Prefix
        PROVE  pages'[y[1]][y[2]] \in File <=> pages[y[1]][y[2]] \in File /\ y \notin Tagged(p, D)
    <3>1. y[1] \in PID /\ y[2] \in Prefix /\ y = <<y[1], y[2]>>
      OBVIOUS
    <3>2. y \in Tagged(p, D) <=> y[1] = p /\ y[2] \in D
      BY <3>1 DEF Tagged
    <3>3. CASE y[1] # p
      BY <1>3, <3>1, <3>2, <3>3, Zenon
    <3>4. CASE y[1] = p
      BY <1>3, <3>1, <3>2, <3>4, PMAssumption
    <3> QED BY <3>3, <3>4, Zenon
  <2> QED BY <2>1, Zenon DEF FilePages
<1>5. FilePages \cap Tagged(p, D) = Tagged(p, D)
  BY <1>2, <1>3 DEF FilePages, Tagged
<1>6. Cardinality(FilePages') = Cardinality(FilePages) - Cardinality(Tagged(p, D))
  BY <1>4, <1>5, FiniteCounted, FS_Difference, ZenonT(40)
<1>7. Cardinality(Tagged(p, D)) = Cardinality(D)
  BY <1>2, TaggedCard
<1> QED BY <1>2, <1>6, <1>7

\* MappingsReferenced, with the type of refs.
Counts ==
  /\ refs \in [File -> Int] /\ \A f \in File : refs[f] >= Owned(f)
  /\ Undisturbed => pidPageToMappingInfoSize = Cardinality(dummy) + Cardinality(FilePages)

\* A mapping that is being added is one of this many of f.
Adding(f) == IF area # None /\ snap[area] = f THEN 1 ELSE 0

\* A step that neither records nor removes a mapping, and inserts and deletes no
\* page of one.
LEMMA SameCounts ==
  ASSUME Counts, UNCHANGED <<info, refs, dummy, pidPageToMappingInfoSize>>,
         \A f \in File : Adding(f)' <= Adding(f),
         Undisturbed => FilePages' = FilePages
  PROVE  Counts'
<1>1. \A f \in File : Recorded(f)' = Recorded(f)
  BY Zenon DEF Recorded
<1>2. \A f \in File : /\ Owned(f) = Cardinality(Recorded(f)) + Adding(f)
                      /\ Owned(f)' = Cardinality(Recorded(f)) + Adding(f)'
                      /\ Cardinality(Recorded(f)) \in Nat /\ Adding(f) \in Int /\ Adding(f)' \in Int
  <2>1. \A f \in File : Owned(f) = Cardinality(Recorded(f)) + Adding(f)
    BY Zenon DEF Owned, Recorded, Adding
  <2>2. \A f \in File : Owned(f)' = Cardinality(Recorded(f)') + Adding(f)'
    BY Zenon DEF Owned, Recorded, Adding
  <2>3. \A f \in File : Adding(f) \in Int /\ Adding(f)' \in Int
    BY DEF Adding
  <2> QED BY <1>1, <2>1, <2>2, <2>3, FiniteCounted
<1>3. \A f \in File : refs'[f] >= Owned(f)'
  <2> SUFFICES ASSUME NEW f \in File PROVE refs[f] >= Cardinality(Recorded(f)) + Adding(f)'
    BY <1>2, Zenon
  <2>1. refs[f] \in Int /\ refs[f] >= Cardinality(Recorded(f)) + Adding(f) /\ Adding(f)' <= Adding(f)
    BY <1>2, Zenon DEF Counts
  <2> QED BY <1>2, <2>1
<1>4. Undisturbed' = Undisturbed
  BY Zenon DEF Undisturbed
<1> QED BY <1>3, <1>4, Zenon DEF Counts

\* ProcessPIDExit and processRemovedMappings.
LEMMA DeleteCounts ==
  ASSUME Shape, Counts, NEW p \in PID, PagesOK(p), ~Busy(p), area = None, area' = None,
         NEW A \in SUBSET Mapped(p), NEW X, DeletePIDAddresses(p, A, X),
         Undisturbed => \A x \in Prefix : x \in X => pages[p][x] \notin File,
         NEW n \in Nat, Cardinality(dummy') = Cardinality(dummy) - n,
         Undisturbed => pidPageToMappingInfoSize' = pidPageToMappingInfoSize - NumDeleted(p, A) - n
  PROVE  Counts'
<1>1. A \in SUBSET Area
  BY Zenon DEF Mapped
<1>2. /\ refs' \in [File -> Int]
      /\ \A f \in File : /\ Cardinality(Recorded(f)') \in Int
                         /\ refs'[f] - Cardinality(Recorded(f)') = refs[f] - Cardinality(Recorded(f))
  BY <1>1, DeleteReferences, Zenon DEF Counts
<1>3. ASSUME NEW f \in File PROVE refs'[f] >= Owned(f)'
  <2> DEFINE c == Cardinality(Recorded(f))
             d == Cardinality(Recorded(f)')
  <2>1. c \in Nat /\ d \in Int /\ refs[f] \in Int /\ refs'[f] \in Int /\ refs'[f] - d = refs[f] - c
    BY <1>2, FiniteCounted, Zenon DEF Counts
  <2>2. Owned(f) = c + 0 /\ Owned(f)' = d + 0 /\ refs[f] >= Owned(f)
    BY Zenon DEF Owned, Recorded, Counts
  <2> HIDE DEF c, d
  <2> QED BY <2>1, <2>2
<1>4. ASSUME Undisturbed
      PROVE  pidPageToMappingInfoSize' = Cardinality(dummy') + Cardinality(FilePages')
  <2>1. /\ NumDeleted(p, A) \in Nat
        /\ Cardinality(FilePages') = Cardinality(FilePages) - NumDeleted(p, A)
    BY <1>4, DeleteCounted, Zenon
  <2>2. Cardinality(dummy) \in Nat
    BY PMAssumption, FS_Subset, FS_CardinalityType, Zenon DEF Shape, TypeOK
  <2> QED BY <1>4, <2>1, <2>2, FiniteCounted DEF Counts
<1> QED BY <1>2, <1>3, <1>4 DEF Counts, Undisturbed

\* handleNewMapping: the reference of the mapping that was being added is now that
\* of a recorded one, and the size grows by the inserted pages and the dummy entry.
LEMMA HandleCounts ==
  ASSUME Shape, Counts, \A q \in PID : PagesOK(q), HandleNewMapping
  PROVE  Counts'
<1>1. PICK k \in 0..NumPrefixes[area] : Inserts(cur, area, k) /\ HandleMapping(snap[area], k)
  BY Zenon DEF HandleNewMapping
<1>2. /\ cur \in PID /\ area \in Area /\ snap[area] \in File /\ info[cur][area] = None
      /\ area # None /\ area' = None /\ UNCHANGED refs
  BY PMAssumption, Zenon DEF HandleNewMapping, Shape, TypeOK, StageOK
<1>3. k \in Nat
  BY <1>1
<1>4. ASSUME NEW f \in File PROVE refs'[f] >= Owned(f)'
  <2> DEFINE c == Cardinality(Recorded(f))
             d == Cardinality(Recorded(f)')
  <2>1. info' = [info EXCEPT ![cur][area] = snap[area]]
    BY <1>1, Zenon DEF HandleMapping
  <2>2. c \in Nat /\ refs[f] \in Int /\ refs[f] >= Owned(f)
    BY FiniteCounted, Zenon DEF Counts
  <2>3. CASE snap[area] = f
    <3>1. Recorded(f)' = Recorded(f) \cup {<<cur, area>>} /\ <<cur, area>> \notin Recorded(f)
      BY <1>2, <2>1, <2>3, PMAssumption DEF Recorded, Shape, TypeOK
    <3>2. d = c + 1
      BY <3>1, FiniteCounted, FS_AddElement, Zenon
    <3>3. Owned(f) = c + 1 /\ Owned(f)' = d + 0
      BY <1>2, <2>3, Zenon DEF Owned, Recorded
    <3> HIDE DEF c, d
    <3> QED BY <1>2, <2>2, <3>2, <3>3
  <2>4. CASE snap[area] # f
    <3>1. Recorded(f)' = Recorded(f)
      BY <1>2, <2>1, <2>4, PMAssumption, Zenon DEF Recorded, Shape, TypeOK
    <3>2. Owned(f) = c + 0 /\ Owned(f)' = d + 0
      BY <1>2, <2>4, Zenon DEF Owned, Recorded
    <3>3. d = c
      BY <3>1, Zenon
    <3> HIDE DEF c, d
    <3> QED BY <1>2, <2>2, <3>2, <3>3, Zenon
  <2> QED BY <2>3, <2>4, Zenon
<1>5. ASSUME Undisturbed
      PROVE  pidPageToMappingInfoSize' = Cardinality(dummy') + Cardinality(FilePages')
  <2> DEFINE N == Tagged(area, 1..k)
  <2>1. /\ IsFiniteSet(Tagged(cur, N)) /\ Cardinality(Tagged(cur, N)) = k
    <3>1. IsFiniteSet(1..k) /\ Cardinality(1..k) = k
      BY <1>3, FS_Interval
    <3>2. IsFiniteSet(N) /\ Cardinality(N) = k
      BY <3>1, TaggedCard
    <3> QED BY <3>2, TaggedCard
  <2>2. N \subseteq Prefix /\ \A x \in N : pages[cur][x] = None
    <3>1. \A i \in 1..k : i \in 1..NumPrefixes[area] /\ pages[cur][<<area, i>>] = None
      BY <1>1, <1>2, PMAssumption DEF Inserts, Free
    <3> QED BY <1>2, <3>1, PrefixFacts DEF Tagged
  <2>3. /\ \A q \in PID \ {cur} : pages'[q] = pages[q]
        /\ \A x \in Prefix : x \in N => pages'[cur][x] = snap[area]
        /\ \A x \in Prefix : x \notin N => pages'[cur][x] = pages[cur][x]
    BY <1>1, <1>2, Zenon DEF HandleMapping, Shape, TypeOK, Tagged
  <2> HIDE DEF N
  <2>4. FilePages' = FilePages \cup Tagged(cur, N)
    <3>1. ASSUME NEW y \in PID \X Prefix
          PROVE  pages'[y[1]][y[2]] \in File <=> pages[y[1]][y[2]] \in File \/ y \in Tagged(cur, N)
      <4>1. y[1] \in PID /\ y[2] \in Prefix /\ y = <<y[1], y[2]>>
        OBVIOUS
      <4>2. y \in Tagged(cur, N) <=> y[1] = cur /\ y[2] \in N
        BY <4>1 DEF Tagged
      <4>3. CASE y[1] # cur
        BY <2>3, <4>1, <4>2, <4>3, Zenon
      <4>4. CASE y[1] = cur
        BY <1>2, <2>3, <4>1, <4>2, <4>4, Zenon
      <4> QED BY <4>3, <4>4, Zenon
    <3>2. Tagged(cur, N) \subseteq PID \X Prefix
      BY <1>2, <2>2 DEF Tagged
    <3> QED BY <3>1, <3>2, Zenon DEF FilePages
  <2>5. FilePages \cap Tagged(cur, N) = {}
    BY <2>2, PMAssumption DEF FilePages, Tagged
  <2>6. Cardinality(FilePages') = Cardinality(FilePages) + k
    <3>1. Cardinality(FilePages') = Cardinality(FilePages) + k - Cardinality({})
      BY <2>1, <2>4, <2>5, FiniteCounted, FS_Union
    <3>2. Cardinality({}) = 0
      BY FS_EmptySet, Zenon
    <3> QED BY <1>3, <3>1, <3>2, FiniteCounted
  <2>7. IsFiniteSet(dummy) /\ Cardinality(dummy) \in Nat
    BY PMAssumption, FS_Subset, FS_CardinalityType DEF Shape, TypeOK
  <2>8. cur \in dummy <=> cur \in known
    BY <1>2, <1>5, Zenon DEF PagesOK, Calm
  <2>9. Cardinality(dummy') = Cardinality(dummy) + Cardinality({cur} \ known) /\ Cardinality({cur} \ known) \in Nat
    <3>1. CASE cur \in known
      <4>1. {cur} \ known = {} /\ dummy' = dummy
        BY <1>1, <3>1, Zenon DEF HandleMapping
      <4> QED BY <2>7, <4>1, FS_EmptySet
    <3>2. CASE cur \notin known
      <4>1. {cur} \ known = {cur} /\ dummy' = dummy \cup {cur} /\ cur \notin dummy
        BY <1>1, <2>8, <3>2, Zenon DEF HandleMapping
      <4>2. Cardinality({cur}) = 1
        BY FS_Singleton, Zenon
      <4>3. Cardinality(dummy \cup {cur}) = Cardinality(dummy) + 1
        BY <2>7, <4>1, FS_AddElement, Zenon
      <4> QED BY <4>1, <4>2, <4>3
    <3> QED BY <3>1, <3>2, Zenon
  <2>10. pidPageToMappingInfoSize' = pidPageToMappingInfoSize + k + Cardinality({cur} \ known)
    BY <1>1, Zenon DEF HandleMapping
  <2>11. pidPageToMappingInfoSize = Cardinality(dummy) + Cardinality(FilePages)
    BY <1>5, Zenon DEF Counts
  <2> QED BY <1>3, <2>6, <2>7, <2>9, <2>10, <2>11, FiniteCounted
<1> QED BY <1>2, <1>4, <1>5, Zenon DEF Counts, Undisturbed

\* What the instances and the trace goroutine do, they do to no page of a mapping.
LEMMA InstancePages ==
  ASSUME Inv, Undisturbed,
         (\E f \in Interp : SynchronizeInstance(f)) \/ (\E n \in 1..Len(exitEvents) : SymbolizationComplete(n))
  PROVE  FilePages' = FilePages
<1>1. ASSUME NEW q \in PID PROVE Calm(q)
  BY <1>1, Zenon DEF Inv, PagesOK
<1>2. ASSUME NEW q \in PID, NEW x \in Prefix PROVE pages'[q][x] \in File <=> pages[q][x] \in File
  <2>1. ASSUME NEW f \in Interp, SynchronizeInstance(f) PROVE pages'[q][x] \in File <=> pages[q][x] \in File
    <3> DEFINE new == PrefixesOf(NewAreas(f))
               old == inst[cur][f].prefixes
    <3>1. /\ cur \in PID /\ f \in Attached(cur) /\ \A y \in new \ old : pages[cur][y] = None
          /\ pages' = [pages EXCEPT ![cur] = [y \in Prefix |->
                         IF y \in new \ old THEN JIT
                         ELSE IF y \in old \ new THEN None ELSE @[y]]]
      BY <2>1, Zenon DEF SynchronizeInstance, Inv, Shape, StageOK
    <3>2. \A y \in old : pages[cur][y] = JIT
      BY <1>1, <3>1, Zenon DEF Calm
    <3> HIDE DEF new
    <3> QED BY <3>1, <3>2, PMAssumption, Zenon DEF Inv, Shape, TypeOK
  <2>2. ASSUME NEW n \in 1..Len(exitEvents), SymbolizationComplete(n)
        PROVE  pages'[q][x] \in File <=> pages[q][x] \in File
    <3>1. pages'[q][x] = IF q \in Exited(n) /\ \E f \in Attached(q) : x \in inst[q][f].prefixes
                         THEN None ELSE pages[q][x]
      BY <2>2, Zenon DEF SymbolizationComplete
    <3>2. \A f \in Attached(q) : x \in inst[q][f].prefixes => pages[q][x] = JIT
      BY <1>1, Zenon DEF Calm
    <3> QED BY <3>1, <3>2, PMAssumption, Zenon
  <2> QED BY <2>1, <2>2, Zenon
<1> QED BY <1>2, Zenon DEF FilePages

LEMMA StepCounts == Inv /\ Counts /\ [Next]_vars => Counts'
<1> SUFFICES ASSUME Inv, Counts, [Next]_vars PROVE Counts'
  BY Zenon
<1> USE DEF Inv
<1>1. ASSUME EnvStep \/ UNCHANGED vars \/ CleanupPIDs \/ StartInstances PROVE Counts'
  <2>1. UNCHANGED <<info, refs, dummy, pidPageToMappingInfoSize, area, snap, pages>>
    BY <1>1, Zenon DEF EnvStep, Spawn, Exit, Remap, CleanupPIDs, StartInstances, vars, infoVars,
       pageVars, syncVars
  <2> QED BY <2>1, SameCounts DEF Adding, FilePages
<1>2. ASSUME (\E p \in PID : SynchronizeProcess(p)) \/ Done \/ NewMappingFails PROVE Counts'
  <2>1. UNCHANGED <<info, refs, dummy, pidPageToMappingInfoSize, pages>> /\ area' = None
    BY <1>2, Zenon DEF SynchronizeProcess, Done, NewMappingFails, infoVars, pageVars, Shape, StageOK
  <2> QED BY <2>1, SameCounts DEF Adding, FilePages
<1>3. ASSUME NEW p \in PID, SynchronizeExited(p) \/ CleanupPID(p) PROVE Counts'
  <2>1. /\ ProcessPIDExit(p) /\ stage \in {"idle", "cleanup"}
        /\ area = None /\ area' = None /\ ~Busy(p)
    BY <1>3, Zenon DEF SynchronizeExited, CleanupPID, syncVars, Shape, StageOK, Busy
  <2> DEFINE n == Cardinality(dummy \cap {p})
  <2>2. n \in Nat /\ Cardinality(dummy') = Cardinality(dummy) - n
    <3>1. IsFiniteSet(dummy) /\ IsFiniteSet(dummy \cap {p}) /\ dummy' = dummy \ {p}
      BY <2>1, PMAssumption, FS_Subset, Zenon DEF ProcessPIDExit, Shape, TypeOK
    <3> QED BY <3>1, FS_Difference, FS_CardinalityType, Zenon
  <2>3. /\ DeletePIDAddresses(p, Mapped(p), {})
        /\ pidPageToMappingInfoSize' = pidPageToMappingInfoSize - NumDeleted(p, Mapped(p)) - n
    BY <2>1, Zenon DEF ProcessPIDExit
  <2> HIDE DEF n
  <2> QED BY <2>1, <2>2, <2>3, DeleteCounts
<1>4. ASSUME ProcessRemovedMappings PROVE Counts'
  <2>1. /\ cur \in PID /\ Changed \in SUBSET Mapped(cur) /\ ~Busy(cur)
        /\ area = None /\ area' = None /\ dummy' = dummy
        /\ DeletePIDAddresses(cur, Changed, StalePrefixes)
        /\ pidPageToMappingInfoSize' = pidPageToMappingInfoSize - NumDeleted(cur, Changed)
    BY <1>4, Zenon DEF ProcessRemovedMappings, Shape, StageOK, Changed, Busy
  <2>2. ASSUME Undisturbed, NEW x \in Prefix, x \in StalePrefixes PROVE pages[cur][x] \notin File
    <3>1. PICK f \in Attached(cur) : x \in inst[cur][f].prefixes
      BY <2>2, Zenon DEF StalePrefixes, Stale
    <3>2. Calm(cur)
      BY <2>1, <2>2, Zenon DEF PagesOK
    <3> QED BY <3>1, <3>2, PMAssumption, Zenon DEF Calm
  <2>3. Cardinality(dummy) \in Nat
    BY PMAssumption, FS_Subset, FS_CardinalityType, Zenon DEF Shape, TypeOK
  <2>4. NumDeleted(cur, Changed) \in Nat
    BY <2>1, GonePrefixes, Zenon DEF Mapped
  <2>5. Undisturbed => pidPageToMappingInfoSize' = pidPageToMappingInfoSize - NumDeleted(cur,
  Changed) - 0
    BY <2>1, <2>3, <2>4, FiniteCounted DEF Counts
  <2>6. 0 \in Nat /\ Cardinality(dummy') = Cardinality(dummy) - 0
    BY <2>1, <2>3
  <2> QED BY <2>1, <2>2, <2>5, <2>6, DeleteCounts, Zenon
<1>5. ASSUME NEW a \in Area, AddOrIncRef(a) PROVE Counts'
  <2>1. UNCHANGED <<info, dummy, pidPageToMappingInfoSize, pages, snap>> /\ area = None
    BY <1>5, Zenon DEF AddOrIncRef, infoVars, pageVars
  <2>2. CASE UNCHANGED <<area, refs>>
    BY <2>1, <2>2, SameCounts DEF Adding, FilePages
  <2>3. CASE area' = a /\ refs' = [refs EXCEPT ![snap[a]] = @ + 1]
    <3>1. refs' \in [File -> Int]
      <4>1. snap[a] \in File /\ refs \in [File -> Int]
        BY <1>5, Zenon DEF AddOrIncRef, Shape, StageOK, Counts
      <4> QED BY <2>3, <4>1
    <3>2. ASSUME NEW f \in File PROVE refs'[f] >= Owned(f)'
      <4> DEFINE c == Cardinality(Recorded(f))
      <4>1. Owned(f) = c + 0 /\ Owned(f)' = c + (IF snap[a] = f THEN 1 ELSE 0)
        BY <2>1, <2>3, PMAssumption, Zenon DEF Owned, Recorded
      <4>2. refs'[f] = refs[f] + (IF snap[a] = f THEN 1 ELSE 0)
        BY <2>3 DEF Counts
      <4>3. c \in Nat /\ refs[f] \in Int /\ refs[f] >= Owned(f)
        BY FiniteCounted, Zenon DEF Counts
      <4> HIDE DEF c
      <4> QED BY <4>1, <4>2, <4>3
    <3>3. Undisturbed' = Undisturbed /\ FilePages' = FilePages
      BY <2>1, Zenon DEF Undisturbed, FilePages
    <3> QED BY <2>1, <3>1, <3>2, <3>3, Zenon DEF Counts
  <2> QED BY <1>5, <2>2, <2>3, Zenon DEF AddOrIncRef
<1>6. ASSUME HandleNewMapping PROVE Counts'
  BY <1>6, HandleCounts, Zenon
<1>7. ASSUME NEW f \in Interp, SynchronizeInstance(f) \/ SynchronizeInstanceFails(f) PROVE Counts'
  <2>1. UNCHANGED <<info, refs, dummy, pidPageToMappingInfoSize, area, snap>>
    BY <1>7, Zenon DEF SynchronizeInstance, SynchronizeInstanceFails, infoVars
  <2>2. Undisturbed => FilePages' = FilePages
    BY <1>7, InstancePages, SyncSucceeds, Zenon
  <2> QED BY <2>1, <2>2, SameCounts DEF Adding
<1>8. ASSUME Symbolize PROVE Counts'
  <2>1. UNCHANGED <<info, refs, dummy, pidPageToMappingInfoSize, area, snap>>
    BY <1>8, Zenon DEF Symbolize, SymbolizationComplete, infoVars, syncVars
  <2>2. Undisturbed => FilePages' = FilePages
    BY <1>8, InstancePages, Zenon DEF Symbolize
  <2> QED BY <2>1, <2>2, SameCounts DEF Adding
<1> QED BY <1>1, <1>2, <1>3, <1>4, <1>5, <1>6, <1>7, <1>8 DEF Next, SyncStep

----------------------------------------------------------------------------
\* The theorems

LEMMA InvariantHolds == Spec => [](Inv /\ Counts)
<1>1. ASSUME Init PROVE Safe /\ \A q \in PID : PagesOK(q)
  <2>1. \A q \in PID : Attached(q) = {} /\ \A x \in Prefix : pages[q][x] = None
    BY <1>1 DEF Init, Attached
  <2> QED BY <1>1, <2>1, PMAssumption, Zenon DEF Init, Safe, TSDDelivered, InstancesAwaitExit,
             PagesOK,
                                          JITOwned, FileOwned, Calm
<1>2. ASSUME Init PROVE Counts
  <2>1. \A f \in File : Recorded(f) = {}
    BY <1>1, <1>2, PMAssumption, Zenon DEF Init, Recorded, NoMaps
  <2>2. FilePages = {} /\ dummy = {} /\ area = None /\ refs = [f \in File |-> 0]
        /\ pidPageToMappingInfoSize = 0
    BY <1>2, PMAssumption, Zenon DEF Init, FilePages
  <2>3. \A f \in File : Owned(f) = Cardinality(Recorded(f)) + 0
    BY <2>2, Zenon DEF Owned, Recorded
  <2> QED BY <2>1, <2>2, <2>3, FS_EmptySet DEF Counts
<1>3. Init => Inv /\ Counts
  BY <1>1, <1>2, InitShape, Zenon DEF Inv
<1> QED BY <1>3, StepInv, StepCounts, PTL DEF Spec

\* Whether the interpreter or the library with the TSD information comes first, and
\* whatever fails in between, assignTSDInfo and handleNewInterpreter leave no
\* instance of a process without the TSD information that the process has.
THEOREM TSDIsDelivered == Spec => []TSDDelivered
<1>1. Inv => TSDDelivered
  BY Zenon DEF Inv, Safe
<1> QED BY <1>1, InvariantHolds, PTL

\* ProcessPIDExit notes the exit of every process that leaves instances behind, and
\* SymbolizationComplete forgets an exit only with the instances: none is lost
\* between the two goroutines.
THEOREM InstancesAwait == Spec => []InstancesAwaitExit
<1>1. Inv => InstancesAwaitExit
  BY Zenon DEF Inv, Safe
<1> QED BY <1>1, InvariantHolds, PTL

\* No entry of pid_page_to_mapping_info is left behind that neither deletePIDAddress
\* nor Detach will find: for any failures of insertions, of attaching and of reading
\* files when the entries are deleted one by one, and for batches when nothing fails.
THEOREM PagesAreOwned ==
  ASSUME ~BatchDelete \/ Undisturbed
  PROVE  Spec => []PagesOwned
<1>1. Inv => PagesOwned
  BY Zenon DEF Inv, PagesOK, JITOwned, FileOwned, Clears, PagesOwned
<1> QED BY <1>1, InvariantHolds, PTL

\* However mappings are added, changed, removed and cleaned up, and whatever fails,
\* no reference on an executable is given back that a recorded mapping needs; and when
\* nothing fails, pidPageToMappingInfoSize is the number of entries inserted.
THEOREM MappingsAreReferenced == Spec => []MappingsReferenced
<1>1. Counts => MappingsReferenced
  BY Zenon DEF Counts, MappingsReferenced, FilePages
<1> QED BY <1>1, InvariantHolds, PTL
=============================================================================
