------------------------ MODULE ProcessManagerSteps -------------------------
(***************************************************************************)
(* Proofs about ProcessManager for any processes, areas, files, numbers of *)
(* prefixes and failures: what its stages say of the state, and the steps  *)
(* that keep the invariants of the instances and of their pages.  The      *)
(* proofs go on in ProcessManagerProofs.                                   *)
(***************************************************************************)
EXTENDS ProcessManager, TLAPS

Content == File \cup {None, Anon}
Instance == [mappings : SUBSET Area, prefixes : SUBSET Prefix, tsd : BOOLEAN]

\* What the variables hold, and what the stage of the goroutine says of its
\* local variables: a mapping that is still to be added is one of a file, none is
\* recorded in its area, and what is recorded elsewhere is what was read.
TypeOK ==
  /\ maps \in [PID -> [Area -> Content]] /\ alive \subseteq PID
  /\ known \subseteq PID /\ tsd \subseteq PID
  /\ info \in [PID -> [Area -> File \cup {None}]]
  /\ DOMAIN inst = PID
  /\ exitEvents \in Seq(PID)
  /\ pages \in [PID -> [Prefix -> File \cup {None, JIT}]]
  /\ dummy \subseteq PID
  /\ cur \in PID \cup {None} /\ snap \in [Area -> Content] /\ area \in Area \cup {None}

InstOK == \A p \in PID : /\ Attached(p) \subseteq Interp
                         /\ \A f \in Attached(p) : inst[p][f] \in Instance

StageOK ==
  /\ stage \in {"idle", "cleanup", "removing", "adding", "interpreters"}
  /\ stage \in {"removing", "adding", "interpreters"} => cur \in PID
  /\ stage = "cleanup" => todo \subseteq PID
  /\ stage = "interpreters" => todo \subseteq Attached(cur)
  /\ area # None => stage = "adding"
  /\ stage = "adding" =>
       area \notin todo /\ \A a \in todo \cup ({area} \ {None}) :
         a \in Area /\ snap[a] \in File /\ info[cur][a] = None
  /\ stage \in {"adding", "interpreters"} => \A a \in Area : info[cur][a] \in {None, snap[a]}

Shape == TypeOK /\ InstOK /\ StageOK

\* The prefixes of a set of areas.
LEMMA PrefixFacts ==
  /\ \A x \in Prefix : /\ x[1] \in Area /\ x[2] \in 1..NumPrefixes[x[1]]
                       /\ x = <<x[1], x[2]>>
  /\ \A a \in Area : \A i \in 1..NumPrefixes[a] : <<a, i>> \in Prefix
  /\ \A S \in SUBSET Area : PrefixesOf(S) = {x \in Prefix : x[1] \in S}
BY DEF Prefix, PrefixesOf, AreaPrefixes

\* Noting an exit keeps the other processes in exitEvents.
LEMMA NotedFacts ==
  ASSUME exitEvents \in Seq(PID), NEW p \in PID
  PROVE  /\ ExitNoted(p) \in Seq(PID)
         /\ \E i \in DOMAIN ExitNoted(p) : ExitNoted(p)[i] = p
         /\ \A i \in DOMAIN exitEvents :
              \E j \in DOMAIN ExitNoted(p) : ExitNoted(p)[j] = exitEvents[i]
<1>1. CASE ~\E i \in DOMAIN exitEvents : exitEvents[i] = p
  <2>1. ExitNoted(p) = Append(exitEvents, p)
    BY <1>1, Zenon DEF ExitNoted
  <2> QED BY <2>1
<1>2. CASE \E i \in DOMAIN exitEvents : exitEvents[i] = p
  <2> DEFINE s == exitEvents
             n == CHOOSE i \in DOMAIN s : s[i] = p
             r == [i \in DOMAIN s |-> IF i = Len(s) THEN p ELSE s[IF i < n THEN i ELSE i + 1]]
  <2>1. n \in 1..Len(s) /\ s[n] = p /\ Len(s) \in Nat /\ DOMAIN s = 1..Len(s)
    BY <1>2
  <2>2. ExitNoted(p) = r
    BY <1>2, Zenon DEF ExitNoted
  <2> HIDE DEF n
  <2>3. /\ DOMAIN r = 1..Len(s) /\ Len(s) \in 1..Len(s) /\ r[Len(s)] = p
        /\ \A i \in 1..Len(s) : i # Len(s) /\ i < n => r[i] = s[i]
        /\ \A i \in 1..Len(s) : i # Len(s) /\ ~(i < n) => r[i] = s[i + 1]
    <3>1. DOMAIN r = 1..Len(s) /\ Len(s) \in 1..Len(s)
      BY <2>1
    <3>2. r[Len(s)] = p
      BY <2>1, <3>1, Zenon
    <3>3. \A i \in 1..Len(s) : i # Len(s) /\ i < n => r[i] = s[i]
      BY <2>1, <3>1, Zenon
    <3>4. \A i \in 1..Len(s) : i # Len(s) /\ ~(i < n) => r[i] = s[i + 1]
      BY <2>1, <3>1, Zenon
    <3> QED BY <3>1, <3>2, <3>3, <3>4, Zenon
  <2>4. r \in Seq(PID)
    BY <2>1
  <2> HIDE DEF r
  <2>5. ASSUME NEW i \in 1..Len(s) PROVE \E j \in 1..Len(s) : r[j] = s[i]
    <3>1. CASE i < n
      <4>1. i \in Int /\ n \in Int /\ Len(s) \in Int /\ n <= Len(s)
        BY <2>1
      <4>2. i # Len(s)
        BY <3>1, <4>1
      <4> QED BY <2>3, <3>1, <4>2, Zenon
    <3>2. CASE i = n
      BY <2>1, <2>3, <3>2, Zenon
    <3>3. CASE i > n
      <4>1. i - 1 \in 1..Len(s) /\ i - 1 # Len(s) /\ ~(i - 1 < n) /\ (i - 1) + 1 = i
        BY <2>1, <3>3
      <4> QED BY <2>3, <4>1, Zenon
    <3> QED BY <2>1, <3>1, <3>2, <3>3
  <2> QED BY <2>1, <2>2, <2>3, <2>4, <2>5, Zenon
<1> QED BY <1>1, <1>2, Zenon

LEMMA InitShape == Init => Shape
<1> SUFFICES ASSUME Init PROVE Shape
  BY Zenon
<1>1. NoMaps \in [Area -> Content] /\ NoMaps \in [Area -> File \cup {None}]
  BY Zenon DEF NoMaps, Content
<1>2. TypeOK
  BY <1>1 DEF Init, TypeOK
<1>3. InstOK
  BY DEF Init, InstOK, Attached
<1>4. StageOK
  BY PMAssumption, Zenon DEF Init, StageOK
<1> QED BY <1>2, <1>3, <1>4, Zenon DEF Shape

----------------------------------------------------------------------------
\* What the variables hold, step by step

\* The prefixes that deletePIDAddress deletes for the areas A, and X.
Gone(p, A, X) == X \cup UNION {Deleted(p, a) : a \in A}

\* The record of deletePIDAddress keeps its type, and only that of p changes.
LEMMA DeleteShape ==
  ASSUME Shape, NEW p \in PID, NEW A \in SUBSET Area, NEW X, DeletePIDAddresses(p, A, X)
  PROVE  /\ pages' \in [PID -> [Prefix -> File \cup {None, JIT}]]
         /\ info' \in [PID -> [Area -> File \cup {None}]]
         /\ \A q \in PID \ {p} : info'[q] = info[q] /\ pages'[q] = pages[q]
         /\ \A a \in Area : info'[p][a] = IF a \in A THEN None ELSE info[p][a]
         /\ \A x \in Prefix : pages'[p][x] = IF x \in Gone(p, A, X) THEN None ELSE pages[p][x]
<1>1. info' \in [PID -> [Area -> File \cup {None}]]
  BY DEF Shape, TypeOK, DeletePIDAddresses
<1>2. pages' \in [PID -> [Prefix -> File \cup {None, JIT}]]
  BY DEF Shape, TypeOK, DeletePIDAddresses, Without
<1>3. \A x \in Prefix : pages'[p][x] = IF x \in Gone(p, A, X) THEN None ELSE pages[p][x]
  BY Zenon DEF Shape, TypeOK, DeletePIDAddresses, Without, Gone
<1>4. /\ \A q \in PID \ {p} : info'[q] = info[q] /\ pages'[q] = pages[q]
      /\ \A a \in Area : info'[p][a] = IF a \in A THEN None ELSE info[p][a]
  BY Zenon DEF Shape, TypeOK, DeletePIDAddresses, Without
<1> QED BY <1>1, <1>2, <1>3, <1>4, Zenon

\* The instances stay what they are when inst does not change.
LEMMA SameInst ==
  ASSUME InstOK, UNCHANGED inst
  PROVE  InstOK'
BY Zenon DEF InstOK, Attached

LEMMA ExitShape ==
  ASSUME Shape, NEW p \in PID, ProcessPIDExit(p), UNCHANGED <<osVars, cur, snap, area>>
  PROVE  TypeOK'
<1>1. Mapped(p) \in SUBSET Area
  BY Zenon DEF Mapped
<1>2. DeletePIDAddresses(p, Mapped(p), {})
  BY Zenon DEF ProcessPIDExit
<1>3. exitEvents' \in Seq(PID)
  BY NotedFacts, ZenonT(40) DEF Shape, TypeOK, ProcessPIDExit
<1> QED BY <1>1, <1>2, <1>3, DeleteShape, Zenon DEF Shape, TypeOK, ProcessPIDExit, osVars

\* The instances after handleNewInterpreter.
LEMMA HandledShape ==
  ASSUME InstOK, NEW p \in PID, NEW f \in File, NEW ok
  PROVE  LET new == HandleNewInterpreter(p, f, ok)
         IN  /\ Attached(p) \subseteq DOMAIN new /\ DOMAIN new \subseteq Interp
             /\ \A g \in DOMAIN new : new[g] \in Instance
             /\ \A g \in Attached(p) : new[g].tsd = (inst[p][g].tsd \/ (f \in TSDFile /\ p \notin tsd))
             /\ \A g \in Attached(p) : new[g].prefixes = inst[p][g].prefixes
             /\ \A g \in DOMAIN new \ Attached(p) : new[g].tsd = (p \in tsd \/ f \in TSDFile)
             /\ \A g \in DOMAIN new \ Attached(p) : new[g].prefixes = {}
BY ZenonT(40) DEF InstOK, HandleNewInterpreter, WithTSD, Instance

\* One instance changes, and it keeps its TSD information.
Edited(p, f, X) ==
  /\ \A q \in PID : Attached(q)' = Attached(q)
  /\ \A q \in PID : \A g \in Attached(q) : q # p \/ g # f => inst'[q][g] = inst[q][g]
  /\ inst'[p][f].tsd = inst[p][f].tsd /\ inst'[p][f].prefixes = X

\* The instances after one of them has new mappings and prefixes.
LEMMA InstEdited ==
  ASSUME TypeOK, InstOK, NEW p \in PID, NEW f \in Attached(p),
         NEW M \in SUBSET Area, NEW X \in SUBSET Prefix,
         inst' = [inst EXCEPT ![p][f].mappings = M, ![p][f].prefixes = X]
  PROVE  InstOK' /\ DOMAIN inst' = PID /\ Edited(p, f, X)
<1>1. DOMAIN inst' = PID /\ \A q \in PID : DOMAIN inst'[q] = DOMAIN inst[q]
  BY Zenon DEF TypeOK, Attached
<1>2. \A q \in PID : \A g \in Attached(q) : q # p \/ g # f => inst'[q][g] = inst[q][g]
  BY Zenon DEF TypeOK, Attached
<1>3. inst'[p][f] = [inst[p][f] EXCEPT !.mappings = M, !.prefixes = X] /\ inst[p][f] \in Instance
  BY Zenon DEF TypeOK, Attached, InstOK
<1>4. /\ inst'[p][f] \in Instance
      /\ inst'[p][f].tsd = inst[p][f].tsd /\ inst'[p][f].prefixes = X
  <2> DEFINE i == inst[p][f]
  <2>1. i = [mappings |-> i.mappings, prefixes |-> i.prefixes, tsd |-> i.tsd] /\ i.tsd \in BOOLEAN
    BY <1>3, Zenon DEF Instance
  <2>2. inst'[p][f] = [mappings |-> M, prefixes |-> X, tsd |-> i.tsd]
    BY <1>3, <2>1, Zenon
  <2>3. i.tsd \in BOOLEAN
    BY <1>3, Zenon DEF Instance
  <2> HIDE DEF i
  <2>4. [mappings |-> M, prefixes |-> X, tsd |-> i.tsd] \in Instance
    BY <2>3, Zenon DEF Instance
  <2> QED BY <2>2, <2>4 DEF i
<1>5. \A q \in PID : Attached(q)' = Attached(q)
  BY <1>1, Zenon DEF Attached
<1>6. InstOK'
  <2>1. ASSUME NEW q \in PID, NEW g \in Attached(q) PROVE inst'[q][g] \in Instance
    <3>1. CASE q = p /\ g = f
      BY <1>4, <3>1, Zenon
    <3>2. CASE q # p \/ g # f
      BY <1>2, <3>2, Zenon DEF InstOK
    <3> QED BY <3>1, <3>2, Zenon
  <2>2. \A q \in PID : Attached(q)' \subseteq Interp
    BY <1>5, Zenon DEF InstOK
  <2> QED BY <1>5, <2>1, <2>2, Zenon DEF InstOK
<1> QED BY <1>1, <1>2, <1>4, <1>5, <1>6, Zenon DEF Edited

\* Every step keeps the shape of the state.
LEMMA StepShape == Shape /\ [Next]_vars => Shape'
<1> SUFFICES ASSUME Shape, [Next]_vars PROVE TypeOK' /\ InstOK' /\ StageOK'
  BY Zenon DEF Shape
<1> USE DEF Shape, osVars, infoVars, instVars, pageVars, syncVars
<1>1. ASSUME NEW p \in PID, Spawn(p) PROVE TypeOK' /\ InstOK' /\ StageOK'
  BY <1>1, SameInst, Zenon DEF Spawn, TypeOK, StageOK, Attached
<1>2. ASSUME NEW p \in PID, Exit(p) PROVE TypeOK' /\ InstOK' /\ StageOK'
  <2>1. NoMaps \in [Area -> Content]
    BY Zenon DEF NoMaps, Content
  <2> QED BY <1>2, <2>1, SameInst, Zenon DEF Exit, TypeOK, StageOK, Attached
<1>3. ASSUME NEW p \in PID, NEW a \in Area, NEW c \in File \cup {None, Anon}, Remap(p, a, c)
      PROVE TypeOK' /\ InstOK' /\ StageOK'
  BY <1>3, SameInst, Zenon DEF Remap, TypeOK, StageOK, Attached, Content
<1>4. ASSUME NEW p \in PID, SynchronizeExited(p) PROVE TypeOK' /\ InstOK' /\ StageOK'
  <2>1. ProcessPIDExit(p) /\ UNCHANGED <<osVars, cur, snap, area>> /\ UNCHANGED inst
    BY <1>4, Zenon DEF SynchronizeExited, ProcessPIDExit
  <2>2. StageOK'
    BY <1>4, Zenon DEF SynchronizeExited, StageOK
  <2> QED BY <2>1, <2>2, ExitShape, SameInst, Zenon
<1>5. ASSUME NEW p \in PID, SynchronizeProcess(p) PROVE TypeOK' /\ InstOK' /\ StageOK'
  BY <1>5, SameInst, Zenon DEF SynchronizeProcess, TypeOK, StageOK, Attached
<1>6. ASSUME CleanupPIDs PROVE TypeOK' /\ InstOK' /\ StageOK'
  BY <1>6, SameInst, Zenon DEF CleanupPIDs, TypeOK, StageOK, Attached
<1>7. ASSUME ProcessRemovedMappings PROVE TypeOK' /\ InstOK' /\ StageOK'
  <2>1. cur \in PID /\ Changed \in SUBSET Area /\ DeletePIDAddresses(cur, Changed, StalePrefixes)
    BY <1>7, Zenon DEF ProcessRemovedMappings, StageOK, Changed, Mapped
  <2>2. TypeOK'
    <3>2. DOMAIN inst' = PID
      BY <1>7, Zenon DEF ProcessRemovedMappings, TypeOK
    <3>3. /\ pages' \in [PID -> [Prefix -> File \cup {None, JIT}]]
          /\ info' \in [PID -> [Area -> File \cup {None}]]
      BY <2>1, DeleteShape, Zenon
    <3> QED BY <1>7, <3>2, <3>3, Zenon DEF ProcessRemovedMappings, TypeOK
  <2>3. InstOK'
    BY <1>7, <2>1, Zenon DEF ProcessRemovedMappings, TypeOK, InstOK, Attached
  <2>4. StageOK'
    <3>1. \A a \in Area : info'[cur][a] = IF a \in Changed THEN None ELSE info[cur][a]
      BY <2>1, DeleteShape, Zenon
    <3>2. \A a \in todo' : a \in Area /\ snap[a] \in File /\ info'[cur][a] = None
      BY <1>7, <3>1, Zenon DEF ProcessRemovedMappings, TypeOK, Changed, Mapped
    <3>3. stage' = "adding" /\ cur' \in PID /\ UNCHANGED <<cur, snap, area>> /\ area = None
      BY <1>7, <2>1, Zenon DEF ProcessRemovedMappings, StageOK
    <3>4. \A a \in Area : info'[cur][a] \in {None, snap[a]}
      BY <3>1, Zenon DEF Changed, Mapped
    <3> QED BY <3>2, <3>3, <3>4, PMAssumption, Zenon DEF StageOK
  <2> QED BY <2>2, <2>3, <2>4, Zenon
<1>8. ASSUME NEW a \in Area, AddOrIncRef(a) PROVE TypeOK' /\ InstOK' /\ StageOK'
  BY <1>8, SameInst, PMAssumption DEF AddOrIncRef, TypeOK, StageOK, Attached
<1>9. ASSUME NewMappingFails PROVE TypeOK' /\ InstOK' /\ StageOK'
  BY <1>9, SameInst, PMAssumption DEF NewMappingFails, TypeOK, StageOK, Attached
<1>10. ASSUME HandleNewMapping PROVE TypeOK' /\ InstOK' /\ StageOK'
  <2>1. PICK k \in 0..NumPrefixes[area] : Inserts(cur, area, k) /\ HandleMapping(snap[area], k)
    BY <1>10, Zenon DEF HandleNewMapping
  <2>2. cur \in PID /\ area \in Area /\ snap[area] \in File
    BY <1>10, Zenon DEF HandleNewMapping, TypeOK, StageOK
  <2>3. TypeOK'
    <3>2. DOMAIN inst' = PID
      BY <2>1, Zenon DEF TypeOK, HandleMapping
    <3>3. /\ pages' \in [PID -> [Prefix -> File \cup {None, JIT}]]
          /\ info' \in [PID -> [Area -> File \cup {None}]]
      BY <2>1, <2>2, Zenon DEF TypeOK, HandleMapping
    <3> QED BY <1>10, <2>1, <2>2, <3>2, <3>3, ZenonT(60) DEF HandleNewMapping, TypeOK, HandleMapping
  <2>4. InstOK'
    <3>1. CASE UNCHANGED inst
      BY <3>1, SameInst, Zenon
    <3>2. ASSUME NEW ok, inst' = [inst EXCEPT ![cur] = HandleNewInterpreter(cur, snap[area], ok)]
          PROVE  InstOK'
      BY <2>2, <3>2, HandledShape DEF TypeOK, InstOK, Attached
    <3> QED BY <2>1, <3>1, <3>2, Zenon DEF HandleMapping
  <2>5. StageOK'
    BY <1>10, <2>1, <2>2, PMAssumption DEF HandleNewMapping, TypeOK, StageOK, HandleMapping
  <2> QED BY <2>3, <2>4, <2>5, Zenon
<1>11. ASSUME StartInstances PROVE TypeOK' /\ InstOK' /\ StageOK'
  BY <1>11, SameInst, Zenon DEF StartInstances, TypeOK, StageOK, Attached
<1>12. ASSUME NEW f \in Interp, SynchronizeInstance(f) PROVE TypeOK' /\ InstOK' /\ StageOK'
  <2>1. cur \in PID /\ f \in Attached(cur) /\ NewAreas(f) \subseteq Area
    BY <1>12, Zenon DEF SynchronizeInstance, StageOK, NewAreas, AnonAreas
  <2>2. DOMAIN inst' = PID /\ pages' \in [PID -> [Prefix -> File \cup {None, JIT}]]
    BY <1>12, <2>1, Zenon DEF SynchronizeInstance, TypeOK
  <2>3. InstOK'
    <3>1. PrefixesOf(NewAreas(f)) \subseteq Prefix /\ AnonAreas \subseteq Area
      BY <2>1, PrefixFacts, Zenon DEF AnonAreas
    <3>2. inst' = [inst EXCEPT ![cur][f].mappings = AnonAreas,
                               ![cur][f].prefixes = PrefixesOf(NewAreas(f))]
      BY <1>12, Zenon DEF SynchronizeInstance
    <3> QED BY <2>1, <3>1, <3>2, InstEdited, Zenon
  <2>4. StageOK'
    BY <1>12, <2>1, Zenon DEF SynchronizeInstance, StageOK, TypeOK, Attached
  <2> QED BY <1>12, <2>2, <2>3, <2>4, Zenon DEF SynchronizeInstance, TypeOK
<1>13. ASSUME NEW f \in Interp, SynchronizeInstanceFails(f) PROVE TypeOK' /\ InstOK' /\ StageOK'
  <2>1. cur \in PID /\ f \in Attached(cur) /\ NewAreas(f) \subseteq Area
    BY <1>13, Zenon DEF SynchronizeInstanceFails, StageOK, NewAreas, AnonAreas
  <2>2. PICK done \in SUBSET NewAreas(f), a \in NewAreas(f) :
          \E k \in 1..NumPrefixes[a] : InsertFails(f, done, a, k)
    BY <1>13, Zenon DEF SynchronizeInstanceFails
  <2>3. PICK k \in 1..NumPrefixes[a] : InsertFails(f, done, a, k)
    BY <2>2, Zenon
  <2>4. Wanted(done, a, k) \subseteq Prefix
    <3>1. PrefixesOf(done) \subseteq Prefix
      BY <2>1, PrefixFacts, Zenon
    <3>2. \A i \in 1..(k - 1) : i \in 1..NumPrefixes[a]
      BY <2>1, PMAssumption
    <3> QED BY <2>1, <3>1, <3>2, PrefixFacts DEF Wanted
  <2>5. pages' \in [PID -> [Prefix -> File \cup {None, JIT}]]
    BY <2>1, <2>3 DEF InsertFails, TypeOK
  <2>6. InstOK' /\ DOMAIN inst' = PID /\ \A q \in PID : Attached(q)' = Attached(q)
    <3> DEFINE M == inst[cur][f].mappings \cup done \cup {a}
               X == inst[cur][f].prefixes \cup Wanted(done, a, k)
    <3>1. M \in SUBSET Area /\ X \in SUBSET Prefix
      BY <2>1, <2>4, Zenon DEF InstOK, Instance
    <3>2. inst' = [inst EXCEPT ![cur][f].mappings = M, ![cur][f].prefixes = X]
      BY <2>1, <2>3, Zenon DEF InsertFails, TypeOK
    <3> HIDE DEF M, X
    <3> QED BY <2>1, <3>1, <3>2, InstEdited, Zenon DEF Edited
  <2>7. StageOK'
    BY <1>13, <2>1, <2>6 DEF SynchronizeInstanceFails, StageOK, TypeOK
  <2> QED BY <1>13, <2>5, <2>6, <2>7, Zenon DEF SynchronizeInstanceFails, TypeOK
<1>14. ASSUME Done PROVE TypeOK' /\ InstOK' /\ StageOK'
  <2>1. NoMaps \in [Area -> Content]
    BY Zenon DEF NoMaps, Content
  <2> QED BY <1>14, <2>1, SameInst, Zenon DEF Done, TypeOK, StageOK, Attached
<1>15. ASSUME NEW p \in PID, CleanupPID(p) PROVE TypeOK' /\ InstOK' /\ StageOK'
  <2>1. ProcessPIDExit(p) /\ UNCHANGED <<osVars, cur, snap, area>> /\ UNCHANGED inst
    BY <1>15, Zenon DEF CleanupPID, ProcessPIDExit
  <2>2. StageOK'
    BY <1>15, Zenon DEF CleanupPID, StageOK
  <2> QED BY <2>1, <2>2, ExitShape, SameInst, Zenon
<1>16. ASSUME NEW n \in 1..Len(exitEvents), SymbolizationComplete(n)
       PROVE TypeOK' /\ InstOK' /\ StageOK'
  <2>1. exitEvents' \in Seq(PID)
    BY <1>16 DEF SymbolizationComplete, TypeOK
  <2>2. DOMAIN inst' = PID /\ pages' \in [PID -> [Prefix -> File \cup {None, JIT}]]
    BY <1>16 DEF SymbolizationComplete, TypeOK
  <2>3. InstOK'
    BY <1>16 DEF SymbolizationComplete, InstOK, Attached
  <2>4. StageOK'
    BY <1>16, Zenon DEF SymbolizationComplete, StageOK
  <2> QED BY <1>16, <2>1, <2>2, <2>3, <2>4, Zenon DEF SymbolizationComplete, TypeOK
<1>17. CASE UNCHANGED vars
  BY <1>17, SameInst DEF vars, TypeOK, StageOK, Attached
<1> QED
  BY Zenon, <1>1, <1>2, <1>3, <1>4, <1>5, <1>6, <1>7, <1>8, <1>9, <1>10, <1>11, <1>12, <1>13, <1>14,
     <1>15, <1>16, <1>17 DEF Next, EnvStep, SyncStep, Symbolize

----------------------------------------------------------------------------

\* The invariants of the instances.
Safe == TSDDelivered /\ InstancesAwaitExit

\* Is the area of a recorded mapping cleared by deletePIDAddress?
Clears == ~BatchDelete \/ Undisturbed

\* Between the mappings that were added and the last instance that was told of them,
\* pages of an instance may be in the area of a mapping.
Busy(p) == p = cur /\ (stage = "adding" \/ (stage = "interpreters" /\ todo # {}))

\* The pages of a process when nothing fails: an instance has all of its pages, they
\* are in areas without a mapping, and those of a mapping are the first of its area.
Calm(p) ==
  /\ \A f \in Attached(p) : \A x \in inst[p][f].prefixes : pages[p][x] = JIT
  /\ \A x \in Prefix : pages[p][x] = JIT => info[p][x[1]] = None \/ Busy(p)
  /\ \A x \in Prefix : pages[p][x] \in File => \A i \in 1..x[2] : pages[p][<<x[1], i>>] \in File
  /\ p \in dummy <=> p \in known

JITOwned(p) == \A x \in Prefix : pages[p][x] = JIT => \E f \in Attached(p) : x \in inst[p][f].prefixes
FileOwned(p) == \A x \in Prefix : pages[p][x] \in File => info[p][x[1]] = pages[p][x]
PagesOK(p) == JITOwned(p) /\ (Clears => FileOwned(p)) /\ (Undisturbed => Calm(p))

LEMMA QuietKeeps ==
  ASSUME NEW p \in PID, PagesOK(p), UNCHANGED <<pages[p], info[p], inst[p]>>,
         MayFail \/ ((p \in dummy <=> p \in known) => (p \in dummy' <=> p \in known')),
         Busy(p) => Busy(p)' \/ Attached(p) = {}
  PROVE  PagesOK(p)'
<1>1. JITOwned(p)' /\ (Clears => FileOwned(p)')
  BY Zenon DEF PagesOK, JITOwned, FileOwned, Attached
<1>2. Undisturbed => Calm(p)'
  BY Zenon DEF PagesOK, JITOwned, Undisturbed, Calm, Attached
<1> QED BY <1>1, <1>2, Zenon DEF PagesOK, Clears, Undisturbed

\* deletePIDAddress clears the areas it is called for, and only these.
LEMMA DeleteClears ==
  ASSUME Shape, NEW p \in PID, PagesOK(p), NEW A \in SUBSET Mapped(p)
  PROVE  /\ Clears => \A x \in Prefix : x[1] \in A /\ pages[p][x] \in File => x \in Gone(p, A, {})
         /\ \A x \in Prefix : x \in Gone(p, A, {}) => x[1] \in A /\ pages[p][x] # None
         /\ Undisturbed /\ ~Busy(p) => \A x \in Prefix : x \in Gone(p, A, {}) => pages[p][x] \in File
<1>1. ASSUME Clears, NEW x \in Prefix, x[1] \in A, pages[p][x] \in File PROVE x \in Gone(p, A, {})
  <2>1. x = <<x[1], x[2]>> /\ x[2] \in 1..NumPrefixes[x[1]]
    BY PrefixFacts, Zenon
  <2>2. BatchDelete => \A i \in 1..x[2] : pages[p][<<x[1], i>>] # None
    BY <1>1, PMAssumption, Zenon DEF Clears, PagesOK, Calm
  <2>3. pages[p][<<x[1], x[2]>>] # None
    BY <1>1, <2>1, PMAssumption, Zenon
  <2>4. x \in Deleted(p, x[1])
    BY <2>1, <2>2, <2>3, Zenon DEF Deleted
  <2> QED BY <1>1, <2>4, Zenon DEF Gone
<1>2. ASSUME NEW x \in Prefix, x \in Gone(p, A, {}) PROVE x[1] \in A /\ pages[p][x] # None
  <2>1. PICK a \in A : x \in Deleted(p, a)
    BY <1>2, Zenon DEF Gone
  <2>2. PICK i \in 1..NumPrefixes[a] : x = <<a,
  i>> /\ (IF BatchDelete THEN \A m \in 1..i : pages[p][<<a, m>>] # None
                                                        ELSE pages[p][<<a, i>>] # None)
    BY <2>1, Zenon DEF Deleted
  <2>3. i \in 1..i
    BY <2>1, PMAssumption DEF Mapped
  <2> QED BY <2>1, <2>2, <2>3, Zenon
<1>3. ASSUME Undisturbed, ~Busy(p), NEW x \in Prefix, x \in Gone(p, A, {}) PROVE pages[p][x] \in File
  <2>1. pages[p][x] \in File \cup {None, JIT} /\ info[p][x[1]] # None
    BY <1>2, <1>3 DEF Shape, TypeOK, Mapped
  <2> QED BY <1>2, <1>3, <2>1, Zenon DEF PagesOK, Calm
<1> QED BY <1>1, <1>2, <1>3, Zenon

\* What deletePIDAddress and Detach change.
LEMMA DeleteEffect ==
  ASSUME Shape, NEW p \in PID, NEW A \in SUBSET Mapped(p), NEW X, DeletePIDAddresses(p, A, X)
  PROVE  /\ \A x \in Prefix : x \in X \/ x \in Gone(p, A, {}) => pages'[p][x] = None
         /\ \A x \in Prefix : x \notin X /\ x \notin Gone(p, A, {}) => pages'[p][x] = pages[p][x]
         /\ \A a \in Area : a \in A => info'[p][a] = None
         /\ \A a \in Area : a \notin A => info'[p][a] = info[p][a]
<1>1. A \in SUBSET Area
  BY Zenon DEF Mapped
<1>2. \A x \in Prefix : pages'[p][x] = IF x \in Gone(p, A, X) THEN None ELSE pages[p][x]
  BY <1>1, DeleteShape
<1>3. \A a \in Area : info'[p][a] = IF a \in A THEN None ELSE info[p][a]
  BY <1>1, DeleteShape, Zenon
<1>4. \A x \in Prefix : x \in Gone(p, A, X) <=> x \in X \/ x \in Gone(p, A, {})
  BY Zenon DEF Gone
<1> QED BY <1>2, <1>3, <1>4, Zenon

\* The pages of a process after deletePIDAddress and after Detach of the instances
\* in S, of which there is only one or none when nothing fails.
LEMMA DeleteKeeps ==
  ASSUME Shape, NEW p \in PID, PagesOK(p), ~Busy(p), NEW A \in SUBSET Mapped(p),
         NEW S \in SUBSET Attached(p), NEW X, X = UNION {inst[p][f].prefixes : f \in S},
         DeletePIDAddresses(p, A, X),
         DOMAIN inst'[p] = Attached(p) \ S, \A f \in Attached(p) \ S : inst'[p][f] = inst[p][f],
         (p \in dummy <=> p \in known) => (p \in dummy' <=> p \in known')
  PROVE  PagesOK(p)'
<1>1. /\ \A x \in Prefix : x \in X \/ x \in Gone(p, A, {}) => pages'[p][x] = None
      /\ \A x \in Prefix : x \notin X /\ x \notin Gone(p, A, {}) => pages'[p][x] = pages[p][x]
      /\ \A a \in Area : a \in A => info'[p][a] = None
      /\ \A a \in Area : a \notin A => info'[p][a] = info[p][a]
  BY DeleteEffect
<1>2. \A x \in Prefix : x[1] \in Area
  BY PrefixFacts, Zenon
<1>3. JITOwned(p)'
  <2> SUFFICES ASSUME NEW x \in Prefix, pages'[p][x] = JIT
               PROVE  \E f \in DOMAIN inst'[p] : x \in inst'[p][f].prefixes
    BY Zenon DEF JITOwned, Attached
  <2>1. pages[p][x] = JIT /\ x \notin X
    BY <1>1, PMAssumption, Zenon
  <2>2. PICK f \in Attached(p) : x \in inst[p][f].prefixes
    BY <2>1, Zenon DEF PagesOK, JITOwned
  <2>3. f \notin S
    BY <2>1, <2>2, Zenon
  <2> QED BY <2>2, <2>3, Zenon
<1>4. ASSUME Clears PROVE FileOwned(p)'
  <2> SUFFICES ASSUME NEW x \in Prefix, pages'[p][x] \in File PROVE info'[p][x[1]] = pages'[p][x]
    BY Zenon DEF FileOwned
  <2>1. x \notin X /\ x \notin Gone(p, A, {}) /\ pages'[p][x] = pages[p][x]
    BY <1>1, PMAssumption, Zenon
  <2>2. x[1] \notin A
    BY <1>4, <2>1, DeleteClears, Zenon
  <2> QED BY <1>1, <1>2, <1>4, <2>1, <2>2, Zenon DEF PagesOK, FileOwned
<1>5. ASSUME Undisturbed PROVE Calm(p)'
  <2>1. Calm(p) /\ Clears
    BY <1>5, Zenon DEF PagesOK, Clears
  <2>2. \A x \in Prefix : x \in X => pages[p][x] = JIT
    BY <2>1 DEF Calm
  <2>3. \A f \in DOMAIN inst'[p] : \A x \in inst'[p][f].prefixes : pages'[p][x] = JIT
    <3> SUFFICES ASSUME NEW f \in Attached(p) \ S, NEW x \in inst[p][f].prefixes PROVE pages'[p][x] = JIT
      BY Zenon
    <3>1. x \in Prefix /\ pages[p][x] = JIT
      BY <2>1, Zenon DEF Calm, Shape, InstOK, Instance
    <3>2. S = {}
      BY <1>5, Zenon DEF Undisturbed, Shape, InstOK
    <3>3. x \notin X /\ x \notin Gone(p, A, {})
      BY <1>5, <3>1, <3>2, DeleteClears, PMAssumption
    <3> QED BY <1>1, <3>1, <3>3, Zenon
  <2>4. \A x \in Prefix : pages'[p][x] = JIT => info'[p][x[1]] = None
    BY <1>1, <1>2, <2>1, PMAssumption, Zenon DEF Calm
  <2>5. ASSUME NEW x \in Prefix, pages'[p][x] \in File, NEW i \in 1..x[2]
        PROVE  pages'[p][<<x[1], i>>] \in File
    <3> DEFINE y == <<x[1], i>>
    <3>1. x \notin X /\ x \notin Gone(p, A, {}) /\ pages[p][x] \in File
      BY <1>1, <2>5, PMAssumption, Zenon
    <3>2. x[1] \notin A
      BY <2>1, <3>1, DeleteClears, Zenon
    <3>3. y \in Prefix /\ y[1] = x[1] /\ pages[p][y] \in File
      <4>1. i \in 1..NumPrefixes[x[1]]
        BY PrefixFacts, PMAssumption
      <4> QED BY <1>2, <2>1, <3>1, <4>1, PrefixFacts, Zenon DEF Calm
    <3> HIDE DEF y
    <3>4. y \notin X /\ y \notin Gone(p, A, {})
      BY <2>2, <3>2, <3>3, DeleteClears, PMAssumption, Zenon
    <3> QED BY <1>1, <3>3, <3>4, Zenon DEF y
  <2>6. p \in dummy' <=> p \in known'
    BY <2>1, Zenon DEF Calm
  <2> QED BY <2>3, <2>4, <2>5, <2>6, Zenon DEF Calm, Attached
<1> QED BY <1>3, <1>4, <1>5, Zenon DEF PagesOK, Clears, Undisturbed

----------------------------------------------------------------------------
\* One lemma for each step that changes the instances or the pages

\* ProcessPIDExit: the process has no TSD information and no mapping any more,
\* and its instances, if it has any, wait in exitEvents.
LEMMA ExitKeeps ==
  ASSUME Shape, Safe, \A q \in PID : PagesOK(q),
         NEW p \in PID, ProcessPIDExit(p), stage \in {"idle", "cleanup"}, stage' = stage
  PROVE  Safe' /\ \A q \in PID : PagesOK(q)'
<1>1. /\ UNCHANGED inst /\ tsd' = tsd \ {p} /\ known' = known \ {p} /\ dummy' = dummy \ {p}
      /\ exitEvents' = IF Attached(p) = {} THEN exitEvents ELSE ExitNoted(p)
      /\ DeletePIDAddresses(p, Mapped(p), {}) /\ Mapped(p) \in SUBSET Area
  BY Zenon DEF ProcessPIDExit, Mapped
<1>2. TSDDelivered'
  BY <1>1, Zenon DEF Safe, TSDDelivered, Attached
<1>3. InstancesAwaitExit'
  <2>1. CASE Attached(p) = {}
    BY <1>1, <2>1, Zenon DEF Safe, InstancesAwaitExit, Attached
  <2>2. CASE Attached(p) # {}
    <3>1. /\ \E i \in DOMAIN exitEvents' : exitEvents'[i] = p
          /\ \A i \in DOMAIN exitEvents : \E j \in DOMAIN exitEvents' : exitEvents'[j] = exitEvents[i]
      BY <1>1, <2>2, NotedFacts, ZenonT(40) DEF Shape, TypeOK
    <3> QED BY <1>1, <3>1 DEF Safe, InstancesAwaitExit, Attached
  <2> QED BY <2>1, <2>2, Zenon
<1>4. \A q \in PID : ~Busy(q)
  BY Zenon DEF Busy
<1>5. ASSUME NEW q \in PID \ {p} PROVE PagesOK(q)'
  <2>1. info'[q] = info[q] /\ pages'[q] = pages[q]
    BY <1>1, DeleteShape, Zenon
  <2> QED BY <1>1, <1>4, <2>1, QuietKeeps, Zenon
<1>6. PagesOK(p)'
  <2>1. {} = UNION {inst[p][f].prefixes : f \in {}}
    BY Zenon
  <2> QED BY <1>1, <1>4, <2>1, DeleteKeeps DEF Attached
<1> QED BY <1>2, <1>3, <1>5, <1>6, Zenon DEF Safe

\* The changed mappings go with their pages, the stale instances with theirs.
LEMMA RemovedKeeps ==
  ASSUME Shape, Safe, \A q \in PID : PagesOK(q), ProcessRemovedMappings
  PROVE  Safe' /\ \A q \in PID : PagesOK(q)'
<1>1. /\ cur \in PID /\ Changed \in SUBSET Mapped(cur) /\ Changed \in SUBSET Area
      /\ DeletePIDAddresses(cur, Changed, StalePrefixes)
      /\ UNCHANGED <<known, tsd, exitEvents, dummy>>
  BY Zenon DEF ProcessRemovedMappings, Shape, StageOK, Changed, Mapped
<1>2. /\ \A q \in PID : q # cur => inst'[q] = inst[q]
      /\ DOMAIN inst'[cur] = Attached(cur) \ Stale
      /\ \A f \in Attached(cur) \ Stale : inst'[cur][f] = inst[cur][f]
  BY <1>1, Zenon DEF ProcessRemovedMappings, Shape, TypeOK
<1>3. TSDDelivered'
  BY <1>1, <1>2, Zenon DEF Safe, TSDDelivered, Attached, Shape, TypeOK
<1>4. InstancesAwaitExit'
  BY <1>1, <1>2, Zenon DEF Safe, InstancesAwaitExit, Attached
<1>5. \A q \in PID : ~Busy(q)
  BY Zenon DEF Busy, ProcessRemovedMappings
<1>6. ASSUME NEW q \in PID \ {cur} PROVE PagesOK(q)'
  <2>1. info'[q] = info[q] /\ pages'[q] = pages[q]
    BY <1>1, DeleteShape, Zenon
  <2> QED BY <1>1, <1>2, <1>5, <2>1, QuietKeeps, Zenon
<1>7. ASSUME NEW q \in PID, q = cur PROVE PagesOK(q)'
  <2>1. Stale \in SUBSET Attached(cur) /\ StalePrefixes = UNION {inst[cur][f].prefixes : f \in Stale}
    BY Zenon DEF Stale, StalePrefixes
  <2> QED BY <1>1, <1>2, <1>5, <1>7, <2>1, DeleteKeeps, Zenon
<1> QED BY <1>3, <1>4, <1>6, <1>7, Zenon DEF Safe

\* A new mapping: the process is known, its pages lead to the file that is
\* recorded, and all instances have the TSD information if it is there.
LEMMA HandleKeeps ==
  ASSUME Shape, Safe, \A q \in PID : PagesOK(q), HandleNewMapping
  PROVE  Safe' /\ \A q \in PID : PagesOK(q)'
<1>1. PICK k \in 0..NumPrefixes[area] : Inserts(cur, area, k) /\ HandleMapping(snap[area], k)
  BY Zenon DEF HandleNewMapping
<1>2. /\ cur \in PID /\ area \in Area /\ snap[area] \in File /\ info[cur][area] = None
      /\ UNCHANGED <<exitEvents, cur, stage>> /\ stage = "adding"
  BY Zenon DEF HandleNewMapping, Shape, TypeOK, StageOK
<1> DEFINE Handed ==
      /\ \A q \in PID \ {cur} : inst'[q] = inst[q]
      /\ DOMAIN inst[cur] \subseteq DOMAIN inst'[cur]
      /\ \A f \in DOMAIN inst[cur] : inst'[cur][f].prefixes = inst[cur][f].prefixes
      /\ \A f \in DOMAIN inst'[cur] \ DOMAIN inst[cur] : inst'[cur][f].prefixes = {}
      /\ tsd' \ {cur} = tsd \ {cur}
      /\ cur \in tsd' => \A f \in DOMAIN inst'[cur] : inst'[cur][f].tsd
<1>3. Handed
  <2>1. CASE UNCHANGED <<tsd, inst>>
    BY <1>2, <2>1, Zenon DEF Safe, TSDDelivered, Attached
  <2>2. ASSUME tsd' = IF snap[area] \in TSDFile THEN tsd \cup {cur} ELSE tsd,
               NEW ok, inst' = [inst EXCEPT ![cur] = HandleNewInterpreter(cur, snap[area], ok)]
        PROVE  Handed
    <3> DEFINE new == HandleNewInterpreter(cur, snap[area], ok)
    <3>1. InstOK
      BY Zenon DEF Shape
    <3>2. /\ Attached(cur) \subseteq DOMAIN new
          /\ \A g \in Attached(cur) :
               new[g].tsd = (inst[cur][g].tsd \/ (snap[area] \in TSDFile /\ cur \notin tsd))
          /\ \A g \in Attached(cur) : new[g].prefixes = inst[cur][g].prefixes
          /\ \A g \in DOMAIN new \ Attached(cur) : new[g].tsd = (cur \in tsd \/ snap[area] \in TSDFile)
          /\ \A g \in DOMAIN new \ Attached(cur) : new[g].prefixes = {}
      BY <1>2, <3>1, HandledShape
    <3>3. inst'[cur] = new /\ \A q \in PID \ {cur} : inst'[q] = inst[q]
      BY <1>2, <2>2, Zenon DEF Shape, TypeOK
    <3> HIDE DEF new
    <3>4. cur \in tsd' => \A f \in DOMAIN new : new[f].tsd
      BY <2>2, <3>2, Zenon DEF Safe, TSDDelivered, Attached
    <3> QED BY <2>2, <3>2, <3>3, <3>4, Zenon DEF Attached
  <2> QED BY <1>1, <2>1, <2>2, Zenon DEF HandleMapping
<1>4. TSDDelivered'
  BY <1>3, Zenon DEF Safe, TSDDelivered, Attached, Shape, TypeOK
<1>5. InstancesAwaitExit'
  BY <1>1, <1>2, <1>3 DEF HandleMapping, Safe, InstancesAwaitExit, Attached
<1> DEFINE In(x) == x \in {<<area, i>> : i \in 1..k}
<1>6. /\ \A q \in PID \ {cur} : info'[q] = info[q] /\ pages'[q] = pages[q]
      /\ \A x \in Prefix : In(x) => pages'[cur][x] = snap[area] /\ pages[cur][x] = None /\ x[1] = area
      /\ \A x \in Prefix : ~In(x) => pages'[cur][x] = pages[cur][x]
      /\ info'[cur][area] = snap[area] /\ \A a \in Area \ {area} : info'[cur][a] = info[cur][a]
  BY <1>1, <1>2 DEF HandleMapping, Inserts, Free, Shape, TypeOK
<1>7. \A q \in PID : (q \in dummy <=> q \in known) => (q \in dummy' <=> q \in known')
  BY <1>1, Zenon DEF HandleMapping
<1>8. ASSUME NEW q \in PID \ {cur} PROVE PagesOK(q)'
  BY <1>3, <1>6, <1>7, QuietKeeps DEF Busy
<1>9. ASSUME NEW q \in PID, q = cur PROVE PagesOK(q)'
  <2>1. \A x \in Prefix : x[1] \in Area
    BY PrefixFacts, Zenon
  <2> HIDE DEF In
  <2>2. JITOwned(q)'
    BY <1>2, <1>3, <1>6, <1>9, PMAssumption DEF PagesOK, JITOwned, Attached
  <2>3. ASSUME Clears PROVE FileOwned(q) /\ FileOwned(q)'
    BY <1>2, <1>6, <1>9, <2>1, <2>3, PMAssumption DEF PagesOK, FileOwned
  <2>4. ASSUME Undisturbed PROVE Calm(q)'
    <3>1. Calm(q) /\ FileOwned(q)
      BY <2>3, <2>4, Zenon DEF PagesOK, Clears
    <3>2. \A f \in Attached(q)' : \A x \in inst'[q][f].prefixes : pages'[q][x] = JIT
      <4>1. ASSUME NEW f \in Attached(q), NEW x \in inst[q][f].prefixes PROVE pages'[q][x] = JIT
        BY <1>6, <1>9, <3>1, PMAssumption DEF Calm, Shape, InstOK, Instance
      <4> QED BY <1>3, <1>9, <4>1, ZenonT(40) DEF Attached
    <3>3. Busy(q)'
      BY <1>2, <1>9, Zenon DEF Busy
    <3>4. ASSUME NEW x \in Prefix, pages'[q][x] \in File, NEW i \in 1..x[2]
          PROVE  pages'[q][<<x[1], i>>] \in File
      <4>1. <<x[1], i>> \in Prefix
        BY <2>1, PrefixFacts, PMAssumption
      <4>2. CASE In(x)
        <5>1. x[1] = area /\ x[2] \in 1..k
          BY <4>2 DEF In
        <5>2. In(<<x[1], i>>)
          BY <1>2, <5>1, PMAssumption DEF In
        <5> QED BY <1>2, <1>6, <1>9, <4>1, <5>2, Zenon
      <4>3. CASE ~In(x)
        <5>1. pages[q][x] \in File /\ x[1] # area
          BY <1>2, <1>6, <1>9, <3>1, <3>4, <4>3, PMAssumption DEF FileOwned
        <5>2. ~In(<<x[1], i>>)
          BY <5>1, Zenon DEF In
        <5> QED BY <1>6, <1>9, <3>1, <4>1, <5>1, <5>2, Zenon DEF Calm
      <4> QED BY <4>2, <4>3, Zenon
    <3> QED BY <1>7, <3>1, <3>2, <3>3, <3>4, Zenon DEF Calm
  <2> QED BY <2>2, <2>3, <2>4, Zenon DEF PagesOK, Clears, Undisturbed
<1> QED BY <1>4, <1>5, <1>8, <1>9, Zenon DEF Safe

\* v8Instance.SynchronizeMappings: the pages it removes are none of a file, and
\* those it inserts are in the prefixes the instance keeps.
LEMMA SyncKeeps ==
  ASSUME Shape, Safe, \A q \in PID : PagesOK(q), NEW f \in Interp, SynchronizeInstance(f)
  PROVE  Safe' /\ \A q \in PID : PagesOK(q)'
<1> DEFINE new == PrefixesOf(NewAreas(f))
           old == inst[cur][f].prefixes
<1>1. /\ cur \in PID /\ f \in Attached(cur) /\ AnonAreas \in SUBSET Area /\ new \in SUBSET Prefix
      /\ UNCHANGED <<known, info, tsd, exitEvents, dummy, cur>>
      /\ \A x \in new \ old : pages[cur][x] = None
  BY PrefixFacts DEF SynchronizeInstance, Shape, StageOK, NewAreas, AnonAreas, infoVars
<1>2. /\ inst' = [inst EXCEPT ![cur][f].mappings = AnonAreas, ![cur][f].prefixes = new]
      /\ pages' = [pages EXCEPT ![cur] = [x \in Prefix |->
                     IF x \in new \ old THEN JIT
                     ELSE IF x \in old \ new THEN None ELSE @[x]]]
  BY Zenon DEF SynchronizeInstance
<1>3. \A x \in new : info[cur][x[1]] = None
  <2>1. \A x \in new : x \in Prefix /\ x[1] \in Area /\ snap[x[1]] = Anon
    BY <1>1, PrefixFacts DEF NewAreas, AnonAreas
  <2>2. \A a \in Area : info[cur][a] \in {None, snap[a]} /\ info[cur][a] \in File \cup {None}
    BY <1>1 DEF SynchronizeInstance, Shape, StageOK, TypeOK
  <2> QED BY <2>1, <2>2, PMAssumption, Zenon
<1> HIDE DEF new
<1>4. /\ \A q \in PID : Attached(q)' = Attached(q)
      /\ \A q \in PID : \A g \in Attached(q) : q # cur \/ g # f => inst'[q][g] = inst[q][g]
      /\ inst'[cur][f].tsd = inst[cur][f].tsd /\ inst'[cur][f].prefixes = new
  <2>1. TypeOK /\ InstOK
    BY Zenon DEF Shape
  <2>2. Edited(cur, f, new)
    BY <1>1, <1>2, <2>1, InstEdited, Zenon
  <2> QED BY <2>2, Zenon DEF Edited
<1>5. TSDDelivered'
  <2>1. \A q \in PID : \A g \in Attached(q) : inst'[q][g].tsd = inst[q][g].tsd
    BY <1>4, Zenon
  <2>2. tsd \subseteq PID /\ tsd' = tsd /\ TSDDelivered /\ \A q \in PID : Attached(q)' = Attached(q)
    BY <1>1, <1>4, Zenon DEF Safe, Shape, TypeOK
  <2> QED BY <2>1, <2>2 DEF TSDDelivered
<1>6. InstancesAwaitExit'
  BY <1>1, <1>4, Zenon DEF Safe, InstancesAwaitExit
<1>7. /\ \A q \in PID \ {cur} : pages'[q] = pages[q] /\ inst'[q] = inst[q]
      /\ \A x \in Prefix : x \in new \ old => pages'[cur][x] = JIT
      /\ \A x \in Prefix : x \in old \ new => pages'[cur][x] = None
      /\ \A x \in Prefix : x \notin new \ old /\ x \notin old \ new => pages'[cur][x] = pages[cur][x]
  BY <1>1, <1>2, Zenon DEF Shape, TypeOK
<1>8. ASSUME NEW q \in PID \ {cur} PROVE PagesOK(q)'
  BY <1>1, <1>7, QuietKeeps, Zenon DEF Busy
<1>9. ASSUME NEW q \in PID, q = cur PROVE PagesOK(q)'
  <2>1. JITOwned(q)'
    <3> SUFFICES ASSUME NEW x \in Prefix, pages'[q][x] = JIT
                 PROVE  \E g \in Attached(q) : x \in inst'[q][g].prefixes
      BY <1>4, Zenon DEF JITOwned
    <3>1. CASE x \in new
      BY <1>1, <1>4, <1>9, <3>1, Zenon
    <3>2. CASE x \notin new
      <4>1. x \notin old /\ pages[q][x] = JIT
        BY <1>7, <1>9, <3>2, PMAssumption, Zenon
      <4>2. PICK g \in Attached(q) : x \in inst[q][g].prefixes
        BY <4>1, Zenon DEF PagesOK, JITOwned
      <4> QED BY <1>4, <1>9, <4>1, <4>2, Zenon
    <3> QED BY <3>1, <3>2, Zenon
  <2>2. ASSUME Clears PROVE FileOwned(q)'
    BY <1>1, <1>7, <1>9, <2>2, PMAssumption DEF PagesOK, FileOwned
  <2>3. ASSUME Undisturbed PROVE Calm(q)'
    <3>1. Calm(q) /\ JITOwned(q)
      BY <2>3, Zenon DEF PagesOK
    <3>2. \A g \in Attached(q) : g = f
      BY <1>1, <2>3, Zenon DEF Undisturbed, Shape, InstOK
    <3>3. \A x \in old : pages[q][x] = JIT
      BY <1>1, <1>9, <3>1, ZenonT(40) DEF Calm
    <3>4. \A g \in Attached(q)' : \A x \in inst'[q][g].prefixes : pages'[q][x] = JIT
      BY <1>1, <1>4, <1>7, <1>9, <3>2, <3>3
    <3>5. ASSUME NEW x \in Prefix, pages'[q][x] = JIT PROVE info'[q][x[1]] = None
      <4>1. x \in new
        BY <1>7, <1>9, <3>1, <3>2, <3>5, PMAssumption, Zenon DEF JITOwned
      <4> QED BY <1>1, <1>3, <1>9, <4>1, Zenon
    <3>6. ASSUME NEW x \in Prefix, pages'[q][x] \in File, NEW i \in 1..x[2]
          PROVE  pages'[q][<<x[1], i>>] \in File
      <4>1. <<x[1], i>> \in Prefix
        BY PrefixFacts, PMAssumption
      <4>2. pages[q][x] \in File
        BY <1>7, <1>9, <3>6, PMAssumption, Zenon
      <4>3. pages[q][<<x[1], i>>] \in File
        BY <3>1, <4>2, Zenon DEF Calm
      <4>4. <<x[1], i>> \notin new \ old /\ <<x[1], i>> \notin old
        BY <1>1, <1>9, <3>3, <4>3, PMAssumption, Zenon
      <4> QED BY <1>7, <1>9, <4>1, <4>3, <4>4, Zenon
    <3> QED BY <1>1, <3>1, <3>4, <3>5, <3>6, Zenon DEF Calm
  <2> QED BY <2>1, <2>2, <2>3, Zenon DEF PagesOK, Clears, Undisturbed
<1> QED BY <1>5, <1>6, <1>8, <1>9, Zenon DEF Safe

\* When nothing fails, no page is in the way of SynchronizeMappings.
LEMMA SyncSucceeds ==
  ASSUME Shape, \A q \in PID : PagesOK(q), NEW f \in Interp, SynchronizeInstanceFails(f)
  PROVE  ~Undisturbed
<1> SUFFICES ASSUME Undisturbed PROVE FALSE
  BY Zenon
<1>1. /\ cur \in PID /\ f \in Attached(cur)
      /\ \A a \in NewAreas(f) : a \in Area /\ snap[a] = Anon /\ info[cur][a] \in {None, snap[a]}
  BY Zenon DEF SynchronizeInstanceFails, Shape, StageOK, NewAreas, AnonAreas
<1>2. PICK done \in SUBSET NewAreas(f), a \in NewAreas(f) :
        \E k \in 1..NumPrefixes[a] : InsertFails(f, done, a, k)
  BY Zenon DEF SynchronizeInstanceFails
<1>3. PICK k \in 1..NumPrefixes[a] : InsertFails(f, done, a, k)
  BY <1>2, Zenon
<1> DEFINE y == <<a, k>>
<1>4. /\ y \notin inst[cur][f].prefixes /\ pages[cur][y] # None
      /\ y \in Prefix /\ y[1] = a /\ pages[cur][y] \in File \cup {None, JIT}
  BY <1>1, <1>3, PrefixFacts DEF InsertFails, Undisturbed, Shape, TypeOK
<1> HIDE DEF y
<1>5. PagesOK(cur) /\ Clears
  BY <1>1, Zenon DEF Clears
<1>6. CASE pages[cur][y] = JIT
  <2>1. PICK g \in Attached(cur) : y \in inst[cur][g].prefixes
    BY <1>4, <1>5, <1>6, Zenon DEF PagesOK, JITOwned
  <2>2. g = f
    BY <1>1, Zenon DEF Undisturbed, Shape, InstOK
  <2> QED BY <1>4, <2>1, <2>2, Zenon
<1>7. CASE pages[cur][y] \in File
  <2>1. info[cur][a] = pages[cur][y]
    BY <1>4, <1>5, <1>7, Zenon DEF PagesOK, FileOwned
  <2> QED BY <1>1, <1>7, <2>1, PMAssumption, Zenon
<1> QED BY <1>4, <1>6, <1>7, Zenon

=============================================================================
