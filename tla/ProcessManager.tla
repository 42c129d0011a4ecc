--------------------------- MODULE ProcessManager ---------------------------
(***************************************************************************)
(* processmanager/processinfo.go and manager.go: the goroutine that keeps  *)
(* pid_page_to_mapping_info in step with the executable mappings of the    *)
(* processes, the interpreter instances it attaches (the V8 plugin,        *)
(* interpreter/nodev8/v8.go) and the trace goroutine that detaches them    *)
(* after an exit.  Processes map, unmap, exec and exit at any time, and    *)
(* PIDs are reused.                                                        *)
(*                                                                         *)
(* An area is an address range that may be mapped; a sequence of LPM       *)
(* prefixes covers it.  A file stands for its on-disk identifier and for   *)
(* its file ID.  refs is what this component sees of the executable info   *)
(* manager: the references it holds on each file.                          *)
(***************************************************************************)
EXTENDS Integers, FiniteSets, Sequences

CONSTANTS PID, Area, File,
          Interp,        \* the files that are interpreters
          TSDFile,       \* the files with thread specific data information
          NumPrefixes,   \* the number of prefixes that cover an area
          MayFail,       \* may eBPF maps, ELF reads and attaching fail?
          BatchDelete,   \* hasLPMTrieBatchOperations
          MaxLeaks, MaxDrift,  \* bounds, see Bounded
          None, Anon, JIT

ASSUME PMAssumption == /\ IsFiniteSet(PID) /\ IsFiniteSet(Area)
                       /\ Interp \subseteq File /\ TSDFile \subseteq File
                       /\ NumPrefixes \in [Area -> Nat \ {0}]
                       /\ MaxLeaks \in Nat /\ MaxDrift \in Nat
                       /\ MayFail \in BOOLEAN /\ BatchDelete \in BOOLEAN
                       /\ {None, Anon, JIT} \cap File = {}
                       /\ None \notin {Anon, JIT} \cup PID \cup Area

VARIABLES
  maps, alive,    \* the processes: what they map, and which are alive
  known, info,    \* pidToProcessInfo: its keys, and their mappings
  tsd,            \* the PIDs whose tsdInfo is set
  inst,           \* interpreters: per PID, the instance for each file
  exitEvents,     \* the PIDs of exitEvents, by increasing exit time
  pages,          \* eBPF: pid_page_to_mapping_info but for the dummies
  dummy,          \* eBPF: the PIDs with a dummy entry in it
  pidPageToMappingInfoSize,
  refs,           \* executable info manager
  stage, cur, snap, todo, area  \* the PID event goroutine

osVars == <<maps, alive>>
infoVars == <<known, info, tsd>>
instVars == <<inst, exitEvents>>
pageVars == <<pages, dummy, pidPageToMappingInfoSize>>
syncVars == <<stage, cur, snap, todo, area>>
vars == <<osVars, infoVars, instVars, pageVars, refs, syncVars>>

\* CalculatePrefixList, as far as it matters here.
AreaPrefixes(a) == {<<a, i>> : i \in 1..NumPrefixes[a]}
PrefixesOf(S) == UNION {AreaPrefixes(a) : a \in S}
Prefix == PrefixesOf(Area)

NoMaps == [a \in Area |-> None]
Attached(p) == DOMAIN inst[p]
Mapped(p) == {a \in Area : info[p][a] # None}

Init == /\ maps = [p \in PID |-> NoMaps] /\ alive = {}
        /\ known = {} /\ info = [p \in PID |-> NoMaps] /\ tsd = {}
        /\ inst = [p \in PID |-> << >>] /\ exitEvents = << >>
        /\ pages = [p \in PID |-> [x \in Prefix |-> None]]
        /\ dummy = {} /\ pidPageToMappingInfoSize = 0
        /\ refs = [f \in File |-> 0]
        /\ stage = "idle" /\ cur = None /\ snap = NoMaps
        /\ todo = {} /\ area = None

----------------------------------------------------------------------------
\* The processes.  An execve unmaps everything and maps the new image.

Spawn(p) == /\ p \notin alive
            /\ alive' = alive \cup {p}
            /\ UNCHANGED <<maps, infoVars, instVars, pageVars, refs, syncVars>>

Remap(p, a, c) == /\ p \in alive /\ maps[p][a] # c
                  /\ maps' = [maps EXCEPT ![p][a] = c]
                  /\ UNCHANGED <<alive, infoVars, instVars, pageVars, refs, syncVars>>

Exit(p) == /\ p \in alive
           /\ alive' = alive \ {p}
           /\ maps' = [maps EXCEPT ![p] = NoMaps]
           /\ UNCHANGED <<infoVars, instVars, pageVars, refs, syncVars>>

----------------------------------------------------------------------------
\* Deleting pages

Without(p, X) == [pages EXCEPT ![p] = [x \in Prefix |-> IF x \in X THEN None ELSE @[x]]]

\* The keys DeletePidPageMappingInfo deletes for area a: the ones present or,
\* when the kernel deletes a batch, the ones before the first that is absent.
Deleted(p, a) ==
  {<<a, i>> : i \in {n \in 1..NumPrefixes[a] :
     IF BatchDelete THEN \A m \in 1..n : pages[p][<<a, m>>] # None
                    ELSE pages[p][<<a, n>>] # None}}

\* A plausible bug: a reference is dropped for every mapping of the process,
\* also for those that stay.
DeleteReleasesAll(p, A, X) ==
  /\ pages' = Without(p, X \cup UNION {Deleted(p, a) : a \in A})
  /\ refs' = [f \in File |-> refs[f] - Cardinality({a \in Area : info[p][a] = f})]
  /\ info' = [info EXCEPT ![p] = [a \in Area |-> IF a \in A THEN None ELSE @[a]]]

\* deletePIDAddress for the mappings in the areas A; and the prefixes X, which
\* belong to instances that are detached, go as well.
DeletePIDAddresses(p, A, X) ==
  /\ pages' = Without(p, X \cup UNION {Deleted(p, a) : a \in A})
  /\ refs' = [f \in File |-> refs[f] - Cardinality({a \in A : info[p][a] = f})]
  /\ info' = [info EXCEPT ![p] = [a \in Area |-> IF a \in A THEN None ELSE @[a]]]

\* The number of entries that deletePIDAddress reports as deleted.
NumDeleted(p, A) == Cardinality(UNION {Deleted(p, a) : a \in A})

\* A plausible bug: the exit of a process with instances is not noted.
ExitForgetsInstances(p) ==
  /\ DeletePIDAddresses(p, Mapped(p), {})
  /\ dummy' = dummy \ {p}
  /\ pidPageToMappingInfoSize' =
       pidPageToMappingInfoSize - NumDeleted(p, Mapped(p)) - Cardinality(dummy \cap {p})
  /\ known' = known \ {p} /\ tsd' = tsd \ {p}
  /\ UNCHANGED <<inst, exitEvents>>

\* exitEvents[pid] is set: of the processes in exitEvents, p is the last to exit.
ExitNoted(p) ==
  LET n == CHOOSE i \in DOMAIN exitEvents : exitEvents[i] = p
  IN  IF \E i \in DOMAIN exitEvents : exitEvents[i] = p
      THEN [i \in DOMAIN exitEvents |->
              IF i = Len(exitEvents) THEN p ELSE exitEvents[IF i < n THEN i ELSE i + 1]]
      ELSE Append(exitEvents, p)

\* Everything known of p goes but for its interpreter instances, which stay
\* until SymbolizationComplete.
ProcessPIDExit(p) ==
  /\ exitEvents' = IF Attached(p) = {} THEN exitEvents ELSE ExitNoted(p)
  /\ DeletePIDAddresses(p, Mapped(p), {})
  /\ dummy' = dummy \ {p}
  /\ pidPageToMappingInfoSize' =
       pidPageToMappingInfoSize - NumDeleted(p, Mapped(p)) - Cardinality(dummy \cap {p})
  /\ known' = known \ {p} /\ tsd' = tsd \ {p}
  /\ UNCHANGED inst

----------------------------------------------------------------------------
\* The PID event goroutine

\* SynchronizeProcess of a process that is gone or has nothing mapped.
SynchronizeExited(p) ==
  /\ stage = "idle" /\ maps[p] = NoMaps
  /\ ProcessPIDExit(p)
  /\ UNCHANGED <<osVars, syncVars>>

\* Failures can leak references and make the size drift without limit: no
\* synchronisation starts any more when they have come this far.
Bounded == /\ \A f \in File : refs[f] <= Cardinality(PID) * Cardinality(Area) + MaxLeaks
           /\ pidPageToMappingInfoSize >= -MaxDrift

\* SynchronizeProcess of another: its mappings are read here, and used later.
SynchronizeProcess(p) ==
  /\ stage = "idle" /\ maps[p] # NoMaps /\ Bounded
  /\ stage' = "removing" /\ cur' = p /\ snap' = maps[p]
  /\ UNCHANGED <<osVars, infoVars, instVars, pageVars, refs, todo, area>>

\* interpretersValid and mpRemove
SnapFiles == {snap[a] : a \in Area} \cap File
Changed == {a \in Mapped(cur) : snap[a] # info[cur][a]}
Stale == Attached(cur) \ SnapFiles
StalePrefixes == UNION {inst[cur][f].prefixes : f \in Stale}

\* The differences are computed, the changed mappings removed, and the
\* instances of files that are no longer mapped detached.
ProcessRemovedMappings ==
  /\ stage = "removing"
  /\ DeletePIDAddresses(cur, Changed, StalePrefixes)
  /\ pidPageToMappingInfoSize' = pidPageToMappingInfoSize - NumDeleted(cur, Changed)
  /\ inst' = [inst EXCEPT ![cur] = [f \in Attached(cur) \ Stale |-> @[f]]]
  /\ stage' = "adding"
  /\ todo' = {a \in Area : snap[a] \in File /\ snap[a] # info[cur][a]}
  /\ UNCHANGED <<osVars, known, tsd, exitEvents, dummy, cur, snap, area>>

\* processNewExecMapping up to AddOrIncRef, which runs without the lock.  It
\* can fail when the process is gone with its files.
AddOrIncRef(a) ==
  /\ stage = "adding" /\ area = None /\ a \in todo
  /\ todo' = todo \ {a}
  /\ \/ area' = a /\ refs' = [refs EXCEPT ![snap[a]] = @ + 1]
     \/ (MayFail \/ cur \notin alive) /\ UNCHANGED <<area, refs>>
  /\ UNCHANGED <<osVars, infoVars, instVars, pageVars, stage, cur, snap>>

\* The dummy entry of a new process is refused: handleNewMapping returns.
NewMappingFails ==
  /\ stage = "adding" /\ area # None /\ cur \notin known /\ MayFail
  /\ known' = known \cup {cur} /\ area' = None
  /\ UNCHANGED <<osVars, info, tsd, instVars, pageVars, refs, stage, cur, snap, todo>>

\* updatePidInformation: the prefixes are inserted up to the first one that
\* exists or that the kernel refuses.
Free(p, a, k) == \A i \in 1..k : pages[p][<<a, i>>] = None
Inserts(p, a, k) ==
  /\ k \in 0..NumPrefixes[a] /\ Free(p, a, k)
  /\ k < NumPrefixes[a] /\ ~MayFail => ~Free(p, a, k + 1)

\* assignTSDInfo: the instances there are learn of the TSD information.
WithTSD(p, f) == [g \in Attached(p) |->
                    [inst[p][g] EXCEPT !.tsd = @ \/ (f \in TSDFile /\ p \notin tsd)]]

\* A plausible bug: an instance that attaches after the TSD information was
\* found never learns of it.
NewInterpreterWithoutTSD(p, f, ok) ==
  IF f \in Interp /\ f \notin Attached(p) /\ ok
  THEN [g \in Attached(p) \cup {f} |->
          IF g = f THEN [mappings |-> {}, prefixes |-> {}, tsd |-> FALSE]
                   ELSE WithTSD(p, f)[g]]
  ELSE WithTSD(p, f)

\* handleNewInterpreter: attach unless there is an instance for the file, and
\* pass on the TSD information if it is there already.
HandleNewInterpreter(p, f, ok) ==
  IF f \in Interp /\ f \notin Attached(p) /\ ok
  THEN [g \in Attached(p) \cup {f} |->
          IF g = f THEN [mappings |-> {}, prefixes |-> {}, tsd |-> p \in tsd \/ f \in TSDFile]
                   ELSE WithTSD(p, f)[g]]
  ELSE WithTSD(p, f)

\* handleNewMapping when k prefixes are inserted: the mapping is recorded, and the
\* TSD information and the interpreter are looked at unless an insertion failed.
HandleMapping(f, k) ==
  /\ known' = known \cup {cur}
  /\ dummy' = IF cur \in known THEN dummy ELSE dummy \cup {cur}
  /\ info' = [info EXCEPT ![cur][area] = f]
  /\ pages' = [pages EXCEPT ![cur] =
                 [x \in Prefix |-> IF x \in {<<area, i>> : i \in 1..k} THEN f ELSE @[x]]]
  /\ pidPageToMappingInfoSize' = pidPageToMappingInfoSize + k + Cardinality({cur} \ known)
  /\ IF k = NumPrefixes[area]
     THEN /\ tsd' = IF f \in TSDFile THEN tsd \cup {cur} ELSE tsd
          /\ \E ok \in {TRUE, ~MayFail} :
               inst' = [inst EXCEPT ![cur] = HandleNewInterpreter(cur, f, ok)]
     ELSE UNCHANGED <<tsd, inst>>

\* handleNewMapping under the lock.
HandleNewMapping ==
  /\ stage = "adding" /\ area # None
  /\ \E k \in 0..NumPrefixes[area] : Inserts(cur, area, k) /\ HandleMapping(snap[area], k)
  /\ area' = None
  /\ UNCHANGED <<osVars, exitEvents, refs, stage, cur, snap, todo>>

\* The lock is taken for the loop over the instances.
StartInstances ==
  /\ stage = "adding" /\ area = None /\ todo = {}
  /\ stage' = "interpreters" /\ todo' = Attached(cur)
  /\ UNCHANGED <<osVars, infoVars, instVars, pageVars, refs, cur, snap, area>>

AnonAreas == {a \in Area : snap[a] = Anon}
NewAreas(f) == AnonAreas \ inst[cur][f].mappings

\* v8Instance.SynchronizeMappings: pages for the mappings not seen before,
\* then the prefixes this call did not come across are removed.
SynchronizeInstance(f) ==
  LET new == NewAreas(f)
      old == inst[cur][f].prefixes
  IN /\ stage = "interpreters" /\ f \in todo
     /\ \A x \in PrefixesOf(new) \ old : pages[cur][x] = None
     /\ pages' = [pages EXCEPT ![cur] = [x \in Prefix |->
                    IF x \in PrefixesOf(new) \ old THEN JIT
                    ELSE IF x \in old \ PrefixesOf(new) THEN None ELSE @[x]]]
     /\ inst' = [inst EXCEPT ![cur][f].mappings = AnonAreas,
                             ![cur][f].prefixes = PrefixesOf(new)]
     /\ todo' = todo \ {f}
     /\ UNCHANGED <<osVars, infoVars, exitEvents, dummy, pidPageToMappingInfoSize, refs,
                    stage, cur, snap, area>>

\* The same call returns at prefix k of a, which it cannot insert: the mappings in
\* done were handled before, and nothing is removed.
Wanted(done, a, k) == PrefixesOf(done) \cup {<<a, i>> : i \in 1..(k - 1)}

InsertFails(f, done, a, k) ==
  LET new == Wanted(done, a, k) \ inst[cur][f].prefixes IN
  /\ <<a, k>> \notin inst[cur][f].prefixes /\ (MayFail \/ pages[cur][<<a, k>>] # None)
  /\ \A x \in new : pages[cur][x] = None
  /\ pages' = [pages EXCEPT ![cur] = [x \in Prefix |-> IF x \in new THEN JIT ELSE @[x]]]
  /\ inst' = [inst EXCEPT ![cur][f].mappings = @ \cup done \cup {a},
                          ![cur][f].prefixes = @ \cup Wanted(done, a, k)]

SynchronizeInstanceFails(f) ==
  /\ stage = "interpreters" /\ f \in todo
  /\ \E done \in SUBSET NewAreas(f) : \E a \in NewAreas(f) \ done : \E k \in 1..NumPrefixes[a] :
       InsertFails(f, done, a, k)
  /\ todo' = todo \ {f}
  /\ UNCHANGED <<osVars, infoVars, exitEvents, dummy, pidPageToMappingInfoSize, refs,
                 stage, cur, snap, area>>

\* synchronizeMappings returns; or CleanupPIDs does.
Done == /\ stage \in {"interpreters", "cleanup"} /\ todo = {}
        /\ stage' = "idle" /\ cur' = None /\ snap' = NoMaps
        /\ UNCHANGED <<osVars, infoVars, instVars, pageVars, refs, todo, area>>

\* CleanupPIDs: the dead PIDs are collected, and then removed one by one.
CleanupPIDs == /\ stage = "idle"
               /\ stage' = "cleanup" /\ todo' = known \ alive
               /\ UNCHANGED <<osVars, infoVars, instVars, pageVars, refs, cur, snap, area>>

CleanupPID(p) == /\ stage = "cleanup" /\ p \in todo
                 /\ ProcessPIDExit(p)
                 /\ todo' = todo \ {p}
                 /\ UNCHANGED <<osVars, stage, cur, snap, area>>

----------------------------------------------------------------------------
\* The trace goroutine

Exited(n) == {exitEvents[i] : i \in 1..n}

\* A plausible bug: the instances are dropped, but Detach is not called.
SymbolizationDropsInstances(n) ==
  /\ stage # "interpreters" /\ n \in 1..Len(exitEvents)
  /\ inst' = [p \in PID |-> IF p \in Exited(n) THEN << >> ELSE inst[p]]
  /\ exitEvents' = SubSeq(exitEvents, n + 1, Len(exitEvents))
  /\ UNCHANGED <<osVars, infoVars, pageVars, refs, syncVars>>

\* SymbolizationComplete with a trace taken after the first n exits.
SymbolizationComplete(n) ==
  /\ stage # "interpreters" /\ n \in 1..Len(exitEvents)
  /\ pages' = [p \in PID |-> [x \in Prefix |->
                 IF p \in Exited(n) /\ \E f \in Attached(p) : x \in inst[p][f].prefixes
                 THEN None ELSE pages[p][x]]]
  /\ inst' = [p \in PID |-> IF p \in Exited(n) THEN << >> ELSE inst[p]]
  /\ exitEvents' = SubSeq(exitEvents, n + 1, Len(exitEvents))
  /\ UNCHANGED <<osVars, infoVars, dummy, pidPageToMappingInfoSize, refs, syncVars>>

EnvStep == \E p \in PID : \/ Spawn(p)
                          \/ Exit(p)
                          \/ \E a \in Area, c \in File \cup {None, Anon} : Remap(p, a, c)

SyncStep == \/ ProcessRemovedMappings
            \/ \E a \in Area : AddOrIncRef(a)
            \/ NewMappingFails
            \/ HandleNewMapping
            \/ StartInstances
            \/ \E f \in Interp : SynchronizeInstance(f) \/ SynchronizeInstanceFails(f)
            \/ Done
            \/ \E p \in PID : CleanupPID(p)

Symbolize == \E n \in 1..Len(exitEvents) : SymbolizationComplete(n)

Next == \/ EnvStep
        \/ \E p \in PID : SynchronizeExited(p) \/ SynchronizeProcess(p)
        \/ CleanupPIDs
        \/ SyncStep
        \/ Symbolize

Spec == Init /\ [][Next]_vars

\* The goroutine finishes what it has begun, its select does not ignore the
\* cleanup ticker for ever, and traces keep coming, so that the trace
\* goroutine gets the lock and sees a trace that is later than the exits.
Fairness == /\ WF_vars(SyncStep)
            /\ SF_vars(CleanupPIDs)
            /\ SF_vars(SymbolizationComplete(Len(exitEvents)))

FairSpec == Spec /\ Fairness

----------------------------------------------------------------------------
\* Properties

\* The references that the recorded mappings of f and a mapping that is being
\* added account for.
Owned(f) == Cardinality({x \in PID \X Area : info[x[1]][x[2]] = f})
            + (IF area # None /\ snap[area] = f THEN 1 ELSE 0)

\* The eBPF maps refuse nothing, and there is one interpreter at most.
Undisturbed == ~MayFail /\ \A f, g \in Interp : f = g

\* No reference is given back twice: every recorded mapping, in whatever order
\* mappings are added, changed, removed and cleaned up, keeps a reference on
\* its executable, so what a page of pid_page_to_mapping_info leads to is not
\* unloaded under the native unwinder.  And pidPageToMappingInfoSize counts the
\* entries this component inserted, when no eBPF map operation is refused: it is
\* neither too high nor, when pages of an instance were in the way of a mapping, too
\* low.  Of two interpreters in one process, one may stop at a page of the other and
\* keep pages in areas that become files; deletePIDAddress then counts these as well.
MappingsReferenced ==
  /\ \A f \in File : refs[f] >= Owned(f)
  /\ Undisturbed =>
       pidPageToMappingInfoSize =
         Cardinality(dummy) + Cardinality({y \in PID \X Prefix : pages[y[1]][y[2]] \in File})

\* Nothing is left behind in pid_page_to_mapping_info: a page that leads to a
\* file belongs to a recorded mapping of that file, which deletePIDAddress will
\* delete, and a page that leads to the JIT unwinder is in the prefixes of an
\* instance, whose Detach will delete it.
PagesOwned ==
  \A p \in PID : \A x \in Prefix :
    /\ pages[p][x] \in File => info[p][x[1]] = pages[p][x]
    /\ pages[p][x] = JIT => \E f \in Attached(p) : x \in inst[p][f].prefixes

\* What ProcessPIDExit leaves of a process is what SymbolizationComplete takes
\* away: the instances of a process that is no longer known wait in exitEvents.
InstancesAwaitExit ==
  \A p \in PID : p \notin known /\ Attached(p) # {} => \E i \in DOMAIN exitEvents : exitEvents[i] = p

\* Whether the interpreter or the library with the TSD information is found
\* first, every instance of the process has the TSD information once it is known.
TSDDelivered == \A p \in tsd : \A f \in Attached(p) : inst[p][f].tsd

\* A process that stays gone is forgotten for good: also one that exits in the
\* middle of its own synchronisation, which records its mappings again.
Forgotten ==
  \A p \in PID : <>[](p \notin alive) =>
    <>[](p \notin known \cup dummy /\ Attached(p) = {} /\ \A x \in Prefix : pages[p][x] = None)

----------------------------------------------------------------------------
\* What a comment says and the code does not do

\* v8.go: the instance "will install PID page map entries for them on demand".
\* After a synchronisation, the pages of the anonymous mappings that an instance
\* has taken over should lead to the JIT unwinder.
JITResolves ==
  stage = "idle" => \A p \in PID : \A f \in Attached(p) :
                       \A x \in PrefixesOf(inst[p][f].mappings) : pages[p][x] = JIT
=============================================================================
