--------------------------- MODULE ExecInfoManager ---------------------------
(***************************************************************************)
(* The reference-counting cache of executables in                          *)
(* processmanager/execinfomanager/manager.go, with the eBPF maps it fills  *)
(* through processmanager/ebpf/ebpf.go.                                    *)
(*                                                                         *)
(* A Holder is one caller of AddOrIncRef or AddSynthIntervalData: it runs  *)
(* in its own thread, ends up with at most one reference and gives it back *)
(* through RemoveOrDecRef.  The manager's RW lock is explicit, and every   *)
(* write to an eBPF map is a step of its own because the unwinder reads    *)
(* the maps without taking that lock.  A write may always be refused by    *)
(* the kernel; deleting an absent key fails.                               *)
(***************************************************************************)
EXTENDS Integers, FiniteSets

CONSTANTS Holder, FileID,
          NumPages,   \* the stack delta pages of a file, 0: no deltas at all
          NoFile, NoHolder

ASSUME ExecAssumption == /\ IsFiniteSet(Holder) /\ IsFiniteSet(FileID)
                         /\ NumPages \in [FileID -> Nat]
                         /\ NoFile \notin FileID /\ NoHolder \notin Holder

VARIABLES
  executables,            \* the file IDs with an entry
  rc,                     \* the entries' reference counts
  numStackDeltaMapPages,
  exeIDToStackDeltas,     \* eBPF: the inner map of a file ID and its contents
  stackDeltaPageToInfo,   \* eBPF: the <<file ID, page>> keys present
  lock,                   \* the holder inside the write lock, or NoHolder
  pc, file, op, page, err \* each holder's position in its call

eimVars == <<executables, rc, numStackDeltaMapPages>>
mapVars == <<exeIDToStackDeltas, stackDeltaPageToInfo>>
callVars == <<pc, file, op, page, err>>
vars == <<eimVars, mapVars, lock, callVars>>

Pages(f) == {<<f, i>> : i \in 0..NumPages[f]-1}
PageKey == UNION {Pages(f) : f \in FileID}

Init == /\ executables = {}
        /\ rc = [f \in FileID |-> 0]
        /\ numStackDeltaMapPages = 0
        /\ exeIDToStackDeltas = [f \in FileID |-> "absent"]
        /\ stackDeltaPageToInfo = {}
        /\ lock = NoHolder
        /\ pc = [h \in Holder |-> "idle"]
        /\ file = [h \in Holder |-> NoFile]
        /\ op = [h \in Holder |-> "ref"]
        /\ page = [h \in Holder |-> 0]
        /\ err = [h \in Holder |-> FALSE]

Goto(h, l) == pc' = [pc EXCEPT ![h] = l]

\* The call of h returns without a reference.
ReturnEmpty(h) == /\ Goto(h, "idle")
                  /\ file' = [file EXCEPT ![h] = NoFile]
                  /\ op' = [op EXCEPT ![h] = "ref"]
                  /\ page' = [page EXCEPT ![h] = 0]
                  /\ err' = [err EXCEPT ![h] = FALSE]

\* The call of h returns with a reference on f.
ReturnHolding(h, f, o) == /\ Goto(h, "holding")
                          /\ file' = [file EXCEPT ![h] = f]
                          /\ op' = [op EXCEPT ![h] = o]
                          /\ page' = [page EXCEPT ![h] = 0]
                          /\ UNCHANGED err

SetInner(f, c) == exeIDToStackDeltas' = [exeIDToStackDeltas EXCEPT ![f] = c]

\* A new entry with one reference.
InsertEntry(f) == /\ executables' = executables \cup {f}
                  /\ rc' = [rc EXCEPT ![f] = 1]

\* Another reference on an entry that is there.
IncRef(h, f) == /\ rc' = [rc EXCEPT ![f] = @ + 1]
                /\ ReturnHolding(h, f, "ref")
                /\ UNCHANGED <<executables, numStackDeltaMapPages, mapVars, lock>>

\* loadDeltas without deltas: an entry without data in the eBPF maps.
InsertWithoutDeltas(h, f, o) ==
  /\ NumPages[f] = 0
  /\ InsertEntry(f)
  /\ ReturnHolding(h, f, o)
  /\ UNCHANGED <<numStackDeltaMapPages, mapVars, lock>>

\* loadDeltas with deltas: h goes on inside the lock.
StartLoading(h, f, o) ==
  /\ NumPages[f] > 0
  /\ lock' = h
  /\ Goto(h, "loading")
  /\ file' = [file EXCEPT ![h] = f]
  /\ op' = [op EXCEPT ![h] = o]
  /\ UNCHANGED <<eimVars, mapVars, page, err>>

----------------------------------------------------------------------------
\* The fast path, or the lock is dropped again to extract the intervals.
AddOrIncRef(h, f) ==
  /\ pc[h] = "idle" /\ lock = NoHolder
  /\ \/ /\ f \in executables
        /\ IncRef(h, f)
     \/ /\ f \notin executables
        /\ Goto(h, "extracting")
        /\ file' = [file EXCEPT ![h] = f]
        /\ UNCHANGED <<eimVars, mapVars, lock, op, page, err>>

\* GetIntervalStructuresForFile returns an error.
ExtractionFails(h) ==
  /\ pc[h] = "extracting"
  /\ ReturnEmpty(h)
  /\ UNCHANGED <<eimVars, mapVars, lock>>

\* A plausible bug: the entry is not looked up again under the second lock.
RelockBlind(h) ==
  /\ pc[h] = "extracting" /\ lock = NoHolder
  /\ \/ InsertWithoutDeltas(h, file[h], "ref")
     \/ StartLoading(h, file[h], "ref")

\* The lock is taken again; another thread may have inserted the entry.
Relock(h) ==
  /\ pc[h] = "extracting" /\ lock = NoHolder
  /\ \/ file[h] \in executables /\ IncRef(h, file[h])
     \/ file[h] \notin executables /\ InsertWithoutDeltas(h, file[h], "ref")
     \/ file[h] \notin executables /\ StartLoading(h, file[h], "ref")

\* It is an error if the entry exists, and the call then changes nothing.
AddSynthIntervalData(h, f) ==
  /\ pc[h] = "idle" /\ lock = NoHolder
  /\ f \notin executables
  /\ \/ InsertWithoutDeltas(h, f, "synth")
     \/ StartLoading(h, f, "synth")

----------------------------------------------------------------------------
\* loadDeltas under the lock.

\* The unwind info array is full, the inner map cannot be created, or the
\* outer map refuses the key: nothing has been written.
LoadFails(h) ==
  /\ pc[h] = "loading"
  /\ lock' = NoHolder
  /\ ReturnEmpty(h)
  /\ UNCHANGED <<eimVars, mapVars>>

\* UpdateExeIDToStackDeltas puts the inner map into the outer map, where the
\* key must be new, before it fills the inner map.
InsertOuter(h) ==
  /\ pc[h] = "loading"
  /\ exeIDToStackDeltas[file[h]] = "absent"
  /\ SetInner(file[h], "empty")
  /\ Goto(h, "filling")
  /\ UNCHANGED <<eimVars, stackDeltaPageToInfo, lock, file, op, page, err>>

\* The inner map refuses a delta; the outer entry stays.
FillFails(h) ==
  /\ pc[h] = "filling"
  /\ lock' = NoHolder
  /\ ReturnEmpty(h)
  /\ UNCHANGED <<eimVars, mapVars>>

FillInner(h) ==
  /\ pc[h] = "filling"
  /\ SetInner(file[h], "filled")
  /\ Goto(h, "paging")
  /\ UNCHANGED <<eimVars, stackDeltaPageToInfo, lock, file, op, page, err>>

\* UpdateStackDeltaPages, one key: the key must be new.
InsertPage(h) ==
  /\ pc[h] = "paging" /\ page[h] < NumPages[file[h]]
  /\ <<file[h], page[h]>> \notin stackDeltaPageToInfo
  /\ stackDeltaPageToInfo' = stackDeltaPageToInfo \cup {<<file[h], page[h]>>}
  /\ page' = [page EXCEPT ![h] = @ + 1]
  /\ UNCHANGED <<eimVars, exeIDToStackDeltas, lock, pc, file, op, err>>

\* A key is refused.  The clean-up deletes from the outer map of ref.MapID,
\* and ref is still the zero mapRef: there is no such map and nothing happens.
InsertPageFails(h) ==
  /\ pc[h] = "paging" /\ page[h] < NumPages[file[h]]
  /\ lock' = NoHolder
  /\ ReturnEmpty(h)
  /\ UNCHANGED <<eimVars, mapVars>>

\* A plausible bug: the loop over the pages stops one short.
PublishEarly(h) ==
  /\ pc[h] = "paging" /\ page[h] + 1 = NumPages[file[h]]
  /\ numStackDeltaMapPages' = numStackDeltaMapPages + NumPages[file[h]]
  /\ InsertEntry(file[h])
  /\ lock' = NoHolder
  /\ ReturnHolding(h, file[h], op[h])
  /\ UNCHANGED mapVars

\* All pages are in: they are counted, the interpreter is detected and the
\* entry is inserted.
Publish(h) ==
  /\ pc[h] = "paging" /\ page[h] = NumPages[file[h]]
  /\ numStackDeltaMapPages' = numStackDeltaMapPages + NumPages[file[h]]
  /\ InsertEntry(file[h])
  /\ lock' = NoHolder
  /\ ReturnHolding(h, file[h], op[h])
  /\ UNCHANGED mapVars

----------------------------------------------------------------------------
\* A plausible bug: the entry goes although another reference remains.
DecRefTooFar(h) ==
  LET f == file[h] IN
  /\ pc[h] = "holding" /\ op[h] = "ref" /\ lock = NoHolder
  /\ f \in executables /\ rc[f] > 1
  /\ executables' = IF rc[f] = 2 THEN executables \ {f} ELSE executables
  /\ rc' = [rc EXCEPT ![f] = @ - 1]
  /\ ReturnEmpty(h)
  /\ UNCHANGED <<numStackDeltaMapPages, mapVars, lock>>

\* RemoveOrDecRef: not the last reference.  The two error returns (unknown
\* file, count already 0) change nothing.
DecRef(h) ==
  LET f == file[h] IN
  /\ pc[h] = "holding" /\ op[h] = "ref" /\ lock = NoHolder
  /\ ~(f \in executables /\ rc[f] = 1)
  /\ rc' = IF f \in executables /\ rc[f] > 1 THEN [rc EXCEPT ![f] = @ - 1] ELSE rc
  /\ ReturnEmpty(h)
  /\ UNCHANGED <<executables, numStackDeltaMapPages, mapVars, lock>>

\* RemoveOrDecRef: the last reference.  unloadDeltas has nothing to do for an
\* entry without map data, and otherwise goes on inside the lock.
RemoveRef(h) ==
  LET f == file[h] IN
  /\ pc[h] = "holding" /\ op[h] = "ref" /\ lock = NoHolder
  /\ f \in executables /\ rc[f] = 1
  /\ \/ /\ NumPages[f] = 0
        /\ executables' = executables \ {f}
        /\ rc' = [rc EXCEPT ![f] = 0]
        /\ ReturnEmpty(h)
        /\ UNCHANGED <<numStackDeltaMapPages, mapVars, lock>>
     \/ /\ NumPages[f] > 0
        /\ lock' = h
        /\ Goto(h, "unpaging")
        /\ UNCHANGED <<eimVars, mapVars, file, op, page, err>>

\* A plausible bug: the deltas go before the pages that refer to them.
DeletePageAfterOuter(h) ==
  LET key == <<file[h], page[h]>> IN
  /\ pc[h] = "unpaging" /\ page[h] < NumPages[file[h]]
  /\ SetInner(file[h], "absent")
  /\ stackDeltaPageToInfo' = stackDeltaPageToInfo \ {key}
  /\ err' = [err EXCEPT ![h] = @ \/ key \notin stackDeltaPageToInfo]
  /\ page' = [page EXCEPT ![h] = @ + 1]
  /\ UNCHANGED <<eimVars, lock, pc, file, op>>

\* unloadDeltas deletes the pages one by one and remembers failures.
DeletePage(h) ==
  LET key == <<file[h], page[h]>> IN
  /\ pc[h] = "unpaging" /\ page[h] < NumPages[file[h]]
  /\ stackDeltaPageToInfo' = stackDeltaPageToInfo \ {key}
  /\ err' = [err EXCEPT ![h] = @ \/ key \notin stackDeltaPageToInfo]
  /\ page' = [page EXCEPT ![h] = @ + 1]
  /\ UNCHANGED <<eimVars, exeIDToStackDeltas, lock, pc, file, op>>

\* The pages are gone: the count drops, the outer entry goes, and so does the
\* entry unless a deletion failed.
FinishUnload(h) ==
  LET f == file[h]
      failed == err[h] \/ exeIDToStackDeltas[f] = "absent"
  IN
  /\ pc[h] = "unpaging" /\ page[h] = NumPages[f]
  /\ numStackDeltaMapPages' = numStackDeltaMapPages - NumPages[f]
  /\ SetInner(f, "absent")
  /\ executables' = IF failed THEN executables ELSE executables \ {f}
  /\ rc' = IF failed THEN rc ELSE [rc EXCEPT ![f] = 0]
  /\ lock' = NoHolder
  /\ ReturnEmpty(h)
  /\ UNCHANGED stackDeltaPageToInfo

----------------------------------------------------------------------------
Load(h) == \/ LoadFails(h) \/ InsertOuter(h) \/ FillFails(h) \/ FillInner(h)
           \/ InsertPage(h) \/ InsertPageFails(h) \/ Publish(h)

Unload(h) == \/ DecRef(h) \/ RemoveRef(h)
             \/ DeletePage(h) \/ FinishUnload(h)

Next == \E h \in Holder :
          \/ \E f \in FileID : AddOrIncRef(h, f) \/ AddSynthIntervalData(h, f)
          \/ ExtractionFails(h) \/ Relock(h)
          \/ Load(h) \/ Unload(h)

Spec == Init /\ [][Next]_vars

----------------------------------------------------------------------------
\* Every variable has its type.
TypeOK ==
  /\ executables \subseteq FileID
  /\ rc \in [FileID -> Nat]
  /\ numStackDeltaMapPages \in Nat
  /\ exeIDToStackDeltas \in [FileID -> {"absent", "empty", "filled"}]
  /\ stackDeltaPageToInfo \subseteq PageKey
  /\ lock \in Holder \cup {NoHolder}
  /\ pc \in [Holder -> {"idle", "extracting", "loading", "filling", "paging",
                        "holding", "unpaging"}]
  /\ file \in [Holder -> FileID \cup {NoFile}]
  /\ op \in [Holder -> {"ref", "synth"}]
  /\ page \in [Holder -> Nat]
  /\ err \in [Holder -> BOOLEAN]

\* The holders with a reference on f.
HoldersOf(f) == {h \in Holder : pc[h] \in {"holding", "unpaging"} /\ file[h] = f}

\* The reference count of an executable is the number of callers that hold a
\* reference, whatever happened while AddOrIncRef had dropped the lock, and a
\* file without an entry is held by nobody.  RemoveOrDecRef's two error
\* returns are therefore unreachable.
CountsHolders ==
  \A f \in FileID : IF f \in executables
                    THEN rc[f] > 0 /\ rc[f] = Cardinality(HoldersOf(f))
                    ELSE rc[f] = 0 /\ HoldersOf(f) = {}

\* While somebody holds a reference, the unwinder finds all stack delta data
\* of the executable; only the last RemoveOrDecRef takes it away.
KnownIsUsable ==
  \A f \in executables :
    \/ NumPages[f] = 0
    \/ \E h \in Holder : pc[h] = "unpaging" /\ file[h] = f
    \/ exeIDToStackDeltas[f] = "filled" /\ Pages(f) \subseteq stackDeltaPageToInfo

\* The unwinder, which looks up a page and then the inner map it refers to,
\* never finds a page whose inner map is missing or not yet filled: pages are
\* inserted last and deleted first.
PagesHaveDeltas ==
  \A k \in stackDeltaPageToInfo : exeIDToStackDeltas[k[1]] = "filled"

\* Whenever the lock is free, the page counter is the number of pages of the
\* executables with an entry; in particular it never underflows.
PagesCounted ==
  lock = NoHolder =>
    numStackDeltaMapPages = Cardinality(UNION {Pages(f) : f \in executables})

\* The manager with its locks, counts and eBPF maps implements leases: an
\* executable is known exactly while it is referenced.
Leases == INSTANCE ExecLeases
            WITH known <- executables,
                 lease <- [h \in Holder |-> IF pc[h] \in {"holding", "unpaging"}
                                            THEN file[h] ELSE NoFile]
ImplementsLeases == Leases!LSpec
=============================================================================
