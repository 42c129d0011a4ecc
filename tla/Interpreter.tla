----------------------------- MODULE Interpreter -----------------------------
(***************************************************************************)
(* What the interpreter plugins share (interpreter/types.go,               *)
(* libpf/successfailurecounter and the LRU caches of their instances).     *)
(*                                                                         *)
(* mem is what the process has at each address a plugin may read, or None  *)
(* where reading fails; a call reads several addresses, and an exiting     *)
(* process loses them one by one.  A call works on a record                *)
(*   [inst, data, trace, meta, ok]                                         *)
(* of the instance, the data of its file (which all instances of the file  *)
(* share), the frames appended to the trace, the frames that FrameMetadata *)
(* was called for, and whether it has come to an error.                    *)
(***************************************************************************)
EXTENDS Integers, Sequences, FiniteSets, SequencesExt

CONSTANTS None,
          CacheSize   \* LruFunctionCacheSize and the like

LRU == INSTANCE LRUCache

\* The null pointer.
Null == "null"

Call(inst, data) ==
  [inst |-> inst, data |-> data, trace |-> << >>, meta |-> {}, ok |-> TRUE]

Fail(r) == [r EXCEPT !.ok = FALSE]

\* AppendFrame, with FrameMetadata unless the frame was seen before.
Emit(r, f, seen) == [r EXCEPT !.trace = Append(@, f),
                              !.meta = IF seen THEN @ ELSE @ \cup {f}]

\* A lookup by address: the cached value, or else the value read, which is
\* cached.  A failed read is not cached.
Through(cache, key, val) ==
  IF key \in LRU!Keys(cache)
  THEN [ok |-> TRUE, val |-> LRU!Peek(cache, key), cache |-> LRU!Get(cache, key)]
  ELSE IF val = None
  THEN [ok |-> FALSE, val |-> None, cache |-> cache]
  ELSE [ok |-> TRUE, val |-> val, cache |-> LRU!Add(cache, CacheSize, key, val)]


\* ReportSuccess, or else the deferred DefaultToFailure: exactly one of them.
Count(r) == [r EXCEPT !.inst.succ = IF r.ok THEN @ + 1 ELSE @,
                      !.inst.fail = IF r.ok THEN @ ELSE @ + 1]

\* What Symbolize returns: the call is counted, and an error handed to the caller.
Outcome(r) == [r |-> Count(r), err |-> ~r.ok]

\* The counters of an instance are swapped with zero, and given to the metrics.
ResetMetrics(inst) == [inst EXCEPT !.succ = 0, !.fail = 0]

\* Inserting the prefixes of an area one by one, the first of which are
\* smallest; those of the instance are skipped.  At most n insertions succeed.
InsertPrefixes(prefixes, area, n) ==
  LET new == area \ prefixes
      done == {p \in new : Cardinality({q \in new : q <= p}) <= n}
  IN  [prefixes |-> prefixes \cup done, left |-> n - Cardinality(done), ok |-> done = new]
=============================================================================
