------------------------------- MODULE Python --------------------------------
(***************************************************************************)
(* interpreter/python: the plugin for CPython.                             *)
(*                                                                         *)
(* Memory: a PyCodeObject has the addresses of its names and of its line   *)
(* table, and the checksum of its fields that eBPF sends with a frame.     *)
(***************************************************************************)
EXTENDS Interpreter

\* decodeStub of PyGILState_GetThisThreadState
DecodeStub(elf) == "autoTLSKey" \notin elf.missing

\* readIntrospectionData of a type
ReadTypeData(elf, type) == type \notin elf.missing

\* Loader: the main program is passed over when it needs libpython, Python 3.6 to
\* 3.11 are supported, and one of two symbols is the interpreter loop.
PythonLoads(elf) ==
  /\ {"elf", "needed"} \cap elf.missing = {}
  /\ elf.version \in 6..11
  /\ elf.version >= 7 => "_PyRuntime" \notin elf.missing
  /\ DecodeStub(elf)
  /\ {"_PyEval_EvalFrameDefault", "PyEval_EvalFrameEx"} \ elf.missing # {}
  /\ \A type \in {"PyCode_Type", "PyFrame_Type", "PyBytes_Type"} : ReadTypeData(elf, type)

\* Attach: no process data yet.
PythonAttach == [succ |-> 0, fail |-> 0, addrToCodeObject |-> << >>,
                 codeObjects |-> << >>,    \* the pythonCodeObject objects
                 procInfoInserted |-> FALSE]

\* UpdateTSDInfo, n updates of eBPF maps work.
PythonUpdateTSDInfo(inst, bpf, n) ==
  IF n = 0 THEN [inst |-> inst, bpf |-> bpf]
  ELSE [inst |-> [inst EXCEPT !.procInfoInserted = TRUE],
        bpf |-> [bpf EXCEPT !.proc = @ \cup {"python"}]]

\* Detach
PythonDetach(inst, bpf) ==
  [bpf EXCEPT !.proc = IF inst.procInfoInserted THEN @ \ {"python"} ELSE @]

\* GetAndResetMetrics
PythonMetrics(inst) == ResetMetrics(inst)

\* A plausible bug: what is cached for the address is used for any checksum.
CodeObjectUnchecked(r, mem, a, check) ==
  LET cached == Through(r.inst.addrToCodeObject, a, None)
      got == [r EXCEPT !.inst.addrToCodeObject = cached.cache]
      n == Len(r.inst.codeObjects) + 1
      pco == [id |-> <<mem[mem[a].name].val, mem[a].tok>>, check |-> check, seen |-> {}]
  IN  IF cached.ok THEN [r |-> got, m |-> cached.val]
      ELSE IF mem[a] = None THEN [r |-> Fail(got), m |-> 0]
      ELSE IF mem[mem[a].name] = None \/ mem[a].check # check \/ mem[mem[a].lineTable] = None
      THEN [r |-> Fail(got), m |-> 0]
      ELSE [m |-> n, r |-> [got EXCEPT !.inst.codeObjects = Append(@, pco),
                                       !.inst.addrToCodeObject = LRU!Add(@, CacheSize, a, n)]]

\* getCodeObject: cached or read, the checksum has to be that of the frame.
GetCodeObject(r, mem, a, check) ==
  LET cached == Through(r.inst.addrToCodeObject, a, None)
      got == [r EXCEPT !.inst.addrToCodeObject = cached.cache]
      hit == cached.ok /\ r.inst.codeObjects[cached.val].check = check
      n == Len(r.inst.codeObjects) + 1
      pco == [id |-> <<mem[mem[a].name].val, mem[a].tok>>, check |-> check, seen |-> {}]
  IN  IF hit THEN [r |-> got, m |-> cached.val]
      ELSE IF mem[a] = None THEN [r |-> Fail(got), m |-> 0]
      ELSE IF mem[mem[a].name] = None \/ mem[a].check # check \/ mem[mem[a].lineTable] = None
      THEN [r |-> Fail(got), m |-> 0]
      ELSE [m |-> n, r |-> [got EXCEPT !.inst.codeObjects = Append(@, pco),
                                       !.inst.addrToCodeObject = LRU!Add(@, CacheSize, a, n)]]

\* pythonCodeObject.symbolize
CodeObjectSymbolize(got, bci) ==
  LET o == got.r.inst.codeObjects[got.m] IN
  IF ~got.r.ok THEN got.r
  ELSE [Emit(got.r, <<o.id, bci>>, bci \in o.seen) EXCEPT !.inst.codeObjects[got.m].seen = @ \cup {bci}]

\* Symbolize
PythonSymbolize(r, mem, f) ==
  Outcome(CodeObjectSymbolize(GetCodeObject(r, mem, f.ptr, f.check), f.pos))
=============================================================================
