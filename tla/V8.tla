--------------------------------- MODULE V8 ----------------------------------
(***************************************************************************)
(* interpreter/nodev8: the plugin for the V8 engine of Node.js (how it     *)
(* follows the mappings of the process is in ProcessManager).              *)
(*                                                                         *)
(* Memory: every object has a type.  A SharedFunctionInfo (SFI) has the    *)
(* address of its name, its bytecode with a length and the Script; a Code  *)
(* has a cookie and its positions: for a Baseline Code the bytecode        *)
(* offset, or else the chain of the calls inlined there, from the          *)
(* innermost one to the function itself, each [sfi, line, external,        *)
(* rising] with sfi = None for the function's own and rising if the next   *)
(* one has a larger inlining ID, which no table should have; a JSFunction  *)
(* has its SFI and Code.                                                   *)
(***************************************************************************)
EXTENDS Interpreter

\* Native positions are reported as line numbers above every bytecode offset.
nativeCodeBaseAddress == 100

MaxFrameType == 3

\* readIntrospectionData: most of the fields have a default, those of Code from
\* one another.
CodeFields == {"DeoptimizationData", "SourcePositionTable", "InstructionStart", "InstructionSize",
               "Flags"}
ReadIntrospectionData(elf) ==
  LET found == CodeFields \ elf.missing
      known == IF "InstructionSize" \in found
               THEN found \cup {"SourcePositionTable", "Flags", "DeoptimizationData"}
               ELSE IF "SourcePositionTable" \in found THEN CodeFields ELSE found
  IN  CodeFields \subseteq known /\ "introspection" \notin elf.missing

\* Loader: the symbols of the version (the smallest one, 0x080100, is below all
\* that there are), the introspection data, the tagging scheme and the offsets
\* from the frame pointer (mapFramePointerOffset).
V8Loads(elf) == {"elf", "version", "tagging", "framepointer"} \cap elf.missing = {}
                  /\ ReadIntrospectionData(elf)

\* Only the range of the snapshot is registered, when there is one.
V8Registers(elf) == "snapshot" \notin elf.missing

V8Data == [frametypeToID |-> {}, externalStubID |-> FALSE]

\* Attach: process data, and then the caches.
V8Attach == [succ |-> 0, fail |-> 0, prefixes |-> {},
             addrToString |-> << >>, addrToSource |-> << >>,
             addrToSFI |-> << >>, addrToCode |-> << >>,
             sfis |-> << >>, codes |-> << >>]   \* the v8SFI and v8Code objects

\* Detach
V8Detach(inst, bpf) == [proc |-> bpf.proc \ {"v8"}, pages |-> bpf.pages \ inst.prefixes]

\* GetAndResetMetrics
V8Metrics(inst) == ResetMetrics(inst)

\* getObjectAddrAndType and getTypedObject
IsObject(mem, a, type) == IF mem[a] = None THEN FALSE ELSE mem[a].type = type

\* extractString of an object: only strings of one byte characters are read.
ExtractString(mem, a) == IF IsObject(mem, a, "String") THEN mem[a].val ELSE None

\* getString
GetString(r, mem, a) ==
  LET l == Through(r.inst.addrToString, a, ExtractString(mem, a))
  IN  [r |-> [r EXCEPT !.inst.addrToString = l.cache], ok |-> l.ok, val |-> l.val]

\* getSource: cached even when its name and lines cannot be read.
GetSource(r, mem, a) ==
  LET l == Through(r.inst.addrToSource, a,
                   IF mem[a] = None THEN [lines |-> FALSE] ELSE [lines |-> TRUE])
  IN  [r |-> [r EXCEPT !.inst.addrToSource = l.cache], val |-> l.val]

\* analyzeScopeInfo looks for the name in the ScopeInfo, and may find none.
AnalyzeScopeInfo(name) == [r |-> name.r, val |-> IF name.ok THEN name.val ELSE "<anonymous>"]

\* The name is a string or in a ScopeInfo.
FunctionName(r, mem, a) ==
  LET Named(s) == [r |-> s.r, val |-> IF s.ok THEN s.val ELSE "<error>"] IN
  IF IsObject(mem, a, "ScopeInfo") THEN AnalyzeScopeInfo(GetString(r, mem, mem[a].name))
  ELSE Named(GetString(r, mem, a))

\* getSFI: source and lines may be missing.
NewSFI(name, src, mem, a) ==
  LET n == Len(src.r.inst.sfis) + 1
      sfi == [id |-> <<name.val, mem[a].tok>>,
              len |-> mem[a].len, lines |-> src.val.lines, seen |-> {}]
  IN  [s |-> n, r |-> [src.r EXCEPT !.inst.sfis = Append(@, sfi),
                                    !.inst.addrToSFI = LRU!Add(@, CacheSize, a, n)]]

\* The name is found first, and remembered even if the bytecode cannot be read.
NamedSFI(name, mem, a) ==
  IF mem[mem[a].bytecode] = None THEN [r |-> Fail(name.r), s |-> 0]
  ELSE NewSFI(name, GetSource(name.r, mem, mem[a].script), mem, a)

GetSFI(r, mem, a) ==
  LET cached == Through(r.inst.addrToSFI, a, None) IN
  IF cached.ok THEN [r |-> [r EXCEPT !.inst.addrToSFI = cached.cache], s |-> cached.val]
  ELSE IF ~IsObject(mem, a, "SFI") THEN [r |-> Fail(r), s |-> 0]
  ELSE IF mem[mem[a].name] = None THEN [r |-> Fail(r), s |-> 0]
  ELSE NamedSFI(FunctionName(r, mem, mem[a].name), mem, a)

\* readCode: the SFI is that of the JSFunction, or else the Code's own, which a
\* Baseline Code does not have.
NewCode(sfi, mem, a, cookie) ==
  LET n == Len(sfi.r.inst.codes) + 1
      code == [cookie |-> cookie, sfi |-> sfi.s, isBaseline |-> mem[a].isBaseline,
               positions |-> mem[a].positions, seen |-> {}]
  IN  IF ~sfi.r.ok THEN [r |-> sfi.r, c |-> 0]
      ELSE [c |-> n, r |-> [sfi.r EXCEPT !.inst.codes = Append(@, code),
                                         !.inst.addrToCode = LRU!Add(@, CacheSize, a, n)]]

ReadCode(r, mem, a, cookie, s) ==
  IF ~IsObject(mem, a, "Code") THEN [r |-> Fail(r), c |-> 0]
  ELSE IF mem[a].isBaseline /\ s = 0 THEN [r |-> Fail(r), c |-> 0]
  ELSE NewCode(IF s # 0 THEN [r |-> r, s |-> s] ELSE GetSFI(r, mem, mem[a].sfi), mem, a, cookie)

\* The entry of the pointer, unless it has another cookie: then it is removed.
CachedCode(r, a, cookie) ==
  LET cached == Through(r.inst.addrToCode, a, None)
      fresh == cached.ok /\ r.inst.codes[cached.val].cookie = cookie
  IN  [c |-> IF fresh THEN cached.val ELSE 0,
       r |-> [r EXCEPT !.inst.addrToCode = IF fresh THEN cached.cache ELSE LRU!Remove(@, a)]]

\* getCode
CodeOr(cached, mem, a, cookie) ==
  IF cached.c # 0 THEN cached ELSE ReadCode(cached.r, mem, a, cookie, 0)

GetCode(r, mem, a, cookie) == CodeOr(CachedCode(r, a, cookie), mem, a, cookie)

\* getCodeFromJSFunc: looked up by JSFunction, cached by Code.
CodeOfSFI(sfi, mem, a, cookie) ==
  IF ~sfi.r.ok THEN [r |-> sfi.r, c |-> 0]
  ELSE ReadCode(sfi.r, mem, mem[a].code, cookie, sfi.s)

JSFuncCodeOr(cached, mem, a, cookie) ==
  IF cached.c # 0 THEN cached
  ELSE IF mem[a] = None THEN [r |-> Fail(cached.r), c |-> 0]
  ELSE CodeOfSFI(GetSFI(cached.r, mem, mem[a].sfi), mem, a, cookie)

GetCodeFromJSFunc(r, mem, a, cookie) == JSFuncCodeOr(CachedCode(r, a, cookie), mem, a, cookie)

\* generateNativeFrame
GenerateNativeFrame(r, pos, s, seen) ==
  LET sfi == r.inst.sfis[s] IN
  IF pos.external
  THEN [Emit(r, <<<<"stubs", "external">>, 0>>, r.data.externalStubID) EXCEPT !.data.externalStubID = TRUE]
  ELSE Emit(r, <<sfi.id, nativeCodeBaseAddress + (IF sfi.lines THEN pos.line ELSE 0)>>, seen)

\* symbolizeBytecode
SymbolizeBytecode(r, s, delta) ==
  LET sfi == r.inst.sfis[s]
  IN  [Emit(r, <<sfi.id, delta>>, delta \in sfi.seen) EXCEPT !.inst.sfis[s].seen = @ \cup {delta}]

\* symbolizeSFI: a bytecode offset beyond the bytecode is reported as such.
SymbolizeSFI(got, delta) ==
  IF ~got.r.ok THEN got.r
  ELSE SymbolizeBytecode(got.r, got.s, IF delta >= got.r.inst.sfis[got.s].len
                                       THEN nativeCodeBaseAddress - 1 ELSE delta)

\* symbolizeBaselineCode
SymbolizeBaselineCode(r, c, delta) ==
  LET code == r.inst.codes[c]
      b == code.positions[delta]
      marked == [r EXCEPT !.inst.codes[c].seen = @ \cup {delta}]
  IN  IF delta \in code.seen THEN Emit(r, <<r.inst.sfis[code.sfi].id, b>>, TRUE)
      ELSE SymbolizeBytecode(marked, code.sfi, b)

\* symbolizeCode: the offset is remembered first, and then the calls inlined
\* there are expanded; the position of a return address is that of the call.
InlinedCall(r, got, pos, seen) ==
  IF ~r.ok THEN r
  ELSE IF ~got.r.ok THEN got.r
  ELSE [GenerateNativeFrame(got.r, pos, got.s, seen) EXCEPT !.ok = ~pos.rising]

SymbolizeCode(got, mem, pc) ==
  LET r == got.r
      code == r.inst.codes[got.c]
      delta == IF r.trace # << >> /\ pc > 0 THEN pc - 1 ELSE pc
      seen == delta \in code.seen
      SFIOf(acc, pos) == IF pos.sfi = None THEN [r |-> acc, s |-> code.sfi] ELSE GetSFI(acc, mem, pos.sfi)
  IN  IF ~r.ok THEN r
      ELSE IF code.isBaseline THEN SymbolizeBaselineCode(r, got.c, delta)
      ELSE FoldLeft(LAMBDA acc, pos : InlinedCall(acc, SFIOf(acc, pos), pos, seen),
                    [r EXCEPT !.inst.codes[got.c].seen = @ \cup {delta}], code.positions[delta])

\* symbolizeMarkerFrame: the file's data remembers which markers are known.
SymbolizeMarker(r, marker) ==
  IF marker >= MaxFrameType THEN Fail(r)
  ELSE [Emit(r, <<<<"stubs", "marker">>, marker>>, marker \in r.data.frametypeToID)
          EXCEPT !.data.frametypeToID = @ \cup {marker}]

\* Symbolize
V8Symbolize(r, mem, f) ==
  Outcome(CASE f.sub = "marker" -> SymbolizeMarker(r, f.pos)
            [] f.sub = "sfi" -> SymbolizeSFI(GetSFI(r, mem, f.ptr), f.pos)
            [] f.sub = "code" -> SymbolizeCode(GetCode(r, mem, f.ptr, f.check), mem, f.pos)
            [] f.sub = "jsfunc" -> SymbolizeCode(GetCodeFromJSFunc(r, mem, f.ptr, f.check), mem, f.pos))
=============================================================================
