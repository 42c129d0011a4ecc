------------------------------- MODULE Hotspot -------------------------------
(***************************************************************************)
(* interpreter/hotspot: the plugin for the HotSpot JVM.                    *)
(*                                                                         *)
(* Memory: "types" and "structs" are the introspection tables (TRUE if all *)
(* the fields that are needed are there), "jdk" the version, "heaps" the   *)
(* code heaps [start, end, prefixes] (none while the VM starts), "stubs"   *)
(* the start addresses of the stub routines that are generated and the     *)
(* places where the padding after a routine ends, and those whose code is  *)
(* not understood; a code blob is the name of its stubs, a Symbol is a     *)
(* name, a Method has the address of its name, its code and its size, an   *)
(* nmethod its compile ID, its Method and its scopes [pc, chain], the      *)
(* chain of the inlined calls <<Method, bci + 1>> from the innermost on.   *)
(***************************************************************************)
EXTENDS Interpreter

CONSTANTS Arm64,       \* GOARCH
          MaxStubLen   \* in units of the alignment of code

----------------------------------------------------------------------------
\* The file, the instance and its mappings

\* resolveSymbols of a table: all its symbols or none.
ResolveSymbols(elf) == {"gHotSpotVMTypes", "gHotSpotVMStructs"} \cap elf.missing = {}

\* locateJvmciVMStructs, which the Loader can do without.
LocateJvmciVMStructs(elf) == "jvmciHotSpotVMStructs" \notin elf.missing

\* Loader.  The VM data is read from the first process that has it.
HotspotLoads(elf) == "elf" \notin elf.missing /\ ResolveSymbols(elf)
HotspotData(elf) == [vmd |-> None, jvmci |-> LocateJvmciVMStructs(elf)]

\* Attach does not touch the eBPF maps.
HotspotAttach == [succ |-> 0, fail |-> 0,
                  addrToSymbol |-> << >>, addrToMethod |-> << >>,
                  addrToJITInfo |-> << >>, addrToStubNameID |-> << >>,
                  methods |-> << >>,      \* the hotspotMethod objects
                  mainMappingsInserted |-> FALSE, prefixes |-> {},
                  heapAreas |-> {}, stubs |-> {}]

\* parseIntrospection of a table: None when it cannot be read, or else whether
\* it has the fields that are needed.
ParseIntrospection(mem, table) == mem[table]

\* initVMData: a table that cannot be read is tried again; later failures, an
\* unreadable version included, are permanent.
InitVMData(data, mem) ==
  LET tables == {"types", "structs"} \cup IF data.jvmci THEN {"jvmci"} ELSE {} IN
  IF \E t \in tables : ParseIntrospection(mem, t) = None THEN data
  ELSE [data EXCEPT !.vmd = [err |-> \/ mem["jdk"] = None \/ mem["jdk"] < 7
                                     \/ \E t \in tables : ~ParseIntrospection(mem, t)]]

\* gatherHeapInfo: none while the heaps are unreadable or not there yet.
GatherHeapInfo(mem) == IF mem["heaps"] = None THEN {} ELSE mem["heaps"]

\* populateMainMappings, once: the areas of the heaps are inserted (addJitArea)
\* and then the process data; n updates of eBPF maps work, the rest fail.
PopulateMainMappings(inst, bpf, mem, n) ==
  LET heaps == GatherHeapInfo(mem)
      ins == InsertPrefixes(inst.prefixes, UNION {h.prefixes : h \in heaps}, n)
      proc == ins.ok /\ ins.left > 0
  IN  IF inst.mainMappingsInserted \/ heaps = {}
      THEN [inst |-> inst, bpf |-> bpf, left |-> n]
      ELSE [inst |-> [inst EXCEPT !.prefixes = ins.prefixes,
                                  !.heapAreas = @ \cup {h \in heaps : h.prefixes \subseteq ins.prefixes},
                                  !.mainMappingsInserted = proc],
            bpf |-> [bpf EXCEPT !.pages = @ \cup ins.prefixes,
                                !.proc = IF proc THEN @ \cup {"hotspot"} ELSE @],
            left |-> ins.left - 1]

\* findStubBounds: a stub ends at the next one, at the first padding that is
\* aligned and after its start, or else after the largest length.
FindStubBounds(stubs) ==
  LET End(a) == Min({b \in stubs.starts : b > a} \cup {p \in stubs.padding : p > a /\ p < a + MaxStubLen}
                      \cup IF a = Max(stubs.starts) THEN {a + MaxStubLen - 1} ELSE {})
  IN  {s \in {[start |-> a, end |-> End(a)] : a \in stubs.starts} : s.end - s.start <= MaxStubLen}

\* analyzeStubArm64 fails on code that it cannot decode; otherwise it finds the
\* stack delta, which is not modelled.
AnalyzeStubArm64(stubs, start) == start \notin stubs.odd

\* jitAreaForStubArm64
JITAreaForStubArm64(stubs, stub) ==
  IF AnalyzeStubArm64(stubs, stub.start) THEN stub.start..(stub.end - 1) ELSE {}

\* updateStubMappings: a stub that is not known is recorded with its bounds, and
\* on ARM64 its area inserted; when that fails it is not tried again.
UpdateStubMappings(inst, bpf, mem, n) ==
  LET new == {s \in IF mem["stubs"] = None THEN {} ELSE FindStubBounds(mem["stubs"]) :
                \A t \in inst.stubs : t.start # s.start}
      inHeap == {s \in new : \E h \in inst.heapAreas : s.start >= h.start /\ s.end <= h.end}
      ins == IF Arm64 THEN InsertPrefixes(inst.prefixes, UNION {JITAreaForStubArm64(mem["stubs"], s) : s \in inHeap}, n)
             ELSE [prefixes |-> inst.prefixes, left |-> n, ok |-> TRUE]
  IN  [inst |-> [inst EXCEPT !.stubs = @ \cup new, !.prefixes = ins.prefixes],
       bpf |-> [bpf EXCEPT !.pages = @ \cup ins.prefixes]]

\* SynchronizeMappings
HotspotSync(inst, data, bpf, mem, n) ==
  LET d == IF data.vmd = None THEN InitVMData(data, mem) ELSE data
      main == PopulateMainMappings(inst, bpf, mem, n)
      stubs == UpdateStubMappings(main.inst, main.bpf, mem, main.left)
  IN  IF d.vmd = None THEN [inst |-> inst, data |-> d, bpf |-> bpf]
      ELSE IF d.vmd.err THEN [inst |-> inst, data |-> d, bpf |-> bpf]
      ELSE IF main.inst.mainMappingsInserted
      THEN [inst |-> stubs.inst, data |-> d, bpf |-> stubs.bpf]
      ELSE [inst |-> main.inst, data |-> d, bpf |-> main.bpf]

\* Detach
HotspotDetach(inst, bpf) ==
  [proc |-> IF inst.mainMappingsInserted THEN bpf.proc \ {"hotspot"} ELSE bpf.proc,
   pages |-> bpf.pages \ inst.prefixes]

----------------------------------------------------------------------------
\* Symbolization

\* GetAndResetMetrics
HotspotMetrics(inst) == ResetMetrics(inst)

\* getSymbol: the empty name when it cannot be read.
GetSymbol(r, mem, a) ==
  LET l == Through(r.inst.addrToSymbol, a, IF mem[a] = None THEN None ELSE mem[a].val)
  IN  [r |-> [r EXCEPT !.inst.addrToSymbol = l.cache], val |-> IF l.ok THEN l.val ELSE ""]

\* getPoolSymbol: index zero has no name.
GetPoolSymbol(r, mem, a) == IF a = Null THEN [r |-> r, val |-> ""] ELSE GetSymbol(r, mem, a)

\* getMethod: the cookie of the frame is not looked at.
NewMethod(name, mem, a) ==
  LET n == Len(name.r.inst.methods) + 1 IN
  [m |-> n,
   r |-> [name.r EXCEPT !.inst.methods = Append(@, [id |-> <<name.val, mem[a].tok>>,
                                                    size |-> mem[a].size, seen |-> {}]),
                        !.inst.addrToMethod = LRU!Add(@, CacheSize, a, n)]]

GetMethod(r, mem, a) ==
  LET cached == Through(r.inst.addrToMethod, a, None) IN
  IF cached.ok THEN [r |-> [r EXCEPT !.inst.addrToMethod = cached.cache], m |-> cached.val]
  ELSE IF mem[a] = None THEN [r |-> Fail(r), m |-> 0]
  ELSE NewMethod(GetPoolSymbol(r, mem, mem[a].name), mem, a)

\* A plausible bug: the metadata is sent once for a method, not for each index.
MethodSymbolizeOnce(r, m, bci) ==
  LET o == r.inst.methods[m]
      b == IF bci < o.size THEN bci ELSE 0
  IN  [Emit(r, <<o.id, b>>, o.seen # {}) EXCEPT !.inst.methods[m].seen = @ \cup {b}]

\* hotspotMethod.symbolize
MethodSymbolize(r, m, bci) ==
  LET o == r.inst.methods[m]
      b == IF bci < o.size THEN bci ELSE 0
  IN  [Emit(r, <<o.id, b>>, b \in o.seen) EXCEPT !.inst.methods[m].seen = @ \cup {b}]

\* getJITInfo: cached or read, the compile ID has to be that of the frame.
NewJITInfo(method, nmethod, a) ==
  LET jit == [compileID |-> nmethod.compileID, method |-> method.m, scopes |-> nmethod.scopes] IN
  IF ~method.r.ok THEN [r |-> method.r]
  ELSE [jit |-> jit,
        r |-> [method.r EXCEPT !.inst.addrToJITInfo = LRU!Add(@, CacheSize, a, jit)]]

GetJITInfo(r, mem, a, check) ==
  LET cached == Through(r.inst.addrToJITInfo, a, None)
      got == [r EXCEPT !.inst.addrToJITInfo = cached.cache]
  IN  IF cached.ok /\ cached.val.compileID = check THEN [r |-> got, jit |-> cached.val]
      ELSE IF mem[a] = None THEN [r |-> Fail(got)]
      ELSE IF mem[a].compileID # check THEN [r |-> Fail(got)]
      ELSE NewJITInfo(GetMethod(got, mem, mem[a].method), mem[a], a)

\* hotspotJITInfo.symbolize: the chain of the closest pc before rip, one frame
\* for each inlined Method, or else the method itself.
InlinedFrame(r, got, scope) ==
  IF ~r.ok THEN r
  ELSE IF ~got.r.ok THEN got.r
  ELSE MethodSymbolize(got.r, got.m, IF scope[2] > 0 THEN scope[2] - 1 ELSE 0)

JITSymbolize(r, mem, jit, rip) ==
  LET before == {k \in DOMAIN jit.scopes : jit.scopes[k].pc <= rip}
      best == CHOOSE k \in before : \A j \in before : jit.scopes[j].pc <= jit.scopes[k].pc
      chain == jit.scopes[best].chain
  IN  IF before = {} \/ chain = << >> THEN MethodSymbolize(r, jit.method, 0)
      ELSE FoldLeft(LAMBDA acc, s : InlinedFrame(acc, GetMethod(acc, mem, s[1]), s), r, chain)

\* getStubNameID: the name of the blob, and of the first known stub the pc is
\* in; what is cached for the blob is used for every pc in it.
StubSymbolize(r, mem, a, rip) ==
  LET cached == Through(r.inst.addrToStubNameID, a, None)
      name == IF mem[a] = None THEN "" ELSE mem[a].val
      in == {s \in r.inst.stubs : rip >= s.start /\ rip < s.end}
      id == <<<<"stubs", name>>, IF in = {} THEN 0 ELSE (CHOOSE s \in in : TRUE).start>>
  IN  IF cached.ok
      THEN Emit([r EXCEPT !.inst.addrToStubNameID = cached.cache], cached.val, TRUE)
      ELSE Emit([r EXCEPT !.inst.addrToStubNameID = LRU!Add(@, CacheSize, a, id)], id, FALSE)

\* Symbolize.  Only for a native frame does the caller learn of the failure to
\* find what the frame points to; for the other ones it is only counted.
Interpreted(got, bci) == IF got.r.ok THEN MethodSymbolize(got.r, got.m, bci) ELSE got.r
SymbolizeNative(info, mem, rip) == IF info.r.ok THEN JITSymbolize(info.r, mem, info.jit, rip) ELSE info.r

HotspotSymbolize(r, mem, f) ==
  CASE f.sub = "stub" -> [r |-> Count(StubSymbolize(r, mem, f.ptr, f.pos)), err |-> FALSE]
    [] f.sub = "interpreted" -> [r |-> Count(Interpreted(GetMethod(r, mem, f.ptr), f.pos)), err |-> FALSE]
    [] f.sub = "native" -> Outcome(SymbolizeNative(GetJITInfo(r, mem, f.ptr, f.check), mem, f.pos))
=============================================================================
