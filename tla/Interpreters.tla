---------------------------- MODULE Interpreters -----------------------------
(***************************************************************************)
(* An interpreter plugin at work: the file that holds the interpreter is   *)
(* loaded once, its processes come and go, and for each one the plugin's   *)
(* instance follows the process, turns the frames that the eBPF unwinders  *)
(* capture into symbolized ones, and reports metrics (interpreter/types.go *)
(* as processmanager calls it).  Which plugin it is, is chosen at the      *)
(* start.                                                                  *)
(*                                                                         *)
(* The memory of the process is read through what eBPF cannot hold still:  *)
(* between capturing and symbolizing, objects are replaced by others at    *)
(* the same address, and become unreadable for a while or for good.        *)
(***************************************************************************)
EXTENDS Hotspot, V8, Python, Ruby, Perl, PHP

CONSTANTS Langs,        \* plugins
          Reused,       \* addresses where an object may be replaced
          Unreadable,   \* addresses that may be unreadable
          Updates,      \* numbers of eBPF map updates that work in one call
          MaxTrace, MaxWrites, MaxProcesses,
          MaxWork       \* bounds the processes and the calls of Symbolize

ASSUME Langs \subseteq {"hotspot", "v8", "python", "ruby", "perl", "php"}

VARIABLES lang,
          elf,        \* the file before it is loaded, then None
          data,       \* interpreter.Data, or None
          offsets,    \* does eBPF have the file's interpreter offsets?
          now,        \* address -> which of its contents it has
          lost,       \* addresses that are unreadable
          inst, jit,  \* the process's instances: the plugin's, and opcache's
          bpf,        \* eBPF: kinds of process data, LPM prefixes of the pid
          pending,    \* captured frames of a trace, and what they point to
          trace,      \* its frames that are symbolized
          meta,       \* frames FrameMetadata was called for
          unsent,     \* frames in traces without metadata
          cut,        \* V8: code offsets memoized by a call that failed then
          stale,      \* was a frame symbolized as another function?
          calls,      \* of Symbolize
          collected,  \* counts taken from instances, for the metrics or at their end
          writes, processes

vars == <<lang, elf, data, offsets, now, lost, inst, jit, bpf, pending, trace, meta, unsent,
          cut, stale, calls, collected, writes, processes>>
memVars == <<now, lost, writes>>
traceVars == <<pending, trace>>
logVars == <<meta, unsent, cut, stale, calls>>
fileVars == <<lang, elf, data, offsets>>

ErrorFrame == <<<<"error", "">>, 0>>

----------------------------------------------------------------------------
\* Inputs: the files and the memory of their processes

Missing(needs) == {m \in SUBSET needs : Cardinality(m) <= 2}

ELFs(l) ==
  LET Files(versions, symbols) == [version : versions, missing : Missing(symbols)] IN
  CASE l = "hotspot" -> Files({0}, {"elf", "gHotSpotVMTypes", "gHotSpotVMStructs",
                                    "jvmciHotSpotVMStructs"})
    [] l = "v8" -> Files({0}, {"elf", "version", "introspection", "InstructionStart",
                               "InstructionSize", "SourcePositionTable", "tagging", "snapshot"})
    [] l = "python" -> Files({5, 6, 7, 12}, {"elf", "needed", "_PyRuntime", "autoTLSKey",
                             "_PyEval_EvalFrameDefault", "PyEval_EvalFrameEx", "PyCode_Type"})
    [] l = "ruby" -> Files({24, 25, 30, 33}, {"elf", "ruby_version", "ruby_exec_node", "rb_vm_exec"})
    [] l = "perl" -> Files({27, 28, 37}, {"elf", "needed", "PL_thr_key", "PL_curcop"})
    [] l \in {"php", "opcache"} -> Files({72, 80, 83}, {"elf", "X-Powered-By", "execute_ex",
                                  "zend_vm_kind", "zend_extension_entry", "zend_jit_unprotect"})

\* The contents an address has one after the other; tok tells functions apart.
AllContents ==
  LET text(s) == [val |-> s, tok |-> "", refs |-> {}]
      java(t) == [name |-> "name", tok |-> t, size |-> 2, refs |-> {"name"}]
      nmethod(id, m, s, r) == [compileID |-> id, method |-> m, scopes |-> s, tok |-> "", refs |-> r]
      sfi(t, name) == [type |-> "SFI", name |-> name, script |-> "script", len |-> 2, tok |-> t,
                       bytecode |-> "bytecode", refs |-> {"name", "scope", "script", "bytecode"}]
      inlined(s, line) == [sfi |-> s, line |-> line, external |-> FALSE, rising |-> FALSE]
      own(line) == inlined(None, line)
      code(c, b, s, p) == [type |-> "Code", cookie |-> c, isBaseline |-> b, sfi |-> s, tok |-> "",
                           positions |-> p, refs |-> IF s = "f" THEN {"f", "g"} ELSE {s}]
  IN
  [hotspot |->
         [types |-> <<TRUE>>, structs |-> <<TRUE, FALSE>>, jvmci |-> <<TRUE>>, jdk |-> <<17, 6>>,
          heaps |-> <<{}, {[start |-> 0, end |-> 8, prefixes |-> {100}],
                           [start |-> 8, end |-> 12, prefixes |-> {101}]}>>, name |-> <<text("name")>>, blob |-> <<text("blob")>>,
          stubs |-> <<[starts |-> {}, padding |-> {}, odd |-> {}],
                      [starts |-> {3}, padding |-> {6}, odd |-> {}],
                      [starts |-> {3, 4}, padding |-> {6}, odd |-> {4}]>>,
          method |-> <<java("F")>>, other |-> <<java("H"), java("H2")>>, inlined |-> <<[java("G") EXCEPT !.name = Null, !.refs = {}]>>,
          nm |-> <<nmethod(1, "method", <<[pc |-> 0, chain |-> << >>],
                                     [pc |-> 1, chain |-> <<<<"inlined", 2>>, <<"method", 2>>>>]>>, {"method", "inlined"}),
                   nmethod(2, "other", << >>, {"other"})>>],
   v8 |->
         [name |-> <<text("name") @@ [type |-> "String"]>>, script |-> <<text("script")>>,
          bytecode |-> <<text("bytecode")>>, f |-> <<sfi("F", "name")>>, g |-> <<sfi("G", "scope")>>,
          h |-> <<sfi("H", "name"), sfi("H2", "name")>>,
          scope |-> <<[type |-> "ScopeInfo", name |-> "name", tok |-> "", refs |-> {"name"}]>>,
          code |-> <<code(1, FALSE, "f", 0 :> <<own(1)>> @@ 1 :> <<inlined("g", 2), own(3)>>),
                     code(2, FALSE, "h", 0 :> <<[inlined("h", 4) EXCEPT !.rising = TRUE], own(4)>> @@
                                         1 :> <<[own(5) EXCEPT !.external = TRUE]>>)>>,
          baseline |-> <<code(3, TRUE, "f", 0 :> 0 @@ 1 :> 1)>>,
          jsfunc |-> <<[sfi |-> "f", code |-> "baseline", tok |-> "", refs |-> {"f", "baseline"}]>>],
   python |->
         [name |-> <<text("name")>>, lines |-> <<text("lines")>>,
          f |-> [k \in 1..2 |-> [name |-> "name", lineTable |-> "lines", check |-> k,
                                 tok |-> <<"F", "F2">>[k], refs |-> {"name", "lines"}]],
          g |-> <<[name |-> "name", lineTable |-> "lines", check |-> 1, tok |-> "G",
                   refs |-> {"name", "lines"}]>>],
   ruby |->
         [f |-> <<[path |-> "path", label |-> "name", lines |-> 0 :> 7 @@ 1 :> 8, tok |-> "F",
                   refs |-> {"path", "name"}]>>,
          path |-> [k \in 1..3 |-> [kind |-> <<"String", "EmbeddedArray", "Array">>[k],
                                    text |-> <<"text", "name", "text">>[k], tok |-> "", refs |-> {}]],
          name |-> <<[kind |-> "String", text |-> "text", tok |-> "", refs |-> {"text"}]>>,
          text |-> <<text("text")>>],
   perl |->
         [f |-> <<[name |-> "name", stash |-> "hv", tok |-> "F", refs |-> {"name", "hv"}]>>,
          hv |-> <<[name |-> "pkg", tok |-> "", refs |-> {"pkg"}]>>,
          name |-> <<text("name"), text("name2")>>, pkg |-> <<text("pkg")>>,
          file |-> <<[val |-> "file", name |-> "name", stash |-> Null, tok |-> "", refs |-> {}]>>,
          cop |-> [k \in 1..2 |-> [file |-> "file", line |-> k, tok |-> "", refs |-> {"file"}]]],
   php |->
         [f |-> <<[type |-> "user", name |-> "name", tok |-> "F", refs |-> {"name"}],
                  [type |-> "eval", name |-> "name", tok |-> "F2", refs |-> {}]>>,
          name |-> <<text("name")>>, dasm_buf |-> <<0, 2>>, dasm_size |-> <<1>>]]

Contents == AllContents[lang]

\* A process starts with one of four kinds of contents.
StartWith(k) == [a \in DOMAIN Contents |->
                   CASE a = "path" -> IF k = 4 THEN 1 ELSE k
                     [] a = "heaps" /\ k = 4 -> 2
                     [] a = "structs" /\ k = 2 -> 2
                     [] a = "jdk" /\ k = 3 -> 2
                     [] OTHER -> 1]

Object(a) == Contents[a][now[a]]
mem == [a \in DOMAIN now |-> IF a \in lost THEN None ELSE Object(a)]
Refs(a) == IF a \in {"types", "structs", "jvmci", "jdk", "heaps", "stubs", "dasm_buf", "dasm_size"}
           THEN {} ELSE Object(a).refs

\* The frames the unwinder may capture: what they point to and the position.
Frames ==
  LET F(sub, ptrs, check, pos) == {[sub |-> sub, ptr |-> a, check |-> check, pos |-> p] :
                                   a \in ptrs, p \in pos} IN
  CASE lang = "hotspot" -> F("interpreted", {"other"}, 0, {1}) \cup F("stub", {"blob"}, 0, {3})
                             \cup F("native", {"nm"}, Object("nm").compileID, {0, 1})
    [] lang = "v8" -> F("code", {"code"}, Object("code").cookie, {0, 1}) \cup F("sfi", {"h"}, 0, {9})
                        \cup F("jsfunc", {"jsfunc"}, 3, {1}) \cup F("marker", {"f"}, 0, {0, 3})
    [] lang = "python" -> F("code", {"f"}, Object("f").check, {0, 1}) \cup F("code", {"g"}, 1, {0})
    [] lang = "ruby" -> F("iseq", {"f"}, 0, {0, 1})
    [] lang = "perl" -> F("gv", {"f", Null}, 0, {"cop"})
    [] lang = "php" -> F("function", {"f"}, 0, {1, 2}) \cup F("function", {"f"}, 1, {1})

\* What a frame points to, and the functions that an address has had in this process.
Objects(f) == IF f.ptr = Null THEN {} ELSE {f.ptr} \cup Refs(f.ptr)
Was(a) == {Contents[a][k].tok : k \in 1..now[a]}

----------------------------------------------------------------------------
\* The file

Loads == CASE lang = "hotspot" -> HotspotLoads(elf)
           [] lang = "v8" -> V8Loads(elf)
           [] lang = "python" -> PythonLoads(elf)
           [] lang = "ruby" -> RubyLoads(elf)
           [] lang = "perl" -> PerlLoads(elf)
           [] lang = "php" -> PHPLoads(elf)

Data == CASE lang = "hotspot" -> HotspotData(elf)
          [] lang = "v8" -> V8Data
          [] lang = "perl" -> PerlData(elf)
          [] lang = "php" -> PHPData(elf)
          [] OTHER -> << >>

\* Does the Loader register offsets?
Registers == lang # "hotspot" /\ (lang = "v8" => V8Registers(elf))

\* The Loader of the plugin registers the offsets of the interpreter loop last.  When
\* that fails the agent exits, so that nothing follows.
Load(n) ==
  /\ elf # None
  /\ elf' = None
  /\ offsets' = (Loads /\ Registers /\ n > 0)
  /\ data' = IF Loads /\ (Registers => n > 0) THEN Data ELSE None
  /\ UNCHANGED <<lang, memVars, inst, jit, bpf, traceVars, logVars, collected, processes>>

\* The file is unloaded with its last process (RemoveOrDecRef), which leaves the offsets
\* in eBPF, and loaded anew with the next one: its data starts afresh.
Reload ==
  /\ data # None
  /\ inst = None
  /\ processes > 0
  /\ data' = CASE lang = "hotspot" -> [data EXCEPT !.vmd = None]
               [] lang = "v8" -> V8Data
               [] OTHER -> data
  /\ UNCHANGED <<lang, elf, offsets, memVars, inst, jit, bpf, traceVars, logVars, collected, processes>>

----------------------------------------------------------------------------
\* The process and its instance

\* A process starts, and the plugin attaches to it: the plugins that insert the
\* process data then have no instance when that fails.
Attach(n) ==
  LET atOnce == lang \in {"v8", "ruby", "php"} IN
  /\ data # None
  /\ inst = None
  /\ processes < MaxProcesses
  /\ calls + processes < MaxWork
  /\ processes' = processes + 1
  /\ \E k \in 1..4 : now' = StartWith(k)
  /\ lost' = {}
  /\ cut' = {}
  /\ inst' = CASE atOnce /\ n = 0 -> None
               [] lang = "hotspot" -> HotspotAttach
               [] lang = "v8" -> V8Attach
               [] lang = "python" -> PythonAttach
               [] lang = "ruby" -> RubyAttach
               [] lang = "perl" -> PerlAttach
               [] lang = "php" -> PHPAttach(data)
  /\ bpf' = [bpf EXCEPT !.proc = IF atOnce /\ n > 0 THEN @ \cup {lang} ELSE @]
  /\ pending' = << >>
  /\ trace' = << >>
  /\ UNCHANGED <<fileVars, jit, meta, unsent, stale, calls, collected, writes>>

\* The process loads opcache.so, a file of its own.
AttachOpcache ==
  /\ lang = "php"
  /\ \E so \in ELFs("opcache") : OpcacheLoads(so)
  /\ inst # None
  /\ jit = None
  /\ jit' = OpcacheAttach
  /\ UNCHANGED <<fileVars, memVars, inst, bpf, traceVars, logVars, collected, processes>>

\* SynchronizeMappings of the instances, as the process is synchronized.
SynchronizeMappings(n) ==
  LET hs == HotspotSync(inst, data, bpf, mem, n)
      php == OpcacheSync(jit, bpf, mem, n)
  IN  /\ inst # None
      /\ \/ /\ lang = "hotspot"
            /\ inst' = hs.inst
            /\ data' = hs.data
            /\ bpf' = hs.bpf
            /\ UNCHANGED jit
         \/ /\ jit # None
            /\ jit' = php.jit
            /\ bpf' = php.bpf
            /\ UNCHANGED <<inst, data>>
      /\ UNCHANGED <<lang, elf, offsets, memVars, traceVars, logVars, collected, processes>>

\* UpdateTSDInfo, once the process has its C library loaded.
UpdateTSDInfo(n) ==
  LET u == IF lang = "python" THEN PythonUpdateTSDInfo(inst, bpf, n) ELSE PerlUpdateTSDInfo(inst, bpf, n)
  IN  /\ inst # None
      /\ lang \in {"python", "perl"}
      /\ inst' = u.inst
      /\ bpf' = u.bpf
      /\ UNCHANGED <<fileVars, memVars, jit, traceVars, logVars, collected, processes>>

\* Detach of the instances, when the process has exited.  What they have counted since
\* the metrics were last collected goes with them.
Detach ==
  LET b == IF jit = None THEN bpf ELSE OpcacheDetach(jit, bpf) IN
  /\ inst # None
  /\ bpf' = CASE lang = "hotspot" -> HotspotDetach(inst, b)
              [] lang = "v8" -> V8Detach(inst, b)
              [] lang = "python" -> PythonDetach(inst, b)
              [] lang = "ruby" -> RubyDetach(b)
              [] lang = "perl" -> PerlDetach(inst, b)
              [] lang = "php" -> PHPDetach(b)
  /\ inst' = None
  /\ jit' = None
  /\ collected' = collected + inst.succ + inst.fail
  /\ UNCHANGED <<fileVars, memVars, traceVars, logVars, processes>>

----------------------------------------------------------------------------
\* Traces

\* The unwinder captures one more frame of a trace: it needs the data of the process
\* and finds the interpreter by its offsets, or by the mappings of its JIT code.
Capture ==
  /\ inst # None
  /\ lang \in bpf.proc
  /\ offsets \/ lang \in {"hotspot", "v8"}
  /\ Len(pending) < MaxTrace
  /\ trace = << >>
  /\ Len(pending) + calls + processes < MaxWork
  /\ \E f \in Frames : pending' = Append(pending, [frame |-> f, objects |-> Objects(f),
                                                   tok |-> IF f.ptr = Null THEN "" ELSE Object(f.ptr).tok])
  /\ UNCHANGED <<fileVars, memVars, inst, jit, bpf, trace, logVars, collected, processes>>

Symbolize(r, f) ==
  CASE lang = "hotspot" -> HotspotSymbolize(r, mem, f)
    [] lang = "v8" -> V8Symbolize(r, mem, f)
    [] lang = "python" -> PythonSymbolize(r, mem, f)
    [] lang = "ruby" -> RubySymbolize(r, mem, f)
    [] lang = "perl" -> PerlSymbolize(r, mem, f)
    [] lang = "php" -> PHPSymbolize(r, mem, f)

\* The frames that come with a cookie the plugin compares, and the functions they may
\* be symbolized as.  Python compares it with cached objects and with those it reads,
\* and has the function in that object.  HotSpot does so with nmethods, and V8 with
\* cached Code only: Code that is read is taken for that of the frame.  The functions
\* of these, Methods and SFIs, are cached by address without anything to compare.
Guarded(f) == lang = "python" \/ f.sub = "native" \/ (lang = "v8" /\ f.sub \in {"code", "jsfunc"})
MayBe(p) ==
  IF lang = "python" THEN {p.tok}
  ELSE UNION {Was(a) : a \in p.objects \cup IF lang = "v8" THEN Objects(p.frame) ELSE {}}

\* The offset of the Code that a frame is symbolized at.
CodeOffset(f) == <<f.ptr, f.check, IF trace # << >> /\ f.pos > 0 THEN f.pos - 1 ELSE f.pos>>

\* V8 has found the Code and failed at one of the calls inlined there.
FailsInlined(s, f) == s.err /\ lang = "v8" /\ f.sub = "code" /\ f.ptr \in LRU!Keys(s.r.inst.addrToCode)

\* ConvertTrace and symbolizeFrame, for the next frame of the trace: an error
\* frame when the plugin has an error for it.
ConvertTrace ==
  /\ inst # None
  /\ pending # << >>
  /\ \E s \in {Symbolize([Call(inst, data) EXCEPT !.trace = trace], Head(pending).frame)} :
       LET new == SubSeq(s.r.trace, Len(trace) + 1, Len(s.r.trace))
           f == Head(pending).frame
       IN
       /\ inst' = s.r.inst
       /\ data' = s.r.data
       /\ meta' = meta \cup s.r.meta
       /\ cut' = IF FailsInlined(s, f) THEN cut \cup {CodeOffset(f)} ELSE cut
       /\ unsent' = IF f.sub = "code" /\ CodeOffset(f) \in cut THEN unsent
                    ELSE unsent \cup (Range(new) \ meta')
       /\ stale' = \/ stale
                   \/ /\ Guarded(f)
                      /\ \E k \in DOMAIN new : /\ new[k][1][1] # "stubs"
                                              /\ new[k][1][2] \notin MayBe(Head(pending))
       /\ trace' = CASE Len(pending) = 1 -> << >>
                     [] s.err -> Append(s.r.trace, ErrorFrame)
                     [] OTHER -> s.r.trace
  /\ pending' = Tail(pending)
  /\ calls' = calls + 1
  /\ UNCHANGED <<lang, elf, offsets, memVars, jit, bpf, collected, processes>>

\* GetAndResetMetrics
CollectMetrics ==
  /\ inst # None
  /\ inst.succ + inst.fail > 0
  /\ collected' = collected + inst.succ + inst.fail
  /\ inst' = CASE lang = "hotspot" -> HotspotMetrics(inst)
               [] lang = "v8" -> V8Metrics(inst)
               [] lang = "python" -> PythonMetrics(inst)
               [] lang = "ruby" -> RubyMetrics(inst)
               [] lang = "perl" -> PerlMetrics(inst)
               [] lang = "php" -> PHPMetrics(inst)
  /\ UNCHANGED <<fileVars, memVars, jit, bpf, traceVars, logVars, processes>>

----------------------------------------------------------------------------
\* The memory of the process

Write ==
  /\ inst # None
  /\ writes < MaxWrites
  /\ writes' = writes + 1
  /\ UNCHANGED <<fileVars, inst, jit, bpf, traceVars, logVars, collected, processes>>

\* An object that nothing refers to is replaced by another one.
Replace == \E a \in Reused \cap DOMAIN now :
  /\ now[a] < Len(Contents[a])
  /\ \A b \in DOMAIN now : a \notin Refs(b)
  /\ now' = [now EXCEPT ![a] = @ + 1]
  /\ UNCHANGED lost
  /\ Write

\* An address cannot be read: the object is being moved, or the process exits.
Lose == \E a \in (Unreadable \cap DOMAIN now) \ lost :
  /\ lost' = lost \cup {a}
  /\ UNCHANGED now
  /\ Write

Regain == \E a \in lost :
  /\ lost' = lost \ {a}
  /\ UNCHANGED now
  /\ Write

----------------------------------------------------------------------------
Init ==
  /\ lang \in Langs
  /\ elf \in ELFs(lang)
  /\ data = None
  /\ offsets = FALSE
  /\ now = << >>
  /\ lost = {}
  /\ inst = None
  /\ jit = None
  /\ bpf = [proc |-> {}, pages |-> {}]
  /\ pending = << >>
  /\ trace = << >>
  /\ meta = {}
  /\ unsent = {}
  /\ cut = {}
  /\ stale = FALSE
  /\ calls = 0
  /\ collected = 0
  /\ writes = 0
  /\ processes = 0

Next == \/ \E n \in Updates : Load(n) \/ Attach(n) \/ SynchronizeMappings(n) \/ UpdateTSDInfo(n)
        \/ Reload \/ AttachOpcache \/ Detach
        \/ Capture \/ ConvertTrace \/ CollectMetrics
        \/ Replace \/ Lose \/ Regain

Spec == Init /\ [][Next]_vars

----------------------------------------------------------------------------
\* Every frame a trace has is one FrameMetadata was called for, by this process
\* or an earlier one, though metadata is left out for what was seen before: also when
\* an earlier call failed half way.  There is one exception: V8 remembers an offset of a
\* Code as seen before it reads the functions inlined there, so that after a failure
\* the frames at this offset may be left without metadata.
MetadataSent == unsent = {}


\* A frame with a cookie is never symbolized from what a cache has for the same
\* address and another cookie, whatever has become of the memory since: Python frames
\* are symbolized as the function they were captured in, those of HotSpot's nmethods and
\* of V8's Code as one that is or was at an address the captured object refers to, or,
\* for Code that was replaced before it was read, at one the new object refers to.
CookieGuards == ~stale

\* Every LPM prefix and all process data that eBPF has for the process is what
\* Detach will delete (but for the JIT buffer's process data): after a failed
\* insertion as well.
DetachDeletes ==
  LET mine == CASE inst = None -> {}
                [] lang = "hotspot" -> inst.prefixes
                [] OTHER -> IF jit = None THEN {} ELSE jit.prefixes
      proc == CASE inst = None -> {}
                [] lang = "hotspot" -> IF inst.mainMappingsInserted THEN {lang} ELSE {}
                [] lang \in {"python", "perl"} -> IF inst.procInfoInserted THEN {lang} ELSE {}
                [] OTHER -> {lang}
  IN  bpf.pages \subseteq mine /\ bpf.proc \subseteq proc \cup {"phpjit"}
=============================================================================
