-------------------------------- MODULE Ruby ---------------------------------
(***************************************************************************)
(* interpreter/ruby: the plugin for Ruby.                                  *)
(*                                                                         *)
(* Memory: an iseq body has the lines of its positions, the address of its *)
(* path object and of its label.  A path object is a String, or an Array   *)
(* of two Strings, embedded or with its elements elsewhere.  The text of a *)
(* String may be elsewhere too.                                            *)
(***************************************************************************)
EXTENDS Interpreter

\* determineRubyVersion
DetermineRubyVersion(elf) == IF "ruby_version" \in elf.missing THEN None ELSE elf.version

\* Loader: Ruby 2.5 to 3.2 are supported; the symbols are others before 3.0 and
\* before 2.6.
RubyLoads(elf) ==
  LET version == DetermineRubyVersion(elf)
      symbols == {IF version < 30 THEN "ruby_current_execution_context_ptr" ELSE "ruby_single_main_ractor",
                  IF version < 26 THEN "ruby_exec_node" ELSE "rb_vm_exec"}
  IN  /\ "elf" \notin elf.missing
      /\ version # None
      /\ version \in 25..32
      /\ symbols \cap elf.missing = {}

\* Attach: process data, and then the caches.
RubyAttach == [succ |-> 0, fail |-> 0, iseqBodyPCToFunction |-> << >>, addrToString |-> << >>]

\* Detach
RubyDetach(bpf) == [bpf EXCEPT !.proc = @ \ {"ruby"}]

\* GetAndResetMetrics
RubyMetrics(inst) == ResetMetrics(inst)

\* readRubyString: the empty text when it cannot be read; cached all the same.
ReadRubyString(r, mem, a) ==
  LET str == IF mem[mem[a].text] = None THEN "" ELSE mem[mem[a].text].val IN
  IF mem[a] = None THEN [r |-> Fail(r), val |-> ""]
  ELSE IF mem[a].kind # "String" THEN [r |-> Fail(r), val |-> ""]
  ELSE [r |-> [r EXCEPT !.inst.addrToString = LRU!Add(@, CacheSize, a, str)], val |-> str]

\* readRubyArrayDataPtr: the elements of an Array are found if they are embedded.
ReadRubyArrayDataPtr(object) == object.kind = "EmbeddedArray"

\* readPathObjRealPath
ReadPathObjRealPath(r, mem, a) ==
  IF mem[a] = None THEN [r |-> Fail(r), val |-> ""]
  ELSE IF mem[a].kind = "String" THEN ReadRubyString(r, mem, a)
  ELSE IF ReadRubyArrayDataPtr(mem[a]) THEN ReadRubyString(r, mem, mem[a].text)
  ELSE [r |-> Fail(r), val |-> ""]

\* getStringCached, with either reader.
GetStringCached(r, mem, a, isPath) ==
  LET cached == Through(r.inst.addrToString, a, None)
      got == IF isPath THEN ReadPathObjRealPath(r, mem, a) ELSE ReadRubyString(r, mem, a)
  IN  IF cached.ok THEN [r |-> [r EXCEPT !.inst.addrToString = cached.cache], val |-> cached.val]
      ELSE IF ~got.r.ok THEN got
      ELSE [got EXCEPT !.r.inst.addrToString = LRU!Add(@, CacheSize, a, got.val)]

\* Symbolize: the cache is by address and pc, and what is in it was sent.
RubySymbolize(r, mem, f) ==
  LET key == <<f.ptr, f.pos>>
      cached == Through(r.inst.iseqBodyPCToFunction, key, None)
      path == GetStringCached(r, mem, mem[f.ptr].path, TRUE)
      label == GetStringCached(path.r, mem, mem[f.ptr].label, FALSE)
      frame == <<<<label.val, path.val>>, mem[f.ptr].lines[f.pos]>>
      done == IF cached.ok
              THEN Emit([r EXCEPT !.inst.iseqBodyPCToFunction = cached.cache], cached.val, TRUE)
              ELSE IF mem[f.ptr] = None THEN Fail(r)
              ELSE IF ~path.r.ok \/ path.val = "" THEN Fail(path.r)
              ELSE IF ~label.r.ok \/ label.val = "" THEN Fail(label.r)
              ELSE Emit([label.r EXCEPT !.inst.iseqBodyPCToFunction =
                           LRU!Add(@, CacheSize, key, frame)], frame, FALSE)
  IN  [r |-> Count(done), err |-> ~done.ok]
=============================================================================
