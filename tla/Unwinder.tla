------------------------------- MODULE Unwinder -------------------------------
(***************************************************************************)
(* The eBPF programs that unwind the stack of an interrupted thread: the   *)
(* entry program, unwind_native, unwind_stop and the programs of four      *)
(* interpreters, which call each other with tail_call and share the        *)
(* per-CPU record.                                                         *)
(*                                                                         *)
(* A thread has a stack of native frames, innermost first.  Some of them   *)
(* run the main loop of an interpreter (Python 3.11, PHP) whose own frames *)
(* are a list, vm; each activation of the loop executes the frames up to   *)
(* one that is marked as its entry.  Others are code that a JIT made (V8,  *)
(* HotSpot), where each frame is unwound by the program of the virtual     *)
(* machine.  What cannot be read or is not known stays so while a trace    *)
(* is made.  Frames are pushed as the places that they come from.          *)
(***************************************************************************)
EXTENDS Integers, Sequences, FiniteSets, SequencesExt

CONSTANTS MaxFrames,        \* MAX_FRAME_UNWINDS
          MaxTailCalls,     \* 29 in the code: tail calls before unwinding is stopped
          NativePerProgram, \* NATIVE_FRAMES_PER_PROGRAM, also of V8 and HotSpot
          VMPerProgram,     \* FRAMES_PER_WALK_PYTHON_STACK, FRAMES_PER_WALK_PHP_STACK
          MaxNative,        \* bound: native frames of a thread
          MaxVM             \* bound: interpreter frames of a thread

ASSUME UnwinderAssumption ==
         /\ {MaxTailCalls, NativePerProgram, VMPerProgram, MaxNative, MaxVM} \subseteq Nat
         /\ MaxFrames \in Nat \ {0}

VARIABLES thread,    \* the interrupted thread
          record,    \* PerCPURecord
          prog,      \* the program that runs next, "idle" when there is none
          outcome,   \* what became of the trace
          pidReported \* whether report_pid was called

unwindVars == <<thread, record, prog, outcome, pidReported>>

\* How a native frame is known: by a plain mapping, by one with the main loop of an
\* interpreter, by a JIT mapping, as the last one (its delta says stop), by a
\* mapping without stack deltas for it, or not at all.
Kinds == {"native", "loop", "jit", "root", "nodelta", "unmapped"}
Languages == {"python", "php", "v8", "hotspot"}
Kernel == {"regs", "noregs", "badregs", "newpid"}

SeqsUpTo(S, n) == UNION {[1..k -> S] : k \in 0..n}

\* The list of the interpreter: the last frame is an entry, and read tells what of a
\* frame cannot be read: nothing, the frame, or the link to its caller.  No program gets
\* past a frame that it cannot read, so one of them is enough.
VMLists == {vm \in SeqsUpTo([entry : BOOLEAN, read : {"ok", "frame", "link"}], MaxVM) :
              /\ vm # << >> => Last(vm).entry
              /\ Len(SelectSeq(vm, LAMBDA f : f.read # "ok")) <= 1}

\* The loops of a thread and the entries among its interpreter frames match, unless
\* the interpreter has no frames (yet).  Python reads a frame with the link to its
\* caller before it pushes it, PHP reads the link afterwards.  The list matters only in
\* a known process, and the interpreter only if some frame is run by it.
Consistent(t) ==
  /\ \A i \in DOMAIN t.native : t.native[i] = "root" => i = Len(t.native)
  /\ t.lang \in {"python", "php"} => \A i \in DOMAIN t.native : t.native[i] # "jit"
  /\ t.lang \in {"v8", "hotspot"} => t.vm = << >> /\ \A i \in DOMAIN t.native : t.native[i] # "loop"
  /\ t.vm # << >> =>
       Len(SelectSeq(t.vm, LAMBDA f : f.entry)) = Len(SelectSeq(t.native, LAMBDA k : k = "loop"))
  /\ t.lang = "python" => \A j \in DOMAIN t.vm : t.vm[j].read # "link"
  /\ t.vm # << >> => t.info = "known"
  /\ {"loop", "jit"} \cap Range(t.native) = {} => t.lang = "php" /\ t.info = "none"
  /\ t.kernelStack => Len(t.native) <= 2

\* info tells whether the process is known to the program of the interpreter
\* (py_procs, ...), and whether the list of its frames, or for a JIT the data of
\* its frames, can be read.  A kernel stack, which matters for a trace without other
\* frames, is given to threads with few of them.
Threads ==
  {t \in [native : SeqsUpTo(Kinds, MaxNative) \ {<< >>}, vm : VMLists,
          lang : Languages, info : {"known", "hidden", "none"}, kernelStack : BOOLEAN, at : {"regs"}]
     : Consistent(t)}
  \cup [native : {<<"root">>}, vm : {<< >>}, lang : {"php"}, info : {"none"}, kernelStack : BOOLEAN,
        at : Kernel \ {"regs"}]

Native(i) == [from |-> "native", at |-> i]
VM(j) == [from |-> "vm", at |-> j]
Abort == [from |-> "abort", at |-> 0]

----------------------------------------------------------------------------
\* What the programs share

\* get_pristine_per_cpu_record.  pos stands for pc, sp and fp, vm for the pointer
\* to the next frame of the interpreter (0 is NULL) and done for unwindersDone.
Pristine(r) ==
  [frames |-> << >>, pos |-> 1, vm |-> 0, done |-> FALSE, tailCalls |-> 0, error |-> "ok",
   wrongText |-> FALSE]

\* _push: room is left for a frame that reports an error.
Full(r) == Len(r.frames) >= MaxFrames - 1
Push(r, f) == [r EXCEPT !.frames = Append(@, f)]

\* A plausible bug: the calls are not counted.
TailCallUncounted(r, next) == record' = r /\ prog' = next

tail_call(r, next) ==
  IF r.tailCalls >= MaxTailCalls
  THEN /\ record' = [r EXCEPT !.tailCalls = @ + 1, !.error = "tail calls"]
       /\ prog' = "stop"
  ELSE /\ record' = [r EXCEPT !.tailCalls = @ + 1]
       /\ prog' = next

\* The trace is not sent.
Lost == record' = record /\ prog' = "idle" /\ outcome' = "lost"

\* get_next_unwinder_after_native_frame, with resolve_unwind_mapping and
\* get_next_interpreter.
Resolve(r) ==
  LET kind == thread.native[r.pos] IN
  CASE r.pos > Len(thread.native) -> [rec |-> r, next |-> "stop", error |-> "zero pc"]
    [] r.pos <= Len(thread.native) /\ kind = "unmapped" ->
         [rec |-> [r EXCEPT !.wrongText = TRUE], next |-> "stop", error |-> "unmapped"]
    [] r.pos <= Len(thread.native) /\ (kind = "jit" \/ (kind = "loop" /\ ~r.done)) ->
         [rec |-> r, next |-> thread.lang, error |-> "ok"]
    [] OTHER -> [rec |-> r, next |-> "native", error |-> "ok"]

\* A program takes a step per frame as long as it is itself the next program.
Iterate(Step(_), first, self, n) ==
  LET s[i \in 0..n] == IF i = 0 THEN first
                       ELSE IF s[i - 1].next = self THEN Step(s[i - 1].rec) ELSE s[i - 1]
  IN  s[n]

\* A plausible bug: unwind_error is not set.
LeaveSilently(s) == tail_call(s.rec, s.next)

\* The end of a program: the error is recorded, and the next program called.
Leave(s) == tail_call([s.rec EXCEPT !.error = s.error], s.next)

----------------------------------------------------------------------------
\* native_tracer_entry

collect_trace ==
  /\ prog = "entry"
  /\ LET r == Pristine(record)
         s == Resolve(r)
     IN  CASE thread.at = "newpid"  -> /\ record' = r /\ prog' = "idle"
                                       /\ outcome' = "new" /\ pidReported' = TRUE
           [] thread.at = "noregs"  -> tail_call(r, "stop") /\ UNCHANGED <<outcome, pidReported>>
           [] thread.at = "badregs" -> /\ tail_call([r EXCEPT !.error = "regs"], "stop")
                                       /\ UNCHANGED <<outcome, pidReported>>
           [] thread.at = "regs"    -> Leave(s) /\ UNCHANGED <<outcome, pidReported>>
  /\ UNCHANGED thread

----------------------------------------------------------------------------
\* unwind_native: the frame is pushed before it is unwound.

NativeFrame(r) ==
  LET pushed == Push(r, Native(r.pos)) IN
  IF Full(r) THEN [rec |-> r, next |-> "stop", error |-> "length"]
  ELSE CASE thread.native[r.pos] = "root"    -> [rec |-> pushed, next |-> "stop", error |-> "ok"]
         [] thread.native[r.pos] = "nodelta" -> [rec |-> pushed, next |-> "stop", error |-> "delta"]
         [] OTHER -> Resolve([pushed EXCEPT !.pos = @ + 1])

unwind_native ==
  /\ prog = "native"
  /\ Leave(Iterate(NativeFrame, [rec |-> record, next |-> "native", error |-> "ok"], "native",
                   NativePerProgram))
  /\ UNCHANGED <<thread, outcome, pidReported>>

\* unwind_v8 and unwind_hotspot: the frame is unwound before it is pushed.  V8 has
\* then already stored the registers of the next frame, HotSpot not.
JITFrame(r) ==
  LET unwound == [r EXCEPT !.pos = @ + 1] IN
  IF thread.info = "hidden" THEN [rec |-> r, next |-> "stop", error |-> "frame"]
  ELSE IF Full(r)
  THEN [rec |-> IF thread.lang = "v8" THEN unwound ELSE r, next |-> "stop", error |-> "length"]
  ELSE Resolve(Push(unwound, VM(r.pos)))

unwind_v8 ==
  /\ prog = "v8"
  /\ IF thread.info # "none"
     THEN Leave(Iterate(JITFrame, [rec |-> record, next |-> "v8", error |-> "ok"], "v8",
                        NativePerProgram))
     ELSE Leave([rec |-> record, next |-> "stop", error |-> "no info"])
  /\ UNCHANGED <<thread, outcome, pidReported>>

unwind_hotspot ==
  /\ prog = "hotspot"
  /\ IF thread.info # "none"
     THEN /\ Leave(Iterate(JITFrame, [rec |-> record, next |-> "hotspot", error |-> "ok"],
                           "hotspot", NativePerProgram))
          /\ UNCHANGED outcome
     ELSE Lost
  /\ UNCHANGED <<thread, pidReported>>
----------------------------------------------------------------------------
\* unwind_python and unwind_php

NextVM(j) == IF j < Len(thread.vm) THEN j + 1 ELSE 0
FirstVM(r) == IF r.vm = 0 /\ thread.vm # << >> THEN 1 ELSE r.vm

\* process_python_frame and what walk_python_stack does after it.
PythonFrame(r) ==
  LET next == NextVM(r.vm)
      read == [Push(r, VM(r.vm)) EXCEPT !.vm = next, !.done = (next = 0)]
  IN  CASE thread.vm[r.vm].read # "ok" -> [rec |-> [r EXCEPT !.done = TRUE], next |-> "stop", error |-> "frame"]
        [] thread.vm[r.vm].read = "ok" /\ Full(r) -> [rec |-> [r EXCEPT !.done = TRUE], next |-> "stop", error |-> "length"]
        [] OTHER -> [rec |-> read, error |-> "ok",
                     next |-> CASE thread.vm[r.vm].entry -> "native"
                                [] ~thread.vm[r.vm].entry /\ next = 0 -> "stop"
                                [] OTHER -> "python"]

\* Without information on the process the program ends and the trace is lost.
unwind_python ==
  /\ prog = "python"
  /\ LET r == [record EXCEPT !.vm = FirstVM(record)] IN
       CASE thread.info = "none" -> Lost
         [] thread.info = "hidden" -> /\ Leave([rec |-> record, next |-> "native", error |-> "head"])
                                      /\ UNCHANGED outcome
         [] thread.info = "known" /\ r.vm = 0 ->
              /\ Leave([rec |-> [r EXCEPT !.done = TRUE], next |-> "native", error |-> "ok"])
              /\ UNCHANGED outcome
         [] OTHER -> /\ Leave(Iterate(PythonFrame, [rec |-> r, next |-> "python", error |-> "ok"],
                                      "python", VMPerProgram))
                     /\ UNCHANGED outcome
  /\ UNCHANGED <<thread, pidReported>>

\* process_php_frame and what walk_php_stack does after it.  After an error ("again")
\* the loop is left and the program called once more, though it is marked as done: for
\* the same frame, or, when the frame was pushed and the failed read of its link has
\* left NULL, for the first frame of the list.
WalkPHP(r, top) ==
  LET next == NextVM(r.vm)
      pushed == Push(r, VM(r.vm))
  IN  CASE thread.vm[r.vm].read = "frame" \/ Full(r) -> [rec |-> [r EXCEPT !.done = TRUE], next |-> "again"]
        [] thread.vm[r.vm].read = "link" /\ ~Full(r) ->
             [rec |-> [pushed EXCEPT !.vm = 0, !.done = TRUE], next |-> "again"]
        [] OTHER -> [rec |-> [pushed EXCEPT !.vm = next, !.done = @ \/ next = 0],
                     next |-> IF next = 0 \/ top THEN "native" ELSE "php"]

\* A plausible bug: ZEND_CALL_TOP is not looked at.
PHPFrameAll(r) == WalkPHP(r, FALSE)

PHPFrame(r) == WalkPHP(r, thread.vm[r.vm].entry)

\* No error is recorded.
unwind_php ==
  /\ prog = "php"
  /\ LET r == [record EXCEPT !.vm = FirstVM(record)] IN
       IF thread.info = "known" /\ r.vm # 0
       THEN LET s == Iterate(PHPFrame, [rec |-> r, next |-> "php"], "php", VMPerProgram)
            IN  tail_call(s.rec, IF s.next = "again" THEN "php" ELSE s.next)
       ELSE tail_call(record, "native")
  /\ UNCHANGED <<thread, outcome, pidReported>>

----------------------------------------------------------------------------
\* unwind_stop: an error frame is pushed if there was an error, an unknown address
\* is reported and the trace is sent, unless it has nothing but the error.
Stop(room, report) ==
  /\ prog = "stop"
  /\ LET empty == record.frames = << >> /\ ~thread.kernelStack
         error == IF empty /\ record.error = "ok" THEN "empty" ELSE record.error
         r == [record EXCEPT !.error = error]
         ended == IF error # "ok" /\ room THEN Push(r, Abort) ELSE r
     IN  /\ record' = ended
         /\ outcome' = IF Len(ended.frames) = 1 /\ ~thread.kernelStack /\ error # "ok"
                       THEN "dropped" ELSE "sent"
  /\ prog' = "idle" /\ pidReported' = report
  /\ UNCHANGED thread

unwind_stop == Stop(Len(record.frames) < MaxFrames, record.wrongText)

\* The record is zero, or as an earlier trace left it.
UnwindInit ==
  /\ thread \in Threads
  /\ record \in {[frames |-> << >>, pos |-> 0, vm |-> 0, done |-> FALSE, tailCalls |-> 0,
                  error |-> "ok", wrongText |-> FALSE],
                 [frames |-> <<VM(1), Native(1), Abort>>, pos |-> 1, vm |-> 1, done |-> TRUE,
                  tailCalls |-> MaxTailCalls + 1, error |-> "tail calls", wrongText |-> TRUE]}
  /\ prog = "entry" /\ outcome = "none" /\ pidReported = FALSE

UnwindNext == \/ collect_trace \/ unwind_native \/ unwind_v8 \/ unwind_hotspot
        \/ unwind_python \/ unwind_php \/ unwind_stop

----------------------------------------------------------------------------
\* Properties

\* The frame that is pushed for a native frame.
FrameOf(i) == IF thread.native[i] = "jit" THEN VM(i) ELSE Native(i)

\* The stack as it can be seen: the interpreter frames of an activation of the loop come
\* before the native frame of the loop, and JIT code has one frame of its own kind.
WholeStack ==
  LET loops(i) == Cardinality({k \in 1..i : thread.native[k] = "loop"})
      entries(j) == Cardinality({k \in 1..j : thread.vm[k].entry})
      activation(n) == SetToSortSeq({j \in DOMAIN thread.vm : entries(j - 1) = n - 1}, <)
      framesAt(i) ==
        IF thread.native[i] = "loop" /\ thread.info = "known"
        THEN Append([k \in DOMAIN activation(loops(i)) |-> VM(activation(loops(i))[k])], Native(i))
        ELSE <<FrameOf(i)>>
  IN  FlattenSeq([i \in DOMAIN thread.native |-> framesAt(i)])

Unwound == SelectSeq(record.frames, LAMBDA f : f # Abort)
Stopped == prog = "idle" /\ outcome \in {"sent", "dropped"}

\* PHP frames with an unreadable link.  Once such a frame is pushed the list is walked
\* from its first frame again.
Unlinked == {VM(j) : j \in {k \in DOMAIN thread.vm : thread.vm[k].read = "link"}}
Restarted == Unlinked \cap Range(record.frames) # {}
BeforeRestart == IF Restarted THEN SubSeq(Unwound, 1, SelectInSeq(Unwound, LAMBDA f : f \in Unlinked))
                 ELSE Unwound

\* The frames of the interpreter are interleaved with the native ones as they were
\* called, none is twice in the trace and none left out, whatever the programs
\* hand over to each other in the record and however often they are called anew.
\* A PHP frame whose link cannot be read ends this: up to it the trace is right, after
\* it the native frames still are, and the PHP frames begin with the first again.
\* The error that ended the unwinding is the last frame of a trace that is full, too.
FramesInOrder ==
  /\ prog # "entry" =>
       LET native(s) == SelectSeq(s, LAMBDA f : f.from = "native")
           vm == SelectSeq(Unwound, LAMBDA f : f.from = "vm")
       IN  /\ IsPrefix(BeforeRestart, WholeStack)
           /\ IsPrefix(native(Unwound), native(WholeStack))
           /\ \A i \in 2..Len(vm) : vm[i].at > vm[i - 1].at \/ (vm[i - 1] \in Unlinked /\ vm[i] = VM(1))
  /\ Stopped => /\ record.error # "ok" <=> Abort \in Range(record.frames)
                /\ \A i \in DOMAIN record.frames : record.frames[i] = Abort => i = Len(record.frames)
                /\ outcome = "sent" => record.frames # << >> \/ thread.kernelStack

\* A trace without an error frame has the whole stack: reaching a limit, a frame
\* that cannot be read or an unknown address never looks like a complete trace.
\* The exceptions are an interpreter whose list of frames is not found at all (the
\* code goes on with the native frames, and WholeStack has no others then) and a PHP
\* list that was begun again: it may reach the end of the inner activation this time,
\* and the trace is completed with native frames.
\* The process is reported if and only if the trace has every frame up to one at an
\* address without mapping, also when no more tail calls were left.
NoSilentLoss ==
  Stopped =>
    /\ thread.at = "regs" /\ record.error = "ok" /\ ~Restarted => record.frames = WholeStack
    /\ pidReported <=> /\ thread.at = "regs" /\ record.pos <= Len(thread.native)
                    /\ thread.native[record.pos] = "unmapped"
                    /\ \A i \in 1..record.pos - 1 : FrameOf(i) \in Range(record.frames)

\* The programs do not call each other forever.
UnwindEnds == prog # "idle" ~> prog = "idle"
=============================================================================
