-------------------------------- MODULE Perl ---------------------------------
(***************************************************************************)
(* interpreter/perl: the plugin for Perl.                                  *)
(*                                                                         *)
(* Memory: a glob value (GV) has the addresses of its name and of its      *)
(* stash, a stash (HV) that of its name; a control op (COP) has a line and *)
(* the address of its file name, a text in a threaded Perl or else a GV.   *)
(* A name is a hash element key (HEK).  The null pointer is the GV of code *)
(* outside of functions.                                                   *)
(***************************************************************************)
EXTENDS Interpreter

\* Loader: the main program is passed over when it needs libperl, Perl 5.28 to
\* 5.36 are supported, and without the thread key, a Perl that is not threaded
\* has its state in two variables.
PerlLoads(elf) ==
  /\ {"elf", "needed", "PL_version", "Perl_runops_standard"} \cap elf.missing = {}
  /\ elf.version \in 28..36
  /\ "PL_thr_key" \in elf.missing => {"PL_curcop", "PL_curstackinfo"} \cap elf.missing = {}

PerlData(elf) == [stateInTSD |-> "PL_thr_key" \notin elf.missing]

\* Attach: no process data yet.
PerlAttach == [succ |-> 0, fail |-> 0, addrToHEK |-> << >>, addrToCOP |-> << >>,
               addrToGV |-> << >>, procInfoInserted |-> FALSE]

\* UpdateTSDInfo, n updates of eBPF maps work.
PerlUpdateTSDInfo(inst, bpf, n) ==
  IF n = 0 THEN [inst |-> inst, bpf |-> bpf]
  ELSE [inst |-> [inst EXCEPT !.procInfoInserted = TRUE],
        bpf |-> [bpf EXCEPT !.proc = @ \cup {"perl"}]]

\* Detach
PerlDetach(inst, bpf) ==
  [bpf EXCEPT !.proc = IF inst.procInfoInserted THEN @ \ {"perl"} ELSE @]

\* GetAndResetMetrics
PerlMetrics(inst) == ResetMetrics(inst)

\* getHEK
GetHEK(r, mem, a) ==
  LET l == Through(r.inst.addrToHEK, a, IF mem[a] = None THEN None ELSE mem[a].val) IN
  IF l.ok THEN [r |-> [r EXCEPT !.inst.addrToHEK = l.cache], val |-> l.val]
  ELSE [r |-> Fail(r), val |-> ""]

\* getHVName
GetHVName(r, mem, a) ==
  IF a = Null THEN [r |-> r, val |-> "__ANON__"]
  ELSE IF mem[a] = None THEN [r |-> Fail(r), val |-> ""]
  ELSE GetHEK(r, mem, mem[a].name)

\* getGV: what is cached for the address, the name or the qualified name; read,
\* it is qualified unless only the name is asked for.
Qualified(pkg, name) == [r |-> pkg.r, val |-> <<pkg.val, name.val>>]

CacheGV(got, a) ==
  IF ~got.r.ok THEN [r |-> got.r, val |-> << >>]
  ELSE [got EXCEPT !.r.inst.addrToGV = LRU!Add(@, CacheSize, a, got.val)]

NameGV(name, mem, a, nameOnly) ==
  CacheGV(IF nameOnly \/ ~name.r.ok THEN [r |-> name.r, val |-> <<name.val>>]
          ELSE Qualified(GetHVName(name.r, mem, mem[a].stash), name), a)

GetGV(r, mem, a, nameOnly) ==
  LET cached == Through(r.inst.addrToGV, a, None) IN
  IF a = Null THEN [r |-> r, val |-> <<"<top-level>">>]
  ELSE IF cached.ok THEN [r |-> [r EXCEPT !.inst.addrToGV = cached.cache], val |-> cached.val]
  ELSE IF mem[a] = None THEN [r |-> Fail(r), val |-> << >>]
  ELSE NameGV(GetHEK(r, mem, mem[a].name), mem, a, nameOnly)

\* getCOP: cached by its address and the name of the function.
NewCOP(file, key, line) ==
  LET cop == <<<<key[2], file.val>>, line>> IN
  IF ~file.r.ok THEN [r |-> file.r]
  ELSE [r |-> [file.r EXCEPT !.inst.addrToCOP = LRU!Add(@, CacheSize, key, cop)],
        cop |-> cop, seen |-> FALSE]

FileName(r, mem, a) ==
  IF ~r.data.stateInTSD THEN GetGV(r, mem, a, TRUE)
  ELSE IF mem[a] = None THEN [r |-> Fail(r), val |-> << >>]
  ELSE [r |-> r, val |-> <<mem[a].val>>]

GetCOP(r, mem, a, func) ==
  LET cached == Through(r.inst.addrToCOP, <<a, func>>, None) IN
  IF cached.ok
  THEN [r |-> [r EXCEPT !.inst.addrToCOP = cached.cache], cop |-> cached.val, seen |-> TRUE]
  ELSE IF mem[a] = None THEN [r |-> Fail(r)]
  ELSE NewCOP(FileName(r, mem, mem[a].file), <<a, func>>, mem[a].line)

\* Symbolize: the frame has the GV of the function and, as its position, the COP.
COPFrame(got) == IF got.r.ok THEN Emit(got.r, got.cop, got.seen) ELSE got.r

PerlSymbolize(r, mem, f) ==
  LET Frame(gv) == IF gv.r.ok THEN COPFrame(GetCOP(gv.r, mem, f.pos, gv.val)) ELSE gv.r
  IN  Outcome(Frame(GetGV(r, mem, f.ptr, FALSE)))
=============================================================================
