------------------------- MODULE MCExecInfoManager -------------------------
(***************************************************************************)
(* Either executables are added to the manager and removed: two of them,   *)
(* one with several stack delta pages and one without deltas, and three    *)
(* callers, two that race to load an executable and a third that releases  *)
(* or adds a synthetic record meanwhile; or the cache of interval data is  *)
(* at work: two elements fit into it, unless one is the big one, and the   *)
(* huge one never fits; or the call frame information of an executable is  *)
(* parsed.                                                                 *)
(***************************************************************************)
EXTENDS ExecInfoManager, IntervalCache, CallFrames

\* ------------------------------ ExecInfoManager
CONSTANTS lib, vdso

MCFileID == {lib, vdso}
MCNumPages == lib :> 2 @@ vdso :> 0

\* ------------------------------ IntervalCache
CONSTANTS small, other, big, huge

Symmetry == Permutations({small, other})
MCSize == small :> 1 @@ other :> 1 @@ big :> 2 @@ huge :> 3

NoCache ==
  /\ files = << >> /\ entries = [e \in Exe |-> None] /\ lru = << >>
  /\ phase = "none" /\ exe = None /\ toDelete = 0 /\ now = 0 /\ crashes = MaxCrashes
  /\ lastUse = << >> /\ odd = Exe /\ settled = FALSE

\* ------------------------------ CallFrames
\* Instructions, CIEs, FDEs of five addresses, and sections with and without a search
\* table, correct ones and ones that are not.  A few of the instructions make up longer
\* programs, all of them shorter ones.
NoExpr == [ops |-> << >>, reg |-> "none", args |-> << >>]
I(o, reg, off) == [op |-> o, reg |-> reg, base |-> "none", off |-> off, expr |-> NoExpr]
E(o, reg, ops, base, args) == [op |-> o, reg |-> reg, base |-> "none", off |-> 0,
                                expr |-> [ops |-> ops, reg |-> base, args |-> args]]
CoreInstructions ==
  {I("advance_loc", "none", 1), I("remember_state", "none", 0), I("restore_state", "none", 0),
   I("def_cfa_register", "fp", 0), I("def_cfa_offset", "none", 16), I("offset", "fp", 2),
   I("restore", "fp", 0), I("undefined", "ra", 0)}
AllInstructions == CoreInstructions \cup
  {I("advance_loc", "none", 2), I("set_loc", "none", 4), I("def_cfa", "sp", 8), I("def_cfa_sf", "fp", -2),
   I("def_cfa_register", "other", 0), I("def_cfa_offset_sf", "none", -3), I("offset", "fp", 4),
   I("offset", "ra", 3), I("neg_offset", "ra", -1), I("restore", "ra", 0), I("same_value", "fp", 0), I("val_offset", "fp", 2),
   [I("register", "fp", 0) EXCEPT !.base = "other"], I("nop", "none", 0),
   E("def_cfa_expression", "none", <<"breg", "deref", "plus_uconst">>, "fp", <<-8, 16>>),
   E("def_cfa_expression", "none", PLTExpression, "sp", <<8, 15>>),
   E("def_cfa_expression", "none", <<"reg">>, "fp", << >>),
   E("def_cfa_expression", "none", IndexExpression, "fp", <<0, 8, 8, 16>>),
   E("expression", "fp", <<"breg">>, "fp", <<0>>)}
FrameCIEs ==
  << [version |-> 1, augmentation |-> "zR", codeAlign |-> 1, dataAlign |-> -8,
      instructions |-> <<I("def_cfa", "sp", 8), I("offset", "ra", 1)>>],
     [version |-> 4, augmentation |-> "", codeAlign |-> 2, dataAlign |-> -4,
      instructions |-> <<I("def_cfa", "sp", 16), I("same_value", "fp", 0), I("offset", "ra", 2)>>],
     [version |-> 1, augmentation |-> "zRS", codeAlign |-> 1, dataAlign |-> -8, instructions |-> << >>],
     [version |-> 2, augmentation |-> "zR", codeAlign |-> 1, dataAlign |-> -8, instructions |-> << >>] >>
F(s, c) == [kind |-> "fde", start |-> s, len |-> 5, cie |-> c, trampoline |-> FALSE, valid |-> TRUE]
C == [F(0, 1) EXCEPT !.kind = "cie"]
Sec(es, table, instructions, bound) ==
  [where |-> "sections", hdr |-> IF table = << >> THEN "none" ELSE "valid", entries |-> es, table |-> table,
   instructions |-> instructions, bound |-> bound]
T(ipStart, fd) == [ipStart |-> ipStart, fde |-> fd]
FrameSections ==
  {Sec(<<C, F(1, 1)>>, <<T(1, 2)>>, CoreInstructions, 4),
   Sec(<<C, F(6, 2)>>, <<T(6, 2)>>, AllInstructions, 3),
   Sec(<<C, F(1, 1), F(6, 2), F(11, 1)>>, <<T(1, 2), T(6, 3), T(11, 4)>>, CoreInstructions, 3),
   Sec(<<C, F(6, 2), C, F(0, 1), F(20, 3), F(1, 1), F(11, 4)>>, << >>, AllInstructions, 2),
   Sec(<<F(6, 1), [F(1, 1) EXCEPT !.valid = FALSE]>>, <<T(1, 2), T(7, 1)>>, CoreInstructions, 2),
   [Sec(<<F(32, 2), [F(12, 1) EXCEPT !.trampoline = TRUE]>>, <<T(12, 2), T(32, 1), T(33, 1)>>, {}, 0)
      EXCEPT !.where = "program"],
   [Sec(<<F(1, 1), C>>, <<T(1, 1), T(6, 2)>>, CoreInstructions, 2) EXCEPT !.where = "program"],
   [Sec(<<F(1, 1)>>, <<T(1, 1)>>, CoreInstructions, 2) EXCEPT !.hdr = "bad"],
   [Sec(<< >>, << >>, {}, 0) EXCEPT !.where = "program", !.hdr = "bad"],
   [Sec(<< >>, << >>, {}, 0) EXCEPT !.where = "nowhere"]}

NoFrames ==
  /\ arch = "none" /\ section = Sec(<< >>, << >>, {}, 0) /\ parse = "none" /\ todo = << >> /\ cieCache = << >>
  /\ fde = NoFDE /\ loc = 0 /\ ip = 0 /\ cur = Undef /\ stack = << >> /\ fresh = FALSE
  /\ found = << >> /\ programs = << >>

----------------------------------------------------------------------------
VARIABLE work  \* what is looked at; all but the manager may come to an end

MCInit ==
  /\ work \in {"manager", "cache", "frames"}
  /\ Init
  /\ IF work = "cache" THEN CacheInit ELSE NoCache
  /\ IF work = "frames" THEN FramesInit ELSE NoFrames

MCNext ==
  /\ UNCHANGED work
  /\ \/ work = "manager" /\ Next /\ UNCHANGED <<intervalVars, frameVars>>
     \/ CacheNext /\ UNCHANGED <<vars, frameVars>>
     \/ FramesNext /\ UNCHANGED <<vars, intervalVars>>
     \/ work # "manager" /\ UNCHANGED <<vars, intervalVars, frameVars>>

MCSpec == MCInit /\ [][MCNext]_<<work, vars, intervalVars, frameVars>>
=============================================================================
