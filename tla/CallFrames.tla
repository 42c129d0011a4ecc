------------------------------ MODULE CallFrames ------------------------------
(***************************************************************************)
(* elfehframe.go: the call frame information of an executable, and the     *)
(* stack deltas made of it.  The FDEs of a section are visited in the      *)
(* order of the search table or of the section.  For each, the             *)
(* instructions of its CIE and then its own are executed by a virtual      *)
(* machine that has a rule for the CFA, the frame pointer and the return   *)
(* address; where the location advances, the rules become a delta.         *)
(*                                                                         *)
(* The instructions of an FDE are chosen while they are executed.  The     *)
(* registers are those the rules are about: "sp", "fp" and "ra" (RIP, or   *)
(* the link register), and "other".                                        *)
(***************************************************************************)
EXTENDS Integers, Sequences, FiniteSets, SequencesExt, FiniteSetsExt

CONSTANTS Sections,       \* where .eh_frame is found, its header, its entries (CIEs and
                          \* FDEs), the search table, and the instructions its FDEs may
                          \* have, with a bound on their number
          CIEs,           \* by position in the section
          CieCacheSize,
          GoStart, GoEnd, \* the code covered by .gopclntab, which is filtered out
          EntryPoint      \* of the executable

Cie == INSTANCE LRUCache

VARIABLES
  arch, section,          \* "x86" or "arm", and one of Sections
  parse,                  \* "walk", "fde", "over" or "failed"
  todo,                   \* the entries still to be visited
  cieCache,               \* initial states, by position of the CIE
  fde, loc, ip, cur, stack, \* state: of the FDE being executed
  fresh,                  \* instructions were executed since the last delta
  found,                  \* the deltas
  programs                \* per FDE visited: the instructions executed

frameVars == <<arch, section, parse, todo, cieCache, fde, loc, ip, cur, stack, fresh, found, programs>>

----------------------------------------------------------------------------
\* Rules.  The code packs the register and the operands of an expression into off.

VMReg(reg, off) == [reg |-> reg, off |-> off, base |-> "none", args |-> << >>]
Undef == VMReg("undefined", 0)

newVMRegs == IF arch = "x86" THEN [cfa |-> Undef, fp |-> Undef, ra |-> Undef]
             ELSE [cfa |-> Undef, fp |-> VMReg("same", 0), ra |-> VMReg("same", 0)]

Int16(n) == ((n + 2^15) % 2^16) - 2^15

\* The operations from opRot to opNE, which have no operands (but for plus_uconst).
Operators == {"rot", "xderef", "abs", "and", "div", "minus", "mod", "mul", "neg", "not", "or", "plus",
              "plus_uconst", "shl", "shr", "shra", "xor", "bra", "eq", "ge", "gt", "le", "lt", "ne"}

\* reader.expression: an expression with any other operation is not read.
Readable(e) == Range(e.ops) \subseteq {"lit", "breg", "constu", "consts", "deref"} \cup Operators

PLTExpression == <<"breg", "breg", "lit", "and", "lit", "ge", "lit", "shl", "plus">>
IndexExpression == <<"breg", "breg", "lit", "mul", "plus", "deref", "plus_uconst">>

\* vmReg.expression: the few expressions that are recognised, by their operations.
\* e.reg is the first register, e.args its offset and the other operands, but for the
\* number of the second register.
expression(e) ==
  LET args == [i \in DOMAIN e.args |-> Int16(e.args[i])]
      Expr(kind, as) == [reg |-> kind, off |-> 0, base |-> e.reg, args |-> as]
  IN  CASE e.ops = PLTExpression                             -> VMReg("ExprPLT", 0)
        [] e.ops = <<"breg">>                                -> Expr("ExprReg", args)
        [] e.ops = <<"breg", "deref">>                       -> Expr("ExprRegDeref", Append(args, 0))
        [] e.ops = <<"breg", "deref", "plus_uconst">>        -> Expr("ExprRegDeref", args)
        [] e.ops = IndexExpression /\ e.args[2] = 0 /\ e.args[3] = 8 -> Expr("ExprRegRegDeref", args)
        [] OTHER                                             -> Undef

\* rule and restore, for the registers that are tracked.
rule(regs, cie, r, base, off) ==
  IF r \in {"fp", "ra"} THEN [regs EXCEPT ![r] = VMReg(base, off * cie.dataAlign)] ELSE regs
restore(regs, initial, r) ==
  IF r \in {"fp", "ra"} THEN [regs EXCEPT ![r] = initial[r]] ELSE regs

\* step, for one instruction that changes rules.
Execute(regs, initial, cie, i) ==
  CASE i.op = "offset"           -> rule(regs, cie, i.reg, "CFA", i.off)
    [] i.op = "neg_offset"       -> rule(regs, cie, i.reg, "CFA", -i.off)
    [] i.op = "val_offset"       -> rule(regs, cie, i.reg, "CFAVal", i.off)
    [] i.op = "register"         -> rule(regs, cie, i.reg, i.base, 0)
    [] i.op \in {"undefined", "val_expression"} -> rule(regs, cie, i.reg, "undefined", 0)
    [] i.op = "same_value"       -> rule(regs, cie, i.reg, "same", 0)
    [] i.op = "restore"          -> restore(regs, initial, i.reg)
    [] i.op = "def_cfa"          -> [regs EXCEPT !.cfa = VMReg(i.reg, i.off)]
    [] i.op = "def_cfa_sf"       -> [regs EXCEPT !.cfa = VMReg(i.reg, i.off * cie.dataAlign)]
    [] i.op = "def_cfa_register" -> [regs EXCEPT !.cfa.reg = i.reg]
    [] i.op = "def_cfa_offset"   -> [regs EXCEPT !.cfa.off = i.off]
    [] i.op = "def_cfa_offset_sf" -> [regs EXCEPT !.cfa.off = i.off * cie.dataAlign]
    [] i.op = "def_cfa_expression" -> IF Readable(i.expr) THEN [regs EXCEPT !.cfa = expression(i.expr)]
                                                          ELSE regs
    [] i.op = "expression"       -> IF i.reg \in {"fp", "ra"} /\ Readable(i.expr)
                                    THEN [regs EXCEPT ![i.reg] = expression(i.expr)] ELSE regs
    [] i.op \in {"nop", "window_save", "args_size"} -> regs

----------------------------------------------------------------------------
\* getUnwindInfo

Command(c) == [op |-> "command", param |-> c, post |-> 0, fpOp |-> "none", fpParam |-> 0]
UnwindInfo(op, param, post, fpOp, fpParam) ==
  [op |-> op, param |-> param, post |-> post, fpOp |-> fpOp, fpParam |-> fpParam]

\* PackDerefParam and UnpackDerefParam: both offsets in one parameter, if they fit.
PackDerefParam(pre, post) == IF post \in 0..32 /\ post % 8 = 0 THEN {pre + post \div 8} ELSE {}
UnpackDerefParam(param) == <<param - (param % 8), (param % 8) * 8>>

\* The opcode for the frame pointer, and its parameter.
FPInfo(regs) ==
  CASE /\ regs.fp.reg = "CFA"
       /\ regs.cfa.reg # "sp" \/ (regs.fp.off < 0 /\ regs.fp.off >= -regs.cfa.off)
                                       -> <<"cfa", regs.fp.off>>
    [] regs.fp.reg = "ExprReg" /\ regs.fp.base = "fp" -> <<"fp", regs.fp.args[1]>>
    [] OTHER                           -> <<"none", 0>>

getUnwindInfoX86(regs) ==
  LET f == FPInfo(regs)
      deref == IF regs.cfa.reg = "ExprRegDeref"
               THEN PackDerefParam(regs.cfa.args[1], regs.cfa.args[2]) ELSE {}
  IN  CASE "undefined" \in {regs.cfa.reg, regs.ra.reg} -> Command("stop")
        [] /\ "undefined" \notin {regs.cfa.reg, regs.ra.reg}
           /\ regs.ra.reg = "CFA" /\ regs.cfa.reg = "sp" /\ regs.cfa.off + regs.ra.off < 0
                                                       -> Command("stop")
        [] regs.ra # VMReg("CFA", -8)                  -> Command("invalid")
        [] regs.cfa.reg = "fp"                         -> UnwindInfo("fp", regs.cfa.off, 0, f[1], f[2])
        [] regs.cfa.reg = "sp" /\ regs.cfa.off # 0     -> UnwindInfo("sp", regs.cfa.off, 0, f[1], f[2])
        [] regs.cfa.reg = "ExprPLT"                    -> Command("plt")
        [] deref # {} /\ regs.cfa.base \in {"fp", "sp"} ->
             LET u == UnpackDerefParam(CHOOSE d \in deref : TRUE)
             IN  UnwindInfo("*" \o regs.cfa.base, u[1], u[2], f[1], f[2])
        [] OTHER                                       -> Command("invalid")

\* The opcode for the frame pointer tells the place of the return address.
getUnwindInfoARM(regs) ==
  LET r == CASE regs.ra.reg = "same"                        -> <<"lr", 0>>
             [] regs.ra.reg = "CFA" /\ regs.cfa.off # 0     -> <<regs.cfa.reg, regs.cfa.off + regs.ra.off>>
             [] OTHER                                       -> <<"none", 0>>
  IN  CASE "undefined" \in {regs.cfa.reg, regs.ra.reg} -> Command("stop")
        [] "undefined" \notin {regs.cfa.reg, regs.ra.reg} /\ regs.cfa.reg \in {"fp", "sp"} ->
             UnwindInfo(regs.cfa.reg, regs.cfa.off, 0, r[1], r[2])
        [] OTHER -> Command("invalid")

getUnwindInfo(regs) == IF arch = "x86" THEN getUnwindInfoX86(regs) ELSE getUnwindInfoARM(regs)

----------------------------------------------------------------------------
\* The walk over the FDEs

NoFDE == [start |-> 0, len |-> 0, cie |-> 0]

\* Sections can be found by their headers.  Without, there may be a program header, for
\* the table.  A table that is not supported is not used.
findEhSections(s) ==
  CASE s.where = "sections" -> IF s.hdr = "valid" THEN "table" ELSE "sweep"
    [] s.where = "program"  -> IF s.hdr = "valid" THEN "table" ELSE "error"
    [] s.where = "nowhere"  -> "nothing"

\* walkBinSearchTable and walkFDEs: what is visited.  The table has an address for each
\* FDE.
Visits(s) ==
  CASE findEhSections(s) = "table" -> [i \in DOMAIN s.table |-> [ipStart |-> s.table[i].ipStart,
                                                                entry |-> s.entries[s.table[i].fde]]]
    [] findEhSections(s) = "sweep" -> [i \in DOMAIN s.entries |-> [ipStart |-> 0, entry |-> s.entries[i]]]
    [] OTHER                       -> << >>

FramesInit ==
  /\ arch \in {"x86", "arm"} /\ section \in Sections
  /\ parse = IF findEhSections(section) = "error" THEN "failed" ELSE "walk"
  /\ cieCache = << >>
  /\ todo = Visits(section)
  /\ fde = NoFDE /\ loc = 0 /\ ip = 0 /\ cur = newVMRegs /\ stack = << >> /\ fresh = FALSE
  /\ found = << >> /\ programs = << >>

\* parseCIE: what it refuses.
CIEError(c) ==
  \/ CIEs[c].version \notin {1, 3, 4}
  \/ CIEs[c].augmentation \notin {"", "zR", "zRS", "zPLR"}

\* The initial state: the CIE's instructions, on an initial state of their own.
Initial(c) ==
  FoldLeft(LAMBDA regs, i : Execute(regs, newVMRegs, CIEs[c], i), newVMRegs, CIEs[c].instructions)

\* fdeHook: functions in the range of .gopclntab are left out, and when there is no
\* search table, those at address 0.
fdeHook(e) ==
  /\ e.start \notin GoStart..GoEnd
  /\ findEhSections(section) = "sweep" => e.start # 0

FrameDelta(addr, hint, info) == [addr |-> addr, hint |-> hint, info |-> info]

\* The end of a function, where the entry point may follow.
EndOf(f) == FrameDelta(f.start + f.len, "gap", Command(IF EntryPoint = f.start + f.len THEN "stop" ELSE "invalid"))

\* A CIE is skipped, by its length, when it is met in the section; the table has none.
SkipCIE ==
  /\ parse = "walk" /\ todo # << >> /\ Head(todo).entry.kind # "fde"
  /\ todo' = Tail(todo)
  /\ parse' = IF findEhSections(section) = "sweep" THEN parse ELSE "failed"
  /\ UNCHANGED <<arch, section, cieCache, fde, loc, ip, cur, stack, fresh, found, programs>>

\* parseFDE, up to the instructions.  The CIE is parsed unless it is in the cache.  A
\* function that returns from a signal handler has one delta.
BeginFDE ==
  /\ parse = "walk" /\ todo # << >> /\ Head(todo).entry.kind = "fde"
  /\ \E e \in {Head(todo).entry}, ipStart \in {Head(todo).ipStart} :
     \E cached \in {e.cie \in Cie!Keys(cieCache)}, listed \in {ipStart \in {0, e.start}} :
       \/ /\ ~cached /\ CIEError(e.cie)
          /\ parse' = "failed"
          /\ UNCHANGED <<todo, cieCache, fde, loc, ip, cur, stack, fresh, found, programs>>
       \/ /\ cached \/ ~CIEError(e.cie)
          /\ cieCache' = IF cached THEN Cie!Get(cieCache, e.cie)
                         ELSE Cie!Add(cieCache, CieCacheSize, e.cie, Initial(e.cie))
          /\ cur' = Cie!Peek(cieCache', e.cie)
          /\ fde' = e /\ loc' = e.start /\ ip' = e.start /\ stack' = << >> /\ fresh' = FALSE
          /\ programs' = IF listed /\ fdeHook(e)
                         THEN Append(programs, [fde |-> e, from |-> Len(found) + 1, instructions |-> << >>])
                         ELSE programs
          /\ IF ~listed THEN parse' = "failed" /\ UNCHANGED <<todo, found>>
             ELSE IF ~fdeHook(e) THEN todo' = Tail(todo) /\ UNCHANGED <<parse, found>>
             ELSE IF CIEs[e.cie].augmentation = "zRS" \/ e.trampoline
             THEN /\ todo' = Tail(todo) /\ UNCHANGED parse
                  /\ found' = found \o <<FrameDelta(e.start, "keep", Command("signal")), EndOf(e)>>
             ELSE parse' = "fde" /\ UNCHANGED <<todo, found>>
  /\ UNCHANGED <<arch, section>>

\* The first delta of a function is to be kept.
hint == IF Len(found) < Last(programs).from THEN "keep" ELSE "none"

Executed == FoldLeft(LAMBDA n, p : n + Len(p.instructions), 0, programs)
Record(i) == programs' = [programs EXCEPT ![Len(programs)].instructions = Append(@, i)]

\* DWARF has a register and an offset replaced only where there is one of each.
WellFormed(i) ==
  /\ i.op \in {"def_cfa_register", "def_cfa_offset", "def_cfa_offset_sf"} => cur.cfa.reg \in {"sp", "fp", "other"}
  /\ i.op = "advance_loc" => loc + i.off * CIEs[fde.cie].codeAlign < fde.start + fde.len
  /\ i.op = "set_loc" => i.off > loc /\ i.off < fde.start + fde.len

\* A plausible bug: the CFA is not restored with the other rules.
RestoreStateKeepsCFA ==
  /\ stack # << >>
  /\ cur' = [Last(stack) EXCEPT !.cfa = cur.cfa]
  /\ stack' = Front(stack)
  /\ parse' = "fde"

RestoreState ==
  /\ stack # << >>
  /\ cur' = Last(stack)
  /\ stack' = Front(stack)
  /\ parse' = "fde"

\* One instruction of the FDE.  The state that a location is left with is that of the
\* addresses before the next one.
Instruction(i) ==
  /\ parse = "fde" /\ Executed < section.bound /\ WellFormed(i)
  /\ Record(i)
  /\ \/ /\ i.op \in {"advance_loc", "set_loc"}
        /\ loc' = IF i.op = "set_loc" THEN i.off ELSE loc + i.off * CIEs[fde.cie].codeAlign
        /\ ip' = loc'
        /\ found' = Append(found, FrameDelta(ip, hint, getUnwindInfo(cur)))
        /\ fresh' = FALSE
        /\ UNCHANGED <<cur, stack, parse>>
     \/ /\ i.op = "remember_state"
        /\ IF Len(stack) < 2 THEN stack' = Append(stack, cur) /\ UNCHANGED parse
                             ELSE parse' = "failed" /\ UNCHANGED stack
        /\ fresh' = TRUE /\ UNCHANGED <<loc, ip, cur, found>>
     \/ /\ i.op = "restore_state"
        /\ RestoreState \/ (stack = << >> /\ parse' = "failed" /\ UNCHANGED <<cur, stack>>)
        /\ fresh' = TRUE /\ UNCHANGED <<loc, ip, found>>
     \/ /\ i.op \notin {"advance_loc", "set_loc", "remember_state", "restore_state"}
        /\ cur' = Execute(cur, Cie!Peek(cieCache, fde.cie), CIEs[fde.cie], i)
        /\ fresh' = TRUE /\ UNCHANGED <<loc, ip, stack, parse, found>>
  /\ UNCHANGED <<arch, section, todo, cieCache, fde>>

\* The end of the instructions.  One that reaches beyond the end of the FDE is noticed
\* here.
EndFDE ==
  /\ parse = "fde"
  /\ found' = found \o (IF fresh THEN <<FrameDelta(ip, hint, getUnwindInfo(cur)), FrameDelta(loc, "none", getUnwindInfo(cur))>>
                        ELSE <<FrameDelta(loc, hint, getUnwindInfo(cur))>>)
                     \o (IF fde.valid THEN <<EndOf(fde)>> ELSE << >>)
  /\ parse' = IF fde.valid THEN "walk" ELSE "failed"
  /\ todo' = Tail(todo)
  /\ UNCHANGED <<arch, section, cieCache, fde, loc, ip, cur, stack, fresh, programs>>

EndWalk ==
  /\ parse = "walk" /\ todo = << >>
  /\ parse' = "over"
  /\ UNCHANGED <<arch, section, todo, cieCache, fde, loc, ip, cur, stack, fresh, found, programs>>

FramesNext == SkipCIE \/ BeginFDE \/ (\E i \in section.instructions : Instruction(i)) \/ EndFDE \/ EndWalk

----------------------------------------------------------------------------
\* What the instructions mean, without a machine: see DWARF 5, 6.4.

Count(p, op, m, n) == Cardinality({k \in m..n : p[k].op = op})

\* The remember_state that the restore_state at k goes back to.
Remembered(p, k) ==
  Max({m \in 1..k - 1 : /\ p[m].op = "remember_state"
                        /\ Count(p, "remember_state", m, k - 1) = Count(p, "restore_state", m, k - 1) + 1})

\* The instructions among the first n that have not been undone.
Effective(p, n) ==
  {j \in 1..n : ~\E k \in j..n : p[k].op = "restore_state" /\ Remembered(p, k) < j}

\* The last of them that has one of the given operations, for a register; 0 if none.
LastOf(p, n, ops, r) ==
  Max({0} \cup {j \in Effective(p, n) : p[j].op \in ops /\ r \in {p[j].reg, "any"}})

Location(f, p, n) ==
  FoldLeft(LAMBDA at, i : CASE i.op = "advance_loc" -> at + i.off * CIEs[f.cie].codeAlign
                            [] i.op = "set_loc"     -> i.off
                            [] OTHER                -> at, f.start, SubSeq(p, 1, n))

\* The number of instructions that count at an address.
UpTo(f, p, a) == Max({n \in 0..Len(p) : Location(f, p, n) <= a})

\* The address CFA, as a register, an offset, whether it is dereferenced, and an
\* offset after that; "none" if there is no such rule.
Place(base, pre, deref, post) == [base |-> base, pre |-> pre, deref |-> deref, post |-> post]
NoPlace == Place("none", 0, FALSE, 0)

Described(e) ==
  CASE e.ops = <<"breg", "deref">>                  -> Place(e.reg, e.args[1], TRUE, 0)
    [] e.ops = <<"breg", "deref", "plus_uconst">>   -> Place(e.reg, e.args[1], TRUE, e.args[2])
    [] e.ops = <<"breg">>                           -> Place(e.reg, e.args[1], FALSE, 0)
    [] e.ops = PLTExpression                        -> Place("plt", 0, FALSE, 0)
    [] OTHER                                        -> NoPlace

Signed == {"def_cfa_sf", "def_cfa_offset_sf"}
CFAOf(p, n, c) ==
  LET r == LastOf(p, n, {"def_cfa", "def_cfa_sf", "def_cfa_register", "def_cfa_expression"}, "any")
      o == LastOf(p, n, {"def_cfa", "def_cfa_offset"} \cup Signed, "any")
  IN  CASE r = 0                            -> NoPlace
        [] r > 0 /\ p[r].op = "def_cfa_expression" -> Described(p[r].expr)
        [] OTHER -> Place(p[r].reg, IF p[o].op \in Signed THEN p[o].off * c.dataAlign ELSE p[o].off, FALSE, 0)

\* Where the caller's value of a register is: at an offset from the CFA, at a place,
\* in the register itself, nowhere, or elsewhere.
SetsRule == {"offset", "neg_offset", "val_offset", "register", "undefined", "same_value", "restore",
             "expression", "val_expression"}

Found(how, off, place) == [how |-> how, off |-> off, place |-> place]

Saved(p, n, c, r) ==
  LET last == LastOf(p, n, SetsRule, r)
      j == IF last > 0 /\ p[last].op = "restore" THEN LastOf(p, Len(c.instructions), SetsRule, r) ELSE last
  IN  IF j = 0 THEN Found(IF arch = "x86" THEN "nowhere" ELSE "same", 0, NoPlace)
      ELSE CASE p[j].op = "offset"     -> Found("CFA", p[j].off * c.dataAlign, NoPlace)
             [] p[j].op = "neg_offset" -> Found("CFA", -p[j].off * c.dataAlign, NoPlace)
             [] p[j].op = "expression" -> Found("place", 0, Described(p[j].expr))
             [] p[j].op = "same_value" -> Found("same", 0, NoPlace)
             [] p[j].op = "undefined"  -> Found("nowhere", 0, NoPlace)
             [] OTHER                  -> Found("elsewhere", 0, NoPlace)

\* An expression that is not read leaves the rule as it was, which is not what it says.
Understood(p, n) ==
  \A j \in Effective(p, n) : p[j].op \in {"expression", "def_cfa_expression"} => Readable(p[j].expr)

----------------------------------------------------------------------------
\* Properties

\* Where unwind_one_frame finds the CFA for an info.
UnwoundCFA(info) ==
  CASE info.op \in {"sp", "fp"} -> Place(info.op, info.param, FALSE, 0)
    [] info.op = "*sp"          -> Place("sp", info.param, TRUE, info.post)
    [] info.op = "*fp"          -> Place("fp", info.param, TRUE, info.post)
    [] info.op = "command"      -> IF info.param = "plt" THEN Place("plt", 0, FALSE, 0) ELSE NoPlace

\* An info leads where the rules do.  On x86-64 the return address is read 8 below the
\* CFA, and the frame pointer at fpParam from the CFA or from itself; on ARM64 the
\* return address is in the link register or at fpParam from the register that the CFA
\* is found from.
Leads(info, cfa, fp, ra) ==
  /\ UnwoundCFA(info) = cfa
  /\ arch = "x86" => /\ ra.how = "CFA" /\ ra.off = -8
                     /\ info.fpOp = "cfa" => fp.how = "CFA" /\ fp.off = info.fpParam
                     /\ info.fpOp = "fp" => fp.place = Place("fp", info.fpParam, FALSE, 0)
  /\ arch = "arm" => /\ info.fpOp = "lr" => ra.how = "same"
                     /\ info.fpOp \in {"sp", "fp"} =>
                          ra.how = "CFA" /\ info.fpOp = cfa.base /\ info.fpParam = cfa.pre + ra.off

\* The rules that compilers use for ordinary frames, which no info may give up on.
Ordinary(cfa, fp, ra) ==
  /\ cfa.base \in {"sp", "fp"} /\ ~cfa.deref /\ cfa.pre >= 16
  /\ \/ ra.how = "CFA" /\ ra.off = -8
     \/ ra.how = "same" /\ arch = "arm"
  /\ fp.how \in {"same", "nowhere"} \/ (fp.how = "CFA" /\ fp.off = -16)

Complete(info, fp, ra) ==
  /\ info.op # "command"
  /\ arch = "x86" => (info.fpOp = "cfa") = (fp.how = "CFA")
  /\ arch = "arm" => info.fpOp # "none"

\* The deltas of a function say of each of its addresses what the call frame
\* instructions, those of the CIE and then those of the FDE, describe for it: remember,
\* restore and a CIE that is evicted from the cache and parsed again change nothing.
\* Where they cannot, they say so with a command; the rules of ordinary frames they
\* always can.  Every function has a marked end.  (No claim is made where an expression
\* is in force that reader.expression does not read.)
UnwindsAsDescribed ==
  parse = "walk" /\ programs # << >> =>
    LET f == Last(programs).fde
        c == CIEs[f.cie]
        p == c.instructions \o Last(programs).instructions
        ds == SubSeq(found, Last(programs).from, Len(found))
    IN  c.augmentation # "zRS" /\ ~f.trampoline =>
          /\ Last(ds) = EndOf(f)
          /\ \A a \in f.start..f.start + f.len - 1 :
               LET info == ds[SelectLastInSeq(ds, LAMBDA d : d.addr <= a)].info
                   n == UpTo(f, p, a)
                   cfa == CFAOf(p, n, c)
                   fp == Saved(p, n, c, "fp")
                   ra == Saved(p, n, c, "ra")
               IN  Understood(p, n) =>
                   /\ info \in {Command("stop"), Command("invalid")} \/ Leads(info, cfa, fp, ra)
                   /\ Ordinary(cfa, fp, ra) => Complete(info, fp, ra)
==============================================================================
