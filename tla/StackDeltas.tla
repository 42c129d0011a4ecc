----------------------------- MODULE StackDeltas -----------------------------
(***************************************************************************)
(* Stack deltas on their way from the extraction to the unwinder: the      *)
(* array that AddEx and ExtractELF build, the eBPF tables that loadDeltas  *)
(* makes of it, and the look-up of an address in these by the unwinder.    *)
(*                                                                         *)
(* A delta says how to unwind from its address on.  Its info is a command, *)
(* or a parameter for a rule (op stands for the base register and the rule *)
(* for the frame pointer).  Pages have 2^PageBits addresses, 64 kB in the  *)
(* code.  As in the code, the number of deltas of a page wraps around at   *)
(* the size of a page, and the binary search takes PageBits steps.         *)
(***************************************************************************)
EXTENDS Integers, Sequences, FiniteSets, SequencesExt, FiniteSetsExt, TLC

CONSTANTS PageBits,    \* STACK_DELTA_PAGE_BITS
          MinimumGap,  \* the size up to which a gap between functions is ignored
          LargeGap,    \* minimumMemoizableGapSize
          Info,        \* the infos: their op and param
          MaxInfos,    \* the size of unwind_info_array
          MaxAddress,  \* bound: addresses of deltas
          MaxDeltas    \* bound: deltas extracted

PageSize == 2^PageBits
Page(a) == a \div PageSize
Offset(a) == a % PageSize
Steps == PageBits

ASSUME StackDeltasAssumption ==
         /\ {PageBits, MinimumGap, LargeGap, MaxInfos, MaxAddress, MaxDeltas} \subseteq Nat
         /\ \A info \in Info : info.op \in STRING /\ info.param \in Int

VARIABLES source,  \* what the extraction found, in the order in which it did
          deltas,  \* StackDeltaArray
          first,   \* how many deltas of source came from .gopclntab, the first source
          stage,   \* "extract", "load", "loaded" or "failed"
          tables   \* what loadDeltas wrote

vars == <<source, deltas, first, stage, tables>>

Invalid == [op |-> "command", param |-> 0]
IsCommand(info) == info.op = "command"
Delta == {d \in [addr : 0..MaxAddress, gap : BOOLEAN, info : Info] : d.gap => IsCommand(d.info)}

NoTables == [deltas |-> << >>, pages |-> << >>, firstPage |-> 0, infos |-> << >>, gaps |-> {}]

Init == /\ source = << >> /\ deltas = << >> /\ first = 0
        /\ stage = "extract" /\ tables = NoTables

----------------------------------------------------------------------------
\* StackDeltaArray.AddEx with a sorted source

AddEx(ds, d) ==
  LET num == Len(ds)
      prev == ds[num]
      shortGap == prev.gap /\ prev.addr + MinimumGap >= d.addr
      continues == num > 1 /\ ds[num - 1].info = d.info
  IN  CASE num = 0                             -> <<d>>
        [] num > 0 /\ shortGap /\ ~continues   -> [ds EXCEPT ![num] = d]
        [] num > 0 /\ shortGap /\ continues    -> Front(ds)
        [] num > 0 /\ ~shortGap /\ prev.info = d.info -> ds
        [] num > 0 /\ ~shortGap /\ prev.info # d.info ->
             IF prev.addr = d.addr THEN [ds EXCEPT ![num] = d] ELSE Append(ds, d)

\* A function that starts outside of the Go code ends before it or starts after it.
OutsideGo(d) ==
  \/ d.addr < source[1].addr
  \/ d.addr = source[1].addr /\ d.gap
  \/ /\ d.addr > source[first].addr
     /\ Len(source) > first => Last(source).gap \/ Last(source).addr > source[first].addr

\* .gopclntab comes first, each source is sorted, and .eh_frame is not parsed for
\* the functions that start between the first and the last address of .gopclntab.
\* A gap is marked at the end of a function, which may be where the Go code starts.
Extract(d) ==
  /\ stage = "extract" /\ Len(source) < MaxDeltas
  /\ Len(source) # first => Last(source).addr <= d.addr
  /\ first > 0 => OutsideGo(d)
  /\ d.gap => Len(source) # first /\ ~Last(source).gap /\ Last(source).addr < d.addr
  /\ source' = Append(source, d)
  /\ deltas' = AddEx(deltas, d)
  /\ UNCHANGED <<first, stage, tables>>

\* .gopclntab starts with the code of a function and ends with a delta for the end
\* of the code.
EndGoPclntab ==
  /\ stage = "extract" /\ first = 0 /\ Len(source) > 1
  /\ Last(source).info = Invalid /\ source[Len(source) - 1].addr < Last(source).addr
  /\ ~IsCommand(source[1].info) /\ \A i \in DOMAIN source : ~source[i].gap
  /\ first' = Len(source)
  /\ UNCHANGED <<source, deltas, stage, tables>>

\* A plausible bug: the deltas of an address are sorted as their comment says, a
\* stop delta after the real one.
BeforeAsDocumented(d, e) ==
  d.addr < e.addr \/ (d.addr = e.addr /\ ~IsCommand(d.info) /\ IsCommand(e.info))

Before(d, e) ==
  d.addr < e.addr \/ (d.addr = e.addr /\ IsCommand(d.info) /\ ~IsCommand(e.info))

\* The end of ExtractELF: deltas of two sources are sorted and added anew.
FinishExtract ==
  /\ stage = "extract"
  /\ deltas' = IF first \in 1..Len(source) - 1
               THEN FoldLeft(AddEx, << >>, SortSeq(deltas, Before))
               ELSE deltas
  /\ stage' = "load"
  /\ UNCHANGED <<source, first, tables>>

----------------------------------------------------------------------------
\* loadDeltas

calculateMergeOpcode(d, e) ==
  IF /\ ~IsCommand(d.info)
     /\ e.addr - d.addr \in 1..2
     /\ e.info.op = d.info.op
     /\ e.info.param - d.info.param \in {8, -8}
  THEN [diff |-> e.addr - d.addr, add |-> e.info.param - d.info.param]
  ELSE [diff |-> 0, add |-> 0]

\* getUnwindInfoIndex: a command, or the index of the info, which may be new.
IndexedInfos(infos, u) ==
  IF IsCommand(u.info) \/ u \in Range(infos) THEN infos ELSE Append(infos, u)
IndexOf(infos, u) ==
  IF IsCommand(u.info) THEN [command |-> TRUE, value |-> u.info.param]
  ELSE [command |-> FALSE, value |-> CHOOSE i \in DOMAIN infos : infos[i] = u]

\* The body of the loop for the i-th delta.
LoadDelta(acc, i) ==
  IF acc.merged THEN [acc EXCEPT !.merged = FALSE]
  ELSE LET d == deltas[i]
           merge == IF i < Len(deltas) THEN calculateMergeOpcode(d, deltas[i + 1])
                    ELSE [diff |-> 0, add |-> 0]
           u == [info |-> d.info, merge |-> merge]
           infos == IndexedInfos(acc.infos, u)
           page == Page(d.addr) - Page(deltas[1].addr) + 1
       IN  [merged |-> merge.diff # 0,
            infos |-> infos,
            out |-> Append(acc.out, [low |-> Offset(d.addr), index |-> IndexOf(infos, u)]),
            counts |-> [acc.counts EXCEPT ![page] = (@ + 1) % PageSize],
            gaps |-> IF i < Len(deltas) /\ d.gap /\ deltas[i + 1].addr - d.addr >= LargeGap
                     THEN acc.gaps \cup {d.addr .. deltas[i + 1].addr - 1} ELSE acc.gaps]

Loaded ==
  LET numPages == Page(Last(deltas).addr) - Page(deltas[1].addr) + 1
  IN  FoldLeftDomain(LoadDelta,
        [merged |-> FALSE, infos |-> << >>, out |-> << >>, gaps |-> {},
         counts |-> [p \in 1..numPages |-> 0]], deltas)

\* UpdateStackDeltaPages: where the deltas of a page start, and how many there are.
PageInfos(counts) ==
  [p \in DOMAIN counts |->
     [firstDelta |-> FoldLeft(+, 0, SubSeq(counts, 1, p - 1)), numDeltas |-> counts[p]]]

LoadDeltas ==
  /\ stage = "load" /\ deltas # << >>
  /\ LET l == Loaded IN
       IF Len(l.infos) <= MaxInfos
       THEN /\ stage' = "loaded"
            /\ tables' = [deltas |-> l.out, pages |-> PageInfos(l.counts), infos |-> l.infos,
                          firstPage |-> Page(deltas[1].addr), gaps |-> l.gaps]
       ELSE /\ stage' = "failed"
            /\ tables' = [tables EXCEPT !.infos = SubSeq(l.infos, 1, MaxInfos)]
  /\ UNCHANGED <<source, deltas, first>>

----------------------------------------------------------------------------
\* The unwinder: get_stack_delta and what unwind_one_frame does with its result.

Unknown == [op |-> "unknown", param |-> 0]

\* bsearch_step for the entries lo..hi-1, which count from 0.
BSearchStep(s, offset) ==
  LET pivot == (s.lo + s.hi) \div 2
      next == IF offset >= tables.deltas[pivot + 1].low
              THEN [s EXCEPT !.lo = pivot + 1] ELSE [s EXCEPT !.hi = pivot]
  IN  [next EXCEPT !.more = next.lo < next.hi]

\* A plausible bug: one step less.
BSearchShort(page, offset) ==
  LET s[i \in 0..Steps - 1] ==
        IF i = 0 THEN [lo |-> page.firstDelta, hi |-> page.firstDelta + page.numDeltas, more |-> TRUE]
        ELSE IF s[i - 1].more THEN BSearchStep(s[i - 1], offset) ELSE s[i - 1]
  IN  s[Steps - 1]

BSearch(page, offset) ==
  LET s[i \in 0..Steps] ==
        IF i = 0 THEN [lo |-> page.firstDelta, hi |-> page.firstDelta + page.numDeltas, more |-> TRUE]
        ELSE IF s[i - 1].more THEN BSearchStep(s[i - 1], offset) ELSE s[i - 1]
  IN  s[Steps]

\* The index, from 0, of the delta for an offset in a page; -1 is an error.
DeltaIndex(page, offset) ==
  IF page.numDeltas = 0 THEN page.firstDelta - 1
  ELSE LET s == BSearch(page, offset) IN IF s.more \/ s.hi = 0 THEN -1 ELSE s.hi - 1

\* How far the program counter is behind the delta.  A delta of an earlier page
\* is taken to be one page away.
AddrDiff(page, offset, idx) ==
  offset - tables.deltas[idx + 1].low + (IF idx < page.firstDelta THEN PageSize ELSE 0)

Apply(index, diff) ==
  IF index.command THEN [op |-> "command", param |-> index.value]
  ELSE LET u == tables.infos[index.value]
       IN  IF u.merge.diff # 0 /\ diff >= u.merge.diff
           THEN [u.info EXCEPT !.param = @ + u.merge.add] ELSE u.info

get_stack_delta(pc) ==
  LET p == Page(pc) - tables.firstPage + 1 IN
  IF p \notin DOMAIN tables.pages THEN Unknown
  ELSE LET page == tables.pages[p]
           idx == DeltaIndex(page, Offset(pc))
       IN  IF idx < 0 THEN Unknown
           ELSE Apply(tables.deltas[idx + 1].index, AddrDiff(page, Offset(pc), idx))

Next == (\E d \in Delta : Extract(d)) \/ EndGoPclntab \/ FinishExtract \/ LoadDeltas

----------------------------------------------------------------------------
\* Properties

\* The info that applies at pc: that of the last delta at or below it.
InfoAt(ds, pc) ==
  LET below == SelectSeq(ds, LAMBDA d : d.addr <= pc)
  IN  IF below = << >> THEN Unknown ELSE Last(below).info

\* What was found in the file says of pc: like InfoAt, but a gap up to MinimumGap
\* counts as a part of what precedes it.
FoundAt(src, pc) ==
  LET below == Len(SelectSeq(src, LAMBDA d : d.addr <= pc))
      info[i \in 0..Len(src)] ==
        IF i = 0 THEN Unknown
        ELSE IF src[i].gap /\ i < Len(src) /\ src[i + 1].addr <= src[i].addr + MinimumGap
             THEN info[i - 1] ELSE src[i].info
  IN  info[below]

\* The file in the order of addresses.  Of the deltas of one source for an address
\* the last one counts, and of those of two sources the one that is no command.
InOrder ==
  LET counts == {i \in DOMAIN source :
                   i \in {first, Len(source)} \/ source[i].addr # source[i + 1].addr}
      last == SelectSeq([i \in DOMAIN source |-> i], LAMBDA i : i \in counts)
  IN  SortSeq([k \in DOMAIN last |-> source[last[k]]], Before)

Addresses == 0..(Page(MaxAddress) + 1) * PageSize - 1

\* Leaving out deltas does not change what is said of any address: AddEx, when it
\* overwrites or drops deltas around short gaps, and the second pass over the
\* sorted deltas of two sources.  (Where the first delta of the second source says
\* Invalid like the last one of the first, it may be dropped, and nothing is said.)
ExtractionFaithful ==
  stage = "load" =>
    LET src == InOrder
    IN  \A pc \in Addresses : \/ InfoAt(deltas, pc) = FoundAt(src, pc)
                              \/ InfoAt(deltas, pc) = Unknown /\ FoundAt(src, pc) = Invalid

\* No page has a delta at every address, for which numDeltas would be 0.
CountsFit ==
  Len(tables.deltas) = FoldLeft(LAMBDA n, p : n + p.numDeltas, 0, tables.pages)

\* A merged delta at the last address of a page, with the second part two further:
\* at the first address of a page that is not the next one, the difference that
\* get_stack_delta computes is 1 instead of more than a page.
FarMerge(pc) ==
  LET below == SelectLastInSeq(deltas, LAMBDA d : d.addr <= pc)
  IN  /\ Offset(pc) = 0 /\ below > 1
      /\ LET d == deltas[below - 1]
         IN  /\ Offset(d.addr) = PageSize - 1 /\ Page(pc) > Page(d.addr) + 1
             /\ calculateMergeOpcode(d, deltas[below]).diff = 2

\* The unwinder finds for every address of the executable's pages what the array
\* says: splitting into pages, merging pairs of deltas, the table of infos, empty
\* pages and the bounded binary search lose nothing, except in a full page and
\* for FarMerge.  The large gaps that interpreters search for code without deltas are
\* those between functions, whole and with nothing else in them.
LookupFaithful ==
  stage = "loaded" =>
    /\ CountsFit =>
         \A pc \in Addresses :
           Page(pc) <= Page(Last(deltas).addr) /\ ~FarMerge(pc) => get_stack_delta(pc) = InfoAt(deltas, pc)
    /\ \A g \in tables.gaps :
         /\ Cardinality(g) >= LargeGap
         /\ \A pc \in g : IsCommand(InfoAt(deltas, pc))
         /\ \E i \in DOMAIN deltas : deltas[i].gap /\ deltas[i].addr = Min(g)
=============================================================================
