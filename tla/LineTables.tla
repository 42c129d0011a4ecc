----------------------------- MODULE LineTables -----------------------------
(***************************************************************************)
(* The tables with which the interpreter plugins turn a code position into *)
(* a source line: the compressed line table of HotSpot                     *)
(* (interpreter/hotspot/hotspot.go), the position tables of V8             *)
(* (interpreter/nodev8/v8.go), the line number tables of CPython           *)
(* (interpreter/python/python.go) and the instruction tables of Ruby       *)
(* (interpreter/ruby/ruby.go).                                             *)
(*                                                                         *)
(* A lookup starts from a table that the virtual machine has written       *)
(* (Write, external) and a position q.  Every iteration of the loop of the *)
(* code is a step; i is the byte or the entry it has come to, reg its      *)
(* local variables, and out its result.                                    *)
(***************************************************************************)
EXTENDS Integers, Sequences, FiniteSets, FiniteSetsExt, SequencesExt

CONSTANTS Formats,           \* the kinds of tables that are looked up
          CodePos, Lines,    \* code positions and source lines
          MaxEntries,        \* bound on the entries of a table
          ImmediateTable,    \* size_of_immediate_table
          SmallBlock, Block  \* the bits of a small block (64) and of a block (512)

VARIABLES in, i, reg, out

lineVars == <<in, i, reg, out>>

Pending == -1
Failed == -2

\* The low four bytes of the address of the only entry of a Ruby table.
PartOfPointer == -3

----------------------------------------------------------------------------
\* The number encodings

Digits(b, k, n, base, off) ==
  MapThenSumSet(LAMBDA j : (b[k + j] - off) * base ^ j, 0..(n - 1))

\* getUint at index k: bytes from 192 on announce another one, up to five.
Unsigned5(b, k, x) ==
  LET more == {n \in 1..5 : k + n - 1 \in DOMAIN b
                            /\ (n = 5 \/ b[k + n - 1] < 192)
                            /\ \A j \in 0..(n - 2) : b[k + j] >= 192}
      n == Min(more)
  IN  IF more = {} \/ \E j \in 0..(n - 1) : b[k + j] < x
      THEN [ok |-> FALSE, val |-> 0, next |-> k]
      ELSE [ok |-> TRUE, val |-> Digits(b, k, n, 64, x), next |-> k + n]

\* getSigned and decodeVLQ: the lowest bit is the sign.
ZigZag(v) == IF v % 2 = 0 THEN v \div 2 ELSE -(v \div 2) - 1

\* decodeUVLQ: seven bits a byte, the highest bit announces another.
UVLQ(b, k) ==
  LET ends == {n \in 1..(Len(b) - k + 1) : b[k + n - 1] < 128}
      n == Min(ends)
  IN  IF ends = {} THEN [ok |-> FALSE, val |-> 0, next |-> k]
      ELSE [ok |-> TRUE, next |-> k + n,
            val |-> MapThenSumSet(LAMBDA j : (b[k + j] % 128) * 128 ^ j, 0..(n - 1))]

\* readVarint of Python: six bits a byte, bit 64 announces another.
Varint(b, k) ==
  LET ends == {n \in 1..(Len(b) - k + 1) : b[k + n - 1] % 128 < 64}
      n == Min(ends)
  IN  IF ends = {} THEN 0
      ELSE MapThenSumSet(LAMBDA j : (b[k + j] % 64) * 64 ^ j, 0..(n - 1))

\* readSignedVarint
SignedVarint(b, k) == LET v == Varint(b, k)
                      IN  IF v % 2 = 1 THEN -(v \div 2) ELSE v \div 2

----------------------------------------------------------------------------
\* What the virtual machines write (external).  A table is a sequence of
\* entries [code, line]; V8 and Ruby keep them sorted by code.

Entry == [code : CodePos, line : Lines]
Sorted(t) == \A j, k \in DOMAIN t : j < k => t[j].code < t[k].code

ToZigZag(v) == IF v >= 0 THEN 2 * v ELSE -2 * v - 1
ToUnsigned5(v, x) == IF v < 192 - x THEN <<v + x>>
                     ELSE <<192 + ((v - 192 + x) % 64), x + ((v - 192 + x) \div 64)>>
ToUVLQ(v) == IF v < 128 THEN <<v>> ELSE <<128 + (v % 128), v \div 128>>
ToByte(v) == v % 256

Code(t, k) == IF k = 0 THEN 0 ELSE t[k].code
Line(t, k) == IF k = 0 THEN 0 ELSE t[k].line

HotspotEntryBytes(dc, dl, x) ==
  IF dc = 0 /\ dl = 0 THEN << >>
  ELSE IF dc \in 0..31 /\ dl \in 0..7 /\ 8 * dc + dl # 255 THEN <<8 * dc + dl>>
  ELSE <<255>> \o ToUnsigned5(ToZigZag(dc), x) \o ToUnsigned5(ToZigZag(dl), x)

WriteHotspot(t, x) ==
  FlattenSeq([k \in DOMAIN t |->
    HotspotEntryBytes(t[k].code - Code(t, k - 1), t[k].line - Line(t, k - 1), x)]) \o <<0>>

\* Source positions are byte offsets shifted by one and by the external bit;
\* an entry that is not a statement stores the complement of its code delta.
WriteV8(t, stmt) ==
  FlattenSeq([k \in DOMAIN t |->
    LET dc == t[k].code - (IF k = 1 THEN -1 ELSE t[k - 1].code) IN
    ToUVLQ(ToZigZag(IF stmt THEN dc ELSE -dc - 1))
      \o ToUVLQ(ToZigZag(2 * (t[k].line - Line(t, k - 1))))])

\* The lengths of baseline code: the first is that of the prologue.
WriteBaseline(t) == FlattenSeq([k \in DOMAIN t |-> ToUVLQ(t[k].code - Code(t, k - 1))])

WriteLnotab(t) ==
  FlattenSeq([k \in DOMAIN t |-> <<t[k].code - Code(t, k - 1),
                                   ToByte(t[k].line - Line(t, k - 1))>>])

\* The location table of Python 3.11: a kind with a length in code units, and
\* two columns (kinds 10 to 12) or a signed line delta (kind 13).
ToVarint(v) == IF v < 64 THEN <<v>> ELSE <<64 + (v % 64), v \div 64>>
WriteLocations(t) ==
  FlattenSeq([k \in DOMAIN t |->
    LET d == t[k].line - Line(t, k - 1)
        length == (t[k].code - Code(t, k - 1) - 1) % 8
    IN  IF d \in 0..2 THEN <<208 + 8 * d + length, 4, 9>>
        ELSE <<232 + length>> \o ToVarint(IF d >= 0 THEN 2 * d ELSE -2 * d + 1)])

Written(f, t, x) == CASE f = "hotspot" -> WriteHotspot(t, x)
                      [] f = "v8" -> WriteV8(t, x = 0)
                      [] f = "baseline" -> WriteBaseline(t)
                      [] f \in {"lnotab", "linetable"} -> WriteLnotab(t)
                      [] f = "locations" -> WriteLocations(t)
                      [] OTHER -> << >>

\* Baseline code: instructions of 1, 3, 1 + 5 (Wide) and 1 bytes.
Bytecode == <<4, 5, 9, 9, 0, 5, 9, 9, 9, 9, 4>>
Instructions == <<1, 3, 6, 1>>
BytecodeCount == 6
BytecodeSizes == [op \in 0..17 |-> CASE op = 4 -> 1 [] op = 5 -> 3 [] op = 11 -> 5 [] OTHER -> 2]

rubyInsnInfoSizeLimit == 2 ^ 20

\* Offsets at which the lines of a script end, and the line its function starts.
LineEnds == <<2, 30, 150>>
FuncStartLine == 9

\* x varies how HotSpot and V8 write their tables.  Of Ruby's, 1 stands for a size
\* beyond the limit and 2 for a table that is null or cannot be read.
Ruby == {"ruby25", "ruby26"}
LineInit ==
  /\ \E f \in Formats, n \in 0..MaxEntries, x \in 0..2 :
       /\ n = 0 \/ x = 2 => f \in Ruby
       /\ x = 1 => f \in {"hotspot", "v8"} \cup Ruby
       /\ \E t \in [1..n -> Entry], q \in CodePos \cup {c + 1 : c \in CodePos} :
            /\ f # "hotspot" => Sorted(t)
            /\ f \in Ruby /\ n > 0 => t[1].code = 0
            /\ f = "linetable" => \A k \in 2..n : t[k].line # t[k - 1].line
            /\ f \in {"baseline", "lnotab", "linetable", "locations"} => t[1].code > 0
            /\ in = [fmt |-> f, t |-> t, q |-> q, x |-> x, bytes |-> Written(f, t, x)]
  /\ i = 1 /\ out = Pending
  /\ reg = CASE in.fmt = "hotspot" -> [bci |-> 0, line |-> 0, bestBci |-> 0, bestLine |-> 0]
             [] in.fmt = "v8" -> [codePos |-> -1, sourcePos |-> 0]
             [] in.fmt = "baseline" -> [pc |-> 0, off |-> 0, at |-> 1]
             [] in.fmt = "lnotab" -> [addr |-> 0, lineno |-> 0]
             [] in.fmt = "linetable" -> [line |-> 0, end |-> 0]
             [] in.fmt = "locations" -> [line |-> 0]
             [] in.fmt = "ruby25" -> [left |-> 1, right |-> Len(in.t) - 1]
             [] OTHER -> << >>

bytes == in.bytes

Return(v) == out' = v /\ UNCHANGED <<in, i, reg>>
Continue(k, r) == i' = k /\ reg' = r /\ UNCHANGED <<in, out>>

----------------------------------------------------------------------------
\* HotSpot

\* decodeLineTableEntry at index k.
LineTableEntry(b, k, x, r) ==
  LET bci == Unsigned5(b, k + 1, x)
      line == Unsigned5(b, bci.next, x)
  IN  IF k > Len(b) \/ b[k] = 0 THEN [ok |-> FALSE]
      ELSE IF b[k] # 255
      THEN [ok |-> TRUE, bci |-> r.bci + (b[k] \div 8), line |-> r.line + (b[k] % 8), next |-> k + 1]
      ELSE [ok |-> bci.ok /\ line.ok, bci |-> r.bci + ZigZag(bci.val),
            line |-> r.line + ZigZag(line.val), next |-> line.next]

\* One iteration of mapByteCodeIndexToLine; the entries are not sorted.
HotspotLine ==
  LET e == LineTableEntry(bytes, i, in.x, reg)
      best == e.bci >= reg.bestBci /\ e.bci < in.q
  IN  /\ in.fmt = "hotspot" /\ out = Pending
      /\ \/ ~e.ok /\ Return(reg.bestLine)
         \/ e.ok /\ e.bci = in.q /\ Return(e.line)
         \/ /\ e.ok /\ e.bci # in.q
            /\ Continue(e.next, [bci |-> e.bci, line |-> e.line,
                                 bestBci |-> IF best THEN e.bci ELSE reg.bestBci,
                                 bestLine |-> IF best THEN e.line ELSE reg.bestLine])

----------------------------------------------------------------------------
\* V8

\* mapPositionToLine searches the first line that ends at the position or later.
MapPositionToLine(ends, pos) ==
  IF ends = << >> \/ pos < 0 THEN 0
  ELSE Min({k \in DOMAIN ends : ends[k] >= pos} \cup {Len(ends) + 1})

\* scriptOffsetToLine; the lowest bit of a position says that it is external.
ScriptOffsetToLine(pos) ==
  LET offset == IF pos % 2 = 1 THEN 0 ELSE (pos \div 2) % (2 ^ 30)
  IN  IF offset = 0 THEN FuncStartLine ELSE MapPositionToLine(LineEnds, offset - 1)

\* One iteration of decodePosition.
V8Line ==
  LET c == UVLQ(bytes, i)
      d == ZigZag(c.val)
      pos == IF d >= 0 THEN reg.codePos + d ELSE reg.codePos - (d + 1)
      s == UVLQ(bytes, c.next)
  IN  /\ in.fmt = "v8" /\ out = Pending
      /\ \/ /\ ~c.ok \/ pos > in.q \/ ~s.ok
            /\ Return(ScriptOffsetToLine(IF c.ok /\ pos <= in.q THEN 1 ELSE reg.sourcePos))
         \/ /\ c.ok /\ pos <= in.q /\ s.ok
            /\ Continue(s.next, [codePos |-> pos, sourcePos |-> reg.sourcePos + ZigZag(s.val)])

\* readBytecodeLength at index k: a scaling prefix selects another column.
BytecodeLength(k) ==
  LET op == Bytecode[k]
      scale == CASE op \in {0, 2} -> BytecodeCount [] op \in {1, 3} -> 2 * BytecodeCount [] OTHER -> 0
  IN  IF k > Len(Bytecode) THEN 0
      ELSE IF scale = 0 THEN BytecodeSizes[op]
      ELSE IF k = Len(Bytecode) THEN -1
      ELSE 1 + BytecodeSizes[scale + Bytecode[k + 1]]

\* One iteration of mapBaselineCodeOffsetToBytecode.
V8Baseline ==
  LET pc == UVLQ(bytes, i)
      len == BytecodeLength(reg.at)
  IN  /\ in.fmt = "baseline" /\ out = Pending
      /\ \/ pc.ok /\ reg.pc + pc.val > in.q /\ Return(reg.off)
         \/ (~pc.ok \/ (reg.pc + pc.val <= in.q /\ len <= 0)) /\ Return(0)
         \/ /\ pc.ok /\ reg.pc + pc.val <= in.q /\ len > 0
            /\ Continue(pc.next, [pc |-> reg.pc + pc.val, off |-> reg.off + len, at |-> reg.at + len])

----------------------------------------------------------------------------
\* CPython

Signed(b) == IF b >= 128 THEN b - 256 ELSE b

\* One iteration of mapByteCodeIndexToLine (Python up to 3.9).
LnotabLine ==
  LET addr == reg.addr + bytes[i] IN
  /\ in.fmt = "lnotab" /\ out = Pending
  /\ \/ i > Len(bytes) /\ Return(reg.lineno)
     \/ i <= Len(bytes) /\ addr > in.q /\ Return(reg.lineno)
     \/ /\ i <= Len(bytes) /\ addr <= in.q
        /\ Continue(i + 2, [addr |-> addr, lineno |-> reg.lineno + Signed(bytes[i + 1])])

\* One iteration of walkLineTable (Python 3.10), which stops half way.
LineTableLine ==
  LET end == reg.end + bytes[i]
      d == Signed(bytes[i + 1])
      line == reg.line + d
  IN  /\ in.fmt = "linetable" /\ out = Pending
      /\ \/ (in.q = 0 \/ i - 1 >= Len(bytes) \div 2) /\ Return(0)
         \/ /\ in.q # 0 /\ i - 1 < Len(bytes) \div 2
            /\ \/ d \in {0, -128} /\ Continue(i + 2, [line |-> reg.line, end |-> end])
               \/ /\ d \notin {0, -128}
                  /\ \/ end # reg.end /\ end > in.q /\ Return(line)
                     \/ /\ end = reg.end \/ end <= in.q
                        /\ Continue(i + 2, [line |-> line, end |-> end])

\* One iteration of walkLocationTable (Python 3.11): the next entry is looked
\* for a fixed number of bytes later, and the lines are compared with q.
LocationsLine ==
  LET kind == (bytes[i] \div 8) % 16
      line == reg.line + CASE kind \in 10..12 -> kind - 10
                           [] kind \in {13, 14} -> SignedVarint(bytes, i + 1)
                           [] OTHER -> 0
      cut == kind \in {13, 14} /\ i + 1 > Len(bytes)
      steps == CASE kind = 15 -> 0 [] kind = 14 -> 4 [] kind \in 10..12 -> 2 [] OTHER -> 1
  IN  /\ in.fmt = "locations" /\ out = Pending
      /\ \/ in.q # 0 /\ i > Len(bytes) /\ Return(Max({0, reg.line}))
         \/ (in.q = 0 \/ (i <= Len(bytes) /\ cut)) /\ Return(0)
         \/ /\ in.q # 0 /\ i <= Len(bytes) /\ ~cut
            /\ \/ line >= in.q /\ Return(line)
               \/ line < in.q /\ Continue(i + steps + 1, [line |-> line])

----------------------------------------------------------------------------
\* Ruby

\* insn_info_size as it is read.
RubySize == IF in.x = 1 THEN rubyInsnInfoSizeLimit + 1 ELSE Len(in.t)
RubySearched == RubySize \in 2..rubyInsnInfoSizeLimit

\* getRubyLineNo returns without a search: with an error for an empty table, with the
\* first four bytes of insn_info_body, which is a pointer, for a table of one entry,
\* and without a line beyond the limit.
RubySizeReturns ==
  /\ in.fmt \in Ruby /\ out = Pending
  /\ \/ RubySize = 0 /\ Return(Failed)
     \/ RubySize = 1 /\ Return(PartOfPointer)
     \/ RubySize > rubyInsnInfoSizeLimit /\ Return(0)

\* The position getRubyLineNo looks for: that of the instruction before pc.
RubyPos == IF in.q # 0 THEN in.q - 1 ELSE 0

\* Entry n of the table, counted from 0.
RubyEntry(n) == in.t[n + 1]

\* A plausible bug: the search ends at the entry after the position.
SearchOvershoots ==
  LET size == Len(in.t)
      mid == reg.left + ((reg.right - reg.left) \div 2)
      pos == RubyEntry(mid).code
  IN  /\ in.fmt = "ruby25" /\ out = Pending /\ RubySearched
      /\ \/ in.x = 2 /\ Return(Failed)
         \/ /\ in.x # 2 /\ reg.left <= reg.right
            /\ \/ pos = RubyPos /\ Return(RubyEntry(mid).line)
               \/ pos < RubyPos /\ Continue(i, [reg EXCEPT !.left = mid + 1])
               \/ pos > RubyPos /\ Continue(i, [reg EXCEPT !.right = mid - 1])
         \/ /\ in.x # 2 /\ reg.left > reg.right
            /\ Return(RubyEntry(IF reg.left >= size THEN size - 1 ELSE reg.left).line)

\* One iteration of getObsoleteRubyLineNo: a binary search of the entries from
\* the second on, for the last one at or before the position.
RubySearch ==
  LET size == Len(in.t)
      mid == reg.left + ((reg.right - reg.left) \div 2)
      pos == RubyEntry(mid).code
  IN  /\ in.fmt = "ruby25" /\ out = Pending /\ RubySearched
      /\ \/ in.x = 2 /\ Return(Failed)
         \/ /\ in.x # 2 /\ reg.left <= reg.right
            /\ \/ pos = RubyPos /\ Return(RubyEntry(mid).line)
               \/ pos < RubyPos /\ Continue(i, [reg EXCEPT !.left = mid + 1])
               \/ pos > RubyPos /\ Continue(i, [reg EXCEPT !.right = mid - 1])
         \/ /\ in.x # 2 /\ reg.left > reg.right
            /\ Return(RubyEntry(IF reg.left >= size THEN size - 1
                                ELSE IF RubyEntry(reg.left).code > RubyPos THEN reg.left - 1
                                ELSE reg.left).line)

\* The succinct index that Ruby 2.6 keeps (external): the number of entries up
\* to a position, directly for the first positions, and for the others by
\* block, by small block and by bit.
Before(p) == Cardinality({k \in DOMAIN in.t : in.t[k].code < p})
BlockRank(b) == Before(ImmediateTable + b * Block)
SmallBlockRank(b, s) == Before(ImmediateTable + b * Block + s * SmallBlock) - BlockRank(b)
BitsUpTo(b, s, n) == LET first == ImmediateTable + b * Block + s * SmallBlock
                     IN  Before(first + n + 1) - Before(first)

\* getRubyLineNo from Ruby 2.6 on.  A word that reads as zero is taken for a
\* failure, also when the table holds that zero.
RubyIndexLine ==
  LET n == RubyPos - ImmediateTable
      b == n \div Block
      bit == n % Block
      s == bit \div SmallBlock
      small == {SmallBlockRank(b, k) : k \in 1..((Block \div SmallBlock) - 1)}
      fails == n >= 0 /\ (BlockRank(b) = 0 \/ small = {0} \/ BitsUpTo(b, s, SmallBlock - 1) = 0)
      index == IF n < 0 THEN Before(RubyPos + 1)
               ELSE BlockRank(b) + (IF s = 0 THEN 0 ELSE SmallBlockRank(b, s))
                      + BitsUpTo(b, s, bit % SmallBlock)
  IN  /\ in.fmt = "ruby26" /\ out = Pending /\ RubySearched
      /\ \/ (in.x = 2 \/ fails) /\ Return(Failed)
         \/ in.x # 2 /\ ~fails /\ Return(RubyEntry(index - 1).line)

LineNext == \/ HotspotLine \/ V8Line \/ V8Baseline
            \/ LnotabLine \/ LineTableLine \/ LocationsLine
            \/ RubySizeReturns \/ RubySearch \/ RubyIndexLine

----------------------------------------------------------------------------
\* Properties

\* The line of the last entry at or before position p, or none.
LineAt(p, none) ==
  LET S == {k \in DOMAIN in.t : in.t[k].code <= p}
  IN  IF S = {} THEN none ELSE in.t[CHOOSE k \in S : \A j \in S : in.t[j].code <= in.t[k].code].line

\* HotSpot tables are not sorted: an exact entry counts first, then the last
\* of the closest ones before the position.
HotspotReference ==
  LET exact == {k \in DOMAIN in.t : in.t[k].code = in.q}
      below == {k \in DOMAIN in.t : in.t[k].code < in.q}
      close == {k \in below : \A j \in below : in.t[j].code <= in.t[k].code}
  IN  IF exact # {} THEN in.t[Min(exact)].line
      ELSE IF below # {} THEN in.t[Max(close)].line ELSE 0

V8Reference == LET o == LineAt(in.q, 0)
               IN  IF o = 0 THEN FuncStartLine
                   ELSE 1 + Cardinality({k \in DOMAIN LineEnds : LineEnds[k] < o - 1})

BaselineReference ==
  LET n == Cardinality({k \in DOMAIN in.t : in.t[k].code <= in.q})
  IN  IF n = Len(in.t) \/ n > Len(Instructions) THEN 0
      ELSE MapThenSumSet(LAMBDA k : Instructions[k], 1..n)

\* co_linetable and the location table: entry k is the line of the code from
\* the entry before up to its own position.
RangeReference ==
  LET S == {k \in DOMAIN in.t : in.t[k].code > in.q}
  IN  IF S = {} THEN 0 ELSE in.t[Min(S)].line

\* The line that a plugin reports for a position of the code is the line that
\* the table of the virtual machine gives it, in each of the formats: the
\* compressed table of HotSpot, both tables of V8, co_lnotab, and the sorted
\* and the succinct table of Ruby, where the lookup may fail instead.  Without a
\* table, or with a size beyond the limit, Ruby has no line.  The walk of a
\* co_linetable, which covers half of it, may miss its line, and nothing is claimed
\* of the location table, whose walk compares lines with the position, and of the
\* Ruby tables of one entry, where the line is part of a pointer.
LineIsRight ==
  out # Pending =>
    CASE in.fmt = "hotspot" -> out = HotspotReference
      [] in.fmt = "v8" -> out = V8Reference
      [] in.fmt = "baseline" -> out = BaselineReference
      [] in.fmt = "lnotab" -> out = LineAt(in.q, 0)
      [] in.fmt = "linetable" -> out \in {RangeReference, 0}
      [] in.fmt = "locations" -> out >= 0
      [] in.fmt \in Ruby /\ RubySize = 1 -> TRUE
      [] in.fmt \in Ruby /\ (in.x # 0 \/ RubySize = 0) -> out \in {0, Failed}
      [] in.fmt = "ruby25" -> out = LineAt(RubyPos, 0)
      [] in.fmt = "ruby26" -> out \in {LineAt(RubyPos, 0), Failed}
=============================================================================
