--------------------------- MODULE FifoRingBuffer ---------------------------
(***************************************************************************)
(* The overwriting ring buffer of reporter/fifo.go.  Every method runs     *)
(* under the buffer's mutex, so each is one atomic action.  Positions are  *)
(* 0-based as in the source.  lastRead is the slice the latest readAll     *)
(* returned.  CounterMod is 2^32, the range of the uint32 overwriteCount.  *)
(***************************************************************************)
EXTENDS Integers, Sequences

CONSTANTS Value,      \* the elements of the queue (type parameter T)
          emptyT,     \* the zero value of T
          Size,       \* the size given to initFifo
          CounterMod

\* initFifo rejects size 0; the zero value of T is not a queued element.
ASSUME FifoAssumption == /\ Size \in Nat \ {0}
                         /\ CounterMod \in Nat \ {0}
                         /\ emptyT \notin Value

VARIABLES data, readPos, writePos, count, overwriteCount, lastRead

vars == <<data, readPos, writePos, count, overwriteCount, lastRead>>

\* The values initFifo gives the fields of the buffer.
EmptyData == [p \in 0..Size-1 |-> emptyT]

Init == /\ data = EmptyData
        /\ readPos = 0 /\ writePos = 0 /\ count = 0
        /\ overwriteCount = 0
        /\ lastRead = << >>

\* zeroFifo runs initFifo again with the same size.
zeroFifo == /\ data' = EmptyData
            /\ readPos' = 0 /\ writePos' = 0 /\ count' = 0
            /\ overwriteCount' = 0
            /\ UNCHANGED lastRead

\* Where append writes next.
NextPos(p) == IF p + 1 = Size THEN 0 ELSE p + 1

\* A plausible bug: the reader keeps its position when its oldest element is
\* overwritten.
appendKeepsReader(v) ==
  /\ data' = [data EXCEPT ![writePos] = v]
  /\ writePos' = NextPos(writePos)
  /\ count' = IF count < Size THEN count + 1 ELSE count
  /\ overwriteCount' = IF count < Size THEN overwriteCount
                                       ELSE (overwriteCount + 1) % CounterMod
  /\ UNCHANGED <<readPos, lastRead>>

append(v) ==
  /\ data' = [data EXCEPT ![writePos] = v]
  /\ writePos' = NextPos(writePos)
  /\ \/ /\ count < Size
        /\ count' = count + 1
        /\ UNCHANGED <<readPos, overwriteCount>>
     \/ /\ ~(count < Size)
        /\ overwriteCount' = (overwriteCount + 1) % CounterMod
        /\ readPos' = writePos'
        /\ UNCHANGED count
  /\ UNCHANGED lastRead

\* The slot of the i-th queued element (i counts from 1).
Slot(i) == (i - 1 + readPos) % Size

\* The elements readAll copies out, oldest first.
Queued == [i \in 1..count |-> data[Slot(i)]]

\* A plausible bug: the slots that were read are not released.
readAllRetains ==
  /\ lastRead' = Queued
  /\ readPos' = writePos
  /\ count' = 0
  /\ UNCHANGED <<data, writePos, overwriteCount>>

readAll ==
  /\ lastRead' = Queued
  /\ data' = [p \in 0..Size-1 |->
                IF \E i \in 1..count : p = Slot(i) THEN emptyT ELSE data[p]]
  /\ readPos' = writePos
  /\ count' = 0
  /\ UNCHANGED <<writePos, overwriteCount>>

getOverwriteCount == /\ overwriteCount' = 0
                     /\ UNCHANGED <<data, readPos, writePos, count, lastRead>>

Next == \/ \E v \in Value : append(v)
        \/ readAll
        \/ getOverwriteCount
        \/ zeroFifo

Spec == Init /\ [][Next]_vars
-----------------------------------------------------------------------------
TypeOK == /\ data \in [0..Size-1 -> Value \cup {emptyT}]
          /\ readPos \in 0..Size-1
          /\ writePos \in 0..Size-1
          /\ count \in 0..Size
          /\ overwriteCount \in 0..CounterMod-1

\* The three counters the code keeps separately agree: the next write goes
\* exactly count slots after the next read.
PositionsAgree == writePos = IF readPos + count < Size
                               THEN readPos + count
                               ELSE readPos + count - Size

\* Slots p between readPos and writePos, the ones that hold queued elements.
Occupied(p) == \/ readPos <= p /\ p < readPos + count
               \/ p + Size < readPos + count

\* A slot holds an element exactly while that element is queued: readAll's
\* "Allow for element to be GCed" releases every element it hands out and
\* nothing that is still queued has been nulled.
HeldIffQueued == \A p \in 0..Size-1 : (data[p] # emptyT) <=> Occupied(p)

\* readAll, append's wrap-around and the overwrite path together implement
\* the overwriting queue: elements come out in the order they were appended,
\* and only the oldest ones are lost.
Q == INSTANCE OverwritingQueue WITH queue <- Queued,
                                    overwrites <- overwriteCount,
                                    read <- lastRead
RefinesQueue == Q!QSpec
=============================================================================
