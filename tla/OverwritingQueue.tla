-------------------------- MODULE OverwritingQueue --------------------------
(***************************************************************************)
(* What reporter/fifo.go promises its users: a FIFO queue of at most Size  *)
(* elements in which an append to a full queue costs the oldest element,   *)
(* and which counts (modulo the width of its counter) the elements lost    *)
(* that way since the count was last collected.                            *)
(***************************************************************************)
EXTENDS Integers, Sequences

CONSTANTS Value, Size, CounterMod

VARIABLES queue,      \* the elements a reader would get now, oldest first
          overwrites, \* elements lost since the last Collect
          read        \* what the last ReadAll returned

qvars == <<queue, overwrites, read>>

QInit == queue = << >> /\ overwrites = 0 /\ read = << >>

QAppend(v) ==
  \/ /\ Len(queue) < Size
     /\ queue' = Append(queue, v)
     /\ UNCHANGED <<overwrites, read>>
  \/ /\ Len(queue) = Size
     /\ queue' = Append(Tail(queue), v)
     /\ overwrites' = (overwrites + 1) % CounterMod
     /\ UNCHANGED read

QReadAll == queue' = << >> /\ read' = queue /\ UNCHANGED overwrites

QCollect == overwrites' = 0 /\ UNCHANGED <<queue, read>>

QReset == queue' = << >> /\ overwrites' = 0 /\ UNCHANGED read

QNext == (\E v \in Value : QAppend(v)) \/ QReadAll \/ QCollect \/ QReset

QSpec == QInit /\ [][QNext]_qvars
=============================================================================
