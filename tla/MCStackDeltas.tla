---------------------------- MODULE MCStackDeltas ----------------------------
(***************************************************************************)
(* Either the stack deltas of an executable are extracted, loaded and      *)
(* looked up, with pages of four addresses and three rules, enough for     *)
(* pairs of deltas that can and that cannot be merged; or the stack of a   *)
(* thread is unwound.                                                      *)
(***************************************************************************)
EXTENDS StackDeltas, Unwinder

MCInfo == {[op |-> "sp", param |-> 8], [op |-> "sp", param |-> 16], [op |-> "fp", param |-> 16],
           Invalid}

NoThread ==
  /\ thread = [native |-> <<"root">>, vm |-> << >>, lang |-> "none", info |-> "none",
               kernelStack |-> FALSE, at |-> "none"]
  /\ record = [frames |-> << >>, pos |-> 2, vm |-> 0, done |-> FALSE, tailCalls |-> 0, error |-> "ok",
               wrongText |-> FALSE]
  /\ prog = "idle" /\ outcome = "none" /\ pidReported = FALSE

NoDeltas == source = << >> /\ deltas = << >> /\ first = 0 /\ stage = "none" /\ tables = NoTables

MCInit == (Init /\ NoThread) \/ (NoDeltas /\ UnwindInit)

MCNext == (Next /\ UNCHANGED unwindVars) \/ (UnwindNext /\ UNCHANGED vars)

\* A program that is called runs.
MCSpec == MCInit /\ [][MCNext]_<<vars, unwindVars>> /\ WF_unwindVars(UnwindNext)
=============================================================================
