--------------------------- MODULE MCInterpreters ----------------------------
(***************************************************************************)
(* Either the plugin of an interpreter is at work in the agent; or one of  *)
(* the line tables that the plugins read is looked up.                     *)
(***************************************************************************)
EXTENDS Interpreters, LineTables

NoLookup == in = [fmt |-> "none"] /\ i = 1 /\ reg = << >> /\ out = Pending

NoPlugin ==
  /\ lang = "none"
  /\ elf = None /\ data = None /\ inst = None /\ jit = None
  /\ offsets = FALSE /\ stale = FALSE
  /\ now = << >> /\ pending = << >> /\ trace = << >>
  /\ lost = {} /\ meta = {} /\ unsent = {} /\ cut = {}
  /\ bpf = [proc |-> {}, pages |-> {}]
  /\ calls = 0 /\ collected = 0 /\ writes = 0 /\ processes = 0

MCInit == (Init /\ NoLookup) \/ (NoPlugin /\ LineInit)

MCNext ==
  \/ Next /\ UNCHANGED lineVars
  \/ LineNext /\ UNCHANGED vars

MCSpec == MCInit /\ [][MCNext]_<<vars, lineVars>>
==============================================================================
