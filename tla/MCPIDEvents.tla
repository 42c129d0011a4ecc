----------------------------- MODULE MCPIDEvents -----------------------------
\* Instances of PIDEvents for TLC.
EXTENDS PIDEvents, TLC

\* CPUs are interchangeable, and so are PIDs.
Symmetry == Permutations(CPU) \cup Permutations(PID)
==============================================================================
