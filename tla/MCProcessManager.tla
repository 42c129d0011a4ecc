-------------------------- MODULE MCProcessManager --------------------------
\* Instances of ProcessManager for TLC.
EXTENDS ProcessManager

CONSTANT MaxPrefixes

\* Every area takes the same number of prefixes.
MCNumPrefixes == [a \in Area |-> MaxPrefixes]
=============================================================================
