---------------------------- MODULE MCTraceOrder -----------------------------
\* Traces of one process from two CPUs, without kernel stacks to tell apart.
EXTENDS TraceDelivery

MCKernelStack == {<<"a">>}
MCStackID(ks) == 1
==============================================================================
