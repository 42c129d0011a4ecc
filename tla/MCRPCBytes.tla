----------------------------- MODULE MCRPCBytes ------------------------------
\* The metrics of the reporter alone.
EXTENDS Metrics

MCIDsOf == [reporter |-> RPCMetrics]
==============================================================================
