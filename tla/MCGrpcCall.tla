----------------------------- MODULE MCGrpcCall -----------------------------
\* Callers of one endpoint: c1 has a request's context, the others do not.
EXTENDS GrpcCall, TLC
=============================================================================
