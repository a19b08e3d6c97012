CONSTANTS
  Sockets = {k1, k2}
  Calls = {c1}
  Rpcs = {g1}
  Messages = {m1}
  MaxConn = 2
SPECIFICATION FairSpec
CHECK_DEADLOCK FALSE
INVARIANTS TypeOK SlotsBalance InfraOutlivesHandlers CrashesAreKnown
PROPERTIES RequestsAreServed StopEnds
