--------------------------- MODULE MCWorkerPool ----------------------------
(* Instances of WorkerPool for TLC: as many messages as fill the workers    *)
(* and the queue and leave one sender blocked.                               *)
EXTENDS WorkerPool, TLC

CONSTANTS w1, w2
=============================================================================
