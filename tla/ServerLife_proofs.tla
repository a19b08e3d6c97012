------------------------- MODULE ServerLife_proofs -------------------------
(***************************************************************************)
(* Proofs of ServerLife's safety properties for any of the five servers,   *)
(* any number of requests, calls and messages, and any number of slots.    *)
(*                                                                         *)
(* Two inductive invariants.  SlotInv says that the queue before the       *)
(* semaphore holds each waiting request once, so that the slots taken are  *)
(* counted by the handlers that run.  StopInv says what GracefulStop has   *)
(* waited for when it is at a given step, and what has become of the pool. *)
(***************************************************************************)
EXTENDS ServerLife, FiniteSetTheorems, SequenceTheorems, TLAPS

\* Each request that waits is in the queue once, and only limited servers queue.
QueueOK ==
  /\ \A i \in 1..Len(acquiring) : req[acquiring[i]] = "acquiring"
  /\ \A i, j \in 1..Len(acquiring) : acquiring[i] = acquiring[j] => i = j
  /\ ~server.limited => acquiring = <<>>

SlotInv == TypeOK /\ QueueOK /\ SlotsBalance

\* Calls and tasks need their part; and what is over when GracefulStop has passed.
PastGrpc == stop \in {"next", "pool", "last", "drain", "closing", "done"}
PastPool == stop \in {"last", "drain", "closing", "done"}

StopInv ==
  /\ ~early /\ stop # "none" => up = Parts
  /\ \A g \in Rpcs : rpc[g] = "running" => "grpc" \in Parts /\ ~PastGrpc
  /\ \A m \in Messages :
       task[m] = "running" => "pool" \in Parts /\ (PastPool => halt = "missed")
  /\ PastPool /\ "pool" \in Parts => halt \in {"over", "missed"}
  /\ halt # "no" => stop \in {"pool", "last", "drain", "closing", "done"}
  /\ halt = "missed" => early
  /\ stop \in {"closing", "done"} => InFlight = {} \/ expired
  /\ closed => stop = "done"
  /\ CrashesAreKnown

\* A step that no conjunct of StopInv can tell from none.
Aside ==
  /\ server' = server /\ up' = up /\ stop' = stop /\ early' = early
  /\ expired' = expired /\ closed' = closed /\ rpc' = rpc /\ halt' = halt
  /\ task' = task /\ (stop \in {"closing", "done"} => InFlight' \subseteq InFlight)

-----------------------------------------------------------------------------
\* What the five servers have in common.
LEMMA ServerFacts ==
  ASSUME server \in Servers
  PROVE  /\ server.limited \in BOOLEAN
         /\ server.requests \subseteq Requests
         /\ "http" \in server.parts
         /\ server.parts \subseteq {"http", "grpc", "pool"}
<1>1. CASE server = ChatServer
  BY <1>1 DEF ChatServer, Requests
<1>2. CASE server = MatchServer
  BY <1>2 DEF MatchServer, Requests
<1>3. CASE server = UserServer
  BY <1>3 DEF UserServer, Requests
<1>4. CASE server = UploaderServer
  BY <1>4 DEF UploaderServer, Requests
<1>5. CASE server = WebServer
  BY <1>5 DEF WebServer, Requests
<1> QED
  BY <1>1, <1>2, <1>3, <1>4, <1>5 DEF Servers

\* There are finitely many handlers.
LEMMA HoldersFinite == IsFiniteSet(Holders) /\ Cardinality(Holders) \in Nat
<1>1. Holders \in SUBSET Requests
  BY DEF Holders
<1> QED
  BY <1>1, ServerAssumption, FS_Subset, FS_CardinalityType

-----------------------------------------------------------------------------
\* A handler that ends gives back the slot that it holds.
LEMMA ReturnKeeps ==
  ASSUME SlotInv, NEW r \in Requests, r \in Holders, Return(r),
         UNCHANGED <<server, acquiring, life, work>>
  PROVE  SlotInv'
<1>0. /\ server' = server /\ acquiring' = acquiring /\ process' = process /\ up' = up
      /\ stop' = stop /\ early' = early /\ failed' = failed /\ expired' = expired
      /\ closed' = closed /\ rpc' = rpc /\ halt' = halt /\ task' = task /\ hub' = hub
  BY DEF life, work
<1>1. Holders' = Holders \ {r}
  BY DEF SlotInv, TypeOK, Holders, Return, Stages
<1>2. Cardinality(Holders') = Cardinality(Holders) - 1
  BY <1>1, HoldersFinite, FS_RemoveElement
<1>3. Cardinality(Holders) \in Nat /\ Cardinality(Holders) # 0
  BY HoldersFinite, FS_EmptySet
<1>4. server.limited \in BOOLEAN
  BY ServerFacts DEF SlotInv, TypeOK
<1>5. taken' \in 0..MaxConn /\ SlotsBalance'
  BY <1>0, <1>2, <1>3, <1>4, ServerAssumption
     DEF SlotInv, TypeOK, SlotsBalance, Return
<1>6. QueueOK'
  BY <1>0 DEF SlotInv, TypeOK, QueueOK, Return, Holders, Stages
<1>7. req' \in [Requests -> Stages]
  BY DEF SlotInv, TypeOK, Return, Stages
<1>8. TypeOK'
  BY <1>0, <1>5, <1>7 DEF SlotInv, TypeOK, Parts, Pool!TypeOK
<1> QED
  BY <1>5, <1>6, <1>8 DEF SlotInv

\* A request that arrives is not in the queue yet.
LEMMA ArriveKeeps ==
  ASSUME SlotInv, NEW r \in Requests, Arrive(r)
  PROVE  SlotInv'
<1>0. /\ server' = server /\ taken' = taken /\ process' = process /\ up' = up
      /\ stop' = stop /\ early' = early /\ failed' = failed /\ expired' = expired
      /\ closed' = closed /\ rpc' = rpc /\ halt' = halt /\ task' = task /\ hub' = hub
  BY DEF Arrive, life, work
<1>1. server.limited \in BOOLEAN
  BY ServerFacts DEF SlotInv, TypeOK
<1>2. req' \in [Requests -> Stages]
  BY <1>1 DEF SlotInv, TypeOK, Arrive, Stages
<1>3. acquiring' \in Seq(Requests)
  BY <1>1 DEF SlotInv, TypeOK, Arrive
<1>4. TypeOK'
  BY <1>0, <1>2, <1>3 DEF SlotInv, TypeOK, Parts, Pool!TypeOK
<1>5. CASE server.limited
  <2>1. Holders' = Holders
    BY <1>5 DEF SlotInv, TypeOK, Arrive, Holders, Stages
  <2>2. /\ Len(acquiring') = Len(acquiring) + 1
        /\ \A i \in 1..Len(acquiring) : acquiring'[i] = acquiring[i]
        /\ acquiring'[Len(acquiring) + 1] = r
    BY <1>5 DEF SlotInv, TypeOK, Arrive
  <2>3. Len(acquiring) \in Nat /\ \A i \in 1..Len(acquiring) : acquiring[i] # r
    BY DEF SlotInv, TypeOK, QueueOK, Arrive
  <2>4. \A i \in 1..Len(acquiring') : req'[acquiring'[i]] = "acquiring"
    BY <1>5, <2>2, <2>3 DEF SlotInv, TypeOK, QueueOK, Arrive
  <2>5. \A i, j \in 1..Len(acquiring') : acquiring'[i] = acquiring'[j] => i = j
    BY <2>2, <2>3 DEF SlotInv, QueueOK
  <2>6. QueueOK'
    BY <1>0, <1>5, <2>4, <2>5 DEF QueueOK
  <2> QED
    BY <1>0, <1>4, <2>1, <2>6 DEF SlotInv, SlotsBalance
<1>6. CASE ~server.limited
  <2>1. Holders' = Holders \cup {r} /\ acquiring' = acquiring
    BY <1>6 DEF SlotInv, TypeOK, Arrive, Holders, Stages
  <2>2. QueueOK'
    BY <1>0, <1>6, <2>1 DEF SlotInv, QueueOK
  <2> QED
    BY <1>0, <1>4, <1>6, <2>2 DEF SlotInv, SlotsBalance
<1> QED
  BY <1>1, <1>5, <1>6

\* The head of the queue was no holder, and is now.
LEMMA AcquireKeeps ==
  ASSUME SlotInv, Acquire
  PROVE  SlotInv'
<1> DEFINE h == Head(acquiring)
<1>0. /\ server' = server /\ process' = process /\ up' = up
      /\ stop' = stop /\ early' = early /\ failed' = failed /\ expired' = expired
      /\ closed' = closed /\ rpc' = rpc /\ halt' = halt /\ task' = task /\ hub' = hub
  BY DEF Acquire, life, work
<1>1. server.limited
  BY ServerFacts DEF SlotInv, TypeOK, QueueOK, Acquire
<1>2. /\ Len(acquiring) \in Nat \ {0} /\ h = acquiring[1] /\ h \in Requests
      /\ acquiring' \in Seq(Requests) /\ Len(acquiring') = Len(acquiring) - 1
      /\ \A i \in 1..Len(acquiring') : acquiring'[i] = acquiring[i + 1]
  BY DEF SlotInv, TypeOK, Acquire
<1>3. req[h] = "acquiring" /\ h \notin Holders
  BY <1>2 DEF SlotInv, QueueOK, Holders, Stages
<1>4. req' = [req EXCEPT ![h] = "serving"]
  BY DEF Acquire
<1>5. Holders' = Holders \cup {h}
  BY <1>2, <1>4 DEF SlotInv, TypeOK, Holders, Stages
<1>6. Cardinality(Holders') = Cardinality(Holders) + 1
  BY <1>3, <1>5, HoldersFinite, FS_AddElement
<1>7. TypeOK'
  <2>1. req' \in [Requests -> Stages]
    BY <1>2, <1>4 DEF SlotInv, TypeOK, Stages
  <2>2. taken' \in 0..MaxConn
    BY ServerAssumption DEF SlotInv, TypeOK, Acquire
  <2> QED
    BY <1>0, <1>2, <2>1, <2>2 DEF SlotInv, TypeOK, Parts, Pool!TypeOK
<1>8. SlotsBalance'
  BY <1>0, <1>1, <1>6, ServerAssumption
     DEF SlotInv, TypeOK, SlotsBalance, Acquire
<1>9. \A i \in 1..Len(acquiring') : i + 1 \in 1..Len(acquiring) /\ acquiring'[i] # h
  BY <1>2 DEF SlotInv, QueueOK
<1>10. QueueOK'
  <2>1. \A i \in 1..Len(acquiring') : req'[acquiring'[i]] = "acquiring"
    <3> TAKE i \in 1..Len(acquiring')
    <3>1. acquiring'[i] \in Requests
      BY <1>2
    <3>2. req[acquiring'[i]] = "acquiring"
      BY <1>2, <1>9 DEF SlotInv, QueueOK
    <3> QED
      BY <3>1, <3>2, <1>4, <1>9 DEF SlotInv, TypeOK
  <2>2. \A i, j \in 1..Len(acquiring') : acquiring'[i] = acquiring'[j] => i = j
    <3> TAKE i, j \in 1..Len(acquiring')
    <3>1. acquiring[i + 1] = acquiring[j + 1] => i + 1 = j + 1
      BY <1>9 DEF SlotInv, QueueOK
    <3>2. i \in Int /\ j \in Int
      BY <1>2
    <3> QED
      BY <3>1, <3>2, <1>2
  <2> QED
    BY <1>0, <1>1, <2>1, <2>2 DEF QueueOK
<1> QED
  BY <1>7, <1>8, <1>10 DEF SlotInv

\* A websocket that goes on stays a holder.
LEMMA HolderMoves ==
  ASSUME SlotInv, NEW k \in Sockets, k \in Holders, NEW l \in Stages,
         l \notin {"new", "acquiring", "done"}, req' = [req EXCEPT ![k] = l],
         UNCHANGED <<server, taken, acquiring, life, work>>
  PROVE  SlotInv'
<1>0. /\ server' = server /\ taken' = taken /\ acquiring' = acquiring
      /\ process' = process /\ up' = up
      /\ stop' = stop /\ early' = early /\ failed' = failed /\ expired' = expired
      /\ closed' = closed /\ rpc' = rpc /\ halt' = halt /\ task' = task /\ hub' = hub
  BY DEF life, work
<1>1. k \in Requests
  BY DEF Requests
<1>2. Holders' = Holders
  BY <1>1 DEF SlotInv, TypeOK, Holders
<1>3. QueueOK'
  BY <1>0 DEF SlotInv, TypeOK, QueueOK, Holders
<1>4. TypeOK'
  BY <1>0, <1>1 DEF SlotInv, TypeOK, Parts, Pool!TypeOK
<1> QED
  BY <1>0, <1>2, <1>3, <1>4 DEF SlotInv, SlotsBalance

\* Steps that leave the requests alone.
LEMMA OthersKeep ==
  ASSUME SlotInv, UNCHANGED <<server, http>>, TypeOK'
  PROVE  SlotInv'
<1>1. server' = server /\ req' = req /\ acquiring' = acquiring /\ taken' = taken
  BY DEF http
<1>2. Holders' = Holders
  BY <1>1 DEF Holders
<1> QED
  BY <1>1, <1>2 DEF SlotInv, QueueOK, SlotsBalance

\* A part that gets going is one of the server's.
LEMMA PartUpType ==
  ASSUME SlotInv, NEW p, p \in Parts, up' = up \cup {p}, server' = server
  PROVE  up' \subseteq Parts'
BY DEF SlotInv, TypeOK, Parts, Pool!TypeOK

\* The steps in which a websocket goes on and its slot is as it was.
SocketMoves(k) == Upgrade(k) \/ Register(k) \/ Frame(k) \/ EndSocket(k)

\* Every step keeps SlotInv.
LEMMA SlotStep ==
  ASSUME SlotInv, [Next]_vars
  PROVE  SlotInv'
<1> USE DEF Crash, At
<1>1. CASE UNCHANGED vars
  <2>1. TypeOK'
    BY <1>1 DEF SlotInv, TypeOK, vars, life, http, work, Parts, Pool!TypeOK
  <2> QED
    BY <1>1, <2>1, OthersKeep DEF vars
<1>2. ASSUME NEW p \in Parts, StartPart(p) PROVE SlotInv'
  <2>1. UNCHANGED <<server, http>>
    BY <1>2 DEF StartPart
  <2>2. up' \subseteq Parts'
    BY <1>2, PartUpType DEF StartPart
  <2>3. process' \in {"running", "ended", "crashed"}
    BY <1>2 DEF StartPart
  <2>4. TypeOK'
    BY <1>2, <2>2, <2>3 DEF SlotInv, TypeOK, StartPart, http, work,
                                  Pool!TypeOK
  <2> QED
    BY <2>1, <2>4, OthersKeep
<1>3. ASSUME NEW r \in Requests, Arrive(r) PROVE SlotInv'
  BY <1>3, ArriveKeeps
<1>4. ASSUME NEW r \in Requests, Answer(r) PROVE SlotInv'
  <2>1. r \in Holders
    BY <1>4 DEF Answer, Holders, Stages
  <2> QED
    BY <1>4, <2>1, ReturnKeeps DEF Answer
<1>5. CASE Acquire
  BY <1>5, AcquireKeeps
<1>6. ASSUME NEW k \in Sockets, SocketMoves(k) PROVE SlotInv'
  <2>1. PICK l \in {"upgraded", "connecting", "handling", "open", "closing"} :
          req' = [req EXCEPT ![k] = l]
    BY <1>6 DEF SocketMoves, Upgrade, Register, Frame, EndSocket
  <2>2. k \in Holders /\ l \in Stages
    BY <1>6 DEF SocketMoves, Upgrade, Register, Frame, EndSocket, Holders, Requests,
                Stages
  <2>3. UNCHANGED <<server, taken, acquiring, life, work>>
    BY <1>6 DEF SocketMoves, Upgrade, Register, Frame, EndSocket
  <2> QED
    BY <2>1, <2>2, <2>3, HolderMoves
<1>7. ASSUME NEW k \in Sockets, HandlerReturns(k) \/ Unregister(k) PROVE SlotInv'
  <2>1. k \in Requests /\ k \in Holders
    BY <1>7 DEF HandlerReturns, Unregister, Holders, Requests, Stages
  <2>2. UNCHANGED <<server, acquiring, life, work>>
    BY <1>7 DEF HandlerReturns, Unregister
  <2>3. CASE Return(k)
    BY <2>1, <2>2, <2>3, ReturnKeeps
  <2>4. CASE req' = [req EXCEPT ![k] = "open"] /\ UNCHANGED taken
    BY <2>1, <2>2, <2>4, HolderMoves DEF Stages
  <2> QED
    BY <1>7, <2>3, <2>4 DEF HandlerReturns, Unregister
<1>14. ASSUME NEW k \in Sockets, KeysRace(k) PROVE SlotInv'
  <2>1. UNCHANGED <<server, http>>
    BY <1>14 DEF KeysRace
  <2>2. TypeOK'
    BY <1>14 DEF SlotInv, TypeOK, KeysRace, http, work, Parts, Pool!TypeOK
  <2> QED
    BY <2>1, <2>2, OthersKeep
<1>15. ASSUME NEW p, PartFails(p) PROVE SlotInv'
  <2>1. UNCHANGED <<server, http>>
    BY <1>15 DEF PartFails
  <2>2. TypeOK'
    BY <1>15 DEF SlotInv, TypeOK, PartFails, http, work, Parts, Pool!TypeOK
  <2> QED
    BY <2>1, <2>2, OthersKeep
<1>8. ASSUME NEW g \in Rpcs, RpcArrives(g) \/ RpcReturns(g) PROVE SlotInv'
  <2>1. UNCHANGED <<server, http>>
    BY <1>8 DEF RpcArrives, RpcReturns
  <2>2. rpc' \in [Rpcs -> {"new", "running", "done"}]
    BY <1>8 DEF SlotInv, TypeOK, RpcArrives, RpcReturns
  <2>3. TypeOK'
    BY <1>8, <2>2 DEF SlotInv, TypeOK, RpcArrives, RpcReturns, life, http, Parts,
                      Pool!TypeOK
  <2> QED
    BY <2>1, <2>3, OthersKeep
<1>9. ASSUME NEW m \in Messages, MessageArrives(m) \/ TaskEnds(m) PROVE SlotInv'
  <2>1. UNCHANGED <<server, http>> /\ hub' \subseteq Messages
    BY <1>9 DEF MessageArrives, TaskEnds, SlotInv, TypeOK
  <2>2. task' \in [Messages -> {"new", "running", "done", "dropped"}]
    BY <1>9 DEF SlotInv, TypeOK, MessageArrives, TaskEnds, Pool!TypeOK,
                Pool!Arrive, Pool!End
  <2>3. process' \in {"running", "ended", "crashed"}
    BY <1>9 DEF SlotInv, TypeOK, MessageArrives, TaskEnds, life
  <2>4. /\ rpc' = rpc /\ halt' = halt /\ up' = up /\ stop' = stop /\ early' = early
        /\ failed' = failed /\ expired' = expired /\ closed' = closed
    BY <1>9 DEF MessageArrives, TaskEnds, life, Pool!Arrive, Pool!End
  <2>5. TypeOK'
    BY <2>1, <2>2, <2>3, <2>4 DEF SlotInv, TypeOK, http, Parts, Pool!TypeOK
  <2> QED
    BY <2>1, <2>5, OthersKeep
<1>10. CASE Signal \/ Deadline
  <2>1. UNCHANGED <<server, http>>
    BY <1>10 DEF Signal, Deadline
  <2>2. TypeOK'
    BY <1>10 DEF SlotInv, TypeOK, Signal, Deadline, http, work, Parts, Pool!TypeOK
  <2> QED
    BY <2>1, <2>2, OthersKeep
<1>16. CASE BroadcastEnds
  <2>1. UNCHANGED <<server, rpc, halt, task, life, http>> /\ hub' = {}
    BY <1>16 DEF BroadcastEnds
  <2>2. TypeOK'
    BY <2>1 DEF SlotInv, TypeOK, life, http, Parts, Pool!TypeOK
  <2> QED
    BY <2>1, <2>2, OthersKeep
<1>11. CASE StopGrpc \/ GrpcStopped \/ Drained \/ CloseInfra
  <2>1. UNCHANGED <<server, http>>
    BY <1>11 DEF StopGrpc, GrpcStopped, Drained, CloseInfra
  <2>2. /\ stop' \in {"grpc", "next", "closing", "done"}
        /\ closed' \in BOOLEAN
        /\ UNCHANGED <<process, up, early, failed, expired, work>>
    BY <1>11 DEF SlotInv, TypeOK, StopGrpc, GrpcStopped, Drained, CloseInfra
  <2>3. TypeOK'
    BY <2>1, <2>2 DEF SlotInv, TypeOK, http, work, Parts, Pool!TypeOK
  <2> QED
    BY <2>1, <2>3, OthersKeep
<1>12. CASE ShutdownHttp \/ Exit
  <2>1. UNCHANGED <<server, http>>
    BY <1>12 DEF ShutdownHttp, Exit
  <2>2. TypeOK'
    BY <1>12 DEF SlotInv, TypeOK, ShutdownHttp, Exit, http, work, Parts, Pool!TypeOK
  <2> QED
    BY <2>1, <2>2, OthersKeep
<1>13. CASE StopPool \/ ClosePool \/ PoolHasStopped
  <2>1. UNCHANGED <<server, http>>
    BY <1>13 DEF StopPool, ClosePool, PoolHasStopped
  <2>2. /\ halt' \in {"no", "stopping", "closed", "over", "missed"}
        /\ task' = task /\ hub' = hub
    BY <1>13 DEF SlotInv, TypeOK, StopPool, ClosePool, PoolHasStopped, Pool!TypeOK,
                 Pool!Call, Pool!Close, Pool!Return
  <2>3. /\ process' \in {"running", "ended", "crashed"}
        /\ stop' \in {stop, "pool", "last"}
        /\ UNCHANGED <<up, early, failed, expired, closed, rpc>>
    BY <1>13 DEF SlotInv, TypeOK, StopPool, ClosePool, PoolHasStopped, life
  <2>4. TypeOK'
    BY <2>1, <2>2, <2>3 DEF SlotInv, TypeOK, http, Parts, Pool!TypeOK
  <2> QED
    BY <2>1, <2>4, OthersKeep
<1> QED
  BY <1>1, <1>2, <1>3, <1>4, <1>5, <1>6, <1>7, <1>8, <1>9, <1>10, <1>11, <1>12,
     <1>13, <1>14, <1>15, <1>16 DEF Next, GracefulStop, SocketMoves

\* At first no slot is taken.
LEMMA SlotInit == Init => SlotInv
<1> SUFFICES ASSUME Init PROVE SlotInv
  OBVIOUS
<1>1. Holders = {}
  BY DEF Init, Holders
<1>2. Cardinality(Holders) = 0
  BY <1>1, FS_EmptySet
<1>3. taken \in 0..MaxConn /\ acquiring \in Seq(Requests)
  BY ServerAssumption DEF Init
<1>4. TypeOK
  BY <1>3 DEF Init, TypeOK, Stages, Pool!TypeOK, Pool!Init
<1> QED
  BY <1>2, <1>4, ServerAssumption DEF SlotInv, SlotsBalance, QueueOK, Init

\* Every variable keeps its type: in particular, no handler gives back a slot that
\* was not taken.
THEOREM TypeCorrect == Spec => []TypeOK
<1>1. Spec => []SlotInv
  BY SlotInit, SlotStep, PTL DEF Spec
<1>2. SlotInv => TypeOK
  BY DEF SlotInv
<1> QED
  BY <1>1, <1>2, PTL

\* MaxAllowed's channel holds one element for each handler that runs, however
\* handlers end, and no more handlers run than it has room for.
THEOREM Balance == Spec => []SlotsBalance
<1>1. Spec => []SlotInv
  BY SlotInit, SlotStep, PTL DEF Spec
<1>2. SlotInv => SlotsBalance
  BY DEF SlotInv
<1> QED
  BY <1>1, <1>2, PTL

-----------------------------------------------------------------------------

\* Such a step keeps StopInv, if no crash is unknown.
LEMMA AsideKeeps ==
  ASSUME StopInv, Aside, process' = "crashed" => CrashesAreKnown'
  PROVE  StopInv'
<1>1. CrashesAreKnown'
  BY DEF CrashesAreKnown
<1>2. Parts' = Parts
  BY DEF Aside, Parts
<1> QED
  BY <1>1, <1>2 DEF StopInv, Aside, PastGrpc, PastPool

\* Every step keeps StopInv: nothing starts after the step that waits for it.
LEMMA StopStep ==
  ASSUME SlotInv, StopInv, Next
  PROVE  StopInv'
<1> USE DEF Crash, At
<1>0. /\ "http" \in Parts /\ up \subseteq Parts
      /\ server.requests \subseteq Requests
  BY ServerFacts DEF SlotInv, TypeOK, Parts, Pool!TypeOK
<1>1. ASSUME NEW p \in Parts, StartPart(p) PROVE StopInv'
  <2>1. ~early /\ stop # "none" => FALSE
    BY <1>1 DEF StopInv, StartPart
  <2>2. /\ early' = early /\ stop' = stop /\ expired' = expired /\ closed' = closed
        /\ rpc' = rpc /\ halt' = halt /\ task' = task /\ req' = req /\ Parts' = Parts
    BY <1>1 DEF StartPart, http, work, Parts
  <2>3. CrashesAreKnown'
    BY <1>1, <2>1, <2>2 DEF StopInv, StartPart, CrashesAreKnown
  <2> QED
    BY <2>1, <2>2, <2>3 DEF StopInv, PastGrpc, PastPool, InFlight
<1>2. ASSUME NEW r \in Requests, Arrive(r) \/ Answer(r) PROVE StopInv'
  <2>1. UNCHANGED <<server, life, work>> /\ process = "running"
    BY <1>2 DEF Arrive, Answer
  <2>2. stop \in {"closing", "done"} => InFlight' \subseteq InFlight
    BY <1>2 DEF SlotInv, TypeOK, Arrive, Answer, Return, Listening, InFlight
  <2> QED
    BY <2>1, <2>2, AsideKeeps DEF Aside, life, work
<1>3. CASE Acquire
  <2>1. UNCHANGED <<server, life, work>> /\ process = "running"
    BY <1>3 DEF Acquire
  <2>2. Head(acquiring) \in InFlight
    BY <1>3 DEF SlotInv, TypeOK, QueueOK, Acquire, InFlight
  <2>3. InFlight' \subseteq InFlight
    BY <1>3, <2>2 DEF SlotInv, TypeOK, Acquire, InFlight
  <2> QED
    BY <2>1, <2>3, AsideKeeps DEF Aside, life, work
<1>4. ASSUME NEW k \in Sockets,
             SocketMoves(k) \/ HandlerReturns(k) \/ Unregister(k)
      PROVE  StopInv'
  <2>1. UNCHANGED <<server, life, work>> /\ process = "running"
    BY <1>4 DEF SocketMoves, Upgrade, Register, Frame, EndSocket, HandlerReturns,
                Unregister
  <2>2. \E l \in Stages \ {"acquiring", "serving"} : req' = [req EXCEPT ![k] = l]
    BY <1>4 DEF SocketMoves, Upgrade, Register, Frame, EndSocket, HandlerReturns,
                Unregister, Return, Stages
  <2>3. InFlight' \subseteq InFlight
    BY <2>2 DEF SlotInv, TypeOK, InFlight
  <2> QED
    BY <2>1, <2>3, AsideKeeps DEF Aside, life, work
<1>17. ASSUME NEW k \in Sockets, KeysRace(k) PROVE StopInv'
  <2>1. Aside
    BY <1>17 DEF KeysRace, Aside, http, work, InFlight
  <2>2. CrashesAreKnown'
    BY <1>17 DEF KeysRace, CrashesAreKnown, http, work
  <2> QED
    BY <2>1, <2>2, AsideKeeps
<1>18. ASSUME NEW p, PartFails(p) PROVE StopInv'
  <2>1. Aside
    BY <1>18 DEF PartFails, Aside, http, work, InFlight
  <2>2. CrashesAreKnown'
    BY <1>18 DEF PartFails, CrashesAreKnown
  <2> QED
    BY <2>1, <2>2, AsideKeeps
<1>19. CASE BroadcastEnds
  BY <1>19, AsideKeeps DEF BroadcastEnds, Aside, life, http, InFlight
<1>5. ASSUME NEW g \in Rpcs, RpcArrives(g) \/ RpcReturns(g) PROVE StopInv'
  <2>1. UNCHANGED <<server, life, halt, task, http>> /\ process = "running"
    BY <1>5 DEF RpcArrives, RpcReturns
  <2>2. \A x \in Rpcs : rpc'[x] = "running" => "grpc" \in Parts /\ ~PastGrpc
    BY <1>0, <1>5 DEF StopInv, SlotInv, TypeOK, RpcArrives, RpcReturns, PastGrpc
  <2> QED
    BY <2>1, <2>2 DEF StopInv, PastGrpc, PastPool, CrashesAreKnown,
                      Parts, life, http, InFlight
<1>6. ASSUME NEW m \in Messages, MessageArrives(m) \/ TaskEnds(m) PROVE StopInv'
  <2>1. /\ UNCHANGED <<server, rpc, http>> /\ up' = up /\ stop' = stop
        /\ early' = early /\ expired' = expired /\ closed' = closed /\ halt' = halt
    BY <1>6 DEF MessageArrives, TaskEnds, life, Pool!Arrive, Pool!End
  <2>2. \A x \in Messages :
          task'[x] = "running" => "pool" \in Parts /\ (PastPool => halt = "missed")
    BY <1>0, <1>6 DEF StopInv, SlotInv, TypeOK, MessageArrives, TaskEnds,
                      Pool!TypeOK, Pool!Arrive, Pool!End
  <2>3. CrashesAreKnown'
    BY <1>6, <2>1 DEF StopInv, MessageArrives, TaskEnds, CrashesAreKnown,
                      Pool!Arrive, Pool!End, life
  <2> QED
    BY <2>1, <2>2, <2>3 DEF StopInv, PastGrpc, PastPool, Parts, http, InFlight
<1>7. CASE Signal
  <2>1. /\ UNCHANGED <<server, up, failed, expired, closed, http, work, process>>
        /\ early' = (up # Parts) /\ stop = "none" /\ stop' = "signalled"
    BY <1>7 DEF Signal
  <2>2. closed = FALSE
    BY <2>1 DEF StopInv, SlotInv, TypeOK
  <2>3. process = "running"
    BY <1>7 DEF Signal
  <2> QED
    BY <2>1, <2>2, <2>3 DEF StopInv, PastGrpc, PastPool, CrashesAreKnown, Parts,
                            http, work, InFlight
<1>8. CASE Deadline
  BY <1>8 DEF Deadline, StopInv, PastGrpc, PastPool, CrashesAreKnown,
              Parts, http, work, InFlight
<1>9. CASE StopGrpc
  <2>1. /\ UNCHANGED <<server, up, early, failed, expired, closed, http, work, process>>
        /\ stop = "signalled" /\ process = "running"
        /\ stop' = IF "grpc" \in Parts THEN "grpc" ELSE "next"
    BY <1>9 DEF StopGrpc
  <2>2. closed = FALSE
    BY <2>1 DEF StopInv, SlotInv, TypeOK
  <2> QED
    BY <2>1, <2>2 DEF StopInv, PastGrpc, PastPool, CrashesAreKnown, Parts,
                      http, work, InFlight
<1>10. CASE GrpcStopped
  <2>1. /\ UNCHANGED <<server, up, early, failed, expired, closed, http, work, process>>
        /\ stop = "grpc" /\ stop' = "next" /\ process = "running"
    BY <1>10 DEF GrpcStopped
  <2>2. closed = FALSE
    BY <2>1 DEF StopInv, SlotInv, TypeOK
  <2>3. \A g \in Rpcs : rpc[g] = "running" => FALSE
    BY <1>10 DEF GrpcStopped
  <2> QED
    BY <2>1, <2>2, <2>3 DEF StopInv, PastGrpc, PastPool, CrashesAreKnown, Parts,
                            http, work, InFlight
<1>11. CASE StopPool
  <2>1. /\ UNCHANGED <<server, up, early, failed, expired, closed, http, rpc, task>>
        /\ stop = "next" /\ process = "running" /\ halt = "no"
        /\ stop' \in {"next", "pool", "last"}
        /\ stop' = "last" => "pool" \notin Parts
    BY <1>11 DEF StopPool, Pool!Call, StopInv
  <2>2. closed = FALSE /\ early \in BOOLEAN
    BY <2>1 DEF StopInv, SlotInv, TypeOK
  <2>3. /\ halt' # "no" => stop' = "pool"
        /\ process' = "crashed" \/ halt' = "missed" => up # Parts
    BY <1>0, <1>11, <2>1 DEF StopPool, Pool!Call
  <2>4. CrashesAreKnown' /\ (halt' = "missed" => early')
    BY <2>1, <2>2, <2>3 DEF StopInv, CrashesAreKnown
  <2> QED
    BY <2>1, <2>2, <2>3, <2>4 DEF StopInv, PastGrpc, PastPool, Parts, http,
                                  InFlight
<1>15. CASE ClosePool
  <2>1. /\ UNCHANGED <<server, life, http, rpc, task>>
        /\ stop = "pool" /\ process = "running" /\ halt' = "closed"
    BY <1>15 DEF ClosePool, Pool!Close
  <2> QED
    BY <2>1 DEF StopInv, PastGrpc, PastPool, CrashesAreKnown, Parts, life, http,
                InFlight
<1>16. CASE PoolHasStopped
  <2>1. /\ UNCHANGED <<server, up, early, failed, expired, closed, http, rpc, task, process>>
        /\ stop = "pool" /\ stop' = "last" /\ process = "running"
        /\ halt' \in {"over", "missed"} /\ (halt' = "missed" => halt = "missed")
    BY <1>16 DEF PoolHasStopped, Pool!Return
  <2>2. closed = FALSE
    BY <2>1 DEF StopInv, SlotInv, TypeOK
  <2>3. halt' = "over" => \A m \in Messages : task[m] # "running"
    BY <1>16 DEF PoolHasStopped, Pool!Return
  <2> QED
    BY <2>1, <2>2, <2>3 DEF StopInv, PastGrpc, PastPool, CrashesAreKnown, Parts,
                            http, InFlight
<1>12. CASE ShutdownHttp
  <2>1. /\ UNCHANGED <<server, up, early, failed, expired, closed, http, work>>
        /\ stop = "last" /\ process = "running" /\ stop' \in {"last", "drain"}
    BY <1>12 DEF ShutdownHttp
  <2>2. closed = FALSE /\ early \in BOOLEAN
    BY <2>1 DEF StopInv, SlotInv, TypeOK
  <2>3. CrashesAreKnown'
    BY <1>0, <1>12, <2>1, <2>2 DEF ShutdownHttp, StopInv, CrashesAreKnown
  <2> QED
    BY <2>1, <2>2, <2>3 DEF StopInv, PastGrpc, PastPool, Parts, http, work, InFlight
<1>13. CASE Drained
  BY <1>13 DEF Drained, StopInv, SlotInv, TypeOK, PastGrpc, PastPool,
               CrashesAreKnown, Parts, http, work, InFlight
<1>14. CASE CloseInfra \/ Exit
  BY <1>14 DEF CloseInfra, Exit, StopInv, PastGrpc, PastPool, CrashesAreKnown,
               Parts, http, work, InFlight
<1> QED
  BY <1>1, <1>2, <1>3, <1>4, <1>5, <1>6, <1>7, <1>8, <1>9, <1>10, <1>11, <1>12,
     <1>13, <1>14, <1>15, <1>16, <1>17, <1>18, <1>19
     DEF Next, GracefulStop, SocketMoves

\* StopInv holds throughout.
LEMMA StopInvariant == Spec => []StopInv
<1>1. Init => StopInv
  BY DEF Init, StopInv, CrashesAreKnown, PastPool, Pool!Init
<1>2. SlotInv /\ StopInv /\ [Next]_vars => StopInv'
  <2> SUFFICES ASSUME SlotInv, StopInv, UNCHANGED vars PROVE StopInv'
    BY StopStep
  <2> QED
    BY DEF vars, life, http, work, StopInv, PastGrpc, PastPool, CrashesAreKnown,
           Parts, InFlight
<1>3. Spec => []SlotInv
  BY SlotInit, SlotStep, PTL DEF Spec
<1> QED
  BY <1>1, <1>2, <1>3, PTL DEF Spec

\* When GracefulStop closes Redis and the connections to the other services, no
\* gRPC call is running, no task unless Stop missed the pool that was being started,
\* and no request unless the deadline has passed.  Handlers of websockets and the
\* broadcast that the hub has in hand may be running: nothing waits for them.
THEOREM InfraLast == Spec => []InfraOutlivesHandlers
<1>1. StopInv => InfraOutlivesHandlers
  BY DEF StopInv, InfraOutlivesHandlers, PastGrpc, PastPool
<1> QED
  BY <1>1, StopInvariant, PTL

\* When they are closed the hub begins no broadcast any more, as no task is left that
\* could give it one, unless Stop missed the pool.
THEOREM NoLateBroadcast == Spec => LastBroadcast
<1>1. ASSUME StopInv, [Next]_vars
      PROVE  [closed => hub' \subseteq hub \/ (halt = "missed" /\ early)]_vars
  <2> SUFFICES ASSUME closed, Next, ~(hub' \subseteq hub)
               PROVE  halt = "missed" /\ early
    BY <1>1 DEF vars
  <2>1. \E m \in Messages : TaskEnds(m)
    BY DEF Next, GracefulStop, StartPart, PartFails, Arrive, Answer, Acquire, Upgrade,
       Register, Frame, HandlerReturns, KeysRace, EndSocket, Unregister, RpcArrives,
       RpcReturns, MessageArrives, BroadcastEnds, Signal, Deadline, StopGrpc,
       GrpcStopped, StopPool, ClosePool, PoolHasStopped, ShutdownHttp, Drained,
       CloseInfra, Exit, work
  <2>2. \E m \in Messages : task[m] = "running"
    BY <2>1 DEF TaskEnds, Pool!End
  <2> QED
    BY <1>1, <2>2 DEF StopInv, PastPool
<1> QED
  BY <1>1, StopInvariant, PTL DEF Spec, LastBroadcast

\* A server's process dies of itself of a listener or subscription that failed, of an
\* early signal, of a late message, of keys written while they are read, and of
\* nothing else.
THEOREM Crashes == Spec => []CrashesAreKnown
<1>1. StopInv => CrashesAreKnown
  BY DEF StopInv
<1> QED
  BY <1>1, StopInvariant, PTL
=============================================================================
