----------------------------- MODULE ServerLife -----------------------------
(***************************************************************************)
(* The life of one server process: Run starts its parts in goroutines of   *)
(* their own, MaxAllowed admits its HTTP requests through a semaphore, and *)
(* after a signal GracefulStop takes the parts down one by one.            *)
(*                                                                         *)
(* A request for a websocket stays in its handler for as long as the       *)
(* socket is open, and so keeps its slot.  melody runs the socket's own    *)
(* handlers there; its hub, a goroutine of its own, registers sockets,     *)
(* runs the filter of a broadcast on them, and forgets them, one at a time.*)
(*                                                                         *)
(* The subscriber's worker pool is the one that MessagePool describes and  *)
(* WorkerPool implements.                                                  *)
(*                                                                         *)
(* What fails before Run (an argument, the tracer) never serves and is not *)
(* modelled.                                                               *)
(***************************************************************************)
EXTENDS Integers, Sequences, FiniteSets

CONSTANTS
  Sockets,   \* requests for a websocket
  Calls,     \* other HTTP requests
  Rpcs,      \* calls of the gRPC server
  Messages,  \* messages of the topic that the server subscribes to
  MaxConn    \* the slots of MaxAllowed

Requests == Sockets \cup Calls

ASSUME ServerAssumption ==
  /\ IsFiniteSet(Requests)
  /\ Sockets \cap Calls = {}
  /\ MaxConn \in Nat \ {0}

(* The five servers: the parts that Run starts, the requests that are routed, *)
(* and whether MaxAllowed stands before the handlers.                         *)
ChatServer ==
  [parts |-> {"http", "grpc", "pool"}, requests |-> Requests, limited |-> TRUE]
MatchServer ==
  [parts |-> {"http", "pool"}, requests |-> Sockets, limited |-> TRUE]
UserServer ==
  [parts |-> {"http", "grpc"}, requests |-> Calls, limited |-> FALSE]
UploaderServer ==
  [parts |-> {"http"}, requests |-> Calls, limited |-> FALSE]
WebServer ==
  [parts |-> {"http"}, requests |-> Calls, limited |-> FALSE]

Servers == {ChatServer, MatchServer, UserServer, UploaderServer, WebServer}

VARIABLES
  server,    \* which server this is
  process,   \* the process runs, has ended, or has crashed
  up,        \* parts whose goroutine of Run has got going
  stop,      \* where GracefulStop is
  early,     \* history: the signal came before every part was up
  failed,    \* history: a listener or the subscription has failed
  expired,   \* the 5 seconds of GracefulStop's context are over
  closed,    \* Redis and the gRPC connections are closed
  req,       \* where the handler of an HTTP request is
  acquiring, \* handlers blocked in acquire, first come first served
  taken,     \* elements in the channel sem
  rpc,       \* where the handler of a gRPC call is
  halt,      \* how far the pool's Stop has got
  task,      \* what became of a message
  hub        \* the message that melody's hub broadcasts, if any

life == <<process, up, stop, early, failed, expired, closed>>
http == <<req, acquiring, taken>>
work == <<rpc, halt, task, hub>>
vars == <<server, life, http, work>>

Parts == server.parts

\* What may fail beside them is the listener for the metrics.
Fallible == {"http", "grpc", "pool", "metrics"}

\* Where a request's handler is: a websocket's upgraded and waiting for the hub,
\* in the connect handler, reading, in the message handler, and closing, its close
\* handler and the wait for the hub included.
Stages == {"new", "acquiring", "serving", "upgraded", "connecting", "open",
           "handling", "closing", "done"}

Pool == INSTANCE MessagePool WITH
  ready <- "pool" \in up,
  alive <- process # "crashed"

TypeOK ==
  /\ server \in Servers
  /\ process \in {"running", "ended", "crashed"}
  /\ up \subseteq Parts
  /\ stop \in {"none", "signalled", "grpc", "next", "pool", "last", "drain",
               "closing", "done"}
  /\ early \in BOOLEAN /\ failed \in BOOLEAN
  /\ expired \in BOOLEAN /\ closed \in BOOLEAN
  /\ req \in [Requests -> Stages]
  /\ acquiring \in Seq(Requests)
  /\ taken \in 0..MaxConn
  /\ rpc \in [Rpcs -> {"new", "running", "done"}]
  /\ hub \subseteq Messages
  /\ Pool!TypeOK

Init ==
  /\ server \in Servers
  /\ process = "running" /\ up = {} /\ stop = "none"
  /\ early = FALSE /\ failed = FALSE /\ expired = FALSE /\ closed = FALSE
  /\ req = [r \in Requests |-> "new"]
  /\ acquiring = <<>> /\ taken = 0
  /\ rpc = [g \in Rpcs |-> "new"]
  /\ hub = {}
  /\ Pool!Init

\* A panic that nothing recovers, a fatal error of the runtime, or logger.Fatal.
Crash == process' = "crashed"

-----------------------------------------------------------------------------
(* Run.                                                                     *)

\* The gRPC server's Serve answers ErrServerStopped when it comes after
\* GracefulStop, and that is fatal.
StartPart(p) ==
  /\ process = "running"
  /\ p \in Parts \ up
  /\ up' = up \cup {p}
  /\ IF p = "grpc" /\ stop \notin {"none", "signalled"}
       THEN Crash ELSE UNCHANGED process
  /\ UNCHANGED <<server, stop, early, failed, expired, closed, http, work>>

\* Listen or Serve fails, before the stop has closed the listener; or Subscribe, which
\* can fail only before the pool is made; or the listener that any server may have
\* for its metrics.  Each is fatal, whatever the other parts are doing.
PartFails(p) ==
  /\ process = "running"
  /\ \/ p = "http" /\ p \in up /\ stop \notin {"drain", "closing", "done"}
     \/ p = "grpc" /\ p \in up /\ stop \in {"none", "signalled"}
     \/ p = "pool" /\ p \in Parts \ up /\ halt = "no"
     \/ p = "metrics"
  /\ failed' = TRUE
  /\ Crash
  /\ UNCHANGED <<server, up, stop, early, expired, closed, http, work>>

-----------------------------------------------------------------------------
(* HTTP requests.                                                           *)

\* Shutdown has closed the listener.
Listening == "http" \in up /\ stop \notin {"drain", "closing", "done"}

Arrive(r) ==
  /\ process = "running"
  /\ Listening
  /\ r \in server.requests
  /\ req[r] = "new"
  /\ req' = [req EXCEPT ![r] = IF server.limited THEN "acquiring" ELSE "serving"]
  /\ acquiring' = IF server.limited THEN Append(acquiring, r) ELSE acquiring
  /\ UNCHANGED <<server, taken, life, work>>

\* Wrong: the requests are counted, but none is made to wait.
AcquireAnyway ==
  /\ acquiring # <<>>
  /\ taken' = taken + 1
  /\ req' = [req EXCEPT ![Head(acquiring)] = "serving"]
  /\ acquiring' = Tail(acquiring)
  /\ UNCHANGED <<server, life, work>>

\* Nothing ends the wait but a free slot: a visitor who has given up keeps his
\* place, and takes his turn.
Acquire ==
  /\ process = "running"
  /\ acquiring # <<>>
  /\ taken < MaxConn
  /\ taken' = taken + 1
  /\ req' = [req EXCEPT ![Head(acquiring)] = "serving"]
  /\ acquiring' = Tail(acquiring)
  /\ UNCHANGED <<server, life, work>>

\* Wrong: release is not deferred, and a handler may panic.
ReturnWithoutDefer(r) ==
  /\ req' = [req EXCEPT ![r] = "done"]
  /\ taken' \in IF server.limited THEN {taken, taken - 1} ELSE {taken}

\* The handler returns, or panics and gin.Recovery answers: release is deferred.
Return(r) ==
  /\ req' = [req EXCEPT ![r] = "done"]
  /\ taken' = IF server.limited THEN taken - 1 ELSE taken

\* An answer, or a refusal to upgrade.
Answer(r) ==
  /\ process = "running"
  /\ req[r] = "serving"
  /\ Return(r)
  /\ UNCHANGED <<server, acquiring, life, work>>

\* melody's HandleRequest takes the connection from the server and stays.
Upgrade(k) ==
  /\ process = "running"
  /\ k \in Sockets
  /\ req[k] = "serving"
  /\ req' = [req EXCEPT ![k] = "upgraded"]
  /\ UNCHANGED <<server, acquiring, taken, life, work>>

\* The hub does nothing else while it broadcasts.
Register(k) ==
  /\ process = "running"
  /\ req[k] = "upgraded"
  /\ hub = {}
  /\ req' = [req EXCEPT ![k] = "connecting"]
  /\ UNCHANGED <<server, acquiring, taken, life, work>>

\* Only the chat server has a handler for what the page sends.
Frame(k) ==
  /\ process = "running"
  /\ server = ChatServer
  /\ req[k] = "open"
  /\ req' = [req EXCEPT ![k] = "handling"]
  /\ UNCHANGED <<server, acquiring, taken, life, work>>

\* A connect or message handler returns, or panics, which ends the request.
HandlerReturns(k) ==
  /\ process = "running"
  /\ req[k] \in {"connecting", "handling"}
  /\ \/ req' = [req EXCEPT ![k] = "open"] /\ UNCHANGED taken
     \/ Return(k)
  /\ UNCHANGED <<server, acquiring, life, work>>

\* The connect handler writes the session's map of keys while the hub's filter
\* reads it: melody has no lock for it, and the runtime may find out.
KeysRace(k) ==
  /\ process = "running"
  /\ req[k] = "connecting"
  /\ hub # {}
  /\ Crash
  /\ UNCHANGED <<server, up, stop, early, failed, expired, closed, http, work>>

\* The page closes the socket, because the visitor leaves or the page has the answer
\* to its DELETE, or the connection is lost: the close handler runs, and the hub is
\* asked to forget the session.
EndSocket(k) ==
  /\ process = "running"
  /\ req[k] = "open"
  /\ req' = [req EXCEPT ![k] = "closing"]
  /\ UNCHANGED <<server, acquiring, taken, life, work>>

Unregister(k) ==
  /\ process = "running"
  /\ req[k] = "closing"
  /\ hub = {}
  /\ Return(k)
  /\ UNCHANGED <<server, acquiring, life, work>>

-----------------------------------------------------------------------------
(* gRPC calls and messages.                                                 *)

RpcArrives(g) ==
  /\ process = "running"
  /\ "grpc" \in up /\ stop \in {"none", "signalled"}
  /\ rpc[g] = "new"
  /\ rpc' = [rpc EXCEPT ![g] = "running"]
  /\ UNCHANGED <<server, halt, task, hub, life, http>>

RpcReturns(g) ==
  /\ process = "running"
  /\ rpc[g] = "running"
  /\ rpc' = [rpc EXCEPT ![g] = "done"]
  /\ UNCHANGED <<server, halt, task, hub, life, http>>

\* The subscriber is never stopped.
MessageArrives(m) ==
  /\ process = "running"
  /\ process' \in {"running", "crashed"}
  /\ UNCHANGED <<server, up, stop, early, failed, expired, closed, rpc, hub, http>>
  /\ Pool!Arrive(m)

\* The task is over as soon as the hub has taken the message from it.
TaskEnds(m) ==
  /\ process = "running"
  /\ hub = {}
  /\ hub' = {m}
  /\ UNCHANGED <<server, rpc, life, http>>
  /\ Pool!End(m)

\* The hub has run the filter on every session, and called the chat service from it
\* if this is the match server.
BroadcastEnds ==
  /\ process = "running"
  /\ hub # {}
  /\ hub' = {}
  /\ UNCHANGED <<server, rpc, halt, task, life, http>>

-----------------------------------------------------------------------------
(* Serve's goroutine, from the signal on.  The steps of a part that a       *)
(* server does not have are passed over.                                    *)

At(l) == process = "running" /\ stop = l

Signal ==
  /\ At("none")
  /\ stop' = "signalled"
  /\ early' = (up # Parts)
  /\ UNCHANGED <<server, process, up, failed, expired, closed, http, work>>

Deadline ==
  /\ process = "running"
  /\ stop # "none" /\ ~expired
  /\ expired' = TRUE
  /\ UNCHANGED <<server, process, up, stop, early, failed, closed, http, work>>

\* No more calls are taken.
StopGrpc ==
  /\ At("signalled")
  /\ stop' = IF "grpc" \in Parts THEN "grpc" ELSE "next"
  /\ UNCHANGED <<server, process, up, early, failed, expired, closed, http, work>>

\* Wrong: Stop, which cuts the calls off, for GracefulStop.
GrpcStopsAtOnce ==
  /\ At("grpc")
  /\ stop' = "next"
  /\ UNCHANGED <<server, process, up, early, failed, expired, closed, http, work>>

\* GracefulStop waits for the calls under way, without a deadline.
GrpcStopped ==
  /\ At("grpc")
  /\ \A g \in Rpcs : rpc[g] # "running"
  /\ stop' = "next"
  /\ UNCHANGED <<server, process, up, early, failed, expired, closed, http, work>>

\* Close on the subscriber, which calls Stop on its pool: on none, on one that is
\* being started, or on one that runs.
StopPool ==
  /\ At("next")
  /\ UNCHANGED <<server, up, early, failed, expired, closed, rpc, hub, http>>
  /\ IF "pool" \in Parts
       THEN /\ process' \in {"running", "crashed"}
            /\ stop' = IF process' = "crashed" THEN stop ELSE "pool"
            /\ Pool!Call
       ELSE stop' = "last" /\ UNCHANGED <<process, halt, task>>

ClosePool ==
  /\ At("pool")
  /\ UNCHANGED <<server, life, rpc, hub, http>>
  /\ Pool!Close

\* Stop returns: it waits for the workers, without a deadline, or it has missed the
\* pool.
PoolHasStopped ==
  /\ At("pool")
  /\ stop' = "last"
  /\ UNCHANGED <<server, process, up, early, failed, expired, closed, rpc, hub, http>>
  /\ \/ Pool!Return
     \/ halt = "missed" /\ UNCHANGED <<halt, task>>

\* Wrong: Run takes ErrServerClosed for fatal too.
ShutdownIsFatal ==
  /\ At("last")
  /\ Crash
  /\ UNCHANGED <<server, up, stop, early, failed, expired, closed, http, work>>

\* r.httpServer is nil until its goroutine has got going.
ShutdownHttp ==
  /\ At("last")
  /\ IF "http" \in up
       THEN stop' = "drain" /\ UNCHANGED process
       ELSE stop' = stop /\ Crash
  /\ UNCHANGED <<server, up, early, failed, expired, closed, http, work>>

\* Requests that Shutdown waits for: those that wait for a slot too, but not the
\* websockets, whose connections are not the server's any more.
InFlight == {r \in Requests : req[r] \in {"acquiring", "serving"}}

\* Wrong: Shutdown is given a context without a deadline.
DrainForGood ==
  /\ At("drain")
  /\ InFlight = {}
  /\ stop' = "closing"
  /\ UNCHANGED <<server, process, up, early, failed, expired, closed, http, work>>

Drained ==
  /\ At("drain")
  /\ InFlight = {} \/ expired
  /\ stop' = "closing"
  /\ UNCHANGED <<server, process, up, early, failed, expired, closed, http, work>>

\* After the tracer provider: the connections to the other services, if there are
\* any, and to Redis.  Nobody asks what the websockets and the hub are doing.
CloseInfra ==
  /\ At("closing")
  /\ closed' = TRUE
  /\ stop' = "done"
  /\ UNCHANGED <<server, process, up, early, failed, expired, http, work>>

\* Serve returns, and main with it.
Exit ==
  /\ At("done")
  /\ process' = "ended"
  /\ UNCHANGED <<server, up, stop, early, failed, expired, closed, http, work>>

-----------------------------------------------------------------------------
GracefulStop ==
  \/ StopGrpc \/ GrpcStopped \/ StopPool \/ ClosePool \/ PoolHasStopped
  \/ ShutdownHttp \/ Drained \/ CloseInfra \/ Exit

Next ==
  \/ \E p \in Parts : StartPart(p)
  \/ \E r \in Requests : Arrive(r) \/ Answer(r)
  \/ Acquire
  \/ \E k \in Sockets :
       \/ Upgrade(k) \/ Register(k) \/ Frame(k) \/ HandlerReturns(k) \/ KeysRace(k)
       \/ EndSocket(k) \/ Unregister(k)
  \/ \E g \in Rpcs : RpcArrives(g) \/ RpcReturns(g)
  \/ \E m \in Messages : MessageArrives(m) \/ TaskEnds(m)
  \/ BroadcastEnds
  \/ \E p \in Fallible : PartFails(p)
  \/ Signal \/ Deadline \/ GracefulStop

Spec == Init /\ [][Next]_vars

\* What GracefulStop, the semaphore and the deadline may do they do; requests that are
\* no websockets, calls, tasks and broadcasts come to an end, as each waits on nothing
\* but calls that time out.  A websocket stays as long as its page wants, but when it
\* has ended the hub hears of it.  Whether anything comes or starts is left open.
Fairness ==
  /\ WF_vars(Acquire) /\ WF_vars(Deadline) /\ WF_vars(GracefulStop)
  /\ \A r \in Requests : WF_vars(Answer(r))
  /\ \A k \in Sockets : WF_vars(Unregister(k))
  /\ \A g \in Rpcs : WF_vars(RpcReturns(g))
  /\ \A m \in Messages : WF_vars(TaskEnds(m))
  /\ WF_vars(BroadcastEnds)

FairSpec == Spec /\ Fairness
-----------------------------------------------------------------------------
(* Safety.                                                                  *)

Holders ==
  {r \in Requests : req[r] \in Stages \ {"new", "acquiring", "done"}}

\* Acquire and release balance: whatever becomes of a handler, the channel holds
\* one element for each that is running, and so never more run than allowed.
SlotsBalance ==
  taken = (IF server.limited THEN Cardinality(Holders) ELSE 0) /\ taken <= MaxConn

\* What a stop waits for is over when it closes Redis and the connections to the
\* other services: gRPC calls always, tasks unless Stop missed the pool that was
\* being started, and HTTP requests unless the deadline cut them off.  It waits
\* neither for the handlers of the websockets nor for the broadcast that the hub has
\* in hand: the close may overtake these.
InfraOutlivesHandlers ==
  closed => /\ \A g \in Rpcs : rpc[g] # "running"
            /\ (\A m \in Messages : task[m] # "running") \/ (halt = "missed" /\ early)
            /\ InFlight = {} \/ expired

\* So no broadcast begins after the close, unless Stop missed the pool.
LastBroadcast == [][closed => hub' \subseteq hub \/ (halt = "missed" /\ early)]_vars

\* The process dies in the middle of its work only if a listener or the subscription
\* failed, the signal came before its parts had got going, a message came after the
\* pool was stopped, or a session's keys were written and read at once.
CrashesAreKnown ==
  process = "crashed" =>
    \/ failed
    \/ early
    \/ halt \in {"closed", "over"} /\ \E m \in Messages : task[m] = "new"
    \/ hub # {} /\ \E k \in Sockets : req[k] = "connecting"

-----------------------------------------------------------------------------
(* Liveness, under FairSpec.                                                *)

\* A websocket that is open, its handlers at work or not.
Connected(k) == req[k] \in {"upgraded", "connecting", "open", "handling"}

SocketsHoldAll == Cardinality({k \in Sockets : Connected(k)}) = MaxConn

\* Every request that arrives is served while websockets leave one slot.  (When
\* they hold all, a page that wants to leave waits for its DELETE, and its socket for
\* that: only tabs that are closed make room.)
RequestsAreServed ==
  \A r \in Requests :
    req[r] = "acquiring" ~>
      (req[r] # "acquiring" \/ SocketsHoldAll \/ process # "running")

\* GracefulStop ends, however many websockets are open and whoever waits.
StopEnds == stop # "none" ~> process # "running"
=============================================================================
