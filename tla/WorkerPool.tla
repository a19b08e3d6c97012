----------------------------- MODULE WorkerPool -----------------------------
(***************************************************************************)
(* The worker pool of pkg/common/pool.go, with its two users in a server:  *)
(* the goroutine of a subscriber (Subscribe in match_sub.go and            *)
(* msg_sub.go), which makes the pool, starts it and hands it one task for  *)
(* every message, and the goroutine of GracefulStop, which closes the      *)
(* subscriber and with it the pool.                                        *)
(*                                                                         *)
(* Task n is made from the n-th message that decodes; a message that does  *)
(* not is logged and changes nothing.                                      *)
(***************************************************************************)
EXTENDS Integers, Sequences, FiniteSets

CONSTANTS
  Workers,     \* the goroutines of the pool; NumberWorker of them
  MaxMessages  \* bound: messages the subscription delivers

ASSUME PoolAssumption ==
  /\ IsFiniteSet(Workers)
  /\ Workers # {}
  /\ MaxMessages \in Nat

VARIABLES
  made,      \* s.pool has been assigned
  state,     \* 0: not start, 1: started, 2: stopped
  cancelled, \* the pool's context is done
  closed,    \* taskQueue is closed
  queue,     \* taskQueue, a channel of capacity NumberWorker
  wg,        \* the WaitGroup counter
  sub,       \* where the subscriber is
  received,  \* messages received; the last is the task in the subscriber's hands
  closer,    \* where GracefulStop is
  worker,    \* where each worker is
  job,       \* the task a worker executes
  executed,  \* history: tasks whose Execute has returned
  dropped    \* history: tasks that Do gave up because the context was done

vars == <<made, state, cancelled, closed, queue, wg, sub, received, closer,
          worker, job, executed, dropped>>

NumberWorker == Cardinality(Workers)

Tasks == 1..MaxMessages

Queued == {queue[i] : i \in 1..Len(queue)}

Running == {job[w] : w \in {x \in Workers : worker[x] = "running"}}

\* A panic in either goroutine ends the process.
Alive == sub # "panicked" /\ closer # "panicked"

TypeOK ==
  /\ made \in BOOLEAN /\ cancelled \in BOOLEAN /\ closed \in BOOLEAN
  /\ state \in {0, 1, 2}
  /\ queue \in Seq(Tasks)
  /\ wg \in 0..NumberWorker  \* the WaitGroup panics below 0
  /\ sub \in {"subscribing", "starting", "adding", "spawning", "receiving",
              "pushing", "blocked", "panicked"}
  /\ received \in 0..MaxMessages
  /\ closer \in {"idle", "swap1", "swap0", "cancelling", "closing", "waiting",
                 "returned", "panicked"}
  /\ worker \in [Workers -> {"unborn", "idle", "running", "done"}]
  /\ job \in [Workers -> 0..MaxMessages]
  /\ executed \subseteq Tasks
  /\ dropped \subseteq Tasks

Init ==
  /\ made = FALSE
  /\ state = 0
  /\ cancelled = FALSE
  /\ closed = FALSE
  /\ queue = <<>>
  /\ wg = 0
  /\ sub = "subscribing"
  /\ received = 0
  /\ closer = "idle"
  /\ worker = [w \in Workers |-> "unborn"]
  /\ job = [w \in Workers |-> 0]
  /\ executed = {}
  /\ dropped = {}

-----------------------------------------------------------------------------
(* The subscriber.                                                          *)

NewPool ==
  /\ sub = "subscribing"
  /\ made' = TRUE
  /\ sub' = "starting"
  /\ UNCHANGED <<state, cancelled, closed, queue, wg, received, closer, worker,
                 job, executed, dropped>>

\* Start, its compare-and-swap.
StartSwap ==
  /\ sub = "starting"
  /\ IF state = 0
       THEN state' = 1 /\ sub' = "adding"
       ELSE state' = state /\ sub' = "receiving"
  /\ UNCHANGED <<made, cancelled, closed, queue, wg, received, closer, worker,
                 job, executed, dropped>>

\* Wrong: each worker adds itself to the group when it runs.
AddNothing ==
  /\ sub = "adding"
  /\ sub' = "spawning"
  /\ UNCHANGED <<made, state, cancelled, closed, queue, wg, received, closer,
                 worker, job, executed, dropped>>

StartAdd ==
  /\ sub = "adding"
  /\ wg' = wg + NumberWorker
  /\ sub' = "spawning"
  /\ UNCHANGED <<made, state, cancelled, closed, queue, received, closer, worker,
                 job, executed, dropped>>

StartSpawn(w) ==
  /\ sub = "spawning"
  /\ worker[w] = "unborn"
  /\ worker' = [worker EXCEPT ![w] = "idle"]
  /\ sub' = IF \A x \in Workers \ {w} : worker[x] # "unborn"
              THEN "receiving" ELSE "spawning"
  /\ UNCHANGED <<made, state, cancelled, closed, queue, wg, received, closer,
                 job, executed, dropped>>

Receive ==
  /\ sub = "receiving"
  /\ received < MaxMessages
  /\ received' = received + 1
  /\ sub' = "pushing"
  /\ UNCHANGED <<made, state, cancelled, closed, queue, wg, closer, worker, job,
                 executed, dropped>>

\* The select of push takes any case that is ready; a send on the closed channel
\* is ready, and panics.
PushSend ==
  /\ sub = "pushing"
  /\ ~closed
  /\ Len(queue) < NumberWorker
  /\ queue' = Append(queue, received)
  /\ sub' = "receiving"
  /\ UNCHANGED <<made, state, cancelled, closed, wg, received, closer, worker,
                 job, executed, dropped>>

PushSendOnClosed ==
  /\ sub = "pushing"
  /\ closed
  /\ sub' = "panicked"
  /\ UNCHANGED <<made, state, cancelled, closed, queue, wg, received, closer,
                 worker, job, executed, dropped>>

\* Wrong: a select with a default case, that never blocks.
PushOrDrop ==
  /\ sub = "pushing"
  /\ cancelled \/ Len(queue) = NumberWorker
  /\ dropped' = dropped \cup {received}
  /\ sub' = "receiving"
  /\ UNCHANGED <<made, state, cancelled, closed, queue, wg, received, closer,
                 worker, job, executed>>

PushDone ==
  /\ sub = "pushing"
  /\ cancelled
  /\ dropped' = dropped \cup {received}
  /\ sub' = "receiving"
  /\ UNCHANGED <<made, state, cancelled, closed, queue, wg, received, closer,
                 worker, job, executed>>

PushBlock ==
  /\ sub = "pushing"
  /\ ~closed /\ ~cancelled
  /\ Len(queue) = NumberWorker
  /\ sub' = "blocked"
  /\ UNCHANGED <<made, state, cancelled, closed, queue, wg, received, closer,
                 worker, job, executed, dropped>>

-----------------------------------------------------------------------------
(* A worker.                                                                *)

\* Wrong: the task is read and stays in the queue.
TakeAndLeave(w) ==
  /\ worker[w] = "idle"
  /\ queue # <<>>
  /\ worker' = [worker EXCEPT ![w] = "running"]
  /\ job' = [job EXCEPT ![w] = Head(queue)]
  /\ UNCHANGED <<made, state, cancelled, closed, queue, wg, sub, received, closer,
                 executed, dropped>>

\* Wrong: a sender that is blocked hands its task to the worker directly.
TakeFromSender(w) ==
  /\ worker[w] = "idle"
  /\ queue # <<>>
  /\ worker' = [worker EXCEPT ![w] = "running"]
  /\ job' = [job EXCEPT ![w] = IF sub = "blocked" THEN received ELSE Head(queue)]
  /\ queue' = IF sub = "blocked" THEN queue ELSE Tail(queue)
  /\ sub' = IF sub = "blocked" THEN "receiving" ELSE sub
  /\ UNCHANGED <<made, state, cancelled, closed, wg, received, closer, executed,
                 dropped>>

\* A receive from the full channel takes the blocked sender's task in with it.
Take(w) ==
  /\ worker[w] = "idle"
  /\ queue # <<>>
  /\ worker' = [worker EXCEPT ![w] = "running"]
  /\ job' = [job EXCEPT ![w] = Head(queue)]
  /\ queue' = IF sub = "blocked" THEN Append(Tail(queue), received)
                                 ELSE Tail(queue)
  /\ sub' = IF sub = "blocked" THEN "receiving" ELSE sub
  /\ UNCHANGED <<made, state, cancelled, closed, wg, received, closer, executed,
                 dropped>>

\* The future has room for the one result, so Execute does not block on it.
Execute(w) ==
  /\ worker[w] = "running"
  /\ worker' = [worker EXCEPT ![w] = "idle"]
  /\ executed' = executed \cup {job[w]}
  /\ UNCHANGED <<made, state, cancelled, closed, queue, wg, sub, received, closer,
                 job, dropped>>

\* Wrong: wg.Done is forgotten.
ExitWithoutDone(w) ==
  /\ worker[w] = "idle"
  /\ closed
  /\ queue = <<>>
  /\ worker' = [worker EXCEPT ![w] = "done"]
  /\ UNCHANGED <<made, state, cancelled, closed, queue, wg, sub, received, closer,
                 job, executed, dropped>>

\* The range over the queue ends when it is closed and empty.
Exit(w) ==
  /\ worker[w] = "idle"
  /\ closed
  /\ queue = <<>>
  /\ worker' = [worker EXCEPT ![w] = "done"]
  /\ wg' = wg - 1
  /\ UNCHANGED <<made, state, cancelled, closed, queue, sub, received, closer,
                 job, executed, dropped>>

-----------------------------------------------------------------------------
(* GracefulStop, Close and Stop.                                            *)

\* Close calls Stop on whatever s.pool is: nil until NewPool has returned.
Close ==
  /\ closer = "idle"
  /\ closer' = IF made THEN "swap1" ELSE "panicked"
  /\ UNCHANGED <<made, state, cancelled, closed, queue, wg, sub, received, worker,
                 job, executed, dropped>>

\* The two compare-and-swaps, 1 to 2 and then 0 to 2.  When neither succeeds Stop
\* returns and has done nothing.
StopSwap(at, from, else) ==
  /\ closer = at
  /\ IF state = from
       THEN state' = 2 /\ closer' = "cancelling"
       ELSE state' = state /\ closer' = else
  /\ UNCHANGED <<made, cancelled, closed, queue, wg, sub, received, worker, job,
                 executed, dropped>>

StopSwap1 == StopSwap("swap1", 1, "swap0")

StopSwap0 == StopSwap("swap0", 0, "returned")

\* A sender that is blocked in push wakes with the context's case.
StopCancel ==
  /\ closer = "cancelling"
  /\ cancelled' = TRUE
  /\ closer' = "closing"
  /\ IF sub = "blocked"
       THEN dropped' = dropped \cup {received} /\ sub' = "receiving"
       ELSE UNCHANGED <<dropped, sub>>
  /\ UNCHANGED <<made, state, closed, queue, wg, received, worker, job, executed>>

StopClose ==
  /\ closer = "closing"
  /\ closed' = TRUE
  /\ closer' = "waiting"
  /\ UNCHANGED <<made, state, cancelled, queue, wg, sub, received, worker, job,
                 executed, dropped>>

\* Wrong: Stop does not wait.
StopWithoutWait ==
  /\ closer = "waiting"
  /\ closer' = "returned"
  /\ UNCHANGED <<made, state, cancelled, closed, queue, wg, sub, received, worker,
                 job, executed, dropped>>

StopWait ==
  /\ closer = "waiting"
  /\ wg = 0
  /\ closer' = "returned"
  /\ UNCHANGED <<made, state, cancelled, closed, queue, wg, sub, received, worker,
                 job, executed, dropped>>

-----------------------------------------------------------------------------
Push == PushSend \/ PushSendOnClosed \/ PushDone \/ PushBlock

Start == StartSwap \/ StartAdd \/ \E w \in Workers : StartSpawn(w)

Subscriber == NewPool \/ Start \/ Receive \/ Push

Worker(w) == Take(w) \/ Execute(w) \/ Exit(w)

Stop == StopSwap1 \/ StopSwap0 \/ StopCancel \/ StopClose \/ StopWait

Next ==
  /\ Alive
  /\ \/ Subscriber
     \/ \E w \in Workers : Worker(w)
     \/ Close
     \/ Stop

Spec == Init /\ [][Next]_vars

\* Goroutines run on.  Messages and the signal to stop come, or do not.
FairSpec ==
  /\ Spec
  /\ WF_vars(Alive /\ (NewPool \/ Start \/ Push))
  /\ \A w \in Workers : WF_vars(Alive /\ Worker(w))
  /\ WF_vars(Alive /\ Stop)

-----------------------------------------------------------------------------
(* Safety.                                                                  *)

InHand == IF sub \in {"pushing", "blocked", "panicked"} THEN {received} ELSE {}

\* Every task is in one place: in the subscriber's hand, in the queue, with one
\* worker, executed or dropped.  None is lost and none runs twice.
TaskInOnePlace ==
  /\ 1..received = InHand \cup Queued \cup Running \cup executed \cup dropped
  /\ \A i, j \in 1..Len(queue) : queue[i] = queue[j] => i = j
  /\ \A w, x \in Workers :
       worker[w] = "running" /\ worker[x] = "running" /\ job[w] = job[x] => w = x
  /\ InHand \cap (Queued \cup Running \cup executed \cup dropped) = {}
  /\ Queued \cap (Running \cup executed \cup dropped) = {}
  /\ Running \cap (executed \cup dropped) = {}
  /\ executed \cap dropped = {}

\* Tasks are started in the order of their messages: when one is running or done,
\* none that was accepted before it is still in the queue.
StartedInOrder ==
  \A n \in Running \cup executed : \A m \in Queued : n < m

\* Start has spawned a worker.  It has not, ever, when Stop swapped 0 to 2 first.
Started == \E w \in Workers : worker[w] # "unborn"

\* When the Stop that stopped a running pool returns, every accepted task has
\* been executed, though its wg.Wait may have run before Start's wg.Add.
StopDrains ==
  closer = "returned" /\ state = 2 /\ Started =>
    Queued = {} /\ Running = {} /\ executed = (1..received) \ (dropped \cup InHand)

\* The worker has a task to take or to finish, or may leave.
CanGoOn(w) ==
  worker[w] = "running" \/ (worker[w] = "idle" /\ (queue # <<>> \/ closed))

\* The sender, the workers and Stop never all wait for each other: a sender that is
\* blocked has a worker that will make room, or a Stop that is about to wake it, and
\* a Stop that waits has a worker that will leave, or one that Start will spawn.
NobodyIsStuck ==
  /\ sub = "blocked" => closer = "cancelling" \/ \E w \in Workers : CanGoOn(w)
  /\ closer = "waiting" /\ wg # 0 => sub = "spawning" \/ \E w \in Workers : CanGoOn(w)

\* A task may be finished before others whose messages came first, but before
\* fewer than there are workers; one worker keeps the order of the messages.
OvertakenByFew ==
  \A n \in executed :
    Cardinality({m \in 1..n : m \notin executed \cup dropped}) < NumberWorker

\* The comment of Pool (pool.go:68): "capable of auto-expand on demand".  A pool
\* that grows would never hold a sender back while all its workers are busy.
ExpandsOnDemand == sub # "blocked"

\* The comment of Stop (pool.go:118): "Stop worker and wait all task done".
StopMeansAllDone == closer = "returned" => Queued = {} /\ Running = {}

-----------------------------------------------------------------------------
(* What the server relies on.                                               *)

\* How far Stop has got.  Between its two swaps nothing is certain yet, unless
\* Start has swapped in the meantime: before the first, Stop will find a started
\* pool; before the second, it will find neither 1 nor 0.
Halt ==
  CASE closer = "swap1" /\ state = 1 -> "stopping"
    [] closer = "swap0" /\ state = 1 -> "missed"
    [] closer \in {"cancelling", "closing"} -> "stopping"
    [] closer = "waiting" -> "closed"
    [] closer = "returned" -> IF state = 2 THEN "over" ELSE "missed"
    [] OTHER -> "no"

\* What became of a task.  In a pool that was stopped before it was started the
\* queue takes tasks too, and no worker ever does.
Fate ==
  [n \in Tasks |->
     CASE n \in executed -> "done"
       [] n \in dropped -> "dropped"
       [] n \in Running -> "running"
       [] n \in Queued -> IF Started THEN "running" ELSE "dropped"
       [] OTHER -> "new"]

Promise == INSTANCE MessagePool WITH
  Messages <- Tasks,
  ready <- sub \notin {"subscribing", "starting", "adding", "spawning"},
  alive <- Alive,
  halt <- Halt,
  task <- Fate

\* Whatever the interleaving of Start, Do, Stop and the workers, the pool does what
\* MessagePool says: a task that a started pool accepted is executed or still on
\* its way, and none is when the Stop that stopped the pool returns; the process
\* dies only of a nil pool or of a send on the closed queue.
ImplementsMessagePool == Promise!Spec

-----------------------------------------------------------------------------
(* Liveness, under FairSpec.                                                *)

\* Every message that a started pool is handed is executed, however full the queue
\* was when it came; only a stop may drop it, and only before it is accepted.
MessageIsHandled ==
  \A n \in Tasks :
    (n <= received /\ Started)
      ~> (n \in executed \/ (n \in dropped /\ cancelled) \/ ~Alive)

\* Stop returns.
StopReturns ==
  closer \in {"swap1", "swap0", "waiting"} ~> (closer = "returned" \/ ~Alive)
=============================================================================
