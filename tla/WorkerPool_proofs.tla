------------------------- MODULE WorkerPool_proofs -------------------------
(***************************************************************************)
(* Proofs of the safety properties of WorkerPool, for any finite set of    *)
(* workers and any number of messages.                                      *)
(***************************************************************************)
EXTENDS WorkerPool, FiniteSetTheorems, TLAPS

USE PoolAssumption

-----------------------------------------------------------------------------
(* The inductive invariant.                                                 *)

\* Start has not returned.
Starting == sub \in {"subscribing", "starting", "adding", "spawning"}

\* Until Start has returned nothing has been received.
NothingBeforeStart ==
  /\ sub \in {"subscribing", "starting", "adding", "spawning"} =>
       /\ received = 0 /\ queue = <<>>
       /\ \A w \in Workers : worker[w] # "running"
  /\ sub \in {"subscribing", "starting", "adding"} => ~Started

\* The steps of Stop happen in their order.
StopOrder ==
  /\ closer \in {"idle", "swap1", "swap0", "panicked"} => state # 2
  /\ closer \in {"closing", "waiting"} => cancelled
  /\ closer = "waiting" => closed
  /\ closer = "returned" /\ state = 2 => closed
  /\ closer \in {"cancelling", "closing", "waiting"} => state = 2
  /\ closed => cancelled
  /\ cancelled => state = 2
  /\ sub = "blocked" => ~cancelled

\* Start spawns all workers or none.  Stop needs a pool that was made; the subscriber
\* takes messages without a worker only when Stop came before Start.
StartOrder ==
  /\ made <=> sub # "subscribing"
  /\ ~made => closer \in {"idle", "panicked"} /\ state = 0
  /\ sub = "starting" => state # 1
  /\ ~Starting /\ ~Started => state = 2
  /\ Started /\ sub # "spawning" => \A w \in Workers : worker[w] # "unborn"
  /\ closed => closer \in {"waiting", "returned"}

Done == {w \in Workers : worker[w] = "done"}

\* A worker leaves only an empty queue that nobody can fill again.
DoneMeansDrained == Done # {} => closed /\ queue = <<>>

\* From wg.Add on, the counter counts the workers that have not left.
CounterCounts ==
  /\ sub \in {"adding", "spawning"} \/ Started => state \in {1, 2}
  /\ ~Started /\ sub # "spawning" => wg = 0
  /\ sub = "spawning" \/ Started => wg = Cardinality(Workers \ Done)

\* A task in the queue or with a worker is one that was received.
TasksReceived ==
  /\ \A i \in 1..Len(queue) : queue[i] \in 1..received
  /\ \A w \in Workers : worker[w] = "running" => job[w] \in 1..received
  /\ Len(queue) <= NumberWorker
  /\ sub = "blocked" => Len(queue) = NumberWorker
  /\ sub \in {"pushing", "blocked", "panicked"} => received >= 1

\* The queue is in order, and the task in hand came after all of it.
QueueInOrder ==
  /\ \A i, j \in 1..Len(queue) : i < j => queue[i] < queue[j]
  /\ \A i \in 1..Len(queue) : queue[i] \notin InHand

\* Two workers never execute the same task.
JobsDiffer ==
  \A w, x \in Workers :
    worker[w] = "running" /\ worker[x] = "running" /\ job[w] = job[x] => w = x

\* The five places share no task, and have them all.
Partition ==
  /\ 1..received = InHand \cup Queued \cup Running \cup executed \cup dropped
  /\ InHand \cap (Queued \cup Running \cup executed \cup dropped) = {}
  /\ Queued \cap (Running \cup executed \cup dropped) = {}
  /\ Running \cap (executed \cup dropped) = {}
  /\ executed \cap dropped = {}

Drained ==
  closer = "returned" /\ state = 2 /\ Started =>
    queue = <<>> /\ \A w \in Workers : worker[w] # "running"

\* Of the workers one at least is not held up by a task older than n, as the worker
\* that executed n can only have gone on to newer ones.
NotAllBehind ==
  \A n \in executed : \E w \in Workers : ~(worker[w] = "running" /\ job[w] < n)

IInv ==
  /\ TypeOK /\ NothingBeforeStart /\ StopOrder /\ StartOrder /\ DoneMeansDrained
  /\ CounterCounts /\ TasksReceived /\ QueueInOrder /\ JobsDiffer /\ Partition
  /\ StartedInOrder /\ NotAllBehind /\ Drained

-----------------------------------------------------------------------------
(* What the steps do to the queue and to the tasks that run.                *)

\* There is a worker.
LEMMA WorkerCount == NumberWorker \in Nat /\ NumberWorker > 0
<1>1. NumberWorker \in Nat
  BY FS_CardinalityType DEF NumberWorker
<1>2. NumberWorker # 0
  BY FS_EmptySet DEF NumberWorker
<1> QED
  BY <1>1, <1>2

\* What Append does, element by element.
LEMMA AppendFacts ==
  ASSUME NEW S, NEW q \in Seq(S), NEW e \in S
  PROVE  /\ Append(q, e) \in Seq(S)
         /\ Len(Append(q, e)) = Len(q) + 1
         /\ \A i \in 1..Len(q) : Append(q, e)[i] = q[i]
         /\ Append(q, e)[Len(q) + 1] = e
OBVIOUS

\* A send puts the task in hand at the end.
LEMMA SendQueue ==
  ASSUME TypeOK, TasksReceived, PushSend
  PROVE  /\ queue' \in Seq(Tasks) /\ Len(queue') = Len(queue) + 1
         /\ \A i \in 1..Len(queue) : queue'[i] = queue[i]
         /\ queue'[Len(queue) + 1] = received
         /\ Queued' = Queued \cup {received}
<1> USE DEF TypeOK, TasksReceived, PushSend, Tasks
<1>1. /\ queue' \in Seq(Tasks) /\ Len(queue') = Len(queue) + 1
      /\ \A i \in 1..Len(queue) : queue'[i] = queue[i]
      /\ queue'[Len(queue) + 1] = received
  OBVIOUS
<1>2. Queued' = Queued \cup {received}
  <2>1. Queued' \subseteq Queued \cup {received}
    BY <1>1 DEF Queued
  <2>2. Queued \cup {received} \subseteq Queued'
    BY <1>1 DEF Queued
  <2> QED
    BY <2>1, <2>2
<1> QED
  BY <1>1, <1>2

\* A take moves the queue up by one place, and a blocked sender's task in.
LEMMA TakeQueue ==
  ASSUME TypeOK, TasksReceived, NEW w \in Workers, Take(w)
  PROVE  /\ queue' \in Seq(Tasks) /\ 1 \in 1..Len(queue)
         /\ job'[w] = queue[1] /\ queue[1] \in Tasks
         /\ Len(queue') = IF sub = "blocked" THEN Len(queue) ELSE Len(queue) - 1
         /\ \A i \in 1..Len(queue) : i # 1 => queue'[i - 1] = queue[i]
         /\ sub = "blocked" => queue'[Len(queue)] = received
<1> USE DEF TypeOK, TasksReceived, Take, Tasks
<1> DEFINE rest == Tail(queue)
<1>1. /\ Len(queue) \in Nat /\ Len(queue) >= 1
      /\ rest \in Seq(Tasks) /\ Len(rest) = Len(queue) - 1
      /\ \A i \in 1..Len(rest) : rest[i] = queue[i + 1]
      /\ job'[w] = queue[1] /\ queue[1] \in Tasks
  OBVIOUS
<1>2. CASE sub = "blocked"
  <2>1. queue' = Append(rest, received) /\ received \in Tasks
    BY <1>2
  <2> HIDE DEF rest, TypeOK, TasksReceived, Take, Tasks
  <2>2. /\ Append(rest, received) \in Seq(Tasks)
        /\ Len(Append(rest, received)) = Len(rest) + 1
        /\ \A i \in 1..Len(rest) : Append(rest, received)[i] = rest[i]
        /\ Append(rest, received)[Len(rest) + 1] = received
    BY <1>1, <2>1, AppendFacts
  <2>3. \A i \in 1..Len(queue) : i # 1 => queue'[i - 1] = queue[i]
    BY <1>1, <2>1, <2>2
  <2> QED
    BY <1>1, <1>2, <2>1, <2>2, <2>3
<1>3. CASE sub # "blocked"
  <2>1. queue' = rest
    BY <1>3
  <2> HIDE DEF rest
  <2>2. \A i \in 1..Len(queue) : i # 1 => queue'[i - 1] = queue[i]
    BY <1>1, <2>1
  <2> QED
    BY <1>1, <1>3, <2>1, <2>2
<1> QED
  BY <1>2, <1>3

\* The same, from where the tasks are after it.
LEMMA TakeShift ==
  ASSUME TypeOK, TasksReceived, NEW w \in Workers, Take(w)
  PROVE  /\ Len(queue) \in Nat /\ Len(queue') \in Nat
         /\ \A i \in 1..Len(queue') :
              \/ i + 1 \in 1..Len(queue) /\ queue'[i] = queue[i + 1]
              \/ sub = "blocked" /\ i = Len(queue) /\ queue'[i] = received
<1>1. /\ Len(queue) \in Nat /\ Len(queue') \in Nat
      /\ Len(queue') = IF sub = "blocked" THEN Len(queue) ELSE Len(queue) - 1
      /\ \A i \in 1..Len(queue) : i # 1 => queue'[i - 1] = queue[i]
      /\ sub = "blocked" => queue'[Len(queue)] = received
  BY TakeQueue DEF TypeOK
<1> QED
  BY <1>1

\* A worker takes the oldest task, and makes room for a blocked sender's.
LEMMA TakePlaces ==
  ASSUME TypeOK, TasksReceived, QueueInOrder, NEW w \in Workers, Take(w)
  PROVE  /\ queue[1] \in Queued
         /\ Queued' = (Queued \ {queue[1]})
                      \cup (IF sub = "blocked" THEN {received} ELSE {})
         /\ Running' = Running \cup {queue[1]}
<1> USE DEF TypeOK
<1>1. /\ 1 \in 1..Len(queue) /\ Len(queue) \in Nat /\ Len(queue') \in Nat
      /\ Len(queue') = IF sub = "blocked" THEN Len(queue) ELSE Len(queue) - 1
      /\ \A i \in 1..Len(queue) : i # 1 => queue'[i - 1] = queue[i]
      /\ sub = "blocked" => queue'[Len(queue)] = received
  BY TakeQueue
<1>2. \A i \in 1..Len(queue) : i # 1 => queue[i] # queue[1]
  <2>1. \A i \in 1..Len(queue) : queue[i] \in Nat
    BY DEF TasksReceived
  <2>2. \A i \in 1..Len(queue) : i # 1 => queue[1] < queue[i]
    BY <1>1 DEF QueueInOrder
  <2> QED
    BY <1>1, <2>1, <2>2
<1>3. \A i \in 1..Len(queue') :
        \/ i + 1 \in 1..Len(queue) /\ queue'[i] = queue[i + 1]
        \/ sub = "blocked" /\ i = Len(queue) /\ queue'[i] = received
  BY TakeShift
<1>4. sub = "blocked" => received # queue[1]
  BY <1>1 DEF QueueInOrder, InHand
<1>5. Queued' \subseteq (Queued \ {queue[1]}) \cup (IF sub = "blocked" THEN {received} ELSE {})
  <2> SUFFICES ASSUME NEW i \in 1..Len(queue')
               PROVE  \/ queue'[i] \in Queued \ {queue[1]}
                      \/ sub = "blocked" /\ queue'[i] = received
    BY DEF Queued
  <2>1. CASE i + 1 \in 1..Len(queue) /\ queue'[i] = queue[i + 1]
    <3>1. i + 1 # 1
      OBVIOUS
    <3> QED
      BY <1>2, <2>1, <3>1 DEF Queued
  <2> QED
    BY <1>3, <2>1
<1>6. \A i \in 1..Len(queue) : i # 1 => i - 1 \in 1..Len(queue') /\ queue'[i - 1] = queue[i]
  BY <1>1
<1>7. sub = "blocked" => Len(queue) \in 1..Len(queue')
  BY <1>1
<1>8. (Queued \ {queue[1]}) \cup (IF sub = "blocked" THEN {received} ELSE {}) \subseteq Queued'
  <2>1. ASSUME NEW i \in 1..Len(queue), queue[i] # queue[1]
        PROVE  queue[i] \in Queued'
    BY <1>1, <1>6, <2>1 DEF Queued
  <2>2. ASSUME sub = "blocked" PROVE received \in Queued'
    BY <1>1, <1>7, <2>2 DEF Queued
  <2> QED
    BY <2>1, <2>2 DEF Queued
<1>9. Running' = Running \cup {queue[1]}
  <2>1. /\ worker[w] # "running" /\ worker' = [worker EXCEPT ![w] = "running"]
        /\ job' = [job EXCEPT ![w] = queue[1]]
    BY TakeQueue DEF Take
  <2> QED
    BY <2>1 DEF Running
<1> QED
  BY <1>1, <1>5, <1>8, <1>9 DEF Queued

\* A task that ends was running.
LEMMA ExecutePlaces ==
  ASSUME TypeOK, JobsDiffer, NEW w \in Workers, Execute(w)
  PROVE  Running' = Running \ {job[w]} /\ job[w] \in Running
BY DEF TypeOK, JobsDiffer, Execute, Running

\* A worker that leaves is one less to wait for.
LEMMA ExitCount ==
  ASSUME TypeOK, NEW w \in Workers, Exit(w)
  PROVE  /\ Cardinality(Workers \ Done) \in Nat
         /\ Cardinality(Workers \ Done) > 0
         /\ Cardinality(Workers \ Done') = Cardinality(Workers \ Done) - 1
<1>1. IsFiniteSet(Workers \ Done)
  BY FS_Subset DEF Done
<1>2. w \in Workers \ Done
  BY DEF Exit, Done
<1>3. Workers \ Done' = (Workers \ Done) \ {w}
  BY DEF TypeOK, Exit, Done
<1>4. Cardinality((Workers \ Done) \ {w}) = Cardinality(Workers \ Done) - 1
  BY <1>1, <1>2, FS_RemoveElement
<1>5. Cardinality(Workers \ Done) \in Nat /\ Cardinality(Workers \ Done) # 0
  BY <1>1, <1>2, FS_CardinalityType, FS_EmptySet
<1>6. Cardinality(Workers \ Done') = Cardinality((Workers \ Done) \ {w})
  BY <1>3, Zenon
<1>7. Cardinality(Workers \ Done) > 0
  BY <1>5
<1> QED
  BY <1>4, <1>5, <1>6, <1>7

-----------------------------------------------------------------------------
(* One lemma for each part.                                                 *)

\* Types; the counter stays within the number of workers.
LEMMA TypeStep ==
  ASSUME TypeOK, NothingBeforeStart, CounterCounts, TasksReceived, [Next]_vars
  PROVE  TypeOK'
<1> USE DEF TypeOK, Tasks
<1>1. ASSUME NewPool PROVE TypeOK'
  BY <1>1 DEF NewPool
<1>2. ASSUME StartSwap PROVE TypeOK'
  BY <1>2 DEF StartSwap
<1>3. ASSUME StartAdd PROVE TypeOK'
  BY <1>3, WorkerCount DEF StartAdd, CounterCounts, NothingBeforeStart
<1>4. ASSUME Receive PROVE TypeOK'
  BY <1>4 DEF Receive
<1>5. ASSUME PushSend PROVE TypeOK'
  <2>1. queue' \in Seq(Tasks)
    BY <1>5, SendQueue
  <2> QED
    BY <1>5, <2>1 DEF PushSend
<1>6. ASSUME PushSendOnClosed PROVE TypeOK'
  BY <1>6 DEF PushSendOnClosed
<1>7. ASSUME PushDone PROVE TypeOK'
  BY <1>7 DEF PushDone, TasksReceived
<1>8. ASSUME PushBlock PROVE TypeOK'
  BY <1>8 DEF PushBlock
<1>9. ASSUME Close PROVE TypeOK'
  BY <1>9 DEF Close
<1>10. ASSUME StopSwap1 PROVE TypeOK'
  BY <1>10 DEF StopSwap1, StopSwap
<1>11. ASSUME StopSwap0 PROVE TypeOK'
  BY <1>11 DEF StopSwap0, StopSwap
<1>12. ASSUME StopCancel PROVE TypeOK'
  <2>1. sub = "blocked" => received \in Tasks
    BY DEF TasksReceived
  <2> QED
    BY <1>12, <2>1 DEF StopCancel
<1>13. ASSUME StopClose PROVE TypeOK'
  BY <1>13 DEF StopClose
<1>14. ASSUME StopWait PROVE TypeOK'
  BY <1>14 DEF StopWait
<1>15. ASSUME NEW w \in Workers, StartSpawn(w) PROVE TypeOK'
  BY <1>15 DEF StartSpawn
<1>16. ASSUME NEW w \in Workers, Take(w) PROVE TypeOK'
  <2>1. queue' \in Seq(Tasks) /\ job'[w] \in Tasks
    BY <1>16, TakeQueue
  <2>2. job' \in [Workers -> 0..MaxMessages]
    BY <1>16, <2>1 DEF Take
  <2>3. worker' \in [Workers -> {"unborn", "idle", "running", "done"}]
    BY <1>16 DEF Take
  <2>4. /\ UNCHANGED <<made, state, cancelled, closed, wg, received, closer,
                       executed, dropped>>
        /\ sub' \in {sub, "receiving"}
    BY <1>16 DEF Take
  <2> QED
    BY <2>1, <2>2, <2>3, <2>4
<1>17. ASSUME NEW w \in Workers, Execute(w) PROVE TypeOK'
  <2>1. job[w] \in Tasks
    BY <1>17 DEF Execute, TasksReceived
  <2>2. worker' \in [Workers -> {"unborn", "idle", "running", "done"}]
    BY <1>17 DEF Execute
  <2>3. executed' \subseteq Tasks
    BY <1>17, <2>1 DEF Execute
  <2>4. UNCHANGED <<made, state, cancelled, closed, queue, wg, sub, received,
                    closer, job, dropped>>
    BY <1>17 DEF Execute
  <2> QED
    BY <2>2, <2>3, <2>4
<1>18. ASSUME NEW w \in Workers, Exit(w) PROVE TypeOK'
  <2>1. wg = Cardinality(Workers \ Done)
    BY <1>18 DEF Exit, CounterCounts, Started
  <2>2. wg > 0
    BY <1>18, <2>1, ExitCount
  <2> QED
    BY <1>18, <2>2, WorkerCount DEF Exit
<1>19. CASE UNCHANGED vars
  BY <1>19 DEF vars
<1> QED
  BY <1>1, <1>2, <1>3, <1>4, <1>5, <1>6, <1>7, <1>8, <1>9, <1>10, <1>11, <1>12,
     <1>13, <1>14, <1>15, <1>16, <1>17, <1>18, <1>19 DEF Next, Subscriber,
     Start, Push, Worker, Stop

\* Only Start spawns workers, and messages are received after it.
LEMMA BeforeStep ==
  ASSUME TypeOK, NothingBeforeStart, [Next]_vars
  PROVE  NothingBeforeStart'
<1> USE DEF TypeOK, NothingBeforeStart, Started, Tasks
<1>1. ASSUME NewPool PROVE NothingBeforeStart'
  BY <1>1 DEF NewPool
<1>2. ASSUME StartSwap PROVE NothingBeforeStart'
  BY <1>2 DEF StartSwap
<1>3. ASSUME StartAdd PROVE NothingBeforeStart'
  BY <1>3 DEF StartAdd
<1>4. ASSUME Receive PROVE NothingBeforeStart'
  BY <1>4 DEF Receive
<1>5. ASSUME PushSend PROVE NothingBeforeStart'
  BY <1>5 DEF PushSend
<1>6. ASSUME PushSendOnClosed PROVE NothingBeforeStart'
  BY <1>6 DEF PushSendOnClosed
<1>7. ASSUME PushDone PROVE NothingBeforeStart'
  BY <1>7 DEF PushDone
<1>8. ASSUME PushBlock PROVE NothingBeforeStart'
  BY <1>8 DEF PushBlock
<1>9. ASSUME Close PROVE NothingBeforeStart'
  BY <1>9 DEF Close
<1>10. ASSUME StopSwap1 PROVE NothingBeforeStart'
  BY <1>10 DEF StopSwap1, StopSwap
<1>11. ASSUME StopSwap0 PROVE NothingBeforeStart'
  BY <1>11 DEF StopSwap0, StopSwap
<1>12. ASSUME StopCancel PROVE NothingBeforeStart'
  BY <1>12 DEF StopCancel
<1>13. ASSUME StopClose PROVE NothingBeforeStart'
  BY <1>13 DEF StopClose
<1>14. ASSUME StopWait PROVE NothingBeforeStart'
  BY <1>14 DEF StopWait
<1>15. ASSUME NEW w \in Workers, StartSpawn(w) PROVE NothingBeforeStart'
  BY <1>15 DEF StartSpawn
<1>16. ASSUME NEW w \in Workers, Take(w) PROVE NothingBeforeStart'
  BY <1>16 DEF Take
<1>17. ASSUME NEW w \in Workers, Execute(w) PROVE NothingBeforeStart'
  BY <1>17 DEF Execute
<1>18. ASSUME NEW w \in Workers, Exit(w) PROVE NothingBeforeStart'
  BY <1>18 DEF Exit
<1>19. CASE UNCHANGED vars
  BY <1>19 DEF vars
<1> QED
  BY <1>1, <1>2, <1>3, <1>4, <1>5, <1>6, <1>7, <1>8, <1>9, <1>10, <1>11, <1>12,
     <1>13, <1>14, <1>15, <1>16, <1>17, <1>18, <1>19 DEF Next, Subscriber,
     Start, Push, Worker, Stop

\* Only Stop swaps the state to 2, cancels and closes, in this order.
LEMMA StopOrderStep ==
  ASSUME TypeOK, StopOrder, [Next]_vars
  PROVE  StopOrder'
<1> USE DEF TypeOK, StopOrder
<1>1. ASSUME NewPool PROVE StopOrder'
  BY <1>1 DEF NewPool
<1>2. ASSUME StartSwap PROVE StopOrder'
  BY <1>2 DEF StartSwap
<1>3. ASSUME StartAdd PROVE StopOrder'
  BY <1>3 DEF StartAdd
<1>4. ASSUME Receive PROVE StopOrder'
  BY <1>4 DEF Receive
<1>5. ASSUME PushSend PROVE StopOrder'
  BY <1>5 DEF PushSend
<1>6. ASSUME PushSendOnClosed PROVE StopOrder'
  BY <1>6 DEF PushSendOnClosed
<1>7. ASSUME PushDone PROVE StopOrder'
  BY <1>7 DEF PushDone
<1>8. ASSUME PushBlock PROVE StopOrder'
  BY <1>8 DEF PushBlock
<1>9. ASSUME Close PROVE StopOrder'
  BY <1>9 DEF Close
<1>10. ASSUME StopSwap1 PROVE StopOrder'
  BY <1>10 DEF StopSwap1, StopSwap
<1>11. ASSUME StopSwap0 PROVE StopOrder'
  BY <1>11 DEF StopSwap0, StopSwap
<1>12. ASSUME StopCancel PROVE StopOrder'
  BY <1>12 DEF StopCancel
<1>13. ASSUME StopClose PROVE StopOrder'
  BY <1>13 DEF StopClose
<1>14. ASSUME StopWait PROVE StopOrder'
  BY <1>14 DEF StopWait
<1>15. ASSUME NEW w \in Workers, StartSpawn(w) PROVE StopOrder'
  BY <1>15 DEF StartSpawn
<1>16. ASSUME NEW w \in Workers, Take(w) PROVE StopOrder'
  BY <1>16 DEF Take
<1>17. ASSUME NEW w \in Workers, Execute(w) PROVE StopOrder'
  BY <1>17 DEF Execute
<1>18. ASSUME NEW w \in Workers, Exit(w) PROVE StopOrder'
  BY <1>18 DEF Exit
<1>19. CASE UNCHANGED vars
  BY <1>19 DEF vars
<1> QED
  BY <1>1, <1>2, <1>3, <1>4, <1>5, <1>6, <1>7, <1>8, <1>9, <1>10, <1>11, <1>12,
     <1>13, <1>14, <1>15, <1>16, <1>17, <1>18, <1>19 DEF Next, Subscriber,
     Start, Push, Worker, Stop

\* Close finds no pool before NewPool, and Start spawns workers unless it comes late.
LEMMA StartOrderStep ==
  ASSUME TypeOK, StopOrder, StartOrder, [Next]_vars
  PROVE  StartOrder'
<1> USE DEF TypeOK, StopOrder, StartOrder, Starting, Started
<1>1. ASSUME NewPool PROVE StartOrder'
  BY <1>1 DEF NewPool
<1>2. ASSUME StartSwap PROVE StartOrder'
  BY <1>2 DEF StartSwap
<1>3. ASSUME StartAdd PROVE StartOrder'
  BY <1>3 DEF StartAdd
<1>4. ASSUME Receive PROVE StartOrder'
  BY <1>4 DEF Receive
<1>5. ASSUME PushSend PROVE StartOrder'
  BY <1>5 DEF PushSend
<1>6. ASSUME PushSendOnClosed PROVE StartOrder'
  BY <1>6 DEF PushSendOnClosed
<1>7. ASSUME PushDone PROVE StartOrder'
  BY <1>7 DEF PushDone
<1>8. ASSUME PushBlock PROVE StartOrder'
  BY <1>8 DEF PushBlock
<1>9. ASSUME Close PROVE StartOrder'
  BY <1>9 DEF Close
<1>10. ASSUME StopSwap1 PROVE StartOrder'
  BY <1>10 DEF StopSwap1, StopSwap
<1>11. ASSUME StopSwap0 PROVE StartOrder'
  BY <1>11 DEF StopSwap0, StopSwap
<1>12. ASSUME StopCancel PROVE StartOrder'
  BY <1>12 DEF StopCancel
<1>13. ASSUME StopClose PROVE StartOrder'
  BY <1>13 DEF StopClose
<1>14. ASSUME StopWait PROVE StartOrder'
  BY <1>14 DEF StopWait
<1>15. ASSUME NEW w \in Workers, StartSpawn(w) PROVE StartOrder'
  BY <1>15 DEF StartSpawn
<1>16. ASSUME NEW w \in Workers, Take(w) PROVE StartOrder'
  BY <1>16 DEF Take
<1>17. ASSUME NEW w \in Workers, Execute(w) PROVE StartOrder'
  BY <1>17 DEF Execute
<1>18. ASSUME NEW w \in Workers, Exit(w) PROVE StartOrder'
  BY <1>18 DEF Exit
<1>19. CASE UNCHANGED vars
  BY <1>19 DEF vars
<1> QED
  BY <1>1, <1>2, <1>3, <1>4, <1>5, <1>6, <1>7, <1>8, <1>9, <1>10, <1>11, <1>12,
     <1>13, <1>14, <1>15, <1>16, <1>17, <1>18, <1>19 DEF Next, Subscriber,
     Start, Push, Worker, Stop

\* A closed queue takes nothing in.
LEMMA DoneStep ==
  ASSUME TypeOK, DoneMeansDrained, [Next]_vars
  PROVE  DoneMeansDrained'
<1> USE DEF TypeOK, DoneMeansDrained, Done
<1>1. ASSUME PushSend PROVE DoneMeansDrained'
  BY <1>1 DEF PushSend
<1>2. ASSUME StopClose PROVE DoneMeansDrained'
  BY <1>2 DEF StopClose
<1>3. ASSUME NEW w \in Workers, StartSpawn(w) PROVE DoneMeansDrained'
  BY <1>3 DEF StartSpawn
<1>4. ASSUME NEW w \in Workers, Take(w) PROVE DoneMeansDrained'
  BY <1>4 DEF Take
<1>5. ASSUME NEW w \in Workers, Execute(w) PROVE DoneMeansDrained'
  BY <1>5 DEF Execute
<1>6. ASSUME NEW w \in Workers, Exit(w) PROVE DoneMeansDrained'
  BY <1>6 DEF Exit
<1>7. ASSUME NewPool \/ StartSwap \/ StartAdd \/ Receive \/ PushSendOnClosed \/
            PushDone \/ PushBlock \/ Close \/ StopSwap1 \/ StopSwap0 \/
            StopCancel \/ StopWait
     PROVE  DoneMeansDrained'
  BY <1>7 DEF NewPool, StartSwap, StartAdd, Receive, PushSendOnClosed,
     PushDone, PushBlock, Close, StopSwap1, StopSwap, StopSwap0, StopCancel,
     StopWait
<1>8. CASE UNCHANGED vars
  BY <1>8 DEF vars
<1> QED
  BY <1>1, <1>2, <1>3, <1>4, <1>5, <1>6, <1>7, <1>8 DEF Next, Subscriber,
     Start, Push, Worker, Stop

\* wg.Add comes before the first worker, and each worker leaves once.
LEMMA CounterStep ==
  ASSUME TypeOK, NothingBeforeStart, CounterCounts, [Next]_vars
  PROVE  CounterCounts'
<1> USE DEF TypeOK, NothingBeforeStart, CounterCounts, Started, Done
<1>1. ASSUME StartSwap PROVE CounterCounts'
  BY <1>1 DEF StartSwap
<1>2. ASSUME StartAdd PROVE CounterCounts'
  <2>1. Done = {} /\ Done' = {}
    BY <1>2 DEF StartAdd, Done, NothingBeforeStart, Started
  <2>2. Workers \ Done' = Workers
    BY <2>1
  <2>3. Cardinality(Workers \ Done') = NumberWorker
    BY <2>2, Zenon DEF NumberWorker
  <2>4. wg' = NumberWorker
    BY <1>2, WorkerCount DEF StartAdd, CounterCounts
  <2> QED
    BY <1>2, <2>3, <2>4 DEF StartAdd, CounterCounts, NothingBeforeStart, Started
<1>3. ASSUME NEW w \in Workers, StartSpawn(w) PROVE CounterCounts'
  BY <1>3 DEF StartSpawn
<1>4. ASSUME NEW w \in Workers, Take(w) PROVE CounterCounts'
  BY <1>4 DEF Take
<1>5. ASSUME NEW w \in Workers, Execute(w) PROVE CounterCounts'
  BY <1>5 DEF Execute
<1>6. ASSUME NEW w \in Workers, Exit(w) PROVE CounterCounts'
  <2>1. Started /\ Started'
    BY <1>6 DEF Exit, Started
  <2>2. wg' = Cardinality(Workers \ Done')
    BY <1>6, <2>1, ExitCount DEF Exit, CounterCounts
  <2> QED
    BY <1>6, <2>1, <2>2 DEF Exit, CounterCounts, NothingBeforeStart
<1>7. ASSUME NewPool \/ Receive \/ PushSend \/ PushSendOnClosed \/ PushDone \/
            PushBlock \/ Close \/ StopSwap1 \/ StopSwap0 \/ StopCancel \/
            StopClose \/ StopWait
     PROVE  CounterCounts'
  BY <1>7 DEF NewPool, Receive, PushSend, PushSendOnClosed, PushDone,
     PushBlock, Close, StopSwap1, StopSwap, StopSwap0, StopCancel, StopClose,
     StopWait
<1>8. CASE UNCHANGED vars
  BY <1>8 DEF vars
<1> QED
  BY <1>1, <1>2, <1>3, <1>4, <1>5, <1>6, <1>7, <1>8 DEF Next, Subscriber,
     Start, Push, Worker, Stop

\* The task that is sent is the one just received.
LEMMA ReceivedStep ==
  ASSUME TypeOK, TasksReceived, [Next]_vars
  PROVE  TasksReceived'
<1> USE DEF TypeOK, Tasks
<1>1. ASSUME NewPool PROVE TasksReceived'
  BY <1>1 DEF NewPool, TasksReceived
<1>2. ASSUME StartSwap PROVE TasksReceived'
  BY <1>2 DEF StartSwap, TasksReceived
<1>3. ASSUME StartAdd PROVE TasksReceived'
  BY <1>3 DEF StartAdd, TasksReceived
<1>4. ASSUME Receive PROVE TasksReceived'
  BY <1>4 DEF Receive, TasksReceived
<1>5. ASSUME PushSend PROVE TasksReceived'
  <2>1. \A i \in 1..Len(queue') : queue'[i] \in 1..received
    BY <1>5, SendQueue DEF TasksReceived, PushSend
  <2>2. Len(queue') <= NumberWorker
    BY <1>5, SendQueue, WorkerCount DEF TasksReceived, PushSend
  <2> QED
    BY <1>5, <2>1, <2>2 DEF TasksReceived, PushSend
<1>6. ASSUME PushSendOnClosed PROVE TasksReceived'
  BY <1>6 DEF PushSendOnClosed, TasksReceived
<1>7. ASSUME PushDone PROVE TasksReceived'
  BY <1>7 DEF PushDone, TasksReceived
<1>8. ASSUME PushBlock PROVE TasksReceived'
  BY <1>8 DEF PushBlock, TasksReceived
<1>9. ASSUME Close PROVE TasksReceived'
  BY <1>9 DEF Close, TasksReceived
<1>10. ASSUME StopSwap1 PROVE TasksReceived'
  BY <1>10 DEF StopSwap1, StopSwap, TasksReceived
<1>11. ASSUME StopSwap0 PROVE TasksReceived'
  BY <1>11 DEF StopSwap0, StopSwap, TasksReceived
<1>12. ASSUME StopCancel PROVE TasksReceived'
  BY <1>12 DEF StopCancel, TasksReceived
<1>13. ASSUME StopClose PROVE TasksReceived'
  BY <1>13 DEF StopClose, TasksReceived
<1>14. ASSUME StopWait PROVE TasksReceived'
  BY <1>14 DEF StopWait, TasksReceived
<1>15. ASSUME NEW w \in Workers, Take(w) PROVE TasksReceived'
  <2>1. \A i \in 1..Len(queue') : queue'[i] \in 1..received
    <3>1. received \in 1..received \/ sub # "blocked"
      BY DEF TasksReceived
    <3> QED
      BY <1>15, <3>1, TakeShift DEF TasksReceived
  <2>2. job'[w] \in 1..received /\ \A x \in Workers \ {w} : job'[x] = job[x]
    BY <1>15, TakeQueue DEF TasksReceived, Take
  <2>3. Len(queue') <= NumberWorker
    BY <1>15, TakeQueue, WorkerCount DEF TasksReceived
  <2> QED
    BY <1>15, <2>1, <2>2, <2>3 DEF TasksReceived, Take
<1>16. ASSUME NEW w \in Workers, Execute(w) PROVE TasksReceived'
  BY <1>16 DEF Execute, TasksReceived
<1>17. ASSUME NEW w \in Workers, StartSpawn(w) \/ Exit(w)
     PROVE  TasksReceived'
  BY <1>17 DEF StartSpawn, Exit, TasksReceived
<1>18. CASE UNCHANGED vars
  BY <1>18 DEF vars, TasksReceived
<1> QED
  BY <1>1, <1>2, <1>3, <1>4, <1>5, <1>6, <1>7, <1>8, <1>9, <1>10, <1>11, <1>12,
     <1>13, <1>14, <1>15, <1>16, <1>17, <1>18 DEF Next, Subscriber, Start,
     Push, Worker, Stop

\* Sends and receives apart, the queue stays.
LEMMA QueueOrderStep ==
  ASSUME TypeOK, TasksReceived, QueueInOrder, [Next]_vars
  PROVE  QueueInOrder'
<1> USE DEF TypeOK, Tasks
<1>1. ASSUME NewPool PROVE QueueInOrder'
  BY <1>1 DEF NewPool, QueueInOrder, InHand
<1>2. ASSUME StartSwap PROVE QueueInOrder'
  BY <1>2 DEF StartSwap, QueueInOrder, InHand
<1>3. ASSUME StartAdd PROVE QueueInOrder'
  BY <1>3 DEF StartAdd, QueueInOrder, InHand
<1>4. ASSUME Receive PROVE QueueInOrder'
  BY <1>4 DEF Receive, QueueInOrder, TasksReceived, InHand
<1>5. ASSUME PushSend PROVE QueueInOrder'
  <2>1. \A i \in 1..Len(queue) : queue[i] \in 1..received /\ queue[i] # received
    BY <1>5 DEF TasksReceived, QueueInOrder, InHand, PushSend
  <2>2. ASSUME NEW i \in 1..Len(queue'), NEW j \in 1..Len(queue'), i < j
        PROVE  queue'[i] < queue'[j]
    <3>1. Len(queue) \in Nat /\ Len(queue') = Len(queue) + 1
      BY <1>5, SendQueue
    <3>2. i \in 1..Len(queue) /\ queue'[i] = queue[i]
      <4>1. i \in 1..Len(queue)
        BY <2>2, <3>1
      <4> QED
        BY <1>5, <4>1, SendQueue
    <3>3. CASE j \in 1..Len(queue)
      <4>1. queue'[j] = queue[j]
        BY <1>5, <3>3, SendQueue
      <4> QED
        BY <2>2, <3>2, <3>3, <4>1 DEF QueueInOrder
    <3>4. CASE j \notin 1..Len(queue)
      <4>1. j = Len(queue) + 1
        BY <3>1, <3>4
      <4>2. queue'[j] = received
        BY <1>5, <4>1, SendQueue
      <4>3. queue[i] \in 1..received /\ queue[i] # received
        BY <2>1, <3>2
      <4> QED
        BY <3>2, <4>2, <4>3
    <3> QED
      BY <3>3, <3>4
  <2> QED
    BY <1>5, <2>2 DEF PushSend, QueueInOrder, InHand
<1>6. ASSUME PushSendOnClosed PROVE QueueInOrder'
  BY <1>6 DEF PushSendOnClosed, QueueInOrder, InHand
<1>7. ASSUME PushDone PROVE QueueInOrder'
  BY <1>7 DEF PushDone, QueueInOrder, InHand
<1>8. ASSUME PushBlock PROVE QueueInOrder'
  BY <1>8 DEF PushBlock, QueueInOrder, InHand
<1>9. ASSUME Close PROVE QueueInOrder'
  BY <1>9 DEF Close, QueueInOrder, InHand
<1>10. ASSUME StopSwap1 PROVE QueueInOrder'
  BY <1>10 DEF StopSwap1, StopSwap, QueueInOrder, InHand
<1>11. ASSUME StopSwap0 PROVE QueueInOrder'
  BY <1>11 DEF StopSwap0, StopSwap, QueueInOrder, InHand
<1>12. ASSUME StopCancel PROVE QueueInOrder'
  BY <1>12 DEF StopCancel, QueueInOrder, InHand
<1>13. ASSUME StopClose PROVE QueueInOrder'
  BY <1>13 DEF StopClose, QueueInOrder, InHand
<1>14. ASSUME StopWait PROVE QueueInOrder'
  BY <1>14 DEF StopWait, QueueInOrder, InHand
<1>15. ASSUME NEW w \in Workers, Take(w) PROVE QueueInOrder'
  <2>1. InHand' = {}  \/ (InHand' = InHand /\ sub # "blocked")
    BY <1>15 DEF Take, InHand
  <2>2. \A i \in 1..Len(queue) : queue[i] \in 1..received
    BY DEF TasksReceived
  <2>3. \A i \in 1..Len(queue') :
          \/ i + 1 \in 1..Len(queue) /\ queue'[i] = queue[i + 1]
          \/ sub = "blocked" /\ i = Len(queue) /\ queue'[i] = received
    BY <1>15, TakeShift
  <2>4. ASSUME NEW i \in 1..Len(queue'), NEW j \in 1..Len(queue'), i < j
        PROVE  queue'[i] < queue'[j]
    <3>1. Len(queue) \in Nat /\ Len(queue') \in Nat /\ Len(queue') <= Len(queue)
      <4>1. Len(queue) \in Nat /\ Len(queue') \in Nat
        BY <1>15, TakeShift
      <4>2. Len(queue') = IF sub = "blocked" THEN Len(queue) ELSE Len(queue) - 1
        BY <1>15, TakeQueue
      <4> QED
        BY <4>1, <4>2
    <3>2. i + 1 \in 1..Len(queue) /\ queue'[i] = queue[i + 1]
      BY <2>3, <2>4, <3>1
    <3>3. CASE j + 1 \in 1..Len(queue) /\ queue'[j] = queue[j + 1]
      <4>1. i + 1 < j + 1
        BY <2>4
      <4> QED
        BY <3>2, <3>3, <4>1 DEF QueueInOrder
    <3>4. CASE sub = "blocked" /\ queue'[j] = received
      <4>1. queue[i + 1] # received
        BY <3>2, <3>4 DEF QueueInOrder, InHand
      <4>2. queue[i + 1] \in 1..received
        BY <2>2, <3>2
      <4>3. queue[i + 1] < received
        BY <4>1, <4>2
      <4> QED
        BY <3>2, <3>4, <4>3
    <3> QED
      BY <2>3, <3>3, <3>4
  <2>5. \A i \in 1..Len(queue') : queue'[i] \notin InHand'
    BY <2>1, <2>3 DEF QueueInOrder
  <2> QED
    BY <2>4, <2>5 DEF QueueInOrder
<1>16. ASSUME NEW w \in Workers, StartSpawn(w) \/ Execute(w) \/ Exit(w)
     PROVE  QueueInOrder'
  BY <1>16 DEF StartSpawn, Execute, Exit, QueueInOrder, InHand
<1>17. CASE UNCHANGED vars
  BY <1>17 DEF vars, QueueInOrder, InHand
<1> QED
  BY <1>1, <1>2, <1>3, <1>4, <1>5, <1>6, <1>7, <1>8, <1>9, <1>10, <1>11, <1>12,
     <1>13, <1>14, <1>15, <1>16, <1>17 DEF Next, Subscriber, Start, Push,
     Worker, Stop

\* A worker takes a task that nobody else has.
LEMMA JobsStep ==
  ASSUME TypeOK, TasksReceived, Partition, JobsDiffer, [Next]_vars
  PROVE  JobsDiffer'
<1> USE DEF TypeOK, JobsDiffer
<1>1. ASSUME NEW w \in Workers, StartSpawn(w) PROVE JobsDiffer'
  BY <1>1 DEF StartSpawn
<1>2. ASSUME NEW w \in Workers, Take(w) PROVE JobsDiffer'
  <2>1. queue[1] \notin Running
    BY <1>2, TakeQueue DEF Partition, Queued
  <2>2. job' = [job EXCEPT ![w] = queue[1]]
    BY <1>2, TakeQueue DEF Take
  <2> QED
    BY <1>2, <2>1, <2>2 DEF Take, Running
<1>3. ASSUME NEW w \in Workers, Execute(w) PROVE JobsDiffer'
  BY <1>3 DEF Execute
<1>4. ASSUME NEW w \in Workers, Exit(w) PROVE JobsDiffer'
  BY <1>4 DEF Exit
<1>5. ASSUME NewPool \/ StartSwap \/ StartAdd \/ Receive \/ PushSend \/
            PushSendOnClosed \/ PushDone \/ PushBlock \/ Close \/ StopSwap1 \/
            StopSwap0 \/ StopCancel \/ StopClose \/ StopWait
     PROVE  JobsDiffer'
  BY <1>5 DEF NewPool, StartSwap, StartAdd, Receive, PushSend,
     PushSendOnClosed, PushDone, PushBlock, Close, StopSwap1, StopSwap,
     StopSwap0, StopCancel, StopClose, StopWait
<1>6. CASE UNCHANGED vars
  BY <1>6 DEF vars
<1> QED
  BY <1>1, <1>2, <1>3, <1>4, <1>5, <1>6 DEF Next, Subscriber, Start, Push,
     Worker, Stop

\* A step that moves no task keeps each in its place.
LEMMA PlacesStay ==
  ASSUME Partition, InHand' = InHand, Queued' = Queued, Running' = Running,
         UNCHANGED <<executed, dropped, received>>
  PROVE  Partition'
BY DEF Partition

\* Every step moves a task from one place to the next.
LEMMA PlaceStep ==
  ASSUME TypeOK, TasksReceived, QueueInOrder, JobsDiffer, Partition,
         [Next]_vars
  PROVE  Partition'
<1> USE DEF TypeOK
<1>1. ASSUME NewPool PROVE Partition'
  <2>1. InHand' = InHand /\ Queued' = Queued /\ Running' = Running
    BY <1>1 DEF NewPool, InHand, Queued, Running
  <2> QED
    BY <1>1, <2>1, PlacesStay DEF NewPool
<1>2. ASSUME StartSwap PROVE Partition'
  <2>1. InHand' = InHand /\ Queued' = Queued /\ Running' = Running
    BY <1>2 DEF StartSwap, InHand, Queued, Running
  <2> QED
    BY <1>2, <2>1, PlacesStay DEF StartSwap
<1>3. ASSUME StartAdd PROVE Partition'
  <2>1. InHand' = InHand /\ Queued' = Queued /\ Running' = Running
    BY <1>3 DEF StartAdd, InHand, Queued, Running
  <2> QED
    BY <1>3, <2>1, PlacesStay DEF StartAdd
<1>4. ASSUME Receive PROVE Partition'
  <2>1. /\ InHand = {} /\ InHand' = {received + 1}
        /\ Queued' = Queued /\ Running' = Running
        /\ 1..received' = (1..received) \cup {received + 1}
    BY <1>4 DEF Receive, InHand, Queued, Running
  <2>2. received + 1 \notin 1..received
    OBVIOUS
  <2> QED
    BY <1>4, <2>1, <2>2 DEF Receive, Partition
<1>5. ASSUME PushSend PROVE Partition'
  <2>1. InHand = {received} /\ InHand' = {} /\ Running' = Running
    BY <1>5 DEF PushSend, InHand, Running
  <2>2. Queued' = Queued \cup {received}
    BY <1>5, SendQueue
  <2> QED
    BY <1>5, <2>1, <2>2 DEF PushSend, Partition
<1>6. ASSUME PushSendOnClosed PROVE Partition'
  <2>1. InHand' = InHand /\ Queued' = Queued /\ Running' = Running
    BY <1>6 DEF PushSendOnClosed, InHand, Queued, Running
  <2> QED
    BY <1>6, <2>1, PlacesStay DEF PushSendOnClosed
<1>7. ASSUME PushDone PROVE Partition'
  <2>1. /\ InHand = {received} /\ InHand' = {}
        /\ Queued' = Queued /\ Running' = Running
    BY <1>7 DEF PushDone, InHand, Queued, Running
  <2> QED
    BY <1>7, <2>1 DEF PushDone, Partition
<1>8. ASSUME PushBlock PROVE Partition'
  <2>1. InHand' = InHand /\ Queued' = Queued /\ Running' = Running
    BY <1>8 DEF PushBlock, InHand, Queued, Running
  <2> QED
    BY <1>8, <2>1, PlacesStay DEF PushBlock
<1>9. ASSUME Close PROVE Partition'
  <2>1. InHand' = InHand /\ Queued' = Queued /\ Running' = Running
    BY <1>9 DEF Close, InHand, Queued, Running
  <2> QED
    BY <1>9, <2>1, PlacesStay DEF Close
<1>10. ASSUME StopSwap1 PROVE Partition'
  <2>1. InHand' = InHand /\ Queued' = Queued /\ Running' = Running
    BY <1>10 DEF StopSwap1, StopSwap, InHand, Queued, Running
  <2> QED
    BY <1>10, <2>1, PlacesStay DEF StopSwap1, StopSwap
<1>11. ASSUME StopSwap0 PROVE Partition'
  <2>1. InHand' = InHand /\ Queued' = Queued /\ Running' = Running
    BY <1>11 DEF StopSwap0, StopSwap, InHand, Queued, Running
  <2> QED
    BY <1>11, <2>1, PlacesStay DEF StopSwap0, StopSwap
<1>12. ASSUME StopCancel PROVE Partition'
  <2>1. Queued' = Queued /\ Running' = Running
    BY <1>12 DEF StopCancel, Queued, Running
  <2>2. CASE sub = "blocked"
    <3>1. InHand = {received} /\ InHand' = {}
      BY <1>12, <2>2 DEF StopCancel, InHand
    <3> QED
      BY <1>12, <2>1, <2>2, <3>1 DEF StopCancel, Partition
  <2>3. CASE sub # "blocked"
    <3>1. InHand' = InHand
      BY <1>12, <2>3 DEF StopCancel, InHand
    <3> QED
      BY <1>12, <2>1, <2>3, <3>1, PlacesStay DEF StopCancel
  <2> QED
    BY <2>2, <2>3
<1>13. ASSUME StopClose PROVE Partition'
  <2>1. InHand' = InHand /\ Queued' = Queued /\ Running' = Running
    BY <1>13 DEF StopClose, InHand, Queued, Running
  <2> QED
    BY <1>13, <2>1, PlacesStay DEF StopClose
<1>14. ASSUME StopWait PROVE Partition'
  <2>1. InHand' = InHand /\ Queued' = Queued /\ Running' = Running
    BY <1>14 DEF StopWait, InHand, Queued, Running
  <2> QED
    BY <1>14, <2>1, PlacesStay DEF StopWait
<1>15. ASSUME NEW w \in Workers, StartSpawn(w) PROVE Partition'
  <2>1. InHand' = InHand /\ Queued' = Queued /\ Running' = Running
    BY <1>15 DEF StartSpawn, InHand, Queued, Running
  <2> QED
    BY <1>15, <2>1, PlacesStay DEF StartSpawn
<1>16. ASSUME NEW w \in Workers, Take(w) PROVE Partition'
  <2>1. /\ queue[1] \in Queued
        /\ Running' = Running \cup {queue[1]}
        /\ Queued' = (Queued \ {queue[1]})
                     \cup (IF sub = "blocked" THEN {received} ELSE {})
    BY <1>16, TakePlaces
  <2>2. CASE sub = "blocked"
    <3>1. InHand = {received} /\ InHand' = {}
      BY <1>16, <2>2 DEF Take, InHand
    <3> QED
      BY <1>16, <2>1, <2>2, <3>1 DEF Take, Partition
  <2>3. CASE sub # "blocked"
    <3>1. InHand' = InHand
      BY <1>16, <2>3 DEF Take, InHand
    <3> QED
      BY <1>16, <2>1, <2>3, <3>1 DEF Take, Partition
  <2> QED
    BY <2>2, <2>3
<1>17. ASSUME NEW w \in Workers, Execute(w) PROVE Partition'
  <2>1. Running' = Running \ {job[w]} /\ job[w] \in Running
    BY <1>17, ExecutePlaces
  <2>2. InHand' = InHand /\ Queued' = Queued
    BY <1>17 DEF Execute, InHand, Queued
  <2> QED
    BY <1>17, <2>1, <2>2 DEF Execute, Partition
<1>18. ASSUME NEW w \in Workers, Exit(w) PROVE Partition'
  <2>1. InHand' = InHand /\ Queued' = Queued /\ Running' = Running
    BY <1>18 DEF Exit, InHand, Queued, Running
  <2> QED
    BY <1>18, <2>1, PlacesStay DEF Exit
<1>19. CASE UNCHANGED vars
  <2>1. InHand' = InHand /\ Queued' = Queued /\ Running' = Running
    BY <1>19 DEF vars, InHand, Queued, Running
  <2> QED
    BY <1>19, <2>1, PlacesStay DEF vars
<1> QED
  BY <1>1, <1>2, <1>3, <1>4, <1>5, <1>6, <1>7, <1>8, <1>9, <1>10, <1>11, <1>12,
     <1>13, <1>14, <1>15, <1>16, <1>17, <1>18, <1>19 DEF Next, Subscriber,
     Start, Push, Worker, Stop

\* A worker takes the oldest task.
LEMMA StartedOrderStep ==
  ASSUME TypeOK, TasksReceived, QueueInOrder, JobsDiffer, Partition,
         StartedInOrder, [Next]_vars
  PROVE  StartedInOrder'
<1> USE DEF TypeOK
<1>1. ASSUME PushSend PROVE StartedInOrder'
  <2>1. Queued' = Queued \cup {received} /\ InHand = {received}
    BY <1>1, SendQueue DEF PushSend, InHand
  <2>2. Running' = Running /\ executed' = executed
    BY <1>1 DEF PushSend, Running
  <2>3. \A n \in Running \cup executed : n \in 1..received /\ n # received
    BY <2>1 DEF Partition
  <2> QED
    BY <2>1, <2>2, <2>3 DEF StartedInOrder
<1>2. ASSUME NEW w \in Workers, StartSpawn(w) PROVE StartedInOrder'
  <2>1. Queued' = Queued /\ Running' = Running /\ executed' = executed
    BY <1>2 DEF StartSpawn, Queued, Running
  <2> QED
    BY <2>1 DEF StartedInOrder
<1>3. ASSUME NEW w \in Workers, Take(w) PROVE StartedInOrder'
  <2>1. /\ queue[1] \in Queued
        /\ Running' = Running \cup {queue[1]} /\ executed' = executed
        /\ Queued' = (Queued \ {queue[1]})
                     \cup (IF sub = "blocked" THEN {received} ELSE {})
    BY <1>3, TakePlaces DEF Take
  <2>2. ASSUME NEW m \in Queued \ {queue[1]} PROVE queue[1] < m
    <3>1. PICK i \in 1..Len(queue) : queue[i] = m
      BY DEF Queued
    <3>2. 1 \in 1..Len(queue) /\ 1 < i
      BY <1>3, <3>1, TakeQueue
    <3> QED
      BY <3>1, <3>2 DEF QueueInOrder
  <2>3. ASSUME sub = "blocked", NEW n \in Running \cup executed \cup Queued
        PROVE  n < received
    <3>1. InHand = {received}
      BY <2>3 DEF InHand
    <3>2. n \in 1..received /\ n # received
      BY <2>3, <3>1 DEF Partition
    <3> QED
      BY <3>2
  <2>4. ASSUME NEW n \in (Running \cup executed)', NEW m \in Queued' PROVE n < m
    <3>1. CASE m \in Queued \ {queue[1]}
      BY <2>1, <2>2, <2>4, <3>1 DEF StartedInOrder
    <3>2. CASE sub = "blocked" /\ m = received
      BY <2>1, <2>3, <2>4, <3>2
    <3> QED
      BY <2>1, <2>4, <3>1, <3>2
  <2> QED
    BY <2>4 DEF StartedInOrder
<1>4. ASSUME NEW w \in Workers, Execute(w) PROVE StartedInOrder'
  <2>1. (Running \cup executed)' \subseteq Running \cup executed /\ Queued' = Queued
    BY <1>4, ExecutePlaces DEF Execute, Queued
  <2> QED
    BY <2>1 DEF StartedInOrder
<1>5. ASSUME NEW w \in Workers, Exit(w) PROVE StartedInOrder'
  <2>1. Queued' = Queued /\ Running' = Running /\ executed' = executed
    BY <1>5 DEF Exit, Queued, Running
  <2> QED
    BY <2>1 DEF StartedInOrder
<1>6. ASSUME NewPool \/ StartSwap \/ StartAdd \/ Receive \/ PushSendOnClosed \/
            PushDone \/ PushBlock \/ Close \/ StopSwap1 \/ StopSwap0 \/
            StopCancel \/ StopClose \/ StopWait
     PROVE  StartedInOrder'
  BY <1>6 DEF NewPool, StartSwap, StartAdd, Receive, PushSendOnClosed,
     PushDone, PushBlock, Close, StopSwap1, StopSwap, StopSwap0, StopCancel,
     StopClose, StopWait, StartedInOrder, Queued, Running
<1>7. CASE UNCHANGED vars
  <2>1. Queued' = Queued /\ Running' = Running /\ executed' = executed
    BY <1>7 DEF vars, Queued, Running
  <2> QED
    BY <2>1 DEF StartedInOrder
<1> QED
  BY <1>1, <1>2, <1>3, <1>4, <1>5, <1>6, <1>7 DEF Next, Subscriber, Start,
     Push, Worker, Stop

\* A worker that takes a task takes a newer one than any that was executed.
LEMMA BehindStep ==
  ASSUME TypeOK, TasksReceived, StartedInOrder, NotAllBehind, [Next]_vars
  PROVE  NotAllBehind'
<1> USE DEF TypeOK
<1>1. ASSUME UNCHANGED <<worker, job, executed>> PROVE NotAllBehind'
  BY <1>1 DEF NotAllBehind
<1>2. ASSUME NewPool \/ StartSwap \/ StartAdd \/ Receive \/ PushSend \/
            PushSendOnClosed \/ PushDone \/ PushBlock \/ Close \/ StopSwap1 \/
            StopSwap0 \/ StopCancel \/ StopClose \/ StopWait
     PROVE  NotAllBehind'
  BY <1>1, <1>2 DEF NewPool, StartSwap, StartAdd, Receive, PushSend,
     PushSendOnClosed, PushDone, PushBlock, Close, StopSwap1, StopSwap,
     StopSwap0, StopCancel, StopClose, StopWait
<1>3. ASSUME NEW w \in Workers, StartSpawn(w) PROVE NotAllBehind'
  BY <1>3 DEF StartSpawn, NotAllBehind
<1>4. ASSUME NEW w \in Workers, Take(w) PROVE NotAllBehind'
  <2>1. /\ 1 \in 1..Len(queue) /\ job'[w] = queue[1]
        /\ executed' = executed
        /\ \A x \in Workers \ {w} : worker'[x] = worker[x] /\ job'[x] = job[x]
    BY <1>4, TakeQueue DEF Take
  <2>2. queue[1] \in Queued
    BY <2>1 DEF Queued
  <2>3. \A n \in executed : n < job'[w]
    BY <2>1, <2>2 DEF StartedInOrder
  <2>4. \A n \in executed : ~(job'[w] < n)
    BY <2>1, <2>3, TakeQueue, <1>4 DEF Tasks
  <2> QED
    BY <2>1, <2>4 DEF NotAllBehind
<1>5. ASSUME NEW w \in Workers, Execute(w) PROVE NotAllBehind'
  <2>1. /\ executed' = executed \cup {job[w]} /\ job' = job
        /\ worker'[w] = "idle"
        /\ \A x \in Workers \ {w} : worker'[x] = worker[x]
    BY <1>5 DEF Execute
  <2> QED
    BY <2>1 DEF NotAllBehind
<1>6. ASSUME NEW w \in Workers, Exit(w) PROVE NotAllBehind'
  BY <1>6 DEF Exit, NotAllBehind
<1>7. CASE UNCHANGED vars
  BY <1>1, <1>7 DEF vars
<1> QED
  BY <1>2, <1>3, <1>4, <1>5, <1>6, <1>7 DEF Next, Subscriber, Start, Push,
     Worker, Stop

\* wg.Wait returns before wg.Add, when nothing has been accepted, or after every
\* worker has left an empty queue.
LEMMA DrainStep ==
  ASSUME TypeOK, NothingBeforeStart, StopOrder, DoneMeansDrained,
         CounterCounts, Drained, [Next]_vars
  PROVE  Drained'
<1> USE DEF TypeOK
<1>1. ASSUME NewPool PROVE Drained'
  BY <1>1 DEF NewPool, Drained, StopOrder, Started
<1>2. ASSUME StartSwap PROVE Drained'
  BY <1>2 DEF StartSwap, Drained, StopOrder, Started
<1>3. ASSUME StartAdd PROVE Drained'
  BY <1>3 DEF StartAdd, Drained, StopOrder, Started
<1>4. ASSUME Receive PROVE Drained'
  BY <1>4 DEF Receive, Drained, StopOrder, Started
<1>5. ASSUME PushSend PROVE Drained'
  BY <1>5 DEF PushSend, Drained, StopOrder, Started
<1>6. ASSUME PushSendOnClosed PROVE Drained'
  BY <1>6 DEF PushSendOnClosed, Drained, StopOrder, Started
<1>7. ASSUME PushDone PROVE Drained'
  BY <1>7 DEF PushDone, Drained, StopOrder, Started
<1>8. ASSUME PushBlock PROVE Drained'
  BY <1>8 DEF PushBlock, Drained, StopOrder, Started
<1>9. ASSUME Close PROVE Drained'
  BY <1>9 DEF Close, Drained, StopOrder, Started
<1>10. ASSUME StopSwap1 PROVE Drained'
  BY <1>10 DEF StopSwap1, StopSwap, Drained, StopOrder, Started
<1>11. ASSUME StopSwap0 PROVE Drained'
  BY <1>11 DEF StopSwap0, StopSwap, Drained, StopOrder, Started
<1>12. ASSUME StopCancel PROVE Drained'
  BY <1>12 DEF StopCancel, Drained, StopOrder, Started
<1>13. ASSUME StopClose PROVE Drained'
  BY <1>13 DEF StopClose, Drained, StopOrder, Started
<1>14. ASSUME StopWait PROVE Drained'
  <2> SUFFICES ASSUME Started
               PROVE  queue = <<>> /\ \A x \in Workers : worker[x] # "running"
    BY <1>14 DEF StopWait, Drained, Started
  <2>1. Cardinality(Workers \ Done) = 0
    BY <1>14 DEF StopWait, CounterCounts
  <2>2. IsFiniteSet(Workers \ Done)
    BY FS_Subset
  <2>3. Workers \ Done = {}
    BY <2>1, <2>2, FS_EmptySet
  <2>4. Done # {}
    BY <2>3
  <2> QED
    BY <2>3, <2>4 DEF DoneMeansDrained, Done
<1>15. ASSUME NEW w \in Workers, StartSpawn(w) PROVE Drained'
  BY <1>15 DEF StartSpawn, Drained, NothingBeforeStart
<1>16. ASSUME NEW w \in Workers, Take(w) PROVE Drained'
  BY <1>16 DEF Take, Drained, StopOrder, Started
<1>17. ASSUME NEW w \in Workers, Execute(w) PROVE Drained'
  BY <1>17 DEF Execute, Drained, StopOrder, Started
<1>18. ASSUME NEW w \in Workers, Exit(w) PROVE Drained'
  BY <1>18 DEF Exit, Drained, StopOrder, Started
<1>19. CASE UNCHANGED vars
  BY <1>19 DEF vars, Drained, Started
<1> QED
  BY <1>1, <1>2, <1>3, <1>4, <1>5, <1>6, <1>7, <1>8, <1>9, <1>10, <1>11, <1>12,
     <1>13, <1>14, <1>15, <1>16, <1>17, <1>18, <1>19 DEF Next, Subscriber,
     Start, Push, Worker, Stop

-----------------------------------------------------------------------------
(* Theorems.                                                                *)

\* The parts hold together.
THEOREM Invariance == Spec => []IInv
<1>1. Init => IInv
  <2> SUFFICES ASSUME Init PROVE IInv
    OBVIOUS
  <2>1. TypeOK
    <3>1. 0 \in 0..NumberWorker /\ 0 \in 0..MaxMessages
      BY WorkerCount
    <3>2. <<>> \in Seq(Tasks)
      OBVIOUS
    <3> QED
      BY <3>1, <3>2 DEF Init, TypeOK
  <2>2. Queued = {} /\ Running = {} /\ InHand = {} /\ ~Started
    BY DEF Init, Queued, Running, InHand, Started
  <2>3. NothingBeforeStart /\ StopOrder /\ DoneMeansDrained /\ CounterCounts
    BY <2>2 DEF Init, NothingBeforeStart, StopOrder, DoneMeansDrained, Done, CounterCounts
  <2>4. StartOrder
    BY <2>2 DEF Init, StartOrder, Starting
  <2>5. TasksReceived /\ QueueInOrder /\ JobsDiffer
    BY WorkerCount DEF Init, TasksReceived, QueueInOrder, JobsDiffer
  <2>6. Partition /\ StartedInOrder /\ NotAllBehind /\ Drained
    BY <2>2 DEF Init, Partition, StartedInOrder, NotAllBehind, Drained
  <2> QED
    BY <2>1, <2>3, <2>4, <2>5, <2>6 DEF IInv
<1>2. IInv /\ [Next]_vars => IInv'
  <2> SUFFICES ASSUME IInv, [Next]_vars PROVE IInv'
    OBVIOUS
  <2> QED
    BY TypeStep, BeforeStep, StopOrderStep, StartOrderStep, DoneStep, CounterStep,
       ReceivedStep, QueueOrderStep, JobsStep, PlaceStep, StartedOrderStep,
       BehindStep, DrainStep
       DEF IInv
<1> QED
  BY <1>1, <1>2, PTL DEF Spec

\* Every variable stays in its type; the WaitGroup counter never goes below 0.
THEOREM TypeCorrect == Spec => []TypeOK
BY Invariance, PTL DEF IInv

\* No task is lost, duplicated or run twice, whenever the pool is stopped.
THEOREM NothingLostOrTwice == Spec => []TaskInOnePlace
<1>1. IInv => TaskInOnePlace
  <2> SUFFICES ASSUME IInv PROVE TaskInOnePlace
    OBVIOUS
  <2>1. \A i, j \in 1..Len(queue) : queue[i] = queue[j] => i = j
    BY DEF IInv, TypeOK, Tasks, QueueInOrder
  <2> QED
    BY <2>1 DEF IInv, TaskInOnePlace, Partition, JobsDiffer
<1> QED
  BY <1>1, Invariance, PTL

\* Tasks are started in the order of their messages.
THEOREM InOrder == Spec => []StartedInOrder
BY Invariance, PTL DEF IInv

\* A task is finished before fewer older ones than there are workers: those are all
\* running, each on a worker of its own, and one worker is not among these.
THEOREM FewOvertakes == Spec => []OvertakenByFew
<1>1. IInv => OvertakenByFew
  <2> SUFFICES ASSUME IInv, NEW n \in executed
               PROVE  Cardinality({m \in 1..n : m \notin executed \cup dropped})
                        < NumberWorker
    BY DEF OvertakenByFew
  <2> DEFINE Older == {m \in 1..n : m \notin executed \cup dropped}
             Holders == {w \in Workers : worker[w] = "running" /\ job[w] < n}
             Held == {job[w] : w \in Holders}
  <2>1. n \in 1..received /\ received \in Nat
    BY DEF IInv, TypeOK, Partition
  <2>2. Older \subseteq Held
    <3> SUFFICES ASSUME NEW m \in Older PROVE m \in Held
      OBVIOUS
    <3>1. m \in 1..received /\ m < n
      BY <2>1
    <3>2. m \notin Queued
      BY <3>1, <2>1 DEF IInv, StartedInOrder
    <3>3. m \notin InHand
      BY <3>1, <2>1 DEF InHand
    <3>4. m \in Running
      BY <3>1, <3>2, <3>3 DEF IInv, Partition
    <3> QED
      BY <3>1, <3>4 DEF Running
  <2>3. IsFiniteSet(Holders) /\ Cardinality(Holders) < NumberWorker
    <3>1. PICK w \in Workers : w \notin Holders
      BY DEF IInv, NotAllBehind
    <3>2. /\ IsFiniteSet(Workers \ {w})
          /\ Cardinality(Workers \ {w}) = Cardinality(Workers) - 1
      BY FS_RemoveElement
    <3>3. Holders \subseteq Workers \ {w}
      BY <3>1
    <3>4. /\ IsFiniteSet(Holders)
          /\ Cardinality(Holders) <= Cardinality(Workers \ {w})
      BY <3>2, <3>3, FS_Subset
    <3> QED
      BY <3>2, <3>4, WorkerCount, FS_CardinalityType DEF NumberWorker
  <2>4. IsFiniteSet(Held) /\ Cardinality(Held) <= Cardinality(Holders)
    <3> DEFINE task == [w \in Holders |-> job[w]]
    <3>1. task \in Surjection(Holders, Held)
      <4> HIDE DEF Holders
      <4> QED
        BY DEF Surjection
    <3> HIDE DEF task, Holders, Held
    <3> QED
      BY <2>3, <3>1, FS_Surjection
  <2>5. IsFiniteSet(Older) /\ Cardinality(Older) <= Cardinality(Held)
    <3> HIDE DEF Older, Held
    <3> QED
      BY <2>2, <2>4, FS_Subset
  <2> HIDE DEF Older, Held, Holders
  <2>6. Cardinality(Older) < NumberWorker
    <3>1. /\ Cardinality(Older) \in Nat /\ Cardinality(Held) \in Nat
          /\ Cardinality(Holders) \in Nat
      BY <2>3, <2>4, <2>5, FS_CardinalityType
    <3> QED
      BY <3>1, <2>3, <2>4, <2>5, WorkerCount
  <2> QED
    BY <2>6 DEF Older
<1> QED
  BY <1>1, Invariance, PTL

\* The Stop that stops a started pool returns with every accepted task executed.
THEOREM StopWaitsForTasks == Spec => []StopDrains
<1>1. IInv => StopDrains
  <2> SUFFICES ASSUME IInv, closer = "returned", state = 2, Started
               PROVE  /\ Queued = {} /\ Running = {}
                      /\ executed = (1..received) \ (dropped \cup InHand)
    BY DEF StopDrains
  <2>1. Queued = {} /\ Running = {}
    BY DEF IInv, Drained, Queued, Running
  <2> QED
    BY <2>1 DEF IInv, Partition
<1> QED
  BY <1>1, Invariance, PTL

\* Whoever waits in the pool waits for somebody who can go on, with any number of
\* workers: a blocked sender for a worker (or, in a pool that was never started, for the
\* Stop that came before Start), and Stop for one that has not left.
THEOREM NobodyWaitsForNobody == Spec => []NobodyIsStuck
<1>1. ASSUME IInv, sub = "blocked", closer # "cancelling"
      PROVE  \E w \in Workers : CanGoOn(w)
  <2> USE DEF IInv, TypeOK
  <2>1. Len(queue) = NumberWorker /\ NumberWorker > 0 /\ queue # <<>>
    BY <1>1, WorkerCount DEF TasksReceived
  <2>2. Done = {}
    BY <1>1, <2>1 DEF DoneMeansDrained
  <2>3. Started
    <3>1. ~cancelled
      BY <1>1 DEF StopOrder
    <3>2. state # 2
      BY <1>1, <3>1 DEF StopOrder
    <3> QED
      BY <1>1, <3>2 DEF StartOrder, Starting
  <2>4. PICK w \in Workers : worker[w] # "unborn"
    BY <2>3 DEF Started
  <2> QED
    BY <1>1, <2>1, <2>2, <2>4 DEF Done, CanGoOn
<1>2. ASSUME IInv, closer = "waiting", wg # 0, sub # "spawning"
      PROVE  \E w \in Workers : CanGoOn(w)
  <2> USE DEF IInv, TypeOK
  <2>1. closed
    BY <1>2 DEF StopOrder
  <2>2. Started
    BY <1>2 DEF CounterCounts
  <2>3. wg = Cardinality(Workers \ Done)
    BY <1>2, <2>2 DEF CounterCounts
  <2>4. Workers \ Done # {}
    BY <1>2, <2>3, FS_EmptySet
  <2>5. PICK w \in Workers : worker[w] # "done"
    BY <2>4 DEF Done
  <2> QED
    BY <1>2, <2>1, <2>2, <2>5 DEF StartOrder, CanGoOn
<1>3. IInv => NobodyIsStuck
  BY <1>1, <1>2 DEF NobodyIsStuck
<1> QED
  BY <1>3, Invariance, PTL

-----------------------------------------------------------------------------
(* WorkerPool implements MessagePool.                                       *)

\* A step that leaves the tasks in their places, or moves them as Take does.
LEMMA FateStays ==
  ASSUME Partition,
         executed' = executed, dropped' = dropped, Started' = Started,
         \/ Running' = Running /\ Queued' = Queued
         \/ /\ Started
            /\ \E n \in Queued :
                 Running' = Running \cup {n} /\ Queued' = Queued \ {n}
  PROVE  Fate' = Fate
BY DEF Fate, Partition

\* A task is accepted: it goes into the queue, and perhaps another one out of it.
LEMMA FateAccepted ==
  ASSUME TypeOK, Partition, received \in Tasks, InHand = {received},
         executed' = executed, dropped' = dropped, Started' = Started,
         \/ Running' = Running /\ Queued' = Queued \cup {received}
         \/ /\ Started
            /\ \E n \in Queued :
                 /\ Running' = Running \cup {n}
                 /\ Queued' = (Queued \ {n}) \cup {received}
  PROVE  /\ Fate[received] = "new"
         /\ Fate' = [Fate EXCEPT ![received] =
                       IF Started THEN "running" ELSE "dropped"]
<1>1. received \notin executed \cup dropped \cup Running \cup Queued
  BY DEF Partition
<1>2. Fate[received] = "new"
  BY <1>1 DEF Fate
<1>3. ASSUME NEW n \in Tasks, n # received PROVE Fate'[n] = Fate[n]
  BY <1>3 DEF Fate, Partition
<1>4. Fate'[received] = IF Started THEN "running" ELSE "dropped"
  BY <1>1 DEF Fate
<1> QED
  BY <1>2, <1>3, <1>4 DEF Fate

\* A task is given up.
LEMMA FateDropped ==
  ASSUME TypeOK, Partition, received \in Tasks, InHand = {received},
         executed' = executed, dropped' = dropped \cup {received},
         Running' = Running, Queued' = Queued, Started' = Started
  PROVE  Fate[received] = "new" /\ Fate' = [Fate EXCEPT ![received] = "dropped"]
<1>1. received \notin executed \cup dropped \cup Running \cup Queued
  BY DEF Partition
<1>2. Fate[received] = "new" /\ Fate'[received] = "dropped"
  BY <1>1 DEF Fate
<1>3. ASSUME NEW n \in Tasks, n # received PROVE Fate'[n] = Fate[n]
  BY <1>3 DEF Fate
<1> QED
  BY <1>2, <1>3 DEF Fate

\* Each step is one of MessagePool, or leaves what MessagePool sees alone.
LEMMA PoolStep ==
  ASSUME IInv, [Next]_vars
  PROVE  [Promise!Next]_(Promise!vars)
<1> DEFINE S == UNCHANGED <<Starting, Alive, Halt, Fate>>
<1> USE DEF IInv, TypeOK
<1>a. S => UNCHANGED Promise!vars
  BY DEF Promise!vars, Starting
<1>b. \/ UNCHANGED vars
      \/ /\ Alive
         /\ Subscriber \/ (\E w \in Workers : Worker(w)) \/ Close \/ Stop
  BY DEF Next
<1>1. ASSUME NewPool \/ StartAdd \/ Receive PROVE S
  <2>1. Fate' = Fate
    BY <1>1, FateStays
       DEF NewPool, StartAdd, Receive, Started, Running, Queued
  <2> QED
    BY <1>1, <2>1 DEF NewPool, StartAdd, Receive, Starting, Alive, Halt
<1>2. ASSUME StartSwap, Alive PROVE S \/ Promise!Next
  <2>1. Fate' = Fate
    BY <1>2, FateStays DEF StartSwap, Started, Running, Queued
  <2>2. CASE state = 0 /\ closer \in {"swap1", "swap0"}
    <3>1. Promise!Call
      BY <1>2, <2>1, <2>2 DEF StartSwap, Promise!Call, Halt, Alive
    <3> QED
      BY <1>2, <3>1 DEF Promise!Next
  <2>3. CASE state = 0 /\ closer \notin {"swap1", "swap0"}
    BY <1>2, <2>1, <2>3 DEF StartSwap, Starting, Alive, Halt
  <2>4. CASE state # 0
    <3>1. Promise!Ready
      BY <1>2, <2>1, <2>4 DEF StartSwap, Promise!Ready, Halt, Alive
    <3> QED
      BY <1>2, <3>1 DEF Promise!Next
  <2> QED
    BY <2>2, <2>3, <2>4
<1>3. ASSUME NEW w \in Workers, StartSpawn(w), Alive PROVE S \/ Promise!Next
  <2>1. /\ Queued = {} /\ Queued' = {} /\ Running = {} /\ Running' = {}
        /\ executed' = executed /\ dropped' = dropped
    BY <1>3 DEF StartSpawn, NothingBeforeStart, Queued, Running
  <2>2. Fate' = Fate
    BY <2>1 DEF Fate
  <2>3. Halt' = Halt /\ Alive' = Alive
    BY <1>3 DEF StartSpawn, Halt, Alive
  <2>4. CASE sub' = "receiving"
    <3>1. Promise!Ready
      BY <1>3, <2>2, <2>3, <2>4 DEF StartSpawn, Promise!Ready
    <3> QED
      BY <1>3, <3>1 DEF Promise!Next
  <2>5. CASE sub' = "spawning"
    BY <1>3, <2>2, <2>3, <2>5 DEF StartSpawn, Starting
  <2> QED
    BY <1>3, <2>4, <2>5 DEF StartSpawn
<1>4. ASSUME PushSend, Alive PROVE S \/ Promise!Next
  <2>1. Queued' = Queued \cup {received} /\ InHand = {received} /\ received \in Tasks
    BY <1>4, SendQueue DEF PushSend, InHand, TasksReceived, Tasks
  <2>2. Running' = Running /\ Started' = Started
    BY <1>4 DEF PushSend, Running, Started
  <2>3. /\ Fate[received] = "new"
        /\ Fate' = [Fate EXCEPT ![received] =
                      IF Started THEN "running" ELSE "dropped"]
    BY <1>4, <2>1, <2>2, FateAccepted DEF PushSend
  <2>4. IF Started THEN Halt \in {"no", "missed", "stopping"} ELSE Halt = "stopping"
    BY <1>4 DEF PushSend, Halt, StopOrder, StartOrder, Starting
  <2>5. Promise!Arrive(received)
    BY <1>4, <2>3, <2>4 DEF PushSend, Promise!Arrive, Halt, Alive
  <2> QED
    BY <1>4, <2>1, <2>5 DEF Promise!Next
<1>5. ASSUME PushSendOnClosed, Alive PROVE S \/ Promise!Next
  <2>1. Fate' = Fate
    BY <1>5, FateStays DEF PushSendOnClosed, Started, Running, Queued
  <2>2. InHand = {received} /\ received \in Tasks
    BY <1>5 DEF PushSendOnClosed, InHand, TasksReceived, Tasks
  <2>3. Fate[received] = "new"
    BY <2>2 DEF Fate, Partition
  <2>4. Halt \in {"closed", "over"} /\ Halt' = Halt
    BY <1>5 DEF PushSendOnClosed, Halt, StopOrder, StartOrder
  <2>5. Promise!Arrive(received)
    BY <1>5, <2>1, <2>3, <2>4 DEF PushSendOnClosed, Promise!Arrive, Alive
  <2> QED
    BY <1>5, <2>2, <2>5 DEF Promise!Next
<1>6. ASSUME PushDone, Alive PROVE S \/ Promise!Next
  <2>1. InHand = {received} /\ received \in Tasks
    BY <1>6 DEF PushDone, InHand, TasksReceived, Tasks
  <2>2. Running' = Running /\ Queued' = Queued /\ Started' = Started
    BY <1>6 DEF PushDone, Running, Queued, Started
  <2>3. Fate[received] = "new" /\ Fate' = [Fate EXCEPT ![received] = "dropped"]
    BY <1>6, <2>1, <2>2, FateDropped DEF PushDone
  <2>4. Halt \in {"stopping", "closed", "over"} /\ Halt' = Halt
    BY <1>6 DEF PushDone, Halt, StopOrder
  <2>5. Promise!Arrive(received)
    BY <1>6, <2>3, <2>4 DEF PushDone, Promise!Arrive, Alive
  <2> QED
    BY <1>6, <2>1, <2>5 DEF Promise!Next
<1>7. ASSUME PushBlock PROVE S
  <2>1. Fate' = Fate
    BY <1>7, FateStays DEF PushBlock, Started, Running, Queued
  <2> QED
    BY <1>7, <2>1 DEF PushBlock, Starting, Alive, Halt
<1>8. ASSUME NEW w \in Workers, Take(w), Alive PROVE S \/ Promise!Next
  <2>1. /\ queue[1] \in Queued
        /\ Queued' = (Queued \ {queue[1]})
                     \cup (IF sub = "blocked" THEN {received} ELSE {})
        /\ Running' = Running \cup {queue[1]}
    BY <1>8, TakePlaces
  <2>2. Started /\ Started' /\ executed' = executed /\ dropped' = dropped
    BY <1>8 DEF Take, Started
  <2>3. CASE sub = "blocked"
    <3>1. InHand = {received} /\ received \in Tasks
      BY <2>3 DEF InHand, TasksReceived, Tasks
    <3>2. /\ Fate[received] = "new"
          /\ Fate' = [Fate EXCEPT ![received] = "running"]
      BY <2>1, <2>2, <2>3, <3>1, FateAccepted
    <3>3. Halt \in {"no", "missed", "stopping"} /\ Halt' = Halt
      BY <1>8, <2>3 DEF Take, Halt, StopOrder
    <3>4. Promise!Arrive(received)
      BY <1>8, <2>3, <3>2, <3>3 DEF Take, Promise!Arrive, Alive
    <3> QED
      BY <1>8, <3>1, <3>4 DEF Promise!Next
  <2>4. CASE sub # "blocked"
    <3>1. Queued' = Queued \ {queue[1]}
      BY <2>1, <2>4
    <3>2. Fate' = Fate
      BY <2>1, <2>2, <3>1, FateStays
    <3> QED
      BY <1>8, <2>4, <3>2 DEF Take, Starting, Alive, Halt
  <2> QED
    BY <2>3, <2>4
<1>9. ASSUME NEW w \in Workers, Execute(w), Alive PROVE S \/ Promise!Next
  <2>1. Running' = Running \ {job[w]} /\ job[w] \in Running /\ job[w] \in Tasks
    <3>1. job[w] \in 1..received
      BY <1>9 DEF Execute, TasksReceived
    <3> QED
      BY <1>9, <3>1, ExecutePlaces DEF Tasks
  <2>2. /\ Queued' = Queued /\ executed' = executed \cup {job[w]}
        /\ dropped' = dropped /\ Started' = Started
    BY <1>9 DEF Execute, Queued, Started
  <2>3. /\ Fate[job[w]] = "running"
        /\ Fate' = [Fate EXCEPT ![job[w]] = "done"]
    BY <2>1, <2>2 DEF Fate, Partition
  <2>4. Promise!End(job[w])
    BY <1>9, <2>3 DEF Execute, Promise!End, Halt, Alive
  <2> QED
    BY <1>9, <2>1, <2>4 DEF Promise!Next
<1>10. ASSUME NEW w \in Workers, Exit(w) PROVE S
  <2>1. Fate' = Fate
    BY <1>10, FateStays DEF Exit, Started, Running, Queued
  <2> QED
    BY <1>10, <2>1 DEF Exit, Starting, Alive, Halt
<1>11. ASSUME Close, Alive PROVE S \/ Promise!Next
  <2>1. Fate' = Fate
    BY <1>11, FateStays DEF Close, Started, Running, Queued
  <2>2. CASE made /\ state = 0
    BY <1>11, <2>1, <2>2 DEF Close, Starting, Alive, Halt
  <2>3. CASE ~(made /\ state = 0)
    <3>1. Promise!Call
      BY <1>11, <2>1, <2>3
         DEF Close, Promise!Call, Halt, Alive, StopOrder, StartOrder
    <3> QED
      BY <1>11, <3>1 DEF Promise!Next
  <2> QED
    BY <2>2, <2>3
<1>12. ASSUME StopSwap1 PROVE S
  <2>1. Fate' = Fate
    BY <1>12, FateStays DEF StopSwap1, StopSwap, Started, Running, Queued
  <2> QED
    BY <1>12, <2>1 DEF StopSwap1, StopSwap, Starting, Alive, Halt, StopOrder
<1>13. ASSUME StopSwap0, Alive PROVE S \/ Promise!Next
  <2>1. Fate' = Fate
    BY <1>13, FateStays DEF StopSwap0, StopSwap, Started, Running, Queued
  <2>2. CASE state = 0
    <3>1. Promise!Call
      BY <1>13, <2>1, <2>2 DEF StopSwap0, StopSwap, Promise!Call, Halt, Alive
    <3> QED
      BY <1>13, <3>1 DEF Promise!Next
  <2>3. CASE state # 0
    BY <1>13, <2>1, <2>3
       DEF StopSwap0, StopSwap, Starting, Alive, Halt, StopOrder
  <2> QED
    BY <2>2, <2>3
<1>14. ASSUME StopCancel, Alive PROVE S \/ Promise!Next
  <2>1. Running' = Running /\ Queued' = Queued /\ Started' = Started
    BY <1>14 DEF StopCancel, Running, Queued, Started
  <2>2. Halt = "stopping" /\ Halt' = "stopping"
    BY <1>14 DEF StopCancel, Halt
  <2>3. CASE sub = "blocked"
    <3>1. InHand = {received} /\ received \in Tasks
      BY <2>3 DEF InHand, TasksReceived, Tasks
    <3>2. Fate[received] = "new" /\ Fate' = [Fate EXCEPT ![received] = "dropped"]
      BY <1>14, <2>1, <2>3, <3>1, FateDropped DEF StopCancel
    <3>3. Promise!Arrive(received)
      BY <1>14, <2>2, <2>3, <3>2 DEF StopCancel, Promise!Arrive, Alive
    <3> QED
      BY <1>14, <3>1, <3>3 DEF Promise!Next
  <2>4. CASE sub # "blocked"
    <3>1. Fate' = Fate
      BY <1>14, <2>1, <2>4, FateStays DEF StopCancel
    <3> QED
      BY <1>14, <2>2, <2>4, <3>1 DEF StopCancel, Starting, Alive
  <2> QED
    BY <2>3, <2>4
<1>15. ASSUME StopClose, Alive PROVE S \/ Promise!Next
  <2>1. Fate' = Fate
    BY <1>15, FateStays DEF StopClose, Started, Running, Queued
  <2>2. Promise!Close
    BY <1>15, <2>1 DEF StopClose, Promise!Close, Halt, Alive
  <2> QED
    BY <1>15, <2>2 DEF Promise!Next
<1>16. ASSUME StopWait, Alive PROVE S \/ Promise!Next
  <2>1. Fate' = Fate
    BY <1>16, FateStays DEF StopWait, Started, Running, Queued
  <2>2. Halt = "closed" /\ Halt' = "over"
    BY <1>16 DEF StopWait, Halt, StopOrder
  <2>3. Started => Queued = {} /\ Running = {}
    <3>1. Drained'
      BY <1>16, DrainStep DEF Next, Stop
    <3> QED
      BY <1>16, <3>1 DEF StopWait, StopOrder, Drained, Started, Queued, Running
  <2>4. ~Started => Running = {}
    BY DEF Started, Running
  <2>5. \A n \in Tasks : Fate[n] # "running"
    BY <2>3, <2>4 DEF Fate
  <2>6. Promise!Return
    BY <1>16, <2>1, <2>2, <2>5 DEF StopWait, Promise!Return, Alive
  <2> QED
    BY <1>16, <2>6 DEF Promise!Next
<1>17. CASE UNCHANGED vars
  <2>1. Fate' = Fate
    BY <1>17, FateStays DEF vars, Started, Running, Queued
  <2> QED
    BY <1>17, <1>a, <2>1 DEF vars, Starting, Alive, Halt
<1> HIDE DEF S
<1> QED
  BY <1>a, <1>b, <1>1, <1>2, <1>3, <1>4, <1>5, <1>6, <1>7, <1>8, <1>9, <1>10,
     <1>11, <1>12, <1>13, <1>14, <1>15, <1>16, <1>17 DEF Subscriber, Start, Push,
     Worker, Stop

\* For any number of workers and messages, the pool keeps what MessagePool says of
\* it to the server: what becomes of a message, and what has happened to the tasks
\* when Stop returns.
THEOREM PoolIsMessagePool == Spec => ImplementsMessagePool
<1>1. Init => Promise!Init
  <2> SUFFICES ASSUME Init PROVE Promise!Init
    OBVIOUS
  <2>1. Queued = {} /\ Running = {}
    BY DEF Init, Queued, Running
  <2>2. Fate = [n \in Tasks |-> "new"]
    BY <2>1 DEF Init, Fate
  <2> QED
    BY <2>2 DEF Init, Promise!Init, Halt, Alive
<1>2. IInv /\ [Next]_vars => [Promise!Next]_(Promise!vars)
  BY PoolStep
<1> QED
  BY <1>1, <1>2, Invariance, PTL DEF Spec, ImplementsMessagePool, Promise!Spec
=============================================================================
