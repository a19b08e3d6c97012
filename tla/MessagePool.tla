----------------------------- MODULE MessagePool -----------------------------
(***************************************************************************)
(* What a server relies on its worker pool for: a message that is taken    *)
(* becomes a task that is executed, and a Stop that stopped the pool       *)
(* returns when no task runs any more.  It also says what the pool does    *)
(* not promise: a Stop that comes while the pool is being started may find *)
(* no pool at all, or miss it and leave it running; and when the queue is  *)
(* closed, the next message may end the process.                           *)
(*                                                                         *)
(* WorkerPool implements it.  ServerLife is built on it.                   *)
(***************************************************************************)
CONSTANT Messages

VARIABLES
  ready, \* the subscriber takes messages
  alive, \* the process has not panicked
  halt,  \* how far Stop has got: "no", "stopping", "closed" (the queue), "over",
         \* or "missed": it has returned, or will, without having done anything
  task   \* what became of a message

vars == <<ready, alive, halt, task>>

TypeOK ==
  /\ ready \in BOOLEAN /\ alive \in BOOLEAN
  /\ halt \in {"no", "stopping", "closed", "over", "missed"}
  /\ task \in [Messages -> {"new", "running", "done", "dropped"}]

Init ==
  /\ ready = FALSE /\ alive = TRUE
  /\ halt = "no"
  /\ task = [m \in Messages |-> "new"]

\* Start has returned.
Ready ==
  /\ ~ready
  /\ ready' = TRUE
  /\ UNCHANGED <<alive, halt, task>>

\* Stop is called, and from here on it is certain what it will do.
Call ==
  /\ halt = "no"
  /\ \/ halt' = "stopping" /\ UNCHANGED alive
     \/ ~ready /\ halt' = "missed" /\ UNCHANGED alive
     \/ ~ready /\ alive' = FALSE /\ UNCHANGED halt
  /\ UNCHANGED <<ready, task>>

Close ==
  /\ halt = "stopping"
  /\ halt' = "closed"
  /\ UNCHANGED <<ready, alive, task>>

Return ==
  /\ halt = "closed"
  /\ \A m \in Messages : task[m] # "running"
  /\ halt' = "over"
  /\ UNCHANGED <<ready, alive, task>>

\* A message is taken for good, given up, or met with a panic.
Arrive(m) ==
  /\ ready
  /\ task[m] = "new"
  /\ \/ /\ halt \in {"no", "missed", "stopping"}
        /\ task' = [task EXCEPT ![m] = "running"] /\ UNCHANGED alive
     \/ /\ halt \in {"stopping", "closed", "over"}
        /\ task' = [task EXCEPT ![m] = "dropped"] /\ UNCHANGED alive
     \/ /\ halt \in {"closed", "over"}
        /\ alive' = FALSE /\ UNCHANGED task
  /\ UNCHANGED <<ready, halt>>

End(m) ==
  /\ task[m] = "running"
  /\ task' = [task EXCEPT ![m] = "done"]
  /\ UNCHANGED <<ready, alive, halt>>

Next ==
  /\ alive
  /\ \/ Ready \/ Call \/ Close \/ Return
     \/ \E m \in Messages : Arrive(m) \/ End(m)

Spec == Init /\ [][Next]_vars
=============================================================================
