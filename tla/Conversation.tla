---------------------------- MODULE Conversation ----------------------------
(***************************************************************************)
(* What the chat service promises, without tokens, hubs, topics or keys:   *)
(* only members come in; what is said is written down for good; a page     *)
(* shows nothing but what was written down by somebody who had come in;    *)
(* and a message is ticked for its own user only, after a page of another  *)
(* user has shown and marked it.                                           *)
(*                                                                         *)
(* It says what may happen, not what must: a message may be lost on its    *)
(* way to a page, and a mark on its way to a tick.                         *)
(***************************************************************************)
EXTENDS Sequences

CONSTANTS
  Users, Sessions,
  UserOf    \* the user who opens a session

VARIABLES
  members,  \* who may come in
  inside,   \* sessions that have been let in, whether they are over or not
  log,      \* what was said: a message is named by its session
  shown,    \* the messages that a session's page has shown
  marked,   \* messages that were marked as seen
  ticked    \* the messages that a session's page shows as seen

vars == <<members, inside, log, shown, marked, ticked>>

Said == {log[i] : i \in DOMAIN log}

Init ==
  /\ members = {} /\ inside = {} /\ log = <<>> /\ marked = {}
  /\ shown = [s \in Sessions |-> {}]
  /\ ticked = [s \in Sessions |-> {}]

Admit(u) ==
  /\ members' = members \cup {u}
  /\ UNCHANGED <<inside, log, shown, marked, ticked>>

\* The conversation is dissolved; who is inside may finish.
Dismiss ==
  /\ members' = {}
  /\ UNCHANGED <<inside, log, shown, marked, ticked>>

Enter(s) ==
  /\ UserOf[s] \in members
  /\ inside' = inside \cup {s}
  /\ UNCHANGED <<members, log, shown, marked, ticked>>

\* A message may be written down more than once, with others in between.
Say(s) ==
  /\ s \in inside
  /\ log' = Append(log, s)
  /\ UNCHANGED <<members, inside, shown, marked, ticked>>

Show(s, M) ==
  /\ s \in inside
  /\ M \subseteq Said
  /\ shown' = [shown EXCEPT ![s] = @ \cup M]
  /\ UNCHANGED <<members, inside, log, marked, ticked>>

Mark(s, m) ==
  /\ s \in inside
  /\ m \in shown[s]
  /\ UserOf[m] # UserOf[s]
  /\ marked' = marked \cup {m}
  /\ UNCHANGED <<members, inside, log, shown, ticked>>

Tick(s, m) ==
  /\ s \in inside
  /\ m \in marked
  /\ UserOf[m] = UserOf[s]
  /\ ticked' = [ticked EXCEPT ![s] = @ \cup {m}]
  /\ UNCHANGED <<members, inside, log, shown, marked>>

Next ==
  \/ \E u \in Users : Admit(u)
  \/ Dismiss
  \/ \E s \in Sessions :
       \/ Enter(s) \/ Say(s)
       \/ \E M \in SUBSET Said : Show(s, M)
       \/ \E m \in Sessions : Mark(s, m) \/ Tick(s, m)

Spec == Init /\ [][Next]_vars
-----------------------------------------------------------------------------
(* What follows from it.                                                    *)

\* A tick can be believed: a page of another user has shown the message.
TickedWasShown ==
  \A s \in Sessions : \A m \in ticked[s] :
    \E t \in Sessions : UserOf[t] # UserOf[s] /\ m \in shown[t]
=============================================================================
