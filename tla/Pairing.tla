------------------------------ MODULE Pairing ------------------------------
(***************************************************************************)
(* What the match service promises, without sockets, hubs or topics: there *)
(* is one chair for a user to wait in.  Whoever finds another user in it   *)
(* takes that user away, and the two are given a room of their own; each   *)
(* of their visits is told of one room, and nobody else is.                *)
(*                                                                         *)
(* A promise may be broken (the service loses a user who was taken from    *)
(* the chair), but no user is ever promised to two others from one wait,   *)
(* to himself, or given a room that somebody else has.                     *)
(***************************************************************************)
CONSTANTS
  Users, Visits,
  UserOf,     \* the user who makes a visit
  Rooms,      \* what a room can be called
  None        \* no user

VARIABLES
  chair,      \* the users who wait: nobody, or one
  promised,   \* the user promised to a visit, or None
  rooms,      \* the rooms given: [name, pair]
  told        \* the rooms a visit has been told of

vars == <<chair, promised, rooms, told>>

Init ==
  /\ chair = {}
  /\ promised = [s \in Visits |-> None]
  /\ rooms = {}
  /\ told = [s \in Visits |-> {}]

SitDown(u) ==
  /\ chair = {}
  /\ chair' = {u}
  /\ UNCHANGED <<promised, rooms, told>>

\* The user leaves, or is forgotten.
StandUp ==
  /\ chair # {}
  /\ chair' = {}
  /\ UNCHANGED <<promised, rooms, told>>

TakeAway(s, u) ==
  /\ chair = {u}
  /\ u # UserOf[s]
  /\ promised[s] = None
  /\ chair' = {}
  /\ promised' = [promised EXCEPT ![s] = u]
  /\ UNCHANGED <<rooms, told>>

\* Several at once when a server stops.
BreakPromises(S) ==
  /\ promised' = [s \in Visits |-> IF s \in S THEN None ELSE promised[s]]
  /\ UNCHANGED <<chair, rooms, told>>

GiveRoom(s, name) ==
  /\ promised[s] # None
  /\ \A room \in rooms : room.name # name
  /\ rooms' = rooms \cup {[name |-> name, pair |-> {UserOf[s], promised[s]}]}
  /\ promised' = [promised EXCEPT ![s] = None]
  /\ UNCHANGED <<chair, told>>

Tell(s, room) ==
  /\ UserOf[s] \in room.pair
  /\ told[s] = {}
  /\ told' = [told EXCEPT ![s] = {room.name}]
  /\ UNCHANGED <<chair, promised, rooms>>

Next ==
  \/ \E u \in Users : SitDown(u)
  \/ StandUp
  \/ \E s \in Visits, u \in Users : TakeAway(s, u)
  \/ \E S \in SUBSET Visits : BreakPromises(S)
  \/ \E s \in Visits, name \in Rooms : GiveRoom(s, name)
  \/ \E s \in Visits : \E room \in rooms : Tell(s, room)

Spec == Init /\ [][Next]_vars
-----------------------------------------------------------------------------
(* What follows from it.                                                    *)

\* Three visits that are told of one room are of two users at most.
NoThirdUser ==
  \A s, t, w \in Visits : \A name \in told[s] \cap told[t] \cap told[w] :
    \/ UserOf[s] = UserOf[t]
    \/ UserOf[t] = UserOf[w]
    \/ UserOf[s] = UserOf[w]
=============================================================================
