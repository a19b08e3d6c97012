--------------------------- MODULE Pairing_proofs ---------------------------
(***************************************************************************)
(* Matching implements Pairing, for any users, visits, servers and bounds. *)
(* The mapping is in Matching: the chair holds the users of the wait list, *)
(* a promise is a popped peer whose channel is still to be made, a room is *)
(* a result and a visit is told what its page has stored.                  *)
(***************************************************************************)
EXTENDS Matching_proofs

USE ConstantsAssumption

\* A page stores one token, and closes its socket as it does.
StoredOnce == \A s \in Visits : conn[s] = "up" => token[s] = {}

\* A page that has stored a token has closed its socket, and stores no other.
LEMMA StoredOnceStep ==
  ASSUME TypeOK, StoredOnce, [Next]_vars
  PROVE  StoredOnce'
<1> USE DEF TypeOK, StoredOnce
<1>1. ASSUME NEW s \in Visits, Receive(s) PROVE StoredOnce'
  BY <1>1 DEF Receive
<1>2. ASSUME NEW s \in Visits, CloseTab(s) \/ Drop(s) PROVE StoredOnce'
  BY <1>2 DEF CloseTab, Drop, Leave
<1>3. ASSUME NEW v \in Servers, Crash(v) PROVE StoredOnce'
  BY <1>3 DEF Crash
<1>4. ASSUME NEW s \in Visits,
             Refuse(s) \/ Connect(s) \/ SetUid(s) \/ PopOrPushWaitList(s) \/
             CreateChannel(s) \/ PublishMatchResult(s) \/ HandleMatchOnClose(s) \/
             ReadDeadline(s) \/ Unregister(s) \/ PopOrPushFails(s) \/
             CreateChannelFails(s) \/ PublishFails(s) \/ RemoveFails(s)
     PROVE  StoredOnce'
  BY <1>4 DEF Refuse, Connect, SetUid, PopOrPushWaitList, CreateChannel,
     PublishMatchResult, HandleMatchOnClose, ReadDeadline, Unregister,
     PopOrPushFails, CreateChannelFails, PublishFails, RemoveFails
<1>5. ASSUME NEW v \in Servers,
             Subscribe(v) \/ BroadcastFilter(v) \/ VisitSession(v) \/
             LoseMessage(v) \/ VisitSessionFails(v)
     PROVE  StoredOnce'
  BY <1>5 DEF Subscribe, BroadcastFilter, VisitSession, LoseMessage,
     VisitSessionFails
<1>6. CASE UNCHANGED vars
  BY <1>6 DEF vars
<1> QED
  BY <1>1, <1>2, <1>3, <1>4, <1>5, <1>6
   DEF Next, VisitStep, ServerStep, FaultStep
-----------------------------------------------------------------------------
(* What Pairing sees of a state, and of a step that concerns it.            *)

Chair == {UserOf[s] : s \in waitList}
PromisedUser == [s \in Visits |->
                   IF pc[s] = "creating" THEN UserOf[peer[s]] ELSE None]
RoomsGiven == {[name |-> r.chan, pair |-> Pair(r)] : r \in results}
Told == [s \in Visits |-> {r.chan : r \in token[s]}]

\* A step that leaves the list, the results and the tokens alone, and starts no
\* promise, breaks those of the visits that are no longer creating.
LEMMA StepThatBreaks ==
  ASSUME TypeOK,
         UNCHANGED <<waitList, peer, results, token>>,
         \A s \in Visits : pc'[s] = "creating" => pc[s] = "creating"
  PROVE  [Promise!Next]_(Promise!vars)
<1>0. PICK S \in SUBSET Visits :
        S = {s \in Visits : pc[s] = "creating" /\ pc'[s] # "creating"}
  OBVIOUS
<1>1. PromisedUser' =
        [s \in Visits |-> IF s \in S THEN None ELSE PromisedUser[s]]
  BY <1>0 DEF PromisedUser
<1>2. Chair' = Chair /\ RoomsGiven' = RoomsGiven /\ Told' = Told
  BY DEF Chair, RoomsGiven, Told
<1>3. Promise!BreakPromises(S)
  BY <1>1, <1>2 DEF Promise!BreakPromises, PromisedUser, Chair, RoomsGiven, Told
<1> QED
  BY <1>3 DEF Promise!Next

\* The script, run for s: the list is left alone, or s sits down, or the one who
\* sat there has been popped.
LEMMA ScriptOutcomes ==
  ASSUME TypeOK, OneWaiter,
         NEW s \in Visits, NEW popped \in Visits \cup {None},
         ZPopMinOrAddOne(s, popped)
  PROVE  \/ popped = None /\ Chair' = Chair
         \/ popped = None /\ Chair = {} /\ Chair' = {UserOf[s]}
         \/ /\ popped \in Visits
            /\ Chair = {UserOf[popped]} /\ UserOf[popped] # UserOf[s]
            /\ Chair' = {}
<1>1. CASE Listed(UserOf[s])
  BY <1>1 DEF ZPopMinOrAddOne, Listed, Chair
<1>2. CASE ~Listed(UserOf[s]) /\ popped \in waitList
  <2>1. waitList = {popped} /\ waitList' = {}
    BY <1>2 DEF ZPopMinOrAddOne, OneWaiter, TypeOK
  <2>2. UserOf[popped] # UserOf[s]
    BY <1>2 DEF Listed
  <2> QED
    BY <2>1, <2>2, <1>2 DEF Chair, TypeOK
<1>3. CASE ~Listed(UserOf[s]) /\ popped \notin waitList
  <2>1. waitList = {} /\ popped = None /\ waitList' = {s}
    BY <1>3 DEF ZPopMinOrAddOne
  <2> QED
    BY <2>1 DEF Chair
<1> QED
  BY <1>1, <1>2, <1>3
-----------------------------------------------------------------------------
(* The steps that Pairing sees.                                             *)

\* The script takes somebody away, or somebody sits down, or it is nothing.
LEMMA PopOrPushMaps ==
  ASSUME IInv, NEW s \in Visits, PopOrPushWaitList(s)
  PROVE  [Promise!Next]_(Promise!vars)
<1> USE DEF IInv
<1>1. PICK popped \in Visits \cup {None} :
        /\ ZPopMinOrAddOne(s, popped)
        /\ pc' = [pc EXCEPT ![s] = IF popped = None THEN "open" ELSE "creating"]
        /\ peer' = [peer EXCEPT ![s] = popped]
  BY DEF PopOrPushWaitList
<1>2. pc[s] = "keyed" /\ UNCHANGED <<results, token>>
  BY DEF PopOrPushWaitList
<1>3. RoomsGiven' = RoomsGiven /\ Told' = Told
  BY <1>2 DEF RoomsGiven, Told
<1>4. CASE popped = None
  <2>1. PromisedUser' = PromisedUser
    BY <1>1, <1>2, <1>4 DEF PromisedUser, TypeOK
  <2>2. Chair' = Chair \/ (Chair = {} /\ Chair' = {UserOf[s]})
    BY <1>1, <1>4, ScriptOutcomes
  <2>3. CASE Chair' = Chair
    BY <2>1, <2>3, <1>3 DEF Promise!vars, Chair, PromisedUser, RoomsGiven, Told
  <2>4. CASE Chair = {} /\ Chair' = {UserOf[s]}
    <3>1. Promise!SitDown(UserOf[s])
      BY <2>1, <2>4, <1>3 DEF Promise!SitDown, Chair, PromisedUser, RoomsGiven, Told
    <3> QED
      BY <3>1 DEF Promise!Next
  <2> QED
    BY <2>2, <2>3, <2>4
<1>5. CASE popped # None
  <2>1. /\ popped \in Visits
        /\ Chair = {UserOf[popped]} /\ UserOf[popped] # UserOf[s]
        /\ Chair' = {}
    BY <1>1, <1>5, ScriptOutcomes
  <2>2. PromisedUser[s] = None
    BY <1>2 DEF PromisedUser
  <2>3. PromisedUser' = [PromisedUser EXCEPT ![s] = UserOf[popped]]
    BY <1>1, <1>5, <2>1 DEF PromisedUser, TypeOK
  <2>4. Promise!TakeAway(s, UserOf[popped])
    BY <2>1, <2>2, <2>3, <1>3
     DEF Promise!TakeAway, Chair, PromisedUser, RoomsGiven, Told
  <2> QED
    BY <2>1, <2>4 DEF Promise!Next
<1> QED
  BY <1>4, <1>5

\* A promise becomes a room, whose name is new.
LEMMA CreateChannelMaps ==
  ASSUME IInv, NEW s \in Visits, CreateChannel(s)
  PROVE  [Promise!Next]_(Promise!vars)
<1> USE DEF IInv
<1>0. lastID + 1 \in 1..MaxIDs
  BY DEF CreateChannel, TypeOK
<1>a. PICK name \in 1..MaxIDs : name = lastID + 1
  BY <1>0
<1> DEFINE r == [user |-> s, peer |-> peer[s], chan |-> name]
<1>1. /\ pc[s] = "creating" /\ lastID < MaxIDs /\ peer[s] \in Visits
      /\ results' = results \cup {r}
      /\ pc' = [pc EXCEPT ![s] = "publishing"]
      /\ UNCHANGED <<waitList, peer, token>>
  BY <1>a DEF CreateChannel, TypeOK
<1>2. Chair' = Chair /\ Told' = Told
  BY <1>1 DEF Chair, Told
<1>3. PromisedUser[s] = UserOf[peer[s]] /\ PromisedUser[s] # None
  BY <1>1 DEF PromisedUser
<1>4. PromisedUser' = [PromisedUser EXCEPT ![s] = None]
  BY <1>1 DEF PromisedUser, TypeOK
<1>5. \A room \in RoomsGiven : room.name # name
  <2>1. \A q \in results : q.chan \in 1..MaxIDs /\ q.chan <= lastID
    BY DEF TypeOK, MatchResult, DrawnAndFiltered
  <2> QED
    BY <2>1, <1>a DEF RoomsGiven, TypeOK
<1>6. Pair(r) = {UserOf[s], PromisedUser[s]}
  BY <1>3 DEF Pair
<1>7. RoomsGiven' =
        RoomsGiven \cup {[name |-> name, pair |-> {UserOf[s], PromisedUser[s]}]}
  <2>1. RoomsGiven' = {[name |-> q.chan, pair |-> Pair(q)] : q \in results \cup {r}}
    BY <1>1 DEF RoomsGiven, Pair
  <2>2. r.chan = name
    OBVIOUS
  <2> HIDE DEF r
  <2> QED
    BY <2>1, <2>2, <1>6 DEF RoomsGiven
<1>8. Promise!GiveRoom(s, name)
  BY <1>2, <1>3, <1>4, <1>5, <1>7
   DEF Promise!GiveRoom, Chair, PromisedUser, RoomsGiven, Told
<1> QED
  BY <1>8 DEF Promise!Next

\* A page is told of a room of its user.
LEMMA ReceiveMaps ==
  ASSUME IInv, StoredOnce, NEW s \in Visits, Receive(s)
  PROVE  [Promise!Next]_(Promise!vars)
<1> USE DEF IInv
<1>1. PICK r \in outbox[s] : token' = [token EXCEPT ![s] = {r}]
  BY DEF Receive
<1>2. conn[s] = "up" /\ UNCHANGED <<waitList, pc, peer, results>>
  BY DEF Receive
<1>3. r \in results
  BY DEF TypeOK
<1>4. Chair' = Chair /\ PromisedUser' = PromisedUser /\ RoomsGiven' = RoomsGiven
  BY <1>2 DEF Chair, PromisedUser, RoomsGiven
<1>5. Told[s] = {} /\ Told' = [Told EXCEPT ![s] = {r.chan}]
  <2>1. token[s] = {}
    BY <1>2 DEF StoredOnce
  <2>2. token'[s] = {r} /\ \A x \in Visits \ {s} : token'[x] = token[x]
    BY <1>1 DEF TypeOK
  <2>3. Told' = [x \in Visits |-> IF x = s THEN {r.chan} ELSE Told[x]]
    BY <2>2 DEF Told
  <2> QED
    BY <2>1, <2>3 DEF Told
<1> DEFINE room == [name |-> r.chan, pair |-> Pair(r)]
<1>6. room \in RoomsGiven
  BY <1>3 DEF RoomsGiven
<1>7. UserOf[s] \in Pair(r)
  BY <1>1 DEF ChannelIsForOnePair
<1>8. Promise!Tell(s, room)
  BY <1>4, <1>5, <1>7 DEF Promise!Tell, Chair, PromisedUser, RoomsGiven, Told
<1>9. \E x \in RoomsGiven : Promise!Tell(s, x)
  BY <1>6, <1>8
<1> QED
  BY <1>9 DEF Promise!Next, RoomsGiven

\* The list shrinks, or a lost reply has put somebody on it.
LEMMA ListMaps ==
  ASSUME IInv, UNCHANGED <<results, token>>, PromisedUser' = PromisedUser,
         \/ waitList' \subseteq waitList
         \/ waitList = {} /\ \E s \in Visits : waitList' = {s}
  PROVE  [Promise!Next]_(Promise!vars)
<1> USE DEF IInv
<1>1. RoomsGiven' = RoomsGiven /\ Told' = Told
  BY DEF RoomsGiven, Told
<1>2. CASE waitList' = waitList
  BY <1>1, <1>2 DEF Promise!vars, Chair, PromisedUser, RoomsGiven, Told
<1>3. CASE waitList' \subseteq waitList /\ waitList' # waitList
  <2>1. waitList' = {} /\ waitList # {}
    BY <1>3 DEF OneWaiter
  <2>2. Chair' = {} /\ Chair # {}
    BY <2>1 DEF Chair
  <2>3. Promise!StandUp
    BY <2>2, <1>1 DEF Promise!StandUp, Chair, PromisedUser, RoomsGiven, Told
  <2> QED
    BY <2>3 DEF Promise!Next
<1>4. CASE waitList = {} /\ \E s \in Visits : waitList' = {s}
  <2>1. PICK s \in Visits : waitList' = {s}
    BY <1>4
  <2>2. Chair = {} /\ Chair' = {UserOf[s]}
    BY <1>4, <2>1 DEF Chair
  <2>3. Promise!SitDown(UserOf[s])
    BY <2>2, <1>1 DEF Promise!SitDown, Chair, PromisedUser, RoomsGiven, Told
  <2> QED
    BY <2>3 DEF Promise!Next
<1> QED
  BY <1>2, <1>3, <1>4

\* Steps that may change who is on the chair, and nothing else.
LEMMA ListStepsMap ==
  ASSUME IInv, NEW s \in Visits,
         HandleMatchOnClose(s) \/ PopOrPushFails(s) \/ RemoveFails(s)
  PROVE  [Promise!Next]_(Promise!vars)
<1> USE DEF IInv
<1>1. UNCHANGED <<results, token, peer>>
  BY DEF HandleMatchOnClose, PopOrPushFails, RemoveFails
<1>2. PromisedUser' = PromisedUser
  <2>1. \A x \in Visits : pc'[x] = "creating" <=> pc[x] = "creating"
    BY DEF HandleMatchOnClose, PopOrPushFails, RemoveFails, TypeOK
  <2> QED
    BY <2>1, <1>1 DEF PromisedUser
<1>3. \/ waitList' \subseteq waitList
      \/ waitList = {} /\ \E x \in Visits : waitList' = {x}
  BY DEF HandleMatchOnClose, PopOrPushFails, RemoveFails, RemoveFromWaitList,
     ZPopMinOrAddOne
<1> QED
  BY <1>1, <1>2, <1>3, ListMaps

\* All other steps break promises, or are nothing.
LEMMA OtherStepsMap ==
  ASSUME IInv,
         \/ \E s \in Visits :
              \/ Refuse(s) \/ Connect(s) \/ SetUid(s) \/ PublishMatchResult(s)
              \/ ReadDeadline(s) \/ Unregister(s) \/ CloseTab(s) \/ Drop(s)
              \/ CreateChannelFails(s) \/ PublishFails(s)
         \/ \E v \in Servers :
              \/ Subscribe(v) \/ BroadcastFilter(v) \/ VisitSession(v)
              \/ LoseMessage(v) \/ VisitSessionFails(v) \/ Crash(v)
         \/ UNCHANGED vars
  PROVE  [Promise!Next]_(Promise!vars)
<1>1. UNCHANGED <<waitList, peer, results, token>>
  BY DEF Refuse, Connect, SetUid, PublishMatchResult, ReadDeadline, Unregister,
     CloseTab, Drop, Leave, CreateChannelFails, PublishFails, Subscribe,
     BroadcastFilter, VisitSession, LoseMessage, VisitSessionFails, Crash, vars
<1>2. \A s \in Visits : pc'[s] = "creating" => pc[s] = "creating"
  BY DEF IInv, TypeOK, Refuse, Connect, SetUid, PublishMatchResult, ReadDeadline,
     Unregister, CloseTab, Drop, Leave, CreateChannelFails, PublishFails,
     Subscribe, BroadcastFilter, VisitSession, LoseMessage, VisitSessionFails,
     Crash, vars
<1> QED
  BY <1>1, <1>2, StepThatBreaks DEF IInv
-----------------------------------------------------------------------------
\* Matching implements Pairing: its initial states are initial states of Pairing
\* and each of its steps, the failures among them, is a step of Pairing or none.
THEOREM Refinement == Spec => ImplementsPairing
<1>1. Init => Promise!Init
  BY DEF Init, Promise!Init
<1>2. Init => StoredOnce
  BY DEF Init, StoredOnce
<1>3. TypeOK /\ StoredOnce /\ [Next]_vars => StoredOnce'
  BY StoredOnceStep
<1>4. IInv /\ StoredOnce /\ [Next]_vars => [Promise!Next]_(Promise!vars)
  BY PopOrPushMaps, CreateChannelMaps, ReceiveMaps, ListStepsMap, OtherStepsMap
   DEF Next, VisitStep, ServerStep, FaultStep
<1>5. IInv => TypeOK
  BY DEF IInv
<1>6. Spec => []StoredOnce
  BY <1>2, <1>3, <1>5, Invariance, PTL DEF Spec
<1> QED
  BY <1>1, <1>4, <1>6, Invariance, PTL DEF Spec, ImplementsPairing, Promise!Spec
-----------------------------------------------------------------------------
(* What the match service owes to being a pairing.                          *)

\* A name is of one room, a room is for two, and only they are told of it.
RoomOK ==
  /\ Told \in [Visits -> SUBSET {room.name : room \in RoomsGiven}]
  /\ \A room \in RoomsGiven : \E u, v : room.pair = {u, v}
  /\ \A a, b \in RoomsGiven : a.name = b.name => a = b
  /\ \A room \in RoomsGiven : \A s \in Visits :
       room.name \in Told[s] => UserOf[s] \in room.pair

\* Every step of Pairing keeps RoomOK.
LEMMA RoomOKStep ==
  ASSUME RoomOK, [Promise!Next]_(Promise!vars)
  PROVE  RoomOK'
<1> USE DEF RoomOK
<1>1. ASSUME RoomsGiven' = RoomsGiven, Told' = Told PROVE RoomOK'
  BY <1>1
<1>2. ASSUME NEW s \in Visits, NEW name, Promise!GiveRoom(s, name) PROVE RoomOK'
  <2>1. PICK u : u = PromisedUser[s]
    OBVIOUS
  <2> DEFINE r == [name |-> name, pair |-> {UserOf[s], u}]
  <2>2. RoomsGiven' = RoomsGiven \cup {r} /\ Told' = Told
    BY <1>2, <2>1 DEF Promise!GiveRoom, RoomsGiven, Told, PromisedUser
  <2>3. \A room \in RoomsGiven : room.name # name
    BY <1>2 DEF Promise!GiveRoom, RoomsGiven
  <2>4. r.name = name /\ r.pair = {UserOf[s], u}
    OBVIOUS
  <2>5. \A x \in Visits : name \notin Told[x]
    BY <2>3
  <2> HIDE DEF r
  <2>6. (Told \in [Visits -> SUBSET {room.name : room \in RoomsGiven}])'
    BY <2>2
  <2>7. (\A room \in RoomsGiven : \E a, b : room.pair = {a, b})'
    BY <2>2, <2>4
  <2>8. (\A a, b \in RoomsGiven : a.name = b.name => a = b)'
    BY <2>2, <2>3, <2>4
  <2>9. (\A room \in RoomsGiven : \A x \in Visits :
           room.name \in Told[x] => UserOf[x] \in room.pair)'
    BY <2>2, <2>4, <2>5
  <2> QED
    BY <2>6, <2>7, <2>8, <2>9
<1>3. ASSUME NEW s \in Visits, NEW room \in RoomsGiven, Promise!Tell(s, room)
      PROVE  RoomOK'
  <2>1. /\ UserOf[s] \in room.pair
        /\ RoomsGiven' = RoomsGiven
        /\ Told' = [Told EXCEPT ![s] = {room.name}]
    BY <1>3 DEF Promise!Tell, RoomsGiven, Told
  <2> QED
    BY <2>1
<1>4. CASE \/ Promise!StandUp
           \/ \E u \in Users : Promise!SitDown(u)
           \/ \E s \in Visits, u \in Users : Promise!TakeAway(s, u)
           \/ \E S \in SUBSET Visits : Promise!BreakPromises(S)
           \/ UNCHANGED Promise!vars
  BY <1>1, <1>4 DEF Promise!StandUp, Promise!SitDown, Promise!TakeAway,
     Promise!BreakPromises, Promise!vars, RoomsGiven, Told
<1> QED
  BY <1>2, <1>3, <1>4 DEF Promise!Next, RoomsGiven

\* However visits, servers and the peers they popped overtake each other or fail: the
\* pages that hold a token for one channel are of two users at most.
THEOREM NobodyElseIsTold == Spec => []Promise!NoThirdUser
<1>1. Promise!Init => RoomOK
  BY DEF Promise!Init, RoomOK, RoomsGiven, Told
<1>2. RoomOK => Promise!NoThirdUser
  <2> SUFFICES ASSUME RoomOK,
                      NEW s \in Visits, NEW t \in Visits, NEW w \in Visits,
                      NEW name \in Told[s] \cap Told[t] \cap Told[w]
               PROVE  \/ UserOf[s] = UserOf[t]
                      \/ UserOf[t] = UserOf[w]
                      \/ UserOf[s] = UserOf[w]
    BY DEF Promise!NoThirdUser, Told
  <2>1. PICK room \in RoomsGiven : room.name = name
    BY DEF RoomOK
  <2> QED
    BY <2>1 DEF RoomOK
<1>3. Promise!Spec => []Promise!NoThirdUser
  BY <1>1, <1>2, RoomOKStep, PTL DEF Promise!Spec
<1> QED
  BY <1>3, Refinement, PTL DEF ImplementsPairing
=============================================================================
