-------------------------- MODULE ChatRoom_proofs --------------------------
(***************************************************************************)
(* Proofs of ChatRoom's safety properties, for any users and sessions,     *)
(* however many of them send, read, leave, delete or expire, and whatever  *)
(* fails.  The properties are strengthened to RoomInv, which is inductive: *)
(* for each of its conjuncts there is a lemma that every step keeps it.    *)
(***************************************************************************)
EXTENDS ChatRoom, FiniteSetTheorems, SequenceTheorems, TLAPS

\* Texts are from senders, and so is what is marked and told.
SentOK ==
  /\ \A s \in Sessions :
       /\ pc[s] \in {"inserting", "flagging", "publishing"} => s \in Senders
       /\ pc[s] = "telling" => subject[s] \in Senders
  /\ \A s \in Sessions : \A m \in pending[s] :
       m.kind \in {"text", "seen"} => m.of \in Senders

\* A session has no key before it is on the list, and the channel's when it counts,
\* says or has said what it found.
KeyOK ==
  \A s \in Sessions :
    /\ pc[s] \in {"out", "refused", "upgrading", "registered", "added"}
         => cid[s] = "unset"
    /\ pc[s] \in {"counting", "counted", "announcing"} => cid[s] = "room"
    /\ pc[s] = "announcing" => says[s] # "nothing"
    /\ says[s] # "nothing" => cid[s] = "room"
    /\ fetched[s].attached => cid[s] = "room"

\* There are members, and so sessions, only in a channel that was created.
ChanOK ==
  /\ chan = "new" => members = {} /\ \A s \in Sessions : pc[s] \in {"out", "refused"}
  /\ chan = "deleted" => DeletionBegun

Ended(u) == \E x \in Sessions : UserOf[x] = u /\ (TakenOff(x) \/ pc[x] = "lost")

\* Who is added stays on the list until a session of his user ends.
OnlineOK ==
  \A s \in Sessions :
    pc[s] = "added" \/ (Attached(s) /\ ~TakenOff(s)) =>
      UserOf[s] \in online \/ DeletionBegun \/ Ended(UserOf[s])

FiniteOnline == IsFiniteSet(online)

PresenceOK ==
  FiniteOnline /\ OnlineOK /\ NoGhostOnline /\ NotBothWaiting

InHistory(m) == \E i \in 1..Len(history) : history[i] = m

\* A message is published once, and after it was stored.
StoredOK ==
  /\ \A m \in published : InHistory(m)
  /\ \A s \in Sessions :
       /\ pc[s] \in {"flagging", "publishing"} => InHistory(s)
       /\ pc[s] \in {"inserting", "flagging", "publishing"} => s \notin published
       /\ fetched[s].len <= Len(history)

\* What was marked is seen, or was marked before it was published.
Marked(m) == m \in seen \/ m \in early

MarkedOK ==
  /\ \A m \in seen : m \in published \/ m \in early
  /\ \A s \in Sessions :
       /\ pc[s] = "telling" => Marked(subject[s])
       /\ \A m \in ticks[s] : Marked(m)
       /\ \A m \in pending[s] : m.kind = "seen" => Marked(m.of)

\* A published text is on its way to an attached page, was there, or is in the
\* history that the page fetched.
DeliveredOK ==
  \A s \in Sessions : \A m \in published :
    /\ Attached(s) /\ conn[s] = "up" /\ s \notin struck
    /\ fetched[s].attached
    => \/ [kind |-> "text", of |-> m] \in pending[s]
       \/ m \in live[s]
       \/ \E i \in 1..fetched[s].len : history[i] = m

\* Who will announce a change of the list.
Announcing(t) == pc[t] \in {"added", "counting", "counted", "announcing", "leaving"}

\* An attached page that has not been told of a change is about to be.
AnnouncedOK ==
  \A s \in Sessions :
    /\ Attached(s) /\ conn[s] = "up"
    /\ ~DeletionBegun /\ s \notin struck /\ s \in stale
    => \/ \E m \in pending[s] : m.kind \in Notices
       \/ \E t \in Sessions : Announcing(t)

RoomInv ==
  /\ TypeOK /\ SentOK /\ KeyOK /\ ChanOK /\ PresenceOK
  /\ StoredOK /\ MarkedOK /\ DeliveredOK /\ AnnouncedOK

-----------------------------------------------------------------------------
\* A message that is published comes to every session that it concerns.
LEMMA PublishAdds ==
  ASSUME RoomInv, NEW m \in Message, Publish(m)
  PROVE  /\ pending' \in [Sessions -> SUBSET Message]
         /\ \A x \in Sessions : pending[x] \subseteq pending'[x]
         /\ \A x \in Sessions : pending'[x] \subseteq pending[x] \cup {m}
         /\ \A x \in Sessions : pc[x] \notin Gone /\ Concerns(m, x) => m \in pending'[x]
BY DEF RoomInv, TypeOK, Publish

\* The messages that travel, by their kind, are of the set that TypeOK names.
LEMMA Messages ==
  /\ \A s \in Sessions : [kind |-> "text", of |-> s] \in Message
  /\ \A s \in Sessions : [kind |-> "seen", of |-> s] \in Message
  /\ \A s \in Sessions : [kind |-> "offline", of |-> s] \in Message
  /\ \A s \in Sessions : \A k \in {"waiting", "joined"} :
       [kind |-> k, of |-> s] \in Message
  /\ \A u \in Users : [kind |-> "leaved", of |-> u] \in Message
BY DEF Message

\* What a connect handler publishes comes to every session that is not gone.
LEMMA ConnectAdds ==
  ASSUME RoomInv, NEW s \in Sessions, BroadcastConnectMessage(s)
  PROVE  /\ pending' \in [Sessions -> SUBSET Message]
         /\ \A x \in Sessions : pending[x] \subseteq pending'[x]
         /\ \A x \in Sessions : \A m \in pending'[x] :
              m \in pending[x] \/ m.kind \in {"waiting", "joined"}
         /\ \/ struck' = Sessions
            \/ \A x \in Sessions :
                 pc[x] \notin Gone => \E m \in pending'[x] : m.kind \in Notices
<1>1. says[s] \in {"waiting", "joined"}
  BY DEF RoomInv, TypeOK, KeyOK, BroadcastConnectMessage
<1>2. CASE PublishFails
  BY <1>2 DEF PublishFails, RoomInv, TypeOK
<1>3. CASE Publish([kind |-> says[s], of |-> s])
  <2> DEFINE n == [kind |-> says[s], of |-> s]
  <2>1. n \in Message /\ n.kind \in {"waiting", "joined"} /\ n.kind \in Notices
    BY <1>1, Messages DEF Notices
  <2>2. \A x \in Sessions : Concerns(n, x)
    BY <2>1 DEF Concerns
  <2> HIDE DEF n
  <2>3. Publish(n)
    BY <1>3 DEF n
  <2> QED
    BY <2>1, <2>2, <2>3, PublishAdds
<1> QED
  BY <1>2, <1>3 DEF BroadcastConnectMessage

\* What a close handler publishes comes to every session that is not gone.
LEMMA OfflineAdds ==
  ASSUME RoomInv, NEW s \in Sessions, BroadcastOffline(s)
  PROVE  LET m == [kind |-> "offline", of |-> s] IN
         /\ m \in Message
         /\ pending' \in [Sessions -> SUBSET Message]
         /\ pending'[s] = {}
         /\ \A x \in Sessions : pending'[x] \subseteq pending[x] \cup {m}
         /\ \/ struck' = Sessions
            \/ \A x \in Sessions \ {s} :
                 pc[x] \notin Gone => pending'[x] = pending[x] \cup {m}
<1>1. [kind |-> "offline", of |-> s] \in Message
  BY Messages
<1>2. pending \in [Sessions -> SUBSET Message]
  BY DEF RoomInv, TypeOK
<1>3. CASE struck' = Sessions /\ pending' = [pending EXCEPT ![s] = {}]
  BY <1>1, <1>2, <1>3
<1>4. CASE pending' = [x \in Sessions |->
                        IF x = s \/ pc[x] \in Gone THEN {}
                        ELSE pending[x] \cup {[kind |-> "offline", of |-> s]}]
  BY <1>1, <1>2, <1>4
<1> QED
  BY <1>3, <1>4 DEF BroadcastOffline

\* Where the handlers with two outcomes go.
Moves(s, from, to) ==
  /\ pc[s] = from /\ pc'[s] \in to
  /\ \A x \in Sessions \ {s} : pc'[x] = pc[x]

\* Such a handler moves its own session, and no other.
LEMMA TwoOutcomes ==
  ASSUME RoomInv, NEW s \in Sessions
  PROVE  /\ StartChat(s) => Moves(s, "out", {"upgrading", "refused"})
         /\ Upgrade(s) => Moves(s, "upgrading", {"registered"})
         /\ AddOnlineUser(s) => Moves(s, "registered", {"added", "open"})
         /\ FindChannel(s) => Moves(s, "counting", {"counted", "open"})
         /\ BroadcastConnectMessage(s) => Moves(s, "announcing", {"open"})
         /\ InsertRPush(s) => Moves(s, "inserting", {"inserting", "flagging", "open"})
         /\ InsertHSet(s) => Moves(s, "flagging", {"publishing", "inserting", "open"})
         /\ PublishText(s) => Moves(s, "publishing", {"open"})
         /\ TellSeen(s) => Moves(s, "telling", {"open"})
         /\ DeleteOnlineUser(s) => Moves(s, "open", {"leaving", "lost"})
         /\ BroadcastOffline(s) => Moves(s, "leaving", {"closed"})
<1> USE DEF RoomInv, TypeOK, Moves, Goto
<1>1. StartChat(s) => Moves(s, "out", {"upgrading", "refused"})
  BY DEF StartChat
<1>2. AddOnlineUser(s) => Moves(s, "registered", {"added", "open"})
  BY DEF AddOnlineUser
<1>3. FindChannel(s) => Moves(s, "counting", {"counted", "open"})
  BY DEF FindChannel
<1>4. BroadcastConnectMessage(s) => Moves(s, "announcing", {"open"})
  BY DEF BroadcastConnectMessage
<1>5. InsertRPush(s) => Moves(s, "inserting", {"inserting", "flagging", "open"})
  BY DEF InsertRPush
<1>6. InsertHSet(s) => Moves(s, "flagging", {"publishing", "inserting", "open"})
  BY DEF InsertHSet
<1>7. PublishText(s) => Moves(s, "publishing", {"open"})
  BY DEF PublishText
<1>8. TellSeen(s) => Moves(s, "telling", {"open"})
  BY DEF TellSeen
<1>9. DeleteOnlineUser(s) => Moves(s, "open", {"leaving", "lost"})
  BY DEF DeleteOnlineUser, Leave
<1>10. BroadcastOffline(s) => Moves(s, "leaving", {"closed"})
  BY DEF BroadcastOffline
<1>11. Upgrade(s) => Moves(s, "upgrading", {"registered"})
  BY DEF Upgrade
<1> QED
  BY <1>1, <1>2, <1>3, <1>4, <1>5, <1>6, <1>7, <1>8, <1>9, <1>10, <1>11

\* The history only grows, and holds the message before it is flagged.
LEMMA HistoryGrows ==
  ASSUME RoomInv, NEW s \in Sessions, InsertRPush(s)
  PROVE  /\ Len(history) \in Nat /\ Len(history') \in Nat
         /\ Len(history) <= Len(history')
         /\ \A i \in 1..Len(history) : history'[i] = history[i]
         /\ pc'[s] = "flagging" => InHistory(s)'
         /\ history' \in Seq(Senders)
<1>1. history \in Seq(Senders) /\ s \in Senders
  BY DEF RoomInv, TypeOK, SentOK, InsertRPush
<1>2. CASE history' = Append(history, s)
  <2>1. Len(history') = Len(history) + 1 /\ history'[Len(history) + 1] = s
    BY <1>1, <1>2
  <2> QED
    BY <1>1, <1>2, <2>1 DEF InHistory
<1>3. CASE history' = history /\ pc'[s] # "flagging"
  BY <1>1, <1>3
<1>4. pc'[s] = "flagging" => history' = Append(history, s)
  BY DEF InsertRPush, Goto, RoomInv, TypeOK
<1> QED
  BY <1>2, <1>3, <1>4 DEF InsertRPush

\* Who counts one user online counts his own.
LEMMA CountsHimself ==
  ASSUME RoomInv, NEW s \in Sessions, CountOnline(s), says'[s] = "waiting"
  PROVE  online = {UserOf[s]} \/ DeletionBegun \/ Ended(UserOf[s])
<1>1. Attached(s) /\ ~TakenOff(s)
  BY DEF CountOnline, RoomInv, KeyOK, Attached, InHub, Gone, TakenOff
<1>2. Cardinality(online) = 1 /\ IsFiniteSet(online)
  BY DEF CountOnline, RoomInv, TypeOK, PresenceOK, FiniteOnline
<1>3. PICK u : online = {u}
  BY <1>2, FS_Singleton
<1> QED
  BY <1>1, <1>3 DEF RoomInv, PresenceOK, OnlineOK

\* Whoever said that he waits is on the list still, unless one of his sessions ended.
LEMMA WhoWaitsIsOnline ==
  ASSUME RoomInv, NEW t \in Sessions, says[t] = "waiting"
  PROVE  UserOf[t] \in online \/ DeletionBegun \/ Ended(UserOf[t])
<1>1. cid[t] = "room"
  BY DEF RoomInv, KeyOK
<1>2. pc[t] \notin {"out", "refused", "upgrading", "registered", "added"}
  BY <1>1 DEF RoomInv, KeyOK
<1>3. CASE TakenOff(t) \/ pc[t] = "lost"
  BY <1>3 DEF Ended
<1>4. CASE ~TakenOff(t) /\ pc[t] # "lost"
  BY <1>1, <1>2, <1>4 DEF Attached, InHub, Gone, TakenOff, RoomInv, PresenceOK, OnlineOK
<1> QED
  BY <1>3, <1>4

\* A step that takes nothing away from what an attached page has or will have.
LEMMA DeliveredStays ==
  ASSUME RoomInv, UNCHANGED <<conn, fetched, live, published>>,
         \A x \in Sessions : Attached(x)' => Attached(x),
         struck \subseteq struck',
         \A x \in Sessions :
           Attached(x)' /\ x \notin struck' => pending[x] \subseteq pending'[x],
         \A i \in 1..Len(history) : history'[i] = history[i]
  PROVE  DeliveredOK'
<1>1. \A x \in Sessions : fetched[x].len \in Int /\ fetched[x].len <= Len(history)
  BY DEF RoomInv, TypeOK, StoredOK
<1>2. Len(history) \in Nat
  BY DEF RoomInv, TypeOK
<1>3. \A x \in Sessions : \A i \in 1..fetched[x].len : i \in 1..Len(history)
  BY <1>1, <1>2
<1> QED
  BY <1>3 DEF RoomInv, DeliveredOK

\* A step of nobody who will announce, that takes no notice away.
LEMMA AnnouncedStays ==
  ASSUME RoomInv, UNCHANGED <<conn, stale, deletion>>,
         \A x \in Sessions : Attached(x)' => Attached(x),
         \A x \in Sessions : Announcing(x) => Announcing(x)',
         struck \subseteq struck',
         \A x \in Sessions :
           Attached(x)' /\ x \notin struck' => pending[x] \subseteq pending'[x]
  PROVE  AnnouncedOK'
BY DEF RoomInv, AnnouncedOK, DeletionBegun

\* A request to chat only takes messages away, from a session that is refused.
LEMMA StartChatShrinks ==
  ASSUME RoomInv, NEW s \in Sessions, StartChat(s)
  PROVE  /\ \A x \in Sessions : pending'[x] \subseteq pending[x]
         /\ \A x \in Sessions \ {s} : pending'[x] = pending[x]
<1>1. pending \in [Sessions -> SUBSET Message]
  BY DEF RoomInv, TypeOK
<1>2. pending' = pending \/ pending' = [pending EXCEPT ![s] = {}]
  BY DEF StartChat
<1> QED
  BY <1>1, <1>2

\* A step after which every attached page has a notice to come, or is struck.
LEMMA AnnouncedNow ==
  ASSUME \/ struck' = Sessions
         \/ \A x \in Sessions : Attached(x)' => \E m \in pending'[x] : m.kind \in Notices
  PROVE  AnnouncedOK'
BY DEF AnnouncedOK

-----------------------------------------------------------------------------
\* Types.
LEMMA TypeOKStep ==
  ASSUME RoomInv, [Next]_vars
  PROVE  TypeOK'
<1>1. ASSUME CreateChannel PROVE TypeOK'
  BY <1>1 DEF RoomInv, TypeOK, CreateChannel, page, past
<1>2. ASSUME NEW u \in Users, AddUserToChannel(u) PROVE TypeOK'
  BY <1>2, RoomAssumption DEF RoomInv, TypeOK, AddUserToChannel, Fault, page, past
<1>3. ASSUME NEW u \in Users, Expire(u) PROVE TypeOK'
  BY <1>3 DEF RoomInv, TypeOK, Expire, redis, page, past
<1>4. ASSUME NEW u \in Users, DeleteCheck(u) PROVE TypeOK'
  BY <1>4 DEF RoomInv, TypeOK, DeleteCheck, redis, page, past
<1>5. ASSUME NEW u \in Users, BroadcastLeaved(u) PROVE TypeOK'
  <2>1. UNCHANGED <<chan, members, online, history, seen, toAdd, expired, pc, cid,
        conn, subject, live, fetched, ticks, published, early, says, stale>>
    BY <1>5 DEF BroadcastLeaved, redis, page
  <2>2. deletion' \in [Users -> {"none", "checked", "told", "unnamed", "emptied",
                               "done", "failed"}]
    <3>1. \E d \in {"told", "failed"} : deletion' = [deletion EXCEPT ![u] = d]
      BY <1>5 DEF BroadcastLeaved
    <3> QED
      BY <3>1 DEF RoomInv, TypeOK
  <2>3. pending' \in [Sessions -> SUBSET Message]
    BY <1>5, Messages, PublishAdds DEF BroadcastLeaved, PublishFails, RoomInv, TypeOK
  <2>4. faults' \in 0..MaxFaults
    BY <1>5, RoomAssumption DEF BroadcastLeaved, Fault, PublishFails, RoomInv, TypeOK
  <2>5. struck' \subseteq Sessions
    BY <1>5, RoomAssumption DEF BroadcastLeaved, PublishFails, RoomInv, TypeOK
  <2> QED
    BY <2>1, <2>2, <2>3, <2>4, <2>5 DEF RoomInv, TypeOK
<1>6. ASSUME NEW u \in Users, DeleteName(u) PROVE TypeOK'
  BY <1>6, RoomAssumption DEF RoomInv, TypeOK, SentOK, DeleteName, DeletionStep,
     Fault, page, past
<1>7. ASSUME NEW u \in Users, DeleteMembers(u) PROVE TypeOK'
  <2>1. UNCHANGED <<chan, online, history, seen, toAdd, expired, pc, cid, conn,
        subject, pending, live, fetched, ticks, published, early, says, stale,
        struck>>
    BY <1>7 DEF DeleteMembers, page, past
  <2>2. deletion' \in [Users -> {"none", "checked", "told", "unnamed", "emptied",
                               "done", "failed"}]
    BY <1>7, RoomAssumption DEF DeleteMembers, DeletionStep, RoomInv, TypeOK
  <2>3. members' \subseteq Users
    BY <1>7, RoomAssumption DEF DeleteMembers, RoomInv, TypeOK
  <2>4. faults' \in 0..MaxFaults
    BY <1>7, RoomAssumption DEF DeleteMembers, Fault, DeletionStep, RoomInv, TypeOK
  <2> QED
    BY <2>1, <2>2, <2>3, <2>4 DEF RoomInv, TypeOK
<1>8. ASSUME NEW u \in Users, DeleteAllOnlineUsers(u) PROVE TypeOK'
  BY <1>8, RoomAssumption DEF RoomInv, TypeOK, DeleteAllOnlineUsers, SetOnline,
     DeletionStep, Fault, page, past
<1>9. ASSUME NEW s \in Sessions, StartChat(s) PROVE TypeOK'
  <2>1. UNCHANGED <<chan, members, online, history, seen, toAdd, expired, cid, conn,
        subject, deletion, live, fetched, ticks, published, early, says, stale,
        struck>>
    BY <1>9 DEF StartChat, redis, page, past
  <2>2. pc' \in [Sessions -> Locations]
    BY <1>9, RoomAssumption DEF StartChat, Goto, Locations, RoomInv, TypeOK
  <2>3. pending' \in [Sessions -> SUBSET Message]
    BY <1>9, RoomAssumption DEF StartChat, RoomInv, TypeOK
  <2>4. faults' \in 0..MaxFaults
    BY <1>9, RoomAssumption DEF StartChat, Fault, RoomInv, TypeOK
  <2> QED
    BY <2>1, <2>2, <2>3, <2>4 DEF RoomInv, TypeOK
<1>10. ASSUME NEW s \in Sessions, Upgrade(s) PROVE TypeOK'
  BY <1>10 DEF RoomInv, TypeOK, Locations, Upgrade, Goto, redis, page, past
<1>11. ASSUME NEW s \in Sessions, ConnectExpired(s) PROVE TypeOK'
  BY <1>11 DEF RoomInv, TypeOK, Locations, ConnectExpired, Goto, redis, page, past
<1>12. ASSUME NEW s \in Sessions, AddOnlineUser(s) PROVE TypeOK'
  <2>1. UNCHANGED <<chan, members, history, seen, toAdd, expired, cid, conn, subject,
        deletion, pending, live, fetched, ticks, published, early, says>>
    BY <1>12 DEF AddOnlineUser, page
  <2>2. online' \subseteq Users
    BY <1>12, RoomAssumption DEF AddOnlineUser, SetOnline, RoomInv, TypeOK
  <2>3. stale' \subseteq Sessions
    BY <1>12, RoomAssumption DEF AddOnlineUser, SetOnline, RoomInv, TypeOK
  <2>4. pc' \in [Sessions -> Locations]
    <3>1. pc' = [pc EXCEPT ![s] = "added"] \/ pc' = [pc EXCEPT ![s] = "open"]
      BY <1>12 DEF AddOnlineUser, Goto
    <3> QED
      BY <3>1 DEF RoomInv, TypeOK, Locations
  <2>5. faults' \in 0..MaxFaults
    BY <1>12, RoomAssumption DEF AddOnlineUser, Fault, RoomInv, TypeOK
  <2>6. struck' \subseteq Sessions
    BY <1>12, RoomAssumption DEF AddOnlineUser, RoomInv, TypeOK
  <2> QED
    BY <2>1, <2>2, <2>3, <2>4, <2>5, <2>6 DEF RoomInv, TypeOK
<1>13. ASSUME NEW s \in Sessions, SetCid(s) PROVE TypeOK'
  BY <1>13 DEF RoomInv, TypeOK, Locations, SetCid, Goto, redis, page, past
<1>14. ASSUME NEW s \in Sessions, FindChannel(s) PROVE TypeOK'
  <2>1. UNCHANGED <<chan, members, online, history, seen, toAdd, expired, cid, conn,
        subject, deletion, pending, live, fetched, ticks, published, early, says,
        stale>>
    BY <1>14 DEF FindChannel, redis, page
  <2>2. pc' \in [Sessions -> Locations]
    BY <1>14, RoomAssumption DEF FindChannel, Goto, Locations, RoomInv, TypeOK
  <2>3. faults' \in 0..MaxFaults
    BY <1>14, RoomAssumption DEF FindChannel, Fault, RoomInv, TypeOK
  <2>4. struck' \subseteq Sessions
    BY <1>14, RoomAssumption DEF FindChannel, RoomInv, TypeOK
  <2> QED
    BY <2>1, <2>2, <2>3, <2>4 DEF RoomInv, TypeOK
<1>15. ASSUME NEW s \in Sessions, CountOnline(s) PROVE TypeOK'
  BY <1>15 DEF RoomInv, TypeOK, Locations, CountOnline, Goto, redis, page
<1>16. ASSUME NEW s \in Sessions, BroadcastConnectMessage(s) PROVE TypeOK'
  <2>1. UNCHANGED <<chan, members, online, history, seen, toAdd, expired, cid, conn,
        subject, deletion, live, fetched, ticks, published, early, says, stale>>
    BY <1>16 DEF BroadcastConnectMessage, redis, page
  <2>2. pending' \in [Sessions -> SUBSET Message]
    BY <1>16, ConnectAdds
  <2>3. faults' \in 0..MaxFaults
    BY <1>16, RoomAssumption DEF BroadcastConnectMessage, Fault, PublishFails, RoomInv,
       TypeOK
  <2>4. struck' \subseteq Sessions
    BY <1>16, RoomAssumption DEF BroadcastConnectMessage, PublishFails, RoomInv, TypeOK
  <2>5. pc' \in [Sessions -> Locations]
    BY <1>16, RoomAssumption DEF BroadcastConnectMessage, Goto, Locations, RoomInv,
       TypeOK
  <2> QED
    BY <2>1, <2>2, <2>3, <2>4, <2>5 DEF RoomInv, TypeOK
<1>17. ASSUME NEW s \in Sessions, SendText(s) PROVE TypeOK'
  BY <1>17 DEF RoomInv, TypeOK, Locations, SendText, Goto, redis, page, past
<1>18. ASSUME NEW s \in Sessions, InsertRPush(s) PROVE TypeOK'
  <2>1. UNCHANGED <<chan, members, online, seen, toAdd, expired, cid, conn, subject,
        deletion, pending, live, fetched, ticks, published, early, says, stale,
        struck>>
    BY <1>18 DEF InsertRPush, page, past
  <2>2. history' \in Seq(Senders)
    BY <1>18, HistoryGrows
  <2>3. pc' \in [Sessions -> Locations]
    <3>1. \E l \in {"inserting", "flagging", "open"} : pc' = [pc EXCEPT ![s] = l]
      BY <1>18 DEF InsertRPush, Goto
    <3> QED
      BY <3>1 DEF RoomInv, TypeOK, Locations
  <2>4. faults' \in 0..MaxFaults
    BY <1>18, RoomAssumption DEF InsertRPush, Fault, RoomInv, TypeOK
  <2> QED
    BY <2>1, <2>2, <2>3, <2>4 DEF RoomInv, TypeOK
<1>19. ASSUME NEW s \in Sessions, InsertHSet(s) PROVE TypeOK'
  BY <1>19, RoomAssumption DEF RoomInv, TypeOK, Locations, SentOK, InsertHSet, Goto,
     Fault, page, past
<1>20. ASSUME NEW s \in Sessions, PublishText(s) PROVE TypeOK'
  <2>1. UNCHANGED <<chan, members, online, history, seen, toAdd, expired, cid, conn,
        subject, deletion, live, fetched, ticks, early, says, stale>>
    BY <1>20 DEF PublishText, redis, page
  <2>2. pending' \in [Sessions -> SUBSET Message]
    BY <1>20, Messages, PublishAdds DEF PublishText, PublishFails, RoomInv, TypeOK
  <2>3. published' \subseteq Senders
    BY <1>20 DEF PublishText, RoomInv, TypeOK, SentOK
  <2>4. faults' \in 0..MaxFaults
    BY <1>20, RoomAssumption DEF PublishText, Fault, PublishFails, RoomInv, TypeOK
  <2>5. struck' \subseteq Sessions
    BY <1>20, RoomAssumption DEF PublishText, PublishFails, RoomInv, TypeOK
  <2>6. pc' \in [Sessions -> Locations]
    BY <1>20, RoomAssumption DEF PublishText, Goto, Locations, RoomInv, TypeOK
  <2> QED
    BY <2>1, <2>2, <2>3, <2>4, <2>5, <2>6 DEF RoomInv, TypeOK
<1>21. ASSUME NEW s \in Sessions, TellSeen(s) PROVE TypeOK'
  <2>1. UNCHANGED <<chan, members, online, history, seen, toAdd, expired, cid, conn,
        deletion, live, fetched, ticks, published, early, says, stale>>
    BY <1>21 DEF TellSeen, redis, page
  <2>2. pending' \in [Sessions -> SUBSET Message]
    BY <1>21, Messages, PublishAdds DEF TellSeen, PublishFails, RoomInv, TypeOK
  <2>3. faults' \in 0..MaxFaults
    BY <1>21, RoomAssumption DEF TellSeen, Fault, PublishFails, RoomInv, TypeOK
  <2>4. struck' \subseteq Sessions
    BY <1>21, RoomAssumption DEF TellSeen, PublishFails, RoomInv, TypeOK
  <2>5. pc' \in [Sessions -> Locations]
    BY <1>21, RoomAssumption DEF TellSeen, Goto, Locations, RoomInv, TypeOK
  <2>6. subject' \in [Sessions -> Sessions]
    BY <1>21, RoomAssumption DEF TellSeen, RoomInv, TypeOK
  <2> QED
    BY <2>1, <2>2, <2>3, <2>4, <2>5, <2>6 DEF RoomInv, TypeOK
<1>22. ASSUME NEW s \in Sessions, Close(s) PROVE TypeOK'
  BY <1>22 DEF RoomInv, TypeOK, Close, redis, page, past
<1>23. ASSUME NEW s \in Sessions, Drop(s) PROVE TypeOK'
  BY <1>23, RoomAssumption DEF RoomInv, TypeOK, Drop, Fault, redis, page, past
<1>24. ASSUME NEW s \in Sessions, ReadFails(s) PROVE TypeOK'
  BY <1>24 DEF RoomInv, TypeOK, Locations, ReadFails, Leave, Goto, redis, page, past
<1>25. ASSUME NEW s \in Sessions, CloseExpired(s) PROVE TypeOK'
  BY <1>25 DEF RoomInv, TypeOK, Locations, CloseExpired, Leave, Goto, redis, page,
     past
<1>26. ASSUME NEW s \in Sessions, DeleteOnlineUser(s) PROVE TypeOK'
  <2>1. UNCHANGED <<chan, members, history, seen, toAdd, expired, cid, conn, subject,
        deletion, live, fetched, ticks, published, early, says>>
    BY <1>26 DEF DeleteOnlineUser, page
  <2>2. online' \subseteq Users
    BY <1>26, RoomAssumption DEF DeleteOnlineUser, SetOnline, RoomInv, TypeOK
  <2>3. stale' \subseteq Sessions
    BY <1>26, RoomAssumption DEF DeleteOnlineUser, SetOnline, RoomInv, TypeOK
  <2>4. pc' \in [Sessions -> Locations]
    BY <1>26, RoomAssumption DEF DeleteOnlineUser, Goto, Leave, Locations, RoomInv,
       TypeOK
  <2>5. pending' \in [Sessions -> SUBSET Message]
    BY <1>26, RoomAssumption DEF DeleteOnlineUser, Leave, RoomInv, TypeOK
  <2>6. faults' \in 0..MaxFaults
    BY <1>26, RoomAssumption DEF DeleteOnlineUser, Fault, RoomInv, TypeOK
  <2>7. struck' \subseteq Sessions
    BY <1>26, RoomAssumption DEF DeleteOnlineUser, RoomInv, TypeOK
  <2> QED
    BY <2>1, <2>2, <2>3, <2>4, <2>5, <2>6, <2>7 DEF RoomInv, TypeOK
<1>27. ASSUME NEW s \in Sessions, BroadcastOffline(s) PROVE TypeOK'
  <2>1. UNCHANGED <<chan, members, online, history, seen, toAdd, expired, cid, conn,
        subject, deletion, live, fetched, ticks, published, early, says, stale>>
    BY <1>27 DEF BroadcastOffline, redis, page
  <2>2. pending' \in [Sessions -> SUBSET Message]
    BY <1>27, OfflineAdds
  <2>3. faults' \in 0..MaxFaults
    BY <1>27, RoomAssumption DEF BroadcastOffline, Fault, RoomInv, TypeOK
  <2>4. struck' \subseteq Sessions
    BY <1>27, RoomAssumption DEF BroadcastOffline, RoomInv, TypeOK
  <2>5. pc' \in [Sessions -> Locations]
    BY <1>27, RoomAssumption DEF BroadcastOffline, Goto, Locations, RoomInv, TypeOK
  <2> QED
    BY <2>1, <2>2, <2>3, <2>4, <2>5 DEF RoomInv, TypeOK
<1>28. ASSUME NEW s \in Sessions, FetchMessages(s) PROVE TypeOK'
  BY <1>28 DEF RoomInv, TypeOK, FetchMessages, redis, past
<1>29. ASSUME NEW s \in Sessions, NEW m \in Senders, MarkMessageSeen(s, m)
     PROVE  TypeOK'
  BY <1>29, RoomAssumption DEF RoomInv, TypeOK, Locations, MarkMessageSeen, Goto,
     page
<1>30. ASSUME NEW s \in Sessions, NEW m \in pending[s], Visit(s, m) PROVE TypeOK'
  <2>1. UNCHANGED <<chan, members, online, history, seen, toAdd, expired, pc, cid,
        subject, deletion, fetched, published, early, says, faults, struck>>
    BY <1>30 DEF Visit, redis, past
  <2>2. pending' \in [Sessions -> SUBSET Message]
    BY <1>30, RoomAssumption DEF Visit, RoomInv, TypeOK
  <2>3. live' \in [Sessions -> SUBSET Senders]
    BY <1>30 DEF Visit, RoomInv, TypeOK, SentOK
  <2>4. ticks' \in [Sessions -> SUBSET Senders]
    BY <1>30 DEF Visit, RoomInv, TypeOK, SentOK
  <2>5. stale' \subseteq Sessions
    BY <1>30, RoomAssumption DEF Visit, RoomInv, TypeOK
  <2>6. conn' \in [Sessions -> {"up", "closing", "dropped"}]
    <3>1. conn' = conn \/ conn' = [conn EXCEPT ![s] = "closing"]
      BY <1>30 DEF Visit, PageCloses
    <3> QED
      BY <3>1 DEF RoomInv, TypeOK
  <2> QED
    BY <2>1, <2>2, <2>3, <2>4, <2>5, <2>6 DEF RoomInv, TypeOK
<1>31. ASSUME NEW s \in Sessions, NEW m \in pending[s], Lose(s, m) PROVE TypeOK'
  BY <1>31, RoomAssumption DEF RoomInv, TypeOK, Lose, Fault, redis, page
<1>32. CASE UNCHANGED vars
  BY <1>32 DEF RoomInv, vars, redis, page, past, TypeOK, Locations
<1> QED
  <2>1. ASSUME NEW u \in Users,
               AddUserToChannel(u) \/ Expire(u) \/ DeleteCheck(u) \/ DeleteChannel(u)
        PROVE  TypeOK'
    BY <2>1, <1>2, <1>3, <1>4, <1>5, <1>6, <1>7, <1>8 DEF DeleteChannel
  <2>2. ASSUME NEW s \in Sessions,
               \/ StartChat(s) \/ Connect(s) \/ SendText(s) \/ Handle(s)
               \/ Close(s) \/ Drop(s) \/ End(s) \/ FetchMessages(s)
        PROVE  TypeOK'
    BY <2>2, <1>9, <1>10, <1>11, <1>12, <1>13, <1>14, <1>15, <1>16, <1>17, <1>18,
       <1>19, <1>20, <1>21, <1>22, <1>23, <1>24, <1>25, <1>26, <1>27, <1>28 DEF
       Connect, Handle, End
  <2>3. ASSUME NEW s \in Sessions,
               \/ \E m \in Senders : MarkMessageSeen(s, m)
               \/ \E m \in pending[s] : Visit(s, m) \/ Lose(s, m)
        PROVE  TypeOK'
    BY <2>3, <1>29, <1>30, <1>31
  <2> QED
    BY <2>1, <2>2, <2>3, <1>1, <1>32 DEF Next

\* Only senders insert, and only what they sent is marked and told.
LEMMA SentOKStep ==
  ASSUME RoomInv, [Next]_vars
  PROVE  SentOK'
<1>1. ASSUME NEW u \in Users, BroadcastLeaved(u) PROVE SentOK'
  BY <1>1, RoomAssumption DEF RoomInv, SentOK, BroadcastLeaved, Publish, Concerns,
     PublishFails, redis, page
<1>2. ASSUME NEW s \in Sessions, StartChat(s) PROVE SentOK'
  <2>1. Moves(s, "out", {"upgrading", "refused"})
    BY <1>2, TwoOutcomes
  <2>2. UNCHANGED subject
    BY <1>2 DEF StartChat
  <2>3. \A x \in Sessions : pending'[x] \subseteq pending[x]
    BY <1>2, StartChatShrinks
  <2> QED
    BY <2>1, <2>2, <2>3 DEF Moves, RoomInv, SentOK
<1>3. ASSUME NEW s \in Sessions, Upgrade(s) PROVE SentOK'
  BY <1>3 DEF RoomInv, SentOK, Upgrade, Goto
<1>4. ASSUME NEW s \in Sessions, ConnectExpired(s) PROVE SentOK'
  BY <1>4 DEF RoomInv, SentOK, ConnectExpired, Goto
<1>5. ASSUME NEW s \in Sessions, AddOnlineUser(s) PROVE SentOK'
  BY <1>5 DEF RoomInv, SentOK, TypeOK, AddOnlineUser, Goto
<1>6. ASSUME NEW s \in Sessions, SetCid(s) PROVE SentOK'
  BY <1>6 DEF RoomInv, SentOK, SetCid, Goto
<1>7. ASSUME NEW s \in Sessions, FindChannel(s) PROVE SentOK'
  BY <1>7 DEF RoomInv, SentOK, TypeOK, FindChannel, Goto
<1>8. ASSUME NEW s \in Sessions, CountOnline(s) PROVE SentOK'
  BY <1>8 DEF RoomInv, SentOK, CountOnline, Goto
<1>9. ASSUME NEW s \in Sessions, BroadcastConnectMessage(s) PROVE SentOK'
  <2>1. UNCHANGED subject /\ pc' = [pc EXCEPT ![s] = "open"]
    BY <1>9 DEF BroadcastConnectMessage, Goto
  <2> QED
    BY <1>9, <2>1, ConnectAdds DEF RoomInv, SentOK, TypeOK
<1>10. ASSUME NEW s \in Sessions, SendText(s) PROVE SentOK'
  BY <1>10 DEF RoomInv, SentOK, SendText, Goto
<1>11. ASSUME NEW s \in Sessions, InsertRPush(s) PROVE SentOK'
  BY <1>11 DEF RoomInv, SentOK, TypeOK, InsertRPush, Goto
<1>12. ASSUME NEW s \in Sessions, InsertHSet(s) PROVE SentOK'
  BY <1>12 DEF RoomInv, SentOK, TypeOK, InsertHSet, Goto
<1>13. ASSUME NEW s \in Sessions, PublishText(s) PROVE SentOK'
  <2>1. \A x \in Sessions : \A m \in pending'[x] :
          m \in pending[x] \/ m = [kind |-> "text", of |-> s]
    BY <1>13, Messages, PublishAdds DEF PublishText, PublishFails
  <2>2. UNCHANGED subject /\ pc' = [pc EXCEPT ![s] = "open"] /\ s \in Senders
    BY <1>13 DEF PublishText, Goto, RoomInv, SentOK
  <2> QED
    BY <2>1, <2>2 DEF RoomInv, SentOK, TypeOK
<1>14. ASSUME NEW s \in Sessions, TellSeen(s) PROVE SentOK'
  <2>1. pc[s] = "telling" /\ subject[s] \in Senders /\ Senders \subseteq Sessions
    BY <1>14, RoomAssumption DEF TellSeen, RoomInv, SentOK
  <2>2. \A x \in Sessions : \A m \in pending'[x] :
          m \in pending[x] \/ m = [kind |-> "seen", of |-> subject[s]]
    BY <1>14, <2>1, Messages, PublishAdds DEF TellSeen, PublishFails
  <2>3. pc' = [pc EXCEPT ![s] = "open"] /\ subject' = [subject EXCEPT ![s] = s]
    BY <1>14 DEF TellSeen, Goto
  <2> QED
    BY <2>1, <2>2, <2>3 DEF RoomInv, SentOK, TypeOK
<1>15. ASSUME NEW s \in Sessions, ReadFails(s) PROVE SentOK'
  BY <1>15 DEF RoomInv, SentOK, ReadFails, Leave, Goto
<1>16. ASSUME NEW s \in Sessions, CloseExpired(s) PROVE SentOK'
  BY <1>16 DEF RoomInv, SentOK, CloseExpired, Leave, Goto
<1>17. ASSUME NEW s \in Sessions, DeleteOnlineUser(s) PROVE SentOK'
  <2>1. \A x \in Sessions : pending'[x] \subseteq pending[x]
    BY <1>17 DEF DeleteOnlineUser, Leave, RoomInv, TypeOK
  <2>2. /\ UNCHANGED subject
        /\ pc' = [pc EXCEPT ![s] = "leaving"] \/ pc' = [pc EXCEPT ![s] = "lost"]
    BY <1>17 DEF DeleteOnlineUser, Leave, Goto
  <2> QED
    BY <2>1, <2>2 DEF RoomInv, SentOK, TypeOK
<1>18. ASSUME NEW s \in Sessions, BroadcastOffline(s) PROVE SentOK'
  <2>1. \A x \in Sessions : \A m \in pending'[x] :
          m \in pending[x] \/ m = [kind |-> "offline", of |-> s]
    BY <1>18, OfflineAdds
  <2>2. UNCHANGED subject /\ pc' = [pc EXCEPT ![s] = "closed"]
    BY <1>18 DEF BroadcastOffline, Goto
  <2> QED
    BY <2>1, <2>2 DEF RoomInv, SentOK, TypeOK
<1>19. ASSUME NEW s \in Sessions, NEW m \in Senders, MarkMessageSeen(s, m)
     PROVE  SentOK'
  BY <1>19 DEF RoomInv, SentOK, TypeOK, MarkMessageSeen, Goto
<1>20. ASSUME NEW s \in Sessions, NEW m \in pending[s], Visit(s, m) PROVE SentOK'
  BY <1>20 DEF RoomInv, SentOK, Visit
<1>21. ASSUME NEW s \in Sessions, NEW m \in pending[s], Lose(s, m) PROVE SentOK'
  BY <1>21 DEF RoomInv, SentOK, Lose
<1>22. ASSUME \/ CreateChannel
              \/ \E u \in Users : AddUserToChannel(u) \/ Expire(u) \/ DeleteCheck(u)
                    \/ DeleteName(u) \/ DeleteMembers(u) \/ DeleteAllOnlineUsers(u)
              \/ \E s \in Sessions : Close(s) \/ Drop(s) \/ FetchMessages(s)
              \/ UNCHANGED vars
     PROVE  SentOK'
  <2>1. UNCHANGED <<pc, subject, pending>>
    BY <1>22 DEF CreateChannel, AddUserToChannel, Expire, DeleteCheck, DeleteName,
       DeleteMembers, DeleteAllOnlineUsers, Close, Drop, FetchMessages, vars
  <2> QED
    BY <2>1 DEF RoomInv, SentOK
<1> QED
  <2>1. ASSUME NEW u \in Users,
               AddUserToChannel(u) \/ Expire(u) \/ DeleteCheck(u) \/ DeleteChannel(u)
        PROVE  SentOK'
    BY <2>1, <1>1, <1>22 DEF DeleteChannel
  <2>2. ASSUME NEW s \in Sessions,
               \/ StartChat(s) \/ Connect(s) \/ SendText(s) \/ Handle(s)
               \/ Close(s) \/ Drop(s) \/ End(s) \/ FetchMessages(s)
        PROVE  SentOK'
    BY <2>2, <1>2, <1>3, <1>4, <1>5, <1>6, <1>7, <1>8, <1>9, <1>10, <1>11, <1>12,
       <1>13, <1>14, <1>15, <1>16, <1>17, <1>18, <1>22 DEF Connect, Handle, End
  <2>3. ASSUME NEW s \in Sessions,
               \/ \E m \in Senders : MarkMessageSeen(s, m)
               \/ \E m \in pending[s] : Visit(s, m) \/ Lose(s, m)
        PROVE  SentOK'
    BY <2>3, <1>19, <1>20, <1>21
  <2> QED
    BY <2>1, <2>2, <2>3, <1>22 DEF Next

\* A key is set once, between the adding and the counting.
LEMMA KeyOKStep ==
  ASSUME RoomInv, [Next]_vars
  PROVE  KeyOK'
<1>1. ASSUME NEW s \in Sessions, StartChat(s) PROVE KeyOK'
  BY <1>1 DEF RoomInv, KeyOK, TypeOK, StartChat, Goto, page, past
<1>2. ASSUME NEW s \in Sessions, Upgrade(s) PROVE KeyOK'
  BY <1>2 DEF RoomInv, KeyOK, Upgrade, Goto, page, past
<1>3. ASSUME NEW s \in Sessions, ConnectExpired(s) PROVE KeyOK'
  BY <1>3 DEF RoomInv, KeyOK, TypeOK, ConnectExpired, Goto, page, past
<1>4. ASSUME NEW s \in Sessions, AddOnlineUser(s) PROVE KeyOK'
  BY <1>4 DEF RoomInv, KeyOK, TypeOK, AddOnlineUser, Goto, page
<1>5. ASSUME NEW s \in Sessions, SetCid(s) PROVE KeyOK'
  BY <1>5 DEF RoomInv, KeyOK, TypeOK, SetCid, Goto, page, past
<1>6. ASSUME NEW s \in Sessions, FindChannel(s) PROVE KeyOK'
  BY <1>6 DEF RoomInv, KeyOK, TypeOK, FindChannel, Goto, page
<1>7. ASSUME NEW s \in Sessions, CountOnline(s) PROVE KeyOK'
  BY <1>7 DEF RoomInv, KeyOK, TypeOK, CountOnline, Goto, page
<1>8. ASSUME NEW s \in Sessions, BroadcastConnectMessage(s) PROVE KeyOK'
  BY <1>8 DEF RoomInv, KeyOK, BroadcastConnectMessage, Goto, page
<1>9. ASSUME NEW s \in Sessions, SendText(s) PROVE KeyOK'
  BY <1>9 DEF RoomInv, KeyOK, SendText, Goto, page, past
<1>10. ASSUME NEW s \in Sessions, InsertRPush(s) PROVE KeyOK'
  BY <1>10 DEF RoomInv, KeyOK, TypeOK, InsertRPush, Goto, page, past
<1>11. ASSUME NEW s \in Sessions, InsertHSet(s) PROVE KeyOK'
  BY <1>11 DEF RoomInv, KeyOK, TypeOK, InsertHSet, Goto, page, past
<1>12. ASSUME NEW s \in Sessions, PublishText(s) PROVE KeyOK'
  BY <1>12 DEF RoomInv, KeyOK, PublishText, Goto, page
<1>13. ASSUME NEW s \in Sessions, TellSeen(s) PROVE KeyOK'
  BY <1>13 DEF RoomInv, KeyOK, TellSeen, Goto, page
<1>14. ASSUME NEW s \in Sessions, ReadFails(s) PROVE KeyOK'
  BY <1>14 DEF RoomInv, KeyOK, ReadFails, Leave, Goto, page, past
<1>15. ASSUME NEW s \in Sessions, CloseExpired(s) PROVE KeyOK'
  BY <1>15 DEF RoomInv, KeyOK, CloseExpired, Leave, Goto, page, past
<1>16. ASSUME NEW s \in Sessions, DeleteOnlineUser(s) PROVE KeyOK'
  BY <1>16 DEF RoomInv, KeyOK, TypeOK, DeleteOnlineUser, Goto, Leave, page
<1>17. ASSUME NEW s \in Sessions, BroadcastOffline(s) PROVE KeyOK'
  BY <1>17 DEF RoomInv, KeyOK, BroadcastOffline, Goto, page
<1>18. ASSUME NEW s \in Sessions, FetchMessages(s) PROVE KeyOK'
  BY <1>18 DEF RoomInv, KeyOK, TypeOK, FetchMessages, past
<1>19. ASSUME NEW s \in Sessions, NEW m \in Senders, MarkMessageSeen(s, m)
     PROVE  KeyOK'
  BY <1>19 DEF RoomInv, KeyOK, MarkMessageSeen, Goto, page
<1>20. ASSUME \/ CreateChannel
              \/ \E u \in Users : AddUserToChannel(u) \/ Expire(u) \/ DeleteCheck(u)
                    \/ BroadcastLeaved(u) \/ DeleteName(u) \/ DeleteMembers(u) \/
                    DeleteAllOnlineUsers(u)
              \/ \E s \in Sessions : Close(s) \/ Drop(s)
              \/ \E s \in Sessions : \E m \in pending[s] : Visit(s, m) \/ Lose(s, m)
              \/ UNCHANGED vars
     PROVE  KeyOK'
  <2>1. UNCHANGED <<pc, cid, fetched, says>>
    BY <1>20 DEF CreateChannel, AddUserToChannel, Expire, DeleteCheck,
       BroadcastLeaved, DeleteName, DeleteMembers, DeleteAllOnlineUsers, Close,
       Drop, Visit, Lose, page, past, vars
  <2> QED
    BY <2>1 DEF RoomInv, KeyOK
<1> QED
  <2>1. ASSUME NEW u \in Users,
               AddUserToChannel(u) \/ Expire(u) \/ DeleteCheck(u) \/ DeleteChannel(u)
        PROVE  KeyOK'
    BY <2>1, <1>20 DEF DeleteChannel
  <2>2. ASSUME NEW s \in Sessions,
               \/ StartChat(s) \/ Connect(s) \/ SendText(s) \/ Handle(s)
               \/ Close(s) \/ Drop(s) \/ End(s) \/ FetchMessages(s)
        PROVE  KeyOK'
    BY <2>2, <1>1, <1>2, <1>3, <1>4, <1>5, <1>6, <1>7, <1>8, <1>9, <1>10, <1>11,
       <1>12, <1>13, <1>14, <1>15, <1>16, <1>17, <1>18, <1>20 DEF Connect, Handle,
       End
  <2>3. ASSUME NEW s \in Sessions,
               \/ \E m \in Senders : MarkMessageSeen(s, m)
               \/ \E m \in pending[s] : Visit(s, m) \/ Lose(s, m)
        PROVE  KeyOK'
    BY <2>3, <1>19, <1>20
  <2> QED
    BY <2>1, <2>2, <2>3, <1>20 DEF Next

\* Only a deletion takes the channel away.
LEMMA ChanOKStep ==
  ASSUME RoomInv, [Next]_vars
  PROVE  ChanOK'
<1>1. ASSUME CreateChannel PROVE ChanOK'
  BY <1>1 DEF ChanOK, CreateChannel
<1>2. ASSUME NEW u \in Users, AddUserToChannel(u) PROVE ChanOK'
  BY <1>2 DEF RoomInv, ChanOK, DeletionBegun, AddUserToChannel
<1>3. ASSUME NEW u \in Users, DeleteCheck(u) PROVE ChanOK'
  BY <1>3 DEF RoomInv, ChanOK, DeletionBegun, DeleteCheck, redis
<1>4. ASSUME NEW u \in Users, BroadcastLeaved(u) PROVE ChanOK'
  BY <1>4 DEF RoomInv, ChanOK, TypeOK, DeletionBegun, BroadcastLeaved, redis
<1>5. ASSUME NEW u \in Users, DeleteName(u) PROVE ChanOK'
  BY <1>5 DEF RoomInv, ChanOK, TypeOK, DeletionBegun, DeleteName, DeletionStep
<1>6. ASSUME NEW u \in Users, DeleteMembers(u) PROVE ChanOK'
  BY <1>6 DEF RoomInv, ChanOK, TypeOK, DeletionBegun, DeleteMembers, DeletionStep
<1>7. ASSUME NEW u \in Users, DeleteAllOnlineUsers(u) PROVE ChanOK'
  BY <1>7 DEF RoomInv, ChanOK, TypeOK, DeletionBegun, DeleteAllOnlineUsers,
     DeletionStep
<1>8. ASSUME NEW s \in Sessions, StartChat(s) PROVE ChanOK'
  BY <1>8 DEF RoomInv, ChanOK, TypeOK, DeletionBegun, StartChat, Goto, redis
<1>9. ASSUME NEW s \in Sessions, Upgrade(s) PROVE ChanOK'
  BY <1>9 DEF RoomInv, ChanOK, DeletionBegun, Upgrade, redis
<1>10. ASSUME NEW s \in Sessions, ConnectExpired(s) PROVE ChanOK'
  BY <1>10 DEF RoomInv, ChanOK, DeletionBegun, ConnectExpired, redis
<1>11. ASSUME NEW s \in Sessions, AddOnlineUser(s) PROVE ChanOK'
  BY <1>11 DEF RoomInv, ChanOK, DeletionBegun, AddOnlineUser
<1>12. ASSUME NEW s \in Sessions, SetCid(s) PROVE ChanOK'
  BY <1>12 DEF RoomInv, ChanOK, DeletionBegun, SetCid, redis
<1>13. ASSUME NEW s \in Sessions, FindChannel(s) PROVE ChanOK'
  BY <1>13 DEF RoomInv, ChanOK, DeletionBegun, FindChannel, redis
<1>14. ASSUME NEW s \in Sessions, CountOnline(s) PROVE ChanOK'
  BY <1>14 DEF RoomInv, ChanOK, DeletionBegun, CountOnline, redis
<1>15. ASSUME NEW s \in Sessions, BroadcastConnectMessage(s) PROVE ChanOK'
  BY <1>15 DEF RoomInv, ChanOK, DeletionBegun, BroadcastConnectMessage, redis
<1>16. ASSUME NEW s \in Sessions, SendText(s) PROVE ChanOK'
  BY <1>16 DEF RoomInv, ChanOK, DeletionBegun, SendText, MayHandle, redis
<1>17. ASSUME NEW s \in Sessions, InsertRPush(s) PROVE ChanOK'
  BY <1>17 DEF RoomInv, ChanOK, DeletionBegun, InsertRPush
<1>18. ASSUME NEW s \in Sessions, InsertHSet(s) PROVE ChanOK'
  BY <1>18 DEF RoomInv, ChanOK, DeletionBegun, InsertHSet
<1>19. ASSUME NEW s \in Sessions, PublishText(s) PROVE ChanOK'
  BY <1>19 DEF RoomInv, ChanOK, DeletionBegun, PublishText, redis
<1>20. ASSUME NEW s \in Sessions, TellSeen(s) PROVE ChanOK'
  BY <1>20 DEF RoomInv, ChanOK, DeletionBegun, TellSeen, redis
<1>21. ASSUME NEW s \in Sessions, ReadFails(s) PROVE ChanOK'
  BY <1>21 DEF RoomInv, ChanOK, DeletionBegun, ReadFails, redis
<1>22. ASSUME NEW s \in Sessions, CloseExpired(s) PROVE ChanOK'
  BY <1>22 DEF RoomInv, ChanOK, DeletionBegun, CloseExpired, redis
<1>23. ASSUME NEW s \in Sessions, DeleteOnlineUser(s) PROVE ChanOK'
  BY <1>23 DEF RoomInv, ChanOK, DeletionBegun, DeleteOnlineUser
<1>24. ASSUME NEW s \in Sessions, BroadcastOffline(s) PROVE ChanOK'
  BY <1>24 DEF RoomInv, ChanOK, DeletionBegun, BroadcastOffline, redis
<1>25. ASSUME NEW s \in Sessions, NEW m \in Senders, MarkMessageSeen(s, m)
     PROVE  ChanOK'
  BY <1>25 DEF RoomInv, ChanOK, DeletionBegun, MarkMessageSeen, MayHandle
<1>26. ASSUME \/ \E u \in Users : Expire(u)
              \/ \E s \in Sessions : Close(s) \/ Drop(s) \/ FetchMessages(s)
              \/ \E s \in Sessions : \E m \in pending[s] : Visit(s, m) \/ Lose(s, m)
              \/ UNCHANGED vars
     PROVE  ChanOK'
  <2>1. UNCHANGED <<chan, members, pc, deletion>>
    BY <1>26 DEF Expire, Close, Drop, FetchMessages, Visit, Lose, redis, vars
  <2> QED
    BY <2>1 DEF RoomInv, ChanOK, DeletionBegun
<1> QED
  <2>1. ASSUME NEW u \in Users,
               AddUserToChannel(u) \/ Expire(u) \/ DeleteCheck(u) \/ DeleteChannel(u)
        PROVE  ChanOK'
    BY <2>1, <1>2, <1>3, <1>4, <1>5, <1>6, <1>7, <1>26 DEF DeleteChannel
  <2>2. ASSUME NEW s \in Sessions,
               \/ StartChat(s) \/ Connect(s) \/ SendText(s) \/ Handle(s)
               \/ Close(s) \/ Drop(s) \/ End(s) \/ FetchMessages(s)
        PROVE  ChanOK'
    BY <2>2, <1>8, <1>9, <1>10, <1>11, <1>12, <1>13, <1>14, <1>15, <1>16, <1>17,
       <1>18, <1>19, <1>20, <1>21, <1>22, <1>23, <1>24, <1>26 DEF Connect, Handle,
       End
  <2>3. ASSUME NEW s \in Sessions,
               \/ \E m \in Senders : MarkMessageSeen(s, m)
               \/ \E m \in pending[s] : Visit(s, m) \/ Lose(s, m)
        PROVE  ChanOK'
    BY <2>3, <1>25, <1>26
  <2> QED
    BY <2>1, <2>2, <2>3, <1>1, <1>26 DEF Next

\* The list is counted, and so has to stay finite.
LEMMA FiniteOnlineStep ==
  ASSUME RoomInv, [Next]_vars
  PROVE  FiniteOnline'
<1>1. ASSUME NEW u \in Users, DeleteAllOnlineUsers(u) PROVE FiniteOnline'
  BY <1>1, FS_EmptySet DEF DeleteAllOnlineUsers, SetOnline, RoomInv, PresenceOK,
     FiniteOnline
<1>2. ASSUME NEW s \in Sessions, AddOnlineUser(s) PROVE FiniteOnline'
  <2>1. online' = online \/ online' = online \cup {UserOf[s]}
    BY <1>2 DEF AddOnlineUser, SetOnline
  <2>2. IsFiniteSet(online)
    BY DEF RoomInv, PresenceOK, FiniteOnline
  <2> QED
    BY <2>1, <2>2, FS_AddElement DEF FiniteOnline
<1>3. ASSUME NEW s \in Sessions, DeleteOnlineUser(s) PROVE FiniteOnline'
  <2>1. online' = online \/ online' = online \ {UserOf[s]}
    BY <1>3 DEF DeleteOnlineUser, SetOnline
  <2>2. IsFiniteSet(online)
    BY DEF RoomInv, PresenceOK, FiniteOnline
  <2> QED
    BY <2>1, <2>2, FS_RemoveElement DEF FiniteOnline
<1>4. ASSUME \/ CreateChannel
             \/ \E u \in Users : AddUserToChannel(u) \/ Expire(u) \/ DeleteCheck(u)
                    \/ BroadcastLeaved(u) \/ DeleteName(u) \/ DeleteMembers(u)
             \/ \E s \in Sessions : StartChat(s) \/ Upgrade(s) \/ ConnectExpired(s)
                    \/ SetCid(s) \/ FindChannel(s) \/ CountOnline(s) \/
                    BroadcastConnectMessage(s) \/ SendText(s) \/ InsertRPush(s) \/
                    InsertHSet(s) \/ PublishText(s) \/ TellSeen(s) \/ Close(s) \/
                    Drop(s) \/ ReadFails(s) \/ CloseExpired(s) \/
                    BroadcastOffline(s) \/ FetchMessages(s)
             \/ \E s \in Sessions, m \in Senders : MarkMessageSeen(s, m)
             \/ \E s \in Sessions : \E m \in pending[s] : Visit(s, m) \/ Lose(s, m)
             \/ UNCHANGED vars
     PROVE  FiniteOnline'
  <2>1. ASSUME NEW u \in Users,
               \/ AddUserToChannel(u) \/ Expire(u) \/ DeleteCheck(u)
               \/ BroadcastLeaved(u) \/ DeleteName(u) \/ DeleteMembers(u)
        PROVE  UNCHANGED online
    BY <2>1 DEF AddUserToChannel, Expire, DeleteCheck, BroadcastLeaved, DeleteName,
       DeleteMembers, redis
  <2>2. ASSUME NEW s \in Sessions,
               \/ StartChat(s) \/ Upgrade(s) \/ ConnectExpired(s) \/ SetCid(s)
               \/ FindChannel(s) \/ CountOnline(s) \/ BroadcastConnectMessage(s)
        PROVE  UNCHANGED online
    BY <2>2 DEF StartChat, Upgrade, ConnectExpired, SetCid, FindChannel, CountOnline,
       BroadcastConnectMessage, redis
  <2>3. ASSUME NEW s \in Sessions,
               \/ SendText(s) \/ InsertRPush(s) \/ InsertHSet(s) \/ PublishText(s)
               \/ TellSeen(s) \/ FetchMessages(s)
        PROVE  UNCHANGED online
    BY <2>3 DEF SendText, InsertRPush, InsertHSet, PublishText, TellSeen,
       FetchMessages, redis
  <2>4. ASSUME NEW s \in Sessions,
               \/ Close(s) \/ Drop(s) \/ ReadFails(s) \/ CloseExpired(s)
               \/ BroadcastOffline(s)
        PROVE  UNCHANGED online
    BY <2>4 DEF Close, Drop, ReadFails, CloseExpired, BroadcastOffline, redis
  <2>5. ASSUME NEW s \in Sessions, NEW m,
               MarkMessageSeen(s, m) \/ Visit(s, m) \/ Lose(s, m)
        PROVE  UNCHANGED online
    BY <2>5 DEF MarkMessageSeen, Visit, Lose, redis
  <2>6. CreateChannel \/ UNCHANGED vars => UNCHANGED online
    BY DEF CreateChannel, vars, redis
  <2>7. UNCHANGED online
    BY <1>4, <2>1, <2>2, <2>3, <2>4, <2>5, <2>6
  <2> QED
    BY <2>7 DEF RoomInv, FiniteOnline, PresenceOK
<1> QED
  <2>1. ASSUME NEW u \in Users,
               AddUserToChannel(u) \/ Expire(u) \/ DeleteCheck(u) \/ DeleteChannel(u)
        PROVE  FiniteOnline'
    BY <2>1, <1>1, <1>4 DEF DeleteChannel
  <2>2. ASSUME NEW s \in Sessions,
               \/ StartChat(s) \/ Connect(s) \/ SendText(s) \/ Handle(s)
               \/ Close(s) \/ Drop(s) \/ End(s) \/ FetchMessages(s)
        PROVE  FiniteOnline'
    BY <2>2, <1>2, <1>3, <1>4 DEF Connect, Handle, End
  <2>3. ASSUME NEW s \in Sessions,
               \/ \E m \in Senders : MarkMessageSeen(s, m)
               \/ \E m \in pending[s] : Visit(s, m) \/ Lose(s, m)
        PROVE  FiniteOnline'
    BY <2>3, <1>4
  <2> QED
    BY <2>1, <2>2, <2>3, <1>4 DEF Next

\* Who is added is taken off only by the end of a session of his, or a deletion.
LEMMA OnlineOKStep ==
  ASSUME RoomInv, [Next]_vars
  PROVE  OnlineOK'
<1>1. ASSUME NEW u \in Users, DeleteCheck(u) PROVE OnlineOK'
  BY <1>1 DEF RoomInv, OnlineOK, Ended, Attached, DeletionBegun, TypeOK, DeleteCheck
<1>2. ASSUME NEW u \in Users, BroadcastLeaved(u) PROVE OnlineOK'
  BY <1>2 DEF RoomInv, OnlineOK, Ended, Attached, DeletionBegun, TypeOK,
     BroadcastLeaved
<1>3. ASSUME NEW u \in Users, DeleteName(u) PROVE OnlineOK'
  BY <1>3 DEF RoomInv, OnlineOK, Ended, Attached, DeletionBegun, TypeOK, DeleteName,
     DeletionStep
<1>4. ASSUME NEW u \in Users, DeleteMembers(u) PROVE OnlineOK'
  BY <1>4 DEF RoomInv, OnlineOK, Ended, Attached, DeletionBegun, TypeOK,
     DeleteMembers, DeletionStep
<1>5. ASSUME NEW u \in Users, DeleteAllOnlineUsers(u) PROVE OnlineOK'
  BY <1>5 DEF RoomInv, OnlineOK, Ended, Attached, DeletionBegun, TypeOK,
     DeleteAllOnlineUsers, DeletionStep
<1>6. ASSUME NEW s \in Sessions, StartChat(s) PROVE OnlineOK'
  <2>1. Moves(s, "out", {"upgrading", "refused"})
    BY <1>6, TwoOutcomes
  <2>2. UNCHANGED <<cid, online, deletion>>
    BY <1>6 DEF StartChat, Fault, redis, page, past
  <2> QED
    BY <2>1, <2>2 DEF Moves, KeyOK, RoomInv, PresenceOK, OnlineOK, Ended, TakenOff,
       Attached, InHub, Gone, DeletionBegun
<1>7. ASSUME NEW s \in Sessions, Upgrade(s) PROVE OnlineOK'
  <2>1. Moves(s, "upgrading", {"registered"})
    BY <1>7, TwoOutcomes
  <2>2. UNCHANGED <<cid, online, deletion>>
    BY <1>7 DEF Upgrade, redis, page, past
  <2> QED
    BY <2>1, <2>2 DEF Moves, KeyOK, RoomInv, PresenceOK, OnlineOK, Ended, TakenOff,
       Attached, InHub, Gone, DeletionBegun
<1>8. ASSUME NEW s \in Sessions, ConnectExpired(s) PROVE OnlineOK'
  BY <1>8, RoomAssumption DEF RoomInv, PresenceOK, OnlineOK, Ended, TakenOff,
     Attached, InHub, Gone, DeletionBegun, ConnectExpired, Goto, redis, page
<1>9. ASSUME NEW s \in Sessions, AddOnlineUser(s) PROVE OnlineOK'
  <2>1. Moves(s, "registered", {"added", "open"})
    BY <1>9, TwoOutcomes
  <2>2. UNCHANGED <<cid, deletion>>
    BY <1>9 DEF AddOnlineUser, Fault, page
  <2>3. /\ online \subseteq online'
        /\ pc'[s] = "added" => UserOf[s] \in online'
    BY <1>9 DEF AddOnlineUser, SetOnline, Goto, RoomInv, TypeOK
  <2> QED
    BY <2>1, <2>2, <2>3 DEF Moves, KeyOK, RoomInv, PresenceOK, OnlineOK, Ended,
       TakenOff, Attached, InHub, Gone, DeletionBegun
<1>10. ASSUME NEW s \in Sessions, SetCid(s) PROVE OnlineOK'
  BY <1>10, RoomAssumption DEF RoomInv, PresenceOK, OnlineOK, Ended, TakenOff,
     Attached, InHub, DeletionBegun, KeyOK, SetCid, Goto, redis, page, past
<1>11. ASSUME NEW s \in Sessions, FindChannel(s) PROVE OnlineOK'
  <2>1. Moves(s, "counting", {"counted", "open"})
    BY <1>11, TwoOutcomes
  <2>2. UNCHANGED <<cid, online, deletion>>
    BY <1>11 DEF FindChannel, Fault, redis, page
  <2> QED
    BY <2>1, <2>2 DEF Moves, KeyOK, RoomInv, PresenceOK, OnlineOK, Ended, TakenOff,
       Attached, InHub, Gone, DeletionBegun
<1>12. ASSUME NEW s \in Sessions, CountOnline(s) PROVE OnlineOK'
  BY <1>12, RoomAssumption DEF RoomInv, PresenceOK, OnlineOK, Ended, TakenOff,
     Attached, InHub, Gone, DeletionBegun, CountOnline, Goto, redis
<1>13. ASSUME NEW s \in Sessions, BroadcastConnectMessage(s) PROVE OnlineOK'
  <2>1. Moves(s, "announcing", {"open"})
    BY <1>13, TwoOutcomes
  <2>2. UNCHANGED <<cid, online, deletion>>
    BY <1>13 DEF BroadcastConnectMessage, PublishFails, Fault, redis, page
  <2> QED
    BY <2>1, <2>2 DEF Moves, KeyOK, RoomInv, PresenceOK, OnlineOK, Ended, TakenOff,
       Attached, InHub, Gone, DeletionBegun
<1>14. ASSUME NEW s \in Sessions, SendText(s) PROVE OnlineOK'
  BY <1>14 DEF RoomInv, PresenceOK, OnlineOK, Ended, TakenOff, Attached, InHub,
     Gone, DeletionBegun, SendText, Goto, MayHandle, redis, page
<1>15. ASSUME NEW s \in Sessions, InsertRPush(s) PROVE OnlineOK'
  <2>1. Moves(s, "inserting", {"inserting", "flagging", "open"})
    BY <1>15, TwoOutcomes
  <2>2. UNCHANGED <<cid, online, deletion>>
    BY <1>15 DEF InsertRPush, Fault, page, past
  <2> QED
    BY <2>1, <2>2 DEF Moves, KeyOK, RoomInv, PresenceOK, OnlineOK, Ended, TakenOff,
       Attached, InHub, Gone, DeletionBegun
<1>16. ASSUME NEW s \in Sessions, InsertHSet(s) PROVE OnlineOK'
  <2>1. Moves(s, "flagging", {"publishing", "inserting", "open"})
    BY <1>16, TwoOutcomes
  <2>2. UNCHANGED <<cid, online, deletion>>
    BY <1>16 DEF InsertHSet, Fault, page, past
  <2> QED
    BY <2>1, <2>2 DEF Moves, KeyOK, RoomInv, PresenceOK, OnlineOK, Ended, TakenOff,
       Attached, InHub, Gone, DeletionBegun
<1>17. ASSUME NEW s \in Sessions, PublishText(s) PROVE OnlineOK'
  BY <1>17, RoomAssumption DEF RoomInv, PresenceOK, OnlineOK, Ended, TakenOff,
     Attached, InHub, Gone, DeletionBegun, KeyOK, PublishText, Goto, Publish, redis,
     page
<1>18. ASSUME NEW s \in Sessions, TellSeen(s) PROVE OnlineOK'
  BY <1>18, RoomAssumption DEF RoomInv, PresenceOK, OnlineOK, Ended, TakenOff,
     Attached, InHub, Gone, DeletionBegun, KeyOK, TellSeen, Goto, redis, page
<1>19. ASSUME NEW s \in Sessions, ReadFails(s) PROVE OnlineOK'
  BY <1>19 DEF RoomInv, PresenceOK, OnlineOK, Ended, TakenOff, Attached, InHub,
     DeletionBegun, ReadFails, Leave, Goto, redis
<1>20. ASSUME NEW s \in Sessions, CloseExpired(s) PROVE OnlineOK'
  BY <1>20 DEF RoomInv, PresenceOK, OnlineOK, Ended, TakenOff, Attached, InHub,
     DeletionBegun, CloseExpired, Leave, Goto, redis
<1>21. ASSUME NEW s \in Sessions, DeleteOnlineUser(s) PROVE OnlineOK'
  <2>1. Moves(s, "open", {"leaving", "lost"})
    BY <1>21, TwoOutcomes
  <2>2. UNCHANGED <<cid, deletion>>
    BY <1>21 DEF DeleteOnlineUser, Fault, page
  <2>3. \A x \in Sessions : UserOf[x] \in online => UserOf[x] \in online' \/ UserOf[x] = UserOf[s]
    BY <1>21 DEF DeleteOnlineUser, SetOnline
  <2>4. Ended(UserOf[s])'
    BY <2>1 DEF Moves, Ended, TakenOff
  <2>5. \A u : Ended(u) => Ended(u)'
    BY <2>1 DEF Moves, Ended, TakenOff
  <2> QED
    BY <2>1, <2>2, <2>3, <2>4, <2>5 DEF Moves, KeyOK, RoomInv, PresenceOK, OnlineOK,
       TakenOff, Attached, InHub, Gone, DeletionBegun
<1>22. ASSUME NEW s \in Sessions, BroadcastOffline(s) PROVE OnlineOK'
  BY <1>22 DEF RoomInv, PresenceOK, OnlineOK, Ended, TakenOff, Attached, InHub,
     DeletionBegun, BroadcastOffline, Goto, redis
<1>23. ASSUME NEW s \in Sessions, NEW m \in Senders, MarkMessageSeen(s, m)
     PROVE  OnlineOK'
  BY <1>23, RoomAssumption DEF RoomInv, PresenceOK, OnlineOK, Ended, TakenOff,
     Attached, InHub, Gone, DeletionBegun, MarkMessageSeen, Goto, MayHandle
<1>24. ASSUME \/ CreateChannel
              \/ \E u \in Users : AddUserToChannel(u) \/ Expire(u)
              \/ \E s \in Sessions : Close(s) \/ Drop(s) \/ FetchMessages(s)
              \/ \E s \in Sessions : \E m \in pending[s] : Visit(s, m) \/ Lose(s, m)
              \/ UNCHANGED vars
     PROVE  OnlineOK'
  <2>1. UNCHANGED <<pc, cid, online, deletion>>
    BY <1>24 DEF CreateChannel, AddUserToChannel, Expire, Close, Drop,
       FetchMessages, Visit, Lose, redis, vars
  <2> QED
    BY <2>1 DEF RoomInv, PresenceOK, OnlineOK, Ended, TakenOff, Attached, InHub,
       DeletionBegun
<1> QED
  <2>1. ASSUME NEW u \in Users,
               AddUserToChannel(u) \/ Expire(u) \/ DeleteCheck(u) \/ DeleteChannel(u)
        PROVE  OnlineOK'
    BY <2>1, <1>1, <1>2, <1>3, <1>4, <1>5, <1>24 DEF DeleteChannel
  <2>2. ASSUME NEW s \in Sessions,
               \/ StartChat(s) \/ Connect(s) \/ SendText(s) \/ Handle(s)
               \/ Close(s) \/ Drop(s) \/ End(s) \/ FetchMessages(s)
        PROVE  OnlineOK'
    BY <2>2, <1>6, <1>7, <1>8, <1>9, <1>10, <1>11, <1>12, <1>13, <1>14, <1>15,
       <1>16, <1>17, <1>18, <1>19, <1>20, <1>21, <1>22, <1>24 DEF Connect, Handle,
       End
  <2>3. ASSUME NEW s \in Sessions,
               \/ \E m \in Senders : MarkMessageSeen(s, m)
               \/ \E m \in pending[s] : Visit(s, m) \/ Lose(s, m)
        PROVE  OnlineOK'
    BY <2>3, <1>23, <1>24
  <2> QED
    BY <2>1, <2>2, <2>3, <1>24 DEF Next

\* Nobody stays on the list whose sessions have all taken him off.
LEMMA NoGhostOnlineStep ==
  ASSUME RoomInv, [Next]_vars
  PROVE  NoGhostOnline'
<1>1. ASSUME NEW u \in Users, DeleteAllOnlineUsers(u) PROVE NoGhostOnline'
  BY <1>1 DEF RoomInv, PresenceOK, NoGhostOnline, TakenOff, InHub,
     DeleteAllOnlineUsers, SetOnline
<1>2. ASSUME NEW s \in Sessions, StartChat(s) PROVE NoGhostOnline'
  BY <1>2 DEF RoomInv, PresenceOK, NoGhostOnline, TakenOff, InHub, TypeOK,
     StartChat, Goto, redis, page
<1>3. ASSUME NEW s \in Sessions, Upgrade(s) PROVE NoGhostOnline'
  BY <1>3 DEF RoomInv, PresenceOK, NoGhostOnline, TakenOff, InHub, Upgrade, Goto,
     redis
<1>4. ASSUME NEW s \in Sessions, ConnectExpired(s) PROVE NoGhostOnline'
  BY <1>4 DEF RoomInv, PresenceOK, NoGhostOnline, TakenOff, InHub, Gone,
     ConnectExpired, Goto, redis
<1>5. ASSUME NEW s \in Sessions, AddOnlineUser(s) PROVE NoGhostOnline'
  <2>1. /\ pc[s] = "registered"
        /\ pc' = [pc EXCEPT ![s] = "added"] \/ pc' = [pc EXCEPT ![s] = "open"]
        /\ online' \subseteq online \cup {UserOf[s]}
    BY <1>5 DEF AddOnlineUser, Goto, SetOnline
  <2>2. (InHub(s) /\ ~TakenOff(s))'
    BY <2>1 DEF RoomInv, TypeOK, InHub, Gone, TakenOff
  <2>3. \A x \in Sessions \ {s} : pc'[x] = pc[x]
    BY <2>1 DEF RoomInv, TypeOK
  <2>4. pc[s] # "lost"
    BY <2>1
  <2> QED
    BY <2>1, <2>2, <2>3, <2>4
    DEF RoomInv, PresenceOK, NoGhostOnline, TakenOff, InHub
<1>6. ASSUME NEW s \in Sessions, SetCid(s) PROVE NoGhostOnline'
  BY <1>6 DEF RoomInv, PresenceOK, NoGhostOnline, TakenOff, InHub, Gone, SetCid,
     Goto, redis
<1>7. ASSUME NEW s \in Sessions, FindChannel(s) PROVE NoGhostOnline'
  <2>1. /\ UNCHANGED online
        /\ pc' = [pc EXCEPT ![s] = "counted"] \/ pc' = [pc EXCEPT ![s] = "open"]
        /\ pc[s] = "counting"
    BY <1>7 DEF FindChannel, Goto, redis
  <2> QED
    BY <2>1 DEF RoomInv, PresenceOK, NoGhostOnline, TakenOff, InHub, Gone, TypeOK
<1>8. ASSUME NEW s \in Sessions, CountOnline(s) PROVE NoGhostOnline'
  BY <1>8 DEF RoomInv, PresenceOK, NoGhostOnline, TakenOff, InHub, Gone,
     CountOnline, Goto, redis
<1>9. ASSUME NEW s \in Sessions, BroadcastConnectMessage(s) PROVE NoGhostOnline'
  BY <1>9 DEF RoomInv, PresenceOK, NoGhostOnline, TakenOff, InHub, Gone,
     BroadcastConnectMessage, Goto, redis
<1>10. ASSUME NEW s \in Sessions, SendText(s) PROVE NoGhostOnline'
  BY <1>10 DEF RoomInv, PresenceOK, NoGhostOnline, TakenOff, InHub, Gone, SendText,
     Goto, redis
<1>11. ASSUME NEW s \in Sessions, InsertRPush(s) PROVE NoGhostOnline'
  <2>1. Moves(s, "inserting", {"inserting", "flagging", "open"})
    BY <1>11, TwoOutcomes
  <2>2. UNCHANGED online
    BY <1>11 DEF InsertRPush
  <2> QED
    BY <2>1, <2>2 DEF Moves, RoomInv, PresenceOK, NoGhostOnline, TakenOff, InHub,
       Gone
<1>12. ASSUME NEW s \in Sessions, InsertHSet(s) PROVE NoGhostOnline'
  <2>1. Moves(s, "flagging", {"publishing", "inserting", "open"})
    BY <1>12, TwoOutcomes
  <2>2. UNCHANGED online
    BY <1>12 DEF InsertHSet
  <2> QED
    BY <2>1, <2>2 DEF Moves, RoomInv, PresenceOK, NoGhostOnline, TakenOff, InHub,
       Gone
<1>13. ASSUME NEW s \in Sessions, PublishText(s) PROVE NoGhostOnline'
  BY <1>13 DEF RoomInv, PresenceOK, NoGhostOnline, TakenOff, InHub, Gone,
     PublishText, Goto, redis
<1>14. ASSUME NEW s \in Sessions, TellSeen(s) PROVE NoGhostOnline'
  BY <1>14 DEF RoomInv, PresenceOK, NoGhostOnline, TakenOff, InHub, Gone, TellSeen,
     Goto, redis
<1>15. ASSUME NEW s \in Sessions, ReadFails(s) PROVE NoGhostOnline'
  BY <1>15 DEF RoomInv, PresenceOK, NoGhostOnline, TakenOff, InHub, ReadFails,
     Leave, Goto, redis
<1>16. ASSUME NEW s \in Sessions, CloseExpired(s) PROVE NoGhostOnline'
  BY <1>16 DEF RoomInv, PresenceOK, NoGhostOnline, TakenOff, InHub, CloseExpired,
     Leave, Goto, redis
<1>17. ASSUME NEW s \in Sessions, DeleteOnlineUser(s) PROVE NoGhostOnline'
  <2>1. \/ /\ pc' = [pc EXCEPT ![s] = "leaving"]
           /\ online' = online \ {UserOf[s]}
        \/ /\ pc' = [pc EXCEPT ![s] = "lost"]
           /\ online' \subseteq online
    BY <1>17 DEF DeleteOnlineUser, Leave, Goto, SetOnline
  <2>2. \A x \in Sessions \ {s} : pc'[x] = pc[x]
    BY <2>1 DEF RoomInv, TypeOK
  <2>3. pc'[s] = "lost" \/ UserOf[s] \notin online'
    BY <2>1 DEF RoomInv, TypeOK
  <2>4. online' \subseteq online
    BY <2>1
  <2> QED
    BY <2>2, <2>3, <2>4 DEF RoomInv, PresenceOK, NoGhostOnline, TakenOff, InHub
<1>18. ASSUME NEW s \in Sessions, BroadcastOffline(s) PROVE NoGhostOnline'
  BY <1>18 DEF RoomInv, PresenceOK, NoGhostOnline, TakenOff, InHub,
     BroadcastOffline, Goto, redis
<1>19. ASSUME NEW s \in Sessions, NEW m \in Senders, MarkMessageSeen(s, m)
     PROVE  NoGhostOnline'
  BY <1>19 DEF RoomInv, PresenceOK, NoGhostOnline, TakenOff, InHub, Gone,
     MarkMessageSeen, Goto
<1>20. ASSUME \/ CreateChannel
              \/ \E u \in Users : AddUserToChannel(u) \/ Expire(u) \/ DeleteCheck(u)
                    \/ BroadcastLeaved(u) \/ DeleteName(u) \/ DeleteMembers(u)
              \/ \E s \in Sessions : Close(s) \/ Drop(s) \/ FetchMessages(s)
              \/ \E s \in Sessions : \E m \in pending[s] : Visit(s, m) \/ Lose(s, m)
              \/ UNCHANGED vars
     PROVE  NoGhostOnline'
  <2>1. UNCHANGED <<pc, online>>
    BY <1>20 DEF CreateChannel, AddUserToChannel, Expire, DeleteCheck,
       BroadcastLeaved, DeleteName, DeleteMembers, Close, Drop, FetchMessages,
       Visit, Lose, redis, vars
  <2> QED
    BY <2>1 DEF RoomInv, PresenceOK, NoGhostOnline, TakenOff, InHub
<1> QED
  <2>1. ASSUME NEW u \in Users,
               AddUserToChannel(u) \/ Expire(u) \/ DeleteCheck(u) \/ DeleteChannel(u)
        PROVE  NoGhostOnline'
    BY <2>1, <1>1, <1>20 DEF DeleteChannel
  <2>2. ASSUME NEW s \in Sessions,
               \/ StartChat(s) \/ Connect(s) \/ SendText(s) \/ Handle(s)
               \/ Close(s) \/ Drop(s) \/ End(s) \/ FetchMessages(s)
        PROVE  NoGhostOnline'
    BY <2>2, <1>2, <1>3, <1>4, <1>5, <1>6, <1>7, <1>8, <1>9, <1>10, <1>11, <1>12,
       <1>13, <1>14, <1>15, <1>16, <1>17, <1>18, <1>20 DEF Connect, Handle, End
  <2>3. ASSUME NEW s \in Sessions,
               \/ \E m \in Senders : MarkMessageSeen(s, m)
               \/ \E m \in pending[s] : Visit(s, m) \/ Lose(s, m)
        PROVE  NoGhostOnline'
    BY <2>3, <1>19, <1>20
  <2> QED
    BY <2>1, <2>2, <2>3, <1>20 DEF Next

\* Only CountOnline says something, after it has added its own user.
LEMMA NotBothWaitingStep ==
  ASSUME RoomInv, [Next]_vars
  PROVE  NotBothWaiting'
<1>1. ASSUME NEW u \in Users, DeleteCheck(u) PROVE NotBothWaiting'
  BY <1>1 DEF RoomInv, NotBothWaiting, DeletionBegun, TypeOK, DeleteCheck
<1>2. ASSUME NEW u \in Users, BroadcastLeaved(u) PROVE NotBothWaiting'
  BY <1>2 DEF RoomInv, NotBothWaiting, DeletionBegun, TypeOK, BroadcastLeaved
<1>3. ASSUME NEW u \in Users, DeleteName(u) PROVE NotBothWaiting'
  BY <1>3 DEF RoomInv, NotBothWaiting, DeletionBegun, TypeOK, DeleteName,
     DeletionStep
<1>4. ASSUME NEW u \in Users, DeleteMembers(u) PROVE NotBothWaiting'
  BY <1>4 DEF RoomInv, NotBothWaiting, DeletionBegun, TypeOK, DeleteMembers,
     DeletionStep
<1>5. ASSUME NEW u \in Users, DeleteAllOnlineUsers(u) PROVE NotBothWaiting'
  BY <1>5 DEF RoomInv, NotBothWaiting, DeletionBegun, TypeOK, DeleteAllOnlineUsers,
     DeletionStep
<1>6. ASSUME NEW s \in Sessions, StartChat(s) PROVE NotBothWaiting'
  <2>1. Moves(s, "out", {"upgrading", "refused"})
    BY <1>6, TwoOutcomes
  <2>2. UNCHANGED <<says, deletion>>
    BY <1>6 DEF StartChat, Fault, redis, page, past
  <2> QED
    BY <2>1, <2>2 DEF Moves, RoomInv, PresenceOK, NotBothWaiting, TakenOff,
       DeletionBegun
<1>7. ASSUME NEW s \in Sessions, Upgrade(s) PROVE NotBothWaiting'
  <2>1. Moves(s, "upgrading", {"registered"})
    BY <1>7, TwoOutcomes
  <2>2. UNCHANGED <<says, deletion>>
    BY <1>7 DEF Upgrade, redis, page, past
  <2> QED
    BY <2>1, <2>2 DEF Moves, RoomInv, PresenceOK, NotBothWaiting, TakenOff,
       DeletionBegun
<1>8. ASSUME NEW s \in Sessions, ConnectExpired(s) PROVE NotBothWaiting'
  BY <1>8 DEF RoomInv, PresenceOK, NotBothWaiting, TakenOff, DeletionBegun,
     ConnectExpired, Goto, past
<1>9. ASSUME NEW s \in Sessions, AddOnlineUser(s) PROVE NotBothWaiting'
  <2>1. Moves(s, "registered", {"added", "open"})
    BY <1>9, TwoOutcomes
  <2>2. UNCHANGED <<says, deletion>>
    BY <1>9 DEF AddOnlineUser, Fault, page
  <2> QED
    BY <2>1, <2>2 DEF Moves, RoomInv, PresenceOK, NotBothWaiting, TakenOff,
       DeletionBegun
<1>10. ASSUME NEW s \in Sessions, SetCid(s) PROVE NotBothWaiting'
  BY <1>10 DEF RoomInv, PresenceOK, NotBothWaiting, TakenOff, DeletionBegun, SetCid,
     Goto, past
<1>11. ASSUME NEW s \in Sessions, FindChannel(s) PROVE NotBothWaiting'
  <2>1. Moves(s, "counting", {"counted", "open"})
    BY <1>11, TwoOutcomes
  <2>2. UNCHANGED <<says, deletion>>
    BY <1>11 DEF FindChannel, Fault, redis, page
  <2> QED
    BY <2>1, <2>2 DEF Moves, RoomInv, PresenceOK, NotBothWaiting, TakenOff,
       DeletionBegun
<1>12. ASSUME NEW s \in Sessions, CountOnline(s) PROVE NotBothWaiting'
  <2>1. /\ UNCHANGED <<online, deletion>>
        /\ pc[s] = "counted" /\ pc' = [pc EXCEPT ![s] = "announcing"]
        /\ \A x \in Sessions \ {s} : says'[x] = says[x]
    BY <1>12 DEF CountOnline, Goto, redis, RoomInv, TypeOK
  <2>2. \A u : Ended(u) => Ended(u)'
    BY <2>1 DEF Ended, TakenOff, RoomInv, TypeOK
  <2>3. DeletionBegun' = DeletionBegun
    BY <2>1 DEF DeletionBegun
  <2>4. ASSUME NEW t \in Sessions \ {s}, UserOf[t] # UserOf[s],
               says'[s] = "waiting", says'[t] = "waiting"
        PROVE  DeletionBegun \/ Ended(UserOf[s]) \/ Ended(UserOf[t])
    BY <1>12, <2>1, <2>4, CountsHimself, WhoWaitsIsOnline
  <2>5. ASSUME NEW t \in Sessions \ {s}, NEW x \in Sessions \ {s},
               UserOf[t] # UserOf[x], says'[x] = "waiting", says'[t] = "waiting"
        PROVE  DeletionBegun \/ Ended(UserOf[x]) \/ Ended(UserOf[t])
    BY <2>1, <2>5 DEF RoomInv, PresenceOK, NotBothWaiting, Ended
  <2> QED
    BY <2>2, <2>3, <2>4, <2>5 DEF NotBothWaiting, Ended
<1>13. ASSUME NEW s \in Sessions, BroadcastConnectMessage(s) PROVE NotBothWaiting'
  <2>1. Moves(s, "announcing", {"open"})
    BY <1>13, TwoOutcomes
  <2>2. UNCHANGED <<says, deletion>>
    BY <1>13 DEF BroadcastConnectMessage, PublishFails, Fault, redis, page
  <2> QED
    BY <2>1, <2>2 DEF Moves, RoomInv, PresenceOK, NotBothWaiting, TakenOff,
       DeletionBegun
<1>14. ASSUME NEW s \in Sessions, SendText(s) PROVE NotBothWaiting'
  BY <1>14 DEF RoomInv, PresenceOK, NotBothWaiting, TakenOff, DeletionBegun,
     SendText, Goto, MayHandle, past
<1>15. ASSUME NEW s \in Sessions, InsertRPush(s) PROVE NotBothWaiting'
  <2>1. Moves(s, "inserting", {"inserting", "flagging", "open"})
    BY <1>15, TwoOutcomes
  <2>2. UNCHANGED <<says, deletion>>
    BY <1>15 DEF InsertRPush, Fault, page, past
  <2> QED
    BY <2>1, <2>2 DEF Moves, RoomInv, PresenceOK, NotBothWaiting, TakenOff,
       DeletionBegun
<1>16. ASSUME NEW s \in Sessions, InsertHSet(s) PROVE NotBothWaiting'
  <2>1. Moves(s, "flagging", {"publishing", "inserting", "open"})
    BY <1>16, TwoOutcomes
  <2>2. UNCHANGED <<says, deletion>>
    BY <1>16 DEF InsertHSet, Fault, page, past
  <2> QED
    BY <2>1, <2>2 DEF Moves, RoomInv, PresenceOK, NotBothWaiting, TakenOff,
       DeletionBegun
<1>17. ASSUME NEW s \in Sessions, PublishText(s) PROVE NotBothWaiting'
  BY <1>17 DEF RoomInv, PresenceOK, NotBothWaiting, TakenOff, DeletionBegun,
     PublishText, Goto
<1>18. ASSUME NEW s \in Sessions, TellSeen(s) PROVE NotBothWaiting'
  BY <1>18 DEF RoomInv, PresenceOK, NotBothWaiting, TakenOff, DeletionBegun,
     TellSeen, Goto
<1>19. ASSUME NEW s \in Sessions, ReadFails(s) PROVE NotBothWaiting'
  BY <1>19 DEF RoomInv, PresenceOK, NotBothWaiting, TakenOff, DeletionBegun,
     ReadFails, Leave, Goto, past
<1>20. ASSUME NEW s \in Sessions, CloseExpired(s) PROVE NotBothWaiting'
  BY <1>20 DEF RoomInv, PresenceOK, NotBothWaiting, TakenOff, DeletionBegun,
     CloseExpired, Leave, Goto, past
<1>21. ASSUME NEW s \in Sessions, DeleteOnlineUser(s) PROVE NotBothWaiting'
  <2>1. Moves(s, "open", {"leaving", "lost"})
    BY <1>21, TwoOutcomes
  <2>2. UNCHANGED <<says, deletion>>
    BY <1>21 DEF DeleteOnlineUser, Fault, page
  <2> QED
    BY <2>1, <2>2 DEF Moves, RoomInv, PresenceOK, NotBothWaiting, TakenOff,
       DeletionBegun
<1>22. ASSUME NEW s \in Sessions, BroadcastOffline(s) PROVE NotBothWaiting'
  BY <1>22 DEF RoomInv, PresenceOK, NotBothWaiting, TakenOff, DeletionBegun,
     BroadcastOffline, Goto
<1>23. ASSUME NEW s \in Sessions, NEW m \in Senders, MarkMessageSeen(s, m)
     PROVE  NotBothWaiting'
  BY <1>23 DEF RoomInv, PresenceOK, NotBothWaiting, TakenOff, DeletionBegun,
     MarkMessageSeen, Goto, MayHandle
<1>24. ASSUME \/ CreateChannel
              \/ \E u \in Users : AddUserToChannel(u) \/ Expire(u)
              \/ \E s \in Sessions : Close(s) \/ Drop(s) \/ FetchMessages(s)
              \/ \E s \in Sessions : \E m \in pending[s] : Visit(s, m) \/ Lose(s, m)
              \/ UNCHANGED vars
     PROVE  NotBothWaiting'
  <2>1. UNCHANGED <<pc, says, deletion>>
    BY <1>24 DEF CreateChannel, AddUserToChannel, Expire, Close, Drop,
       FetchMessages, Visit, Lose, past, vars
  <2> QED
    BY <2>1 DEF RoomInv, PresenceOK, NotBothWaiting, TakenOff, DeletionBegun
<1> QED
  <2>1. ASSUME NEW u \in Users,
               AddUserToChannel(u) \/ Expire(u) \/ DeleteCheck(u) \/ DeleteChannel(u)
        PROVE  NotBothWaiting'
    BY <2>1, <1>1, <1>2, <1>3, <1>4, <1>5, <1>24 DEF DeleteChannel
  <2>2. ASSUME NEW s \in Sessions,
               \/ StartChat(s) \/ Connect(s) \/ SendText(s) \/ Handle(s)
               \/ Close(s) \/ Drop(s) \/ End(s) \/ FetchMessages(s)
        PROVE  NotBothWaiting'
    BY <2>2, <1>6, <1>7, <1>8, <1>9, <1>10, <1>11, <1>12, <1>13, <1>14, <1>15,
       <1>16, <1>17, <1>18, <1>19, <1>20, <1>21, <1>22, <1>24 DEF Connect, Handle,
       End
  <2>3. ASSUME NEW s \in Sessions,
               \/ \E m \in Senders : MarkMessageSeen(s, m)
               \/ \E m \in pending[s] : Visit(s, m) \/ Lose(s, m)
        PROVE  NotBothWaiting'
    BY <2>3, <1>23, <1>24
  <2> QED
    BY <2>1, <2>2, <2>3, <1>24 DEF Next

\* The history only grows.
LEMMA StoredOKStep ==
  ASSUME RoomInv, [Next]_vars
  PROVE  StoredOK'
<1>1. ASSUME NEW s \in Sessions, StartChat(s) PROVE StoredOK'
  <2>1. Moves(s, "out", {"upgrading", "refused"})
    BY <1>1, TwoOutcomes
  <2>2. UNCHANGED <<history, published, fetched>>
    BY <1>1 DEF StartChat, Fault, redis, page, past
  <2> QED
    BY <2>1, <2>2 DEF Moves, RoomInv, StoredOK, InHistory, TypeOK
<1>2. ASSUME NEW s \in Sessions, Upgrade(s) PROVE StoredOK'
  BY <1>2 DEF RoomInv, StoredOK, InHistory, Upgrade, Goto, redis, page, past
<1>3. ASSUME NEW s \in Sessions, ConnectExpired(s) PROVE StoredOK'
  BY <1>3 DEF RoomInv, StoredOK, InHistory, ConnectExpired, Goto, redis, page, past
<1>4. ASSUME NEW s \in Sessions, AddOnlineUser(s) PROVE StoredOK'
  BY <1>4 DEF RoomInv, StoredOK, InHistory, TypeOK, AddOnlineUser, Goto, Fault, page
<1>5. ASSUME NEW s \in Sessions, SetCid(s) PROVE StoredOK'
  BY <1>5 DEF RoomInv, StoredOK, InHistory, SetCid, Goto, redis, page, past
<1>6. ASSUME NEW s \in Sessions, FindChannel(s) PROVE StoredOK'
  BY <1>6 DEF RoomInv, StoredOK, InHistory, TypeOK, FindChannel, Goto, redis, page
<1>7. ASSUME NEW s \in Sessions, CountOnline(s) PROVE StoredOK'
  BY <1>7 DEF RoomInv, StoredOK, InHistory, CountOnline, Goto, redis, page
<1>8. ASSUME NEW s \in Sessions, BroadcastConnectMessage(s) PROVE StoredOK'
  BY <1>8 DEF RoomInv, StoredOK, InHistory, BroadcastConnectMessage, Goto, redis,
     page
<1>9. ASSUME NEW s \in Sessions, SendText(s) PROVE StoredOK'
  BY <1>9 DEF RoomInv, StoredOK, InHistory, SendText, Goto, redis, page, past
<1>10. ASSUME NEW s \in Sessions, InsertRPush(s) PROVE StoredOK'
  <2>1. UNCHANGED <<published, fetched>>
    BY <1>10 DEF InsertRPush, page, past
  <2>2. Moves(s, "inserting", {"inserting", "flagging", "open"})
    BY <1>10, TwoOutcomes
  <2>3. \A m : InHistory(m) => InHistory(m)'
    BY <1>10, HistoryGrows DEF InHistory
  <2>4. \A x \in Sessions : fetched'[x].len <= Len(history')
    <3>1. \A x \in Sessions : fetched[x].len \in Int /\ fetched[x].len <= Len(history)
      BY DEF RoomInv, TypeOK, StoredOK
    <3> QED
      BY <1>10, <2>1, <3>1, HistoryGrows
  <2>5. pc'[s] = "flagging" => InHistory(s)'
    BY <1>10, HistoryGrows
  <2> QED
    BY <2>1, <2>2, <2>3, <2>4, <2>5 DEF Moves, RoomInv, StoredOK
<1>11. ASSUME NEW s \in Sessions, InsertHSet(s) PROVE StoredOK'
  BY <1>11 DEF RoomInv, StoredOK, InHistory, TypeOK, InsertHSet, Goto, page, past
<1>12. ASSUME NEW s \in Sessions, PublishText(s) PROVE StoredOK'
  BY <1>12 DEF RoomInv, StoredOK, InHistory, TypeOK, PublishText, Goto, redis, page
<1>13. ASSUME NEW s \in Sessions, TellSeen(s) PROVE StoredOK'
  BY <1>13 DEF RoomInv, StoredOK, InHistory, TellSeen, Goto, redis, page
<1>14. ASSUME NEW s \in Sessions, ReadFails(s) PROVE StoredOK'
  BY <1>14 DEF RoomInv, StoredOK, InHistory, ReadFails, Leave, Goto, redis, page,
     past
<1>15. ASSUME NEW s \in Sessions, CloseExpired(s) PROVE StoredOK'
  BY <1>15 DEF RoomInv, StoredOK, InHistory, CloseExpired, Leave, Goto, redis, page,
     past
<1>16. ASSUME NEW s \in Sessions, DeleteOnlineUser(s) PROVE StoredOK'
  <2>1. Moves(s, "open", {"leaving", "lost"})
    BY <1>16, TwoOutcomes
  <2>2. UNCHANGED <<history, published, fetched>>
    BY <1>16 DEF DeleteOnlineUser, Fault, page
  <2> QED
    BY <2>1, <2>2 DEF Moves, RoomInv, StoredOK, InHistory, TypeOK
<1>17. ASSUME NEW s \in Sessions, BroadcastOffline(s) PROVE StoredOK'
  BY <1>17 DEF RoomInv, StoredOK, InHistory, BroadcastOffline, Goto, redis, page
<1>18. ASSUME NEW s \in Sessions, FetchMessages(s) PROVE StoredOK'
  BY <1>18 DEF RoomInv, StoredOK, InHistory, FetchMessages, redis, past
<1>19. ASSUME NEW s \in Sessions, NEW m \in Senders, MarkMessageSeen(s, m)
     PROVE  StoredOK'
  BY <1>19 DEF RoomInv, StoredOK, InHistory, MarkMessageSeen, Goto, page
<1>20. ASSUME \/ CreateChannel
              \/ \E u \in Users : AddUserToChannel(u) \/ Expire(u) \/ DeleteCheck(u)
                    \/ BroadcastLeaved(u) \/ DeleteName(u) \/ DeleteMembers(u) \/
                    DeleteAllOnlineUsers(u)
              \/ \E s \in Sessions : Close(s) \/ Drop(s)
              \/ \E s \in Sessions : \E m \in pending[s] : Visit(s, m) \/ Lose(s, m)
              \/ UNCHANGED vars
     PROVE  StoredOK'
  <2>1. UNCHANGED <<history, published, pc, fetched>>
    BY <1>20 DEF CreateChannel, AddUserToChannel, Expire, DeleteCheck,
       BroadcastLeaved, DeleteName, DeleteMembers, DeleteAllOnlineUsers, Close,
       Drop, Visit, Lose, redis, page, past, vars
  <2> QED
    BY <2>1 DEF RoomInv, StoredOK, InHistory
<1> QED
  <2>1. ASSUME NEW u \in Users,
               AddUserToChannel(u) \/ Expire(u) \/ DeleteCheck(u) \/ DeleteChannel(u)
        PROVE  StoredOK'
    BY <2>1, <1>20 DEF DeleteChannel
  <2>2. ASSUME NEW s \in Sessions,
               \/ StartChat(s) \/ Connect(s) \/ SendText(s) \/ Handle(s)
               \/ Close(s) \/ Drop(s) \/ End(s) \/ FetchMessages(s)
        PROVE  StoredOK'
    BY <2>2, <1>1, <1>2, <1>3, <1>4, <1>5, <1>6, <1>7, <1>8, <1>9, <1>10, <1>11,
       <1>12, <1>13, <1>14, <1>15, <1>16, <1>17, <1>18, <1>20 DEF Connect, Handle,
       End
  <2>3. ASSUME NEW s \in Sessions,
               \/ \E m \in Senders : MarkMessageSeen(s, m)
               \/ \E m \in pending[s] : Visit(s, m) \/ Lose(s, m)
        PROVE  StoredOK'
    BY <2>3, <1>19, <1>20
  <2> QED
    BY <2>1, <2>2, <2>3, <1>20 DEF Next

\* InsertHSet takes back no mark but an early one.
LEMMA MarkedOKStep ==
  ASSUME RoomInv, [Next]_vars
  PROVE  MarkedOK'
<1>1. ASSUME NEW u \in Users, BroadcastLeaved(u) PROVE MarkedOK'
  <2>1. UNCHANGED <<seen, early, published, ticks, subject, pc>>
    BY <1>1 DEF BroadcastLeaved, redis, page
  <2>2. \A x \in Sessions : \A m \in pending'[x] :
          m.kind = "seen" => m \in pending[x]
    BY <1>1, Messages, PublishAdds DEF BroadcastLeaved, PublishFails
  <2> QED
    BY <2>1, <2>2 DEF RoomInv, MarkedOK, Marked
<1>2. ASSUME NEW s \in Sessions, StartChat(s) PROVE MarkedOK'
  <2>1. Moves(s, "out", {"upgrading", "refused"})
    BY <1>2, TwoOutcomes
  <2>2. UNCHANGED <<seen, early, published, ticks, subject>>
    BY <1>2 DEF StartChat, redis, page, past
  <2>3. \A x \in Sessions : pending'[x] \subseteq pending[x]
    BY <1>2, StartChatShrinks
  <2> QED
    BY <2>1, <2>2, <2>3 DEF Moves, RoomInv, MarkedOK, Marked
<1>3. ASSUME NEW s \in Sessions, Upgrade(s) PROVE MarkedOK'
  BY <1>3 DEF RoomInv, MarkedOK, Marked, Upgrade, Goto, redis, page, past
<1>4. ASSUME NEW s \in Sessions, ConnectExpired(s) PROVE MarkedOK'
  BY <1>4 DEF RoomInv, MarkedOK, Marked, ConnectExpired, Goto, redis, page, past
<1>5. ASSUME NEW s \in Sessions, AddOnlineUser(s) PROVE MarkedOK'
  BY <1>5 DEF RoomInv, MarkedOK, Marked, TypeOK, AddOnlineUser, Goto, page
<1>6. ASSUME NEW s \in Sessions, SetCid(s) PROVE MarkedOK'
  BY <1>6 DEF RoomInv, MarkedOK, Marked, SetCid, Goto, redis, page, past
<1>7. ASSUME NEW s \in Sessions, FindChannel(s) PROVE MarkedOK'
  BY <1>7 DEF RoomInv, MarkedOK, Marked, TypeOK, FindChannel, Goto, redis, page
<1>8. ASSUME NEW s \in Sessions, CountOnline(s) PROVE MarkedOK'
  BY <1>8 DEF RoomInv, MarkedOK, Marked, CountOnline, Goto, redis, page
<1>9. ASSUME NEW s \in Sessions, BroadcastConnectMessage(s) PROVE MarkedOK'
  <2>1. Moves(s, "announcing", {"open"})
    BY <1>9, TwoOutcomes
  <2>2. UNCHANGED <<seen, early, published, ticks, subject>>
    BY <1>9 DEF BroadcastConnectMessage, redis, page
  <2>3. \A x \in Sessions : \A m \in pending'[x] :
          m.kind = "seen" => m \in pending[x]
    BY <1>9, ConnectAdds
  <2> QED
    BY <2>1, <2>2, <2>3 DEF Moves, RoomInv, MarkedOK, Marked
<1>10. ASSUME NEW s \in Sessions, SendText(s) PROVE MarkedOK'
  BY <1>10 DEF RoomInv, MarkedOK, Marked, SendText, Goto, redis, page, past
<1>11. ASSUME NEW s \in Sessions, InsertRPush(s) PROVE MarkedOK'
  BY <1>11 DEF RoomInv, MarkedOK, Marked, TypeOK, InsertRPush, Goto, page, past
<1>12. ASSUME NEW s \in Sessions, InsertHSet(s) PROVE MarkedOK'
  <2>1. Moves(s, "flagging", {"publishing", "inserting", "open"})
    BY <1>12, TwoOutcomes
  <2>2. /\ UNCHANGED <<early, published, ticks, subject, pending>>
        /\ seen \ {s} \subseteq seen' /\ seen' \subseteq seen
    BY <1>12 DEF InsertHSet, page, past
  <2>3. s \in seen => s \in early
    BY <2>1 DEF Moves, RoomInv, StoredOK, MarkedOK
  <2>4. \A m : Marked(m) => Marked(m)'
    BY <2>2, <2>3 DEF Marked
  <2> QED
    BY <2>1, <2>2, <2>3, <2>4 DEF Moves, RoomInv, MarkedOK
<1>13. ASSUME NEW s \in Sessions, PublishText(s) PROVE MarkedOK'
  <2>1. Moves(s, "publishing", {"open"})
    BY <1>13, TwoOutcomes
  <2>2. UNCHANGED <<seen, early, ticks, subject>> /\ published \subseteq published'
    BY <1>13 DEF PublishText, redis, page
  <2>3. \A x \in Sessions : \A m \in pending'[x] :
          m.kind = "seen" => m \in pending[x]
    BY <1>13, Messages, PublishAdds DEF PublishText, PublishFails
  <2> QED
    BY <2>1, <2>2, <2>3 DEF Moves, RoomInv, MarkedOK, Marked
<1>14. ASSUME NEW s \in Sessions, TellSeen(s) PROVE MarkedOK'
  <2>1. Moves(s, "telling", {"open"})
    BY <1>14, TwoOutcomes
  <2>2. /\ UNCHANGED <<seen, early, published, ticks>>
        /\ \A x \in Sessions \ {s} : subject'[x] = subject[x]
    BY <1>14 DEF TellSeen, redis, page, RoomInv, TypeOK
  <2>3. Marked(subject[s])
    BY <1>14 DEF TellSeen, RoomInv, MarkedOK
  <2>4. \A x \in Sessions : \A m \in pending'[x] :
          m \in pending[x] \/ m = [kind |-> "seen", of |-> subject[s]]
    BY <1>14, Messages, PublishAdds DEF TellSeen, PublishFails, RoomInv, TypeOK
  <2> QED
    BY <2>1, <2>2, <2>3, <2>4 DEF Moves, RoomInv, MarkedOK, Marked
<1>15. ASSUME NEW s \in Sessions, ReadFails(s) PROVE MarkedOK'
  BY <1>15 DEF RoomInv, MarkedOK, Marked, ReadFails, Leave, Goto, redis, page, past
<1>16. ASSUME NEW s \in Sessions, CloseExpired(s) PROVE MarkedOK'
  BY <1>16 DEF RoomInv, MarkedOK, Marked, CloseExpired, Leave, Goto, redis, page,
     past
<1>17. ASSUME NEW s \in Sessions, DeleteOnlineUser(s) PROVE MarkedOK'
  BY <1>17 DEF RoomInv, MarkedOK, Marked, TypeOK, DeleteOnlineUser, Goto, Leave,
     page
<1>18. ASSUME NEW s \in Sessions, BroadcastOffline(s) PROVE MarkedOK'
  <2>1. Moves(s, "leaving", {"closed"})
    BY <1>18, TwoOutcomes
  <2>2. UNCHANGED <<seen, early, published, ticks, subject>>
    BY <1>18 DEF BroadcastOffline, redis, page
  <2>3. \A x \in Sessions :
          pending'[x] \subseteq pending[x] \cup {[kind |-> "offline", of |-> s]}
    BY <1>18, OfflineAdds
  <2>4. \A x \in Sessions : \A n \in pending'[x] : n.kind = "seen" => n \in pending[x]
    BY <2>3
  <2> QED
    BY <2>1, <2>2, <2>4 DEF Moves, RoomInv, MarkedOK, Marked
<1>19. ASSUME NEW s \in Sessions, NEW m \in Senders, MarkMessageSeen(s, m)
     PROVE  MarkedOK'
  BY <1>19 DEF RoomInv, MarkedOK, Marked, TypeOK, MarkMessageSeen, Goto, page
<1>20. ASSUME NEW s \in Sessions, NEW m \in pending[s], Visit(s, m) PROVE MarkedOK'
  BY <1>20 DEF RoomInv, MarkedOK, Marked, TypeOK, Visit, redis, past
<1>21. ASSUME NEW s \in Sessions, NEW m \in pending[s], Lose(s, m) PROVE MarkedOK'
  BY <1>21 DEF RoomInv, MarkedOK, Marked, Lose, redis, page
<1>22. ASSUME \/ CreateChannel
              \/ \E u \in Users : AddUserToChannel(u) \/ Expire(u) \/ DeleteCheck(u)
                    \/ DeleteName(u) \/ DeleteMembers(u) \/ DeleteAllOnlineUsers(u)
              \/ \E s \in Sessions : Close(s) \/ Drop(s) \/ FetchMessages(s)
              \/ UNCHANGED vars
     PROVE  MarkedOK'
  <2>1. UNCHANGED <<seen, published, early, ticks, pending, pc, subject>>
    BY <1>22 DEF CreateChannel, AddUserToChannel, Expire, DeleteCheck, DeleteName,
       DeleteMembers, DeleteAllOnlineUsers, Close, Drop, FetchMessages, redis, page,
       past, vars
  <2> QED
    BY <2>1 DEF RoomInv, MarkedOK, Marked
<1> QED
  <2>1. ASSUME NEW u \in Users,
               AddUserToChannel(u) \/ Expire(u) \/ DeleteCheck(u) \/ DeleteChannel(u)
        PROVE  MarkedOK'
    BY <2>1, <1>1, <1>22 DEF DeleteChannel
  <2>2. ASSUME NEW s \in Sessions,
               \/ StartChat(s) \/ Connect(s) \/ SendText(s) \/ Handle(s)
               \/ Close(s) \/ Drop(s) \/ End(s) \/ FetchMessages(s)
        PROVE  MarkedOK'
    BY <2>2, <1>2, <1>3, <1>4, <1>5, <1>6, <1>7, <1>8, <1>9, <1>10, <1>11, <1>12,
       <1>13, <1>14, <1>15, <1>16, <1>17, <1>18, <1>22 DEF Connect, Handle, End
  <2>3. ASSUME NEW s \in Sessions,
               \/ \E m \in Senders : MarkMessageSeen(s, m)
               \/ \E m \in pending[s] : Visit(s, m) \/ Lose(s, m)
        PROVE  MarkedOK'
    BY <2>3, <1>19, <1>20, <1>21
  <2> QED
    BY <2>1, <2>2, <2>3, <1>22 DEF Next

\* A text goes from the publisher to the visit, and from there to the page.
LEMMA DeliveredOKStep ==
  ASSUME RoomInv, [Next]_vars
  PROVE  DeliveredOK'
<1>1. ASSUME NEW u \in Users, BroadcastLeaved(u) PROVE DeliveredOK'
  <2>1. /\ UNCHANGED <<pc, cid, conn, fetched, live, published>> /\ UNCHANGED history
    BY <1>1 DEF BroadcastLeaved, redis, page
  <2>2. \A x \in Sessions : Attached(x)' => Attached(x)
    BY <2>1 DEF Moves, Attached, InHub, Gone
  <2>3. struck \subseteq struck'
    BY <1>1 DEF BroadcastLeaved, PublishFails, redis, page, RoomInv, TypeOK
  <2>4. \A x \in Sessions :
          Attached(x)' /\ x \notin struck' => pending[x] \subseteq pending'[x]
    BY <1>1, Messages, PublishAdds DEF BroadcastLeaved, PublishFails
  <2> QED
    BY <2>1, <2>2, <2>3, <2>4, DeliveredStays
<1>2. ASSUME NEW s \in Sessions, StartChat(s) PROVE DeliveredOK'
  <2>1. Moves(s, "out", {"upgrading", "refused"})
    BY <1>2, TwoOutcomes
  <2>2. /\ UNCHANGED <<cid, conn, fetched, live, published>> /\ UNCHANGED history
    BY <1>2 DEF StartChat, redis, page, past
  <2>3. \A x \in Sessions : Attached(x)' => Attached(x)
    BY <2>1, <2>2 DEF Moves, Attached, InHub, Gone
  <2>4. struck \subseteq struck'
    BY <1>2 DEF StartChat, redis, page, past, RoomInv, TypeOK
  <2>5. \A x \in Sessions :
          Attached(x)' /\ x \notin struck' => pending[x] \subseteq pending'[x]
    BY <2>1, <1>2 DEF StartChat, Moves, Attached, InHub, Gone, RoomInv, TypeOK
  <2> QED
    BY <2>1, <2>2, <2>3, <2>4, <2>5, DeliveredStays
<1>3. ASSUME NEW s \in Sessions, Upgrade(s) PROVE DeliveredOK'
  BY <1>3 DEF RoomInv, DeliveredOK, Attached, InHub, KeyOK, Upgrade, Goto, redis,
     page, past
<1>4. ASSUME NEW s \in Sessions, ConnectExpired(s) PROVE DeliveredOK'
  BY <1>4 DEF RoomInv, DeliveredOK, Attached, InHub, KeyOK, ConnectExpired, Goto,
     redis, page, past
<1>5. ASSUME NEW s \in Sessions, AddOnlineUser(s) PROVE DeliveredOK'
  <2>1. Moves(s, "registered", {"added", "open"})
    BY <1>5, TwoOutcomes
  <2>2. /\ UNCHANGED <<cid, conn, fetched, live, published>> /\ UNCHANGED history
    BY <1>5 DEF AddOnlineUser, page
  <2>3. \A x \in Sessions : Attached(x)' => Attached(x)
    BY <2>1, <2>2 DEF Moves, Attached, InHub, Gone
  <2>4. struck \subseteq struck'
    BY <1>5 DEF AddOnlineUser, page, RoomInv, TypeOK
  <2>5. \A x \in Sessions :
          Attached(x)' /\ x \notin struck' => pending[x] \subseteq pending'[x]
    BY <1>5 DEF AddOnlineUser, page
  <2> QED
    BY <2>1, <2>2, <2>3, <2>4, <2>5, DeliveredStays
<1>6. ASSUME NEW s \in Sessions, SetCid(s) PROVE DeliveredOK'
  BY <1>6 DEF RoomInv, DeliveredOK, Attached, InHub, KeyOK, SetCid, Goto, redis,
     page, past
<1>7. ASSUME NEW s \in Sessions, FindChannel(s) PROVE DeliveredOK'
  <2>1. Moves(s, "counting", {"counted", "open"})
    BY <1>7, TwoOutcomes
  <2>2. /\ UNCHANGED <<cid, conn, fetched, live, published>> /\ UNCHANGED history
    BY <1>7 DEF FindChannel, redis, page
  <2>3. \A x \in Sessions : Attached(x)' => Attached(x)
    BY <2>1, <2>2 DEF Moves, Attached, InHub, Gone
  <2>4. struck \subseteq struck'
    BY <1>7 DEF FindChannel, redis, page, RoomInv, TypeOK
  <2>5. \A x \in Sessions :
          Attached(x)' /\ x \notin struck' => pending[x] \subseteq pending'[x]
    BY <1>7 DEF FindChannel, redis, page
  <2> QED
    BY <2>1, <2>2, <2>3, <2>4, <2>5, DeliveredStays
<1>8. ASSUME NEW s \in Sessions, CountOnline(s) PROVE DeliveredOK'
  BY <1>8 DEF RoomInv, DeliveredOK, Attached, InHub, Gone, CountOnline, Goto, redis,
     page
<1>9. ASSUME NEW s \in Sessions, BroadcastConnectMessage(s) PROVE DeliveredOK'
  <2>1. Moves(s, "announcing", {"open"})
    BY <1>9, TwoOutcomes
  <2>2. /\ UNCHANGED <<cid, conn, fetched, live, published>> /\ UNCHANGED history
    BY <1>9 DEF BroadcastConnectMessage, redis, page
  <2>3. \A x \in Sessions : Attached(x)' => Attached(x)
    BY <2>1, <2>2 DEF Moves, Attached, InHub, Gone
  <2>4. struck \subseteq struck'
    BY <1>9 DEF BroadcastConnectMessage, PublishFails, redis, page, RoomInv, TypeOK
  <2>5. \A x \in Sessions :
          Attached(x)' /\ x \notin struck' => pending[x] \subseteq pending'[x]
    BY <1>9, ConnectAdds
  <2> QED
    BY <2>1, <2>2, <2>3, <2>4, <2>5, DeliveredStays
<1>10. ASSUME NEW s \in Sessions, SendText(s) PROVE DeliveredOK'
  BY <1>10 DEF RoomInv, DeliveredOK, Attached, InHub, Gone, SendText, Goto,
     MayHandle, redis, page, past
<1>11. ASSUME NEW s \in Sessions, InsertRPush(s) PROVE DeliveredOK'
  <2>1. Moves(s, "inserting", {"inserting", "flagging", "open"})
    BY <1>11, TwoOutcomes
  <2>2. /\ UNCHANGED <<cid, conn, fetched, live, published>>
    BY <1>11 DEF InsertRPush, page, past
  <2>3. \A x \in Sessions : Attached(x)' => Attached(x)
    BY <2>1, <2>2 DEF Moves, Attached, InHub, Gone
  <2>4. struck \subseteq struck'
    BY <1>11 DEF InsertRPush, page, past, RoomInv, TypeOK
  <2>5. \A x \in Sessions :
          Attached(x)' /\ x \notin struck' => pending[x] \subseteq pending'[x]
    BY <1>11 DEF InsertRPush, page, past
  <2>6. \A i \in 1..Len(history) : history'[i] = history[i]
    BY <1>11, HistoryGrows
  <2> QED
    BY <2>1, <2>2, <2>3, <2>4, <2>5, <2>6, DeliveredStays
<1>12. ASSUME NEW s \in Sessions, InsertHSet(s) PROVE DeliveredOK'
  <2>1. Moves(s, "flagging", {"publishing", "inserting", "open"})
    BY <1>12, TwoOutcomes
  <2>2. /\ UNCHANGED <<cid, conn, fetched, live, published>> /\ UNCHANGED history
    BY <1>12 DEF InsertHSet, page, past
  <2>3. \A x \in Sessions : Attached(x)' => Attached(x)
    BY <2>1, <2>2 DEF Moves, Attached, InHub, Gone
  <2>4. struck \subseteq struck'
    BY <1>12 DEF InsertHSet, page, past, RoomInv, TypeOK
  <2>5. \A x \in Sessions :
          Attached(x)' /\ x \notin struck' => pending[x] \subseteq pending'[x]
    BY <1>12 DEF InsertHSet, page, past
  <2> QED
    BY <2>1, <2>2, <2>3, <2>4, <2>5, DeliveredStays
<1>13. ASSUME NEW s \in Sessions, PublishText(s) PROVE DeliveredOK'
  BY <1>13 DEF RoomInv, DeliveredOK, Attached, InHub, Gone, StoredOK, PublishText,
     Goto, Publish, Concerns, PublishFails, redis, page
<1>14. ASSUME NEW s \in Sessions, TellSeen(s) PROVE DeliveredOK'
  <2>1. Moves(s, "telling", {"open"})
    BY <1>14, TwoOutcomes
  <2>2. /\ UNCHANGED <<cid, conn, fetched, live, published>> /\ UNCHANGED history
    BY <1>14 DEF TellSeen, redis, page
  <2>3. \A x \in Sessions : Attached(x)' => Attached(x)
    BY <2>1, <2>2 DEF Moves, Attached, InHub, Gone
  <2>4. struck \subseteq struck'
    BY <1>14 DEF TellSeen, PublishFails, redis, page, RoomInv, TypeOK
  <2>5. \A x \in Sessions :
          Attached(x)' /\ x \notin struck' => pending[x] \subseteq pending'[x]
    BY <1>14, Messages, PublishAdds DEF TellSeen, PublishFails, RoomInv, TypeOK
  <2> QED
    BY <2>1, <2>2, <2>3, <2>4, <2>5, DeliveredStays
<1>15. ASSUME NEW s \in Sessions, Close(s) PROVE DeliveredOK'
  BY <1>15 DEF RoomInv, DeliveredOK, Attached, InHub, Close, redis, page, past
<1>16. ASSUME NEW s \in Sessions, Drop(s) PROVE DeliveredOK'
  BY <1>16 DEF RoomInv, DeliveredOK, Attached, InHub, StoredOK, Drop, Fault, redis,
     page, past
<1>17. ASSUME NEW s \in Sessions, ReadFails(s) PROVE DeliveredOK'
  BY <1>17 DEF RoomInv, DeliveredOK, Attached, InHub, ReadFails, Leave, Goto, redis,
     page, past
<1>18. ASSUME NEW s \in Sessions, CloseExpired(s) PROVE DeliveredOK'
  BY <1>18 DEF RoomInv, DeliveredOK, Attached, InHub, CloseExpired, Leave, Goto,
     redis, page, past
<1>19. ASSUME NEW s \in Sessions, DeleteOnlineUser(s) PROVE DeliveredOK'
  <2>1. Moves(s, "open", {"leaving", "lost"})
    BY <1>19, TwoOutcomes
  <2>2. /\ UNCHANGED <<cid, conn, fetched, live, published>> /\ UNCHANGED history
    BY <1>19 DEF DeleteOnlineUser, page
  <2>3. \A x \in Sessions : Attached(x)' => Attached(x)
    BY <2>1, <2>2 DEF Moves, Attached, InHub, Gone
  <2>4. struck \subseteq struck'
    BY <1>19 DEF DeleteOnlineUser, page, RoomInv, TypeOK
  <2>5. \A x \in Sessions :
          Attached(x)' /\ x \notin struck' => pending[x] \subseteq pending'[x]
    BY <1>19, <2>1, <2>3 DEF DeleteOnlineUser, Leave, Moves, Attached, InHub, Gone,
       RoomInv, TypeOK
  <2> QED
    BY <2>1, <2>2, <2>3, <2>4, <2>5, DeliveredStays
<1>20. ASSUME NEW s \in Sessions, BroadcastOffline(s) PROVE DeliveredOK'
  <2>1. Moves(s, "leaving", {"closed"})
    BY <1>20, TwoOutcomes
  <2>2. UNCHANGED <<cid, conn, fetched, live, published, history>>
    BY <1>20 DEF BroadcastOffline, redis, page
  <2>3. \A x \in Sessions : Attached(x)' => Attached(x) /\ x # s
    BY <2>1, <2>2 DEF Moves, Attached, InHub, Gone
  <2>4. struck' = Sessions \/ struck' = struck
    BY <1>20 DEF BroadcastOffline
  <2>5. \/ struck' = Sessions
        \/ \A x \in Sessions \ {s} : Attached(x) => pending[x] \subseteq pending'[x]
    <3>1. \A x \in Sessions : Attached(x) => pc[x] \notin Gone
      BY DEF Attached, InHub
    <3>2. \/ struck' = Sessions
          \/ \A x \in Sessions \ {s} : pc[x] \notin Gone =>
               pending'[x] = pending[x] \cup {[kind |-> "offline", of |-> s]}
      BY <1>20, OfflineAdds
    <3> QED
      BY <3>1, <3>2
  <2>6. CASE struck' = Sessions
    BY <2>6 DEF DeliveredOK
  <2>7. CASE /\ struck' = struck
             /\ \A x \in Sessions : Attached(x)' => pending[x] \subseteq pending'[x]
    BY <2>2, <2>3, <2>7 DEF RoomInv, DeliveredOK
  <2> QED
    BY <2>3, <2>4, <2>5, <2>6, <2>7
<1>21. ASSUME NEW s \in Sessions, FetchMessages(s) PROVE DeliveredOK'
  <2>1. /\ UNCHANGED <<pc, cid, conn, live, published, struck, pending, history>>
        /\ \A x \in Sessions \ {s} : fetched'[x] = fetched[x]
        /\ fetched'[s].len = Len(history)
    BY <1>21 DEF FetchMessages, redis, past, RoomInv, TypeOK
  <2>2. \A m \in published : \E i \in 1..fetched'[s].len : history'[i] = m
    BY <2>1 DEF RoomInv, StoredOK, InHistory
  <2> QED
    BY <2>1, <2>2 DEF RoomInv, DeliveredOK, Attached, InHub
<1>22. ASSUME NEW s \in Sessions, NEW m \in Senders, MarkMessageSeen(s, m)
     PROVE  DeliveredOK'
  <2>1. /\ pc[s] = "open" /\ pc' = [pc EXCEPT ![s] = "telling"]
        /\ UNCHANGED <<cid, conn, fetched, live, published, struck, pending, history>>
    BY <1>22 DEF MarkMessageSeen, MayHandle, Goto, page
  <2>2. \A x \in Sessions : Attached(x)' => Attached(x)
    BY <2>1 DEF Attached, InHub, Gone, RoomInv, TypeOK
  <2> QED
    BY <2>1, <2>2, DeliveredStays
<1>23. ASSUME NEW s \in Sessions, NEW m \in pending[s], Visit(s, m)
     PROVE  DeliveredOK'
  <2>1. /\ UNCHANGED <<pc, cid, fetched, published, struck, history>>
        /\ \A x \in Sessions \ {s} : pending'[x] = pending[x]
        /\ pending'[s] = pending[s] \ {m}
        /\ \A x \in Sessions : live[x] \subseteq live'[x]
        /\ \A x \in Sessions : conn'[x] = "up" => conn[x] = "up"
    <3>1. UNCHANGED <<pc, cid, fetched, published, struck, history>>
      BY <1>23 DEF Visit, redis, past
    <3>2. /\ \A x \in Sessions \ {s} : pending'[x] = pending[x]
          /\ pending'[s] = pending[s] \ {m}
      BY <1>23 DEF Visit, RoomInv, TypeOK
    <3>3. \A x \in Sessions : live[x] \subseteq live'[x]
      BY <1>23 DEF Visit, RoomInv, TypeOK
    <3>4. \A x \in Sessions : conn'[x] = "up" => conn[x] = "up"
      BY <1>23 DEF Visit, PageCloses, RoomInv, TypeOK
    <3> QED
      BY <3>1, <3>2, <3>3, <3>4
  <2>2. Attached(s) /\ conn[s] = "up" /\ m.kind = "text" => m.of \in live'[s]
    BY <1>23 DEF Visit, RoomInv, TypeOK
  <2>3. \A x \in Sessions : Attached(x)' = Attached(x)
    BY <2>1 DEF Attached, InHub
  <2> SUFFICES ASSUME NEW x \in Sessions, NEW t \in published,
                      Attached(x), conn[x] = "up", x \notin struck, fetched[x].attached
               PROVE  \/ [kind |-> "text", of |-> t] \in pending'[x]
                      \/ t \in live'[x]
                      \/ \E i \in 1..fetched[x].len : history[i] = t
    BY <2>1, <2>3 DEF DeliveredOK
  <2>4. \/ [kind |-> "text", of |-> t] \in pending[x]
        \/ t \in live[x]
        \/ \E i \in 1..fetched[x].len : history[i] = t
    BY DEF RoomInv, DeliveredOK
  <2>5. CASE x = s /\ m = [kind |-> "text", of |-> t]
    BY <2>2, <2>5
  <2> QED
    BY <2>1, <2>4, <2>5
<1>24. ASSUME NEW s \in Sessions, NEW m \in pending[s], Lose(s, m) PROVE DeliveredOK'
  BY <1>24 DEF RoomInv, DeliveredOK, Attached, InHub, KeyOK, Lose, redis, page
<1>25. ASSUME \/ CreateChannel
              \/ \E u \in Users : AddUserToChannel(u) \/ Expire(u) \/ DeleteCheck(u)
                    \/ DeleteName(u) \/ DeleteMembers(u) \/ DeleteAllOnlineUsers(u)
              \/ UNCHANGED vars
     PROVE  DeliveredOK'
  <2>1. UNCHANGED <<pc, cid, conn, struck, fetched, published, pending, live, history>>
    BY <1>25 DEF CreateChannel, AddUserToChannel, Expire, DeleteCheck, DeleteName,
       DeleteMembers, DeleteAllOnlineUsers, redis, page, past, vars
  <2> QED
    BY <2>1 DEF RoomInv, DeliveredOK, Attached, InHub
<1> QED
  <2>1. ASSUME NEW u \in Users,
               AddUserToChannel(u) \/ Expire(u) \/ DeleteCheck(u) \/ DeleteChannel(u)
        PROVE  DeliveredOK'
    BY <2>1, <1>1, <1>25 DEF DeleteChannel
  <2>2. ASSUME NEW s \in Sessions,
               \/ StartChat(s) \/ Connect(s) \/ SendText(s) \/ Handle(s)
               \/ Close(s) \/ Drop(s) \/ End(s) \/ FetchMessages(s)
        PROVE  DeliveredOK'
    BY <2>2, <1>2, <1>3, <1>4, <1>5, <1>6, <1>7, <1>8, <1>9, <1>10, <1>11, <1>12,
       <1>13, <1>14, <1>15, <1>16, <1>17, <1>18, <1>19, <1>20, <1>21 DEF Connect,
       Handle, End
  <2>3. ASSUME NEW s \in Sessions,
               \/ \E m \in Senders : MarkMessageSeen(s, m)
               \/ \E m \in pending[s] : Visit(s, m) \/ Lose(s, m)
        PROVE  DeliveredOK'
    BY <2>3, <1>22, <1>23, <1>24
  <2> QED
    BY <2>1, <2>2, <2>3, <1>25 DEF Next

\* A change of the list is announced after it was made, and to all.
LEMMA AnnouncedOKStep ==
  ASSUME RoomInv, [Next]_vars
  PROVE  AnnouncedOK'
<1>1. ASSUME NEW u \in Users, DeleteCheck(u) PROVE AnnouncedOK'
  BY <1>1 DEF RoomInv, AnnouncedOK, Announcing, Attached, DeletionBegun, TypeOK,
     DeleteCheck
<1>2. ASSUME NEW u \in Users, BroadcastLeaved(u) PROVE AnnouncedOK'
  BY <1>2 DEF RoomInv, AnnouncedOK, Announcing, Attached, DeletionBegun, TypeOK,
     BroadcastLeaved
<1>3. ASSUME NEW u \in Users, DeleteName(u) PROVE AnnouncedOK'
  BY <1>3 DEF RoomInv, AnnouncedOK, Announcing, Attached, DeletionBegun, TypeOK,
     DeleteName, DeletionStep
<1>4. ASSUME NEW u \in Users, DeleteMembers(u) PROVE AnnouncedOK'
  BY <1>4 DEF RoomInv, AnnouncedOK, Announcing, Attached, DeletionBegun, TypeOK,
     DeleteMembers, DeletionStep
<1>5. ASSUME NEW u \in Users, DeleteAllOnlineUsers(u) PROVE AnnouncedOK'
  BY <1>5 DEF RoomInv, AnnouncedOK, Announcing, Attached, DeletionBegun, TypeOK,
     DeleteAllOnlineUsers, DeletionStep
<1>6. ASSUME NEW s \in Sessions, StartChat(s) PROVE AnnouncedOK'
  <2>1. Moves(s, "out", {"upgrading", "refused"})
    BY <1>6, TwoOutcomes
  <2>2. UNCHANGED <<cid, conn, stale, deletion>>
    BY <1>6 DEF StartChat, page, past
  <2>3. \A x \in Sessions : Attached(x)' => Attached(x)
    BY <2>1, <2>2 DEF Moves, Attached, InHub, Gone
  <2>4. \A x \in Sessions : Announcing(x) => Announcing(x)'
    BY <2>1 DEF Moves, Announcing
  <2>5. struck \subseteq struck'
    BY <1>6 DEF StartChat, page, past, RoomInv, TypeOK
  <2>6. \A x \in Sessions :
          Attached(x)' /\ x \notin struck' => pending[x] \subseteq pending'[x]
    BY <1>6, <2>1, StartChatShrinks DEF Moves, Attached, InHub, Gone
  <2> QED
    BY <2>1, <2>2, <2>3, <2>4, <2>5, <2>6, AnnouncedStays
<1>7. ASSUME NEW s \in Sessions, Upgrade(s) PROVE AnnouncedOK'
  <2>1. Moves(s, "upgrading", {"registered"})
    BY <1>7, TwoOutcomes
  <2>2. UNCHANGED <<cid, conn, stale, deletion>>
    BY <1>7 DEF Upgrade, redis, page, past
  <2>3. \A x \in Sessions : Attached(x)' => Attached(x)
    BY <2>1, <2>2 DEF Moves, Attached, InHub, Gone, KeyOK, RoomInv
  <2>4. \A x \in Sessions : Announcing(x) => Announcing(x)'
    BY <2>1 DEF Moves, Announcing
  <2>5. struck \subseteq struck'
    BY <1>7 DEF Upgrade, redis, page, past, RoomInv, TypeOK
  <2>6. \A x \in Sessions :
          Attached(x)' /\ x \notin struck' => pending[x] \subseteq pending'[x]
    BY <1>7 DEF Upgrade, redis, page, past
  <2> QED
    BY <2>1, <2>2, <2>3, <2>4, <2>5, <2>6, AnnouncedStays
<1>8. ASSUME NEW s \in Sessions, ConnectExpired(s) PROVE AnnouncedOK'
  <2>1. Moves(s, "registered", {"open"})
    BY <1>8 DEF ConnectExpired, Goto, Moves, RoomInv, TypeOK
  <2>2. /\ UNCHANGED <<conn, stale, deletion>>
        /\ \A x \in Sessions : cid'[x] # cid[x] => cid'[x] = "zero"
    BY <1>8 DEF ConnectExpired, page, RoomInv, TypeOK
  <2>3. \A x \in Sessions : Attached(x)' => Attached(x)
    BY <2>1, <2>2 DEF Moves, Attached, InHub, Gone, KeyOK, RoomInv
  <2>4. \A x \in Sessions : Announcing(x) => Announcing(x)'
    BY <2>1 DEF Moves, Announcing
  <2>5. struck \subseteq struck'
    BY <1>8 DEF ConnectExpired, redis, page, past, RoomInv, TypeOK
  <2>6. \A x \in Sessions :
          Attached(x)' /\ x \notin struck' => pending[x] \subseteq pending'[x]
    BY <1>8 DEF ConnectExpired, redis, page, past
  <2> QED
    BY <2>1, <2>2, <2>3, <2>4, <2>5, <2>6, AnnouncedStays
<1>9. ASSUME NEW s \in Sessions, AddOnlineUser(s) PROVE AnnouncedOK'
  BY <1>9 DEF RoomInv, AnnouncedOK, Announcing, Attached, TypeOK, AddOnlineUser,
     Goto
<1>10. ASSUME NEW s \in Sessions, SetCid(s) PROVE AnnouncedOK'
  BY <1>10 DEF AnnouncedOK, Announcing, Attached, SetCid, Goto
<1>11. ASSUME NEW s \in Sessions, FindChannel(s) PROVE AnnouncedOK'
  <2>1. Moves(s, "counting", {"counted", "open"})
    BY <1>11, TwoOutcomes
  <2>2. UNCHANGED <<cid, conn, stale, deletion, pending>>
    BY <1>11 DEF FindChannel, page
  <2>3. \A x \in Sessions : Attached(x)' => Attached(x)
    BY <2>1, <2>2 DEF Moves, Attached, InHub, Gone
  <2>4. CASE pc'[s] = "counted" /\ struck' = struck
    <3>1. \A x \in Sessions : Announcing(x) => Announcing(x)'
      BY <2>1, <2>4 DEF Moves, Announcing
    <3> QED
      BY <2>2, <2>3, <2>4, <3>1, AnnouncedStays
  <2>5. CASE chan # "there"
    <3>1. chan # "new"
      BY <2>1 DEF Moves, RoomInv, ChanOK
    <3>2. DeletionBegun
      BY <2>5, <3>1 DEF RoomInv, ChanOK, TypeOK
    <3> QED
      BY <2>2, <3>2 DEF AnnouncedOK, DeletionBegun
  <2>6. CASE struck' = Sessions
    BY <2>6 DEF AnnouncedOK
  <2>7. \/ pc'[s] = "counted" /\ struck' = struck
        \/ chan # "there"
        \/ struck' = Sessions
    BY <1>11 DEF FindChannel, Goto, RoomInv, TypeOK
  <2> QED
    BY <2>4, <2>5, <2>6, <2>7
<1>12. ASSUME NEW s \in Sessions, CountOnline(s) PROVE AnnouncedOK'
  BY <1>12 DEF AnnouncedOK, Announcing, Attached, CountOnline, Goto
<1>13. ASSUME NEW s \in Sessions, BroadcastConnectMessage(s) PROVE AnnouncedOK'
  <2>1. Moves(s, "announcing", {"open"})
    BY <1>13, TwoOutcomes
  <2>2. \A x \in Sessions : Attached(x)' => pc[x] \notin Gone
    BY <2>1 DEF Moves, Attached, InHub, Gone
  <2> QED
    BY <2>1, <2>2, <1>13, ConnectAdds, AnnouncedNow
<1>14. ASSUME NEW s \in Sessions, SendText(s) PROVE AnnouncedOK'
  <2>1. Moves(s, "open", {"inserting"})
    BY <1>14 DEF SendText, Goto, MayHandle, Moves, RoomInv, TypeOK
  <2>2. UNCHANGED <<cid, conn, stale, deletion>>
    BY <1>14 DEF SendText, redis, page, past
  <2>3. \A x \in Sessions : Attached(x)' => Attached(x)
    BY <2>1, <2>2 DEF Moves, Attached, InHub, Gone
  <2>4. \A x \in Sessions : Announcing(x) => Announcing(x)'
    BY <2>1 DEF Moves, Announcing
  <2>5. struck \subseteq struck'
    BY <1>14 DEF SendText, redis, page, past, RoomInv, TypeOK
  <2>6. \A x \in Sessions :
          Attached(x)' /\ x \notin struck' => pending[x] \subseteq pending'[x]
    BY <1>14 DEF SendText, redis, page, past
  <2> QED
    BY <2>1, <2>2, <2>3, <2>4, <2>5, <2>6, AnnouncedStays
<1>15. ASSUME NEW s \in Sessions, InsertRPush(s) PROVE AnnouncedOK'
  <2>1. Moves(s, "inserting", {"inserting", "flagging", "open"})
    BY <1>15, TwoOutcomes
  <2>2. UNCHANGED <<cid, conn, stale, deletion>>
    BY <1>15 DEF InsertRPush, page, past
  <2>3. \A x \in Sessions : Attached(x)' => Attached(x)
    BY <2>1, <2>2 DEF Moves, Attached, InHub, Gone
  <2>4. \A x \in Sessions : Announcing(x) => Announcing(x)'
    BY <2>1 DEF Moves, Announcing
  <2>5. struck \subseteq struck'
    BY <1>15 DEF InsertRPush, page, past, RoomInv, TypeOK
  <2>6. \A x \in Sessions :
          Attached(x)' /\ x \notin struck' => pending[x] \subseteq pending'[x]
    BY <1>15 DEF InsertRPush, page, past
  <2> QED
    BY <2>1, <2>2, <2>3, <2>4, <2>5, <2>6, AnnouncedStays
<1>16. ASSUME NEW s \in Sessions, InsertHSet(s) PROVE AnnouncedOK'
  <2>1. Moves(s, "flagging", {"publishing", "inserting", "open"})
    BY <1>16, TwoOutcomes
  <2>2. UNCHANGED <<cid, conn, stale, deletion>>
    BY <1>16 DEF InsertHSet, page, past
  <2>3. \A x \in Sessions : Attached(x)' => Attached(x)
    BY <2>1, <2>2 DEF Moves, Attached, InHub, Gone
  <2>4. \A x \in Sessions : Announcing(x) => Announcing(x)'
    BY <2>1 DEF Moves, Announcing
  <2>5. struck \subseteq struck'
    BY <1>16 DEF InsertHSet, page, past, RoomInv, TypeOK
  <2>6. \A x \in Sessions :
          Attached(x)' /\ x \notin struck' => pending[x] \subseteq pending'[x]
    BY <1>16 DEF InsertHSet, page, past
  <2> QED
    BY <2>1, <2>2, <2>3, <2>4, <2>5, <2>6, AnnouncedStays
<1>17. ASSUME NEW s \in Sessions, PublishText(s) PROVE AnnouncedOK'
  <2>1. Moves(s, "publishing", {"open"})
    BY <1>17, TwoOutcomes
  <2>2. UNCHANGED <<cid, conn, stale, deletion>>
    BY <1>17 DEF PublishText, redis, page
  <2>3. \A x \in Sessions : Attached(x)' => Attached(x)
    BY <2>1, <2>2 DEF Moves, Attached, InHub, Gone
  <2>4. \A x \in Sessions : Announcing(x) => Announcing(x)'
    BY <2>1 DEF Moves, Announcing
  <2>5. struck \subseteq struck'
    BY <1>17 DEF PublishText, PublishFails, redis, page, RoomInv, TypeOK
  <2>6. \A x \in Sessions :
          Attached(x)' /\ x \notin struck' => pending[x] \subseteq pending'[x]
    BY <1>17, Messages, PublishAdds DEF PublishText, PublishFails
  <2> QED
    BY <2>1, <2>2, <2>3, <2>4, <2>5, <2>6, AnnouncedStays
<1>18. ASSUME NEW s \in Sessions, TellSeen(s) PROVE AnnouncedOK'
  <2>1. Moves(s, "telling", {"open"})
    BY <1>18, TwoOutcomes
  <2>2. UNCHANGED <<cid, conn, stale, deletion>>
    BY <1>18 DEF TellSeen, redis, page
  <2>3. \A x \in Sessions : Attached(x)' => Attached(x)
    BY <2>1, <2>2 DEF Moves, Attached, InHub, Gone
  <2>4. \A x \in Sessions : Announcing(x) => Announcing(x)'
    BY <2>1 DEF Moves, Announcing
  <2>5. struck \subseteq struck'
    BY <1>18 DEF TellSeen, PublishFails, redis, page, RoomInv, TypeOK
  <2>6. \A x \in Sessions :
          Attached(x)' /\ x \notin struck' => pending[x] \subseteq pending'[x]
    BY <1>18, Messages, PublishAdds DEF TellSeen, PublishFails, RoomInv, TypeOK
  <2> QED
    BY <2>1, <2>2, <2>3, <2>4, <2>5, <2>6, AnnouncedStays
<1>19. ASSUME NEW s \in Sessions, Close(s) PROVE AnnouncedOK'
  BY <1>19 DEF RoomInv, AnnouncedOK, Announcing, Attached, InHub, DeletionBegun,
     Close, past
<1>20. ASSUME NEW s \in Sessions, Drop(s) PROVE AnnouncedOK'
  BY <1>20 DEF RoomInv, AnnouncedOK, Announcing, Attached, InHub, DeletionBegun,
     Drop, past
<1>21. ASSUME NEW s \in Sessions, ReadFails(s) PROVE AnnouncedOK'
  <2>1. Moves(s, "open", {"lost"})
    BY <1>21 DEF ReadFails, Leave, Goto, Moves, RoomInv, TypeOK
  <2>2. UNCHANGED <<cid, conn, stale, deletion>>
    BY <1>21 DEF ReadFails, redis, page, past
  <2>3. \A x \in Sessions : Attached(x)' => Attached(x)
    BY <2>1, <2>2 DEF Moves, Attached, InHub, Gone
  <2>4. \A x \in Sessions : Announcing(x) => Announcing(x)'
    BY <2>1 DEF Moves, Announcing
  <2>5. struck \subseteq struck'
    BY <1>21 DEF ReadFails, redis, page, past, RoomInv, TypeOK
  <2>6. \A x \in Sessions :
          Attached(x)' /\ x \notin struck' => pending[x] \subseteq pending'[x]
    BY <1>21, <2>1, <2>3 DEF ReadFails, Leave, Moves, Attached, InHub, Gone, RoomInv,
       TypeOK
  <2> QED
    BY <2>1, <2>2, <2>3, <2>4, <2>5, <2>6, AnnouncedStays
<1>22. ASSUME NEW s \in Sessions, CloseExpired(s) PROVE AnnouncedOK'
  <2>1. Moves(s, "open", {"lost"})
    BY <1>22 DEF CloseExpired, Leave, Goto, Moves, RoomInv, TypeOK
  <2>2. UNCHANGED <<cid, conn, stale, deletion>>
    BY <1>22 DEF CloseExpired, redis, page, past
  <2>3. \A x \in Sessions : Attached(x)' => Attached(x)
    BY <2>1, <2>2 DEF Moves, Attached, InHub, Gone
  <2>4. \A x \in Sessions : Announcing(x) => Announcing(x)'
    BY <2>1 DEF Moves, Announcing
  <2>5. struck \subseteq struck'
    BY <1>22 DEF CloseExpired, redis, page, past, RoomInv, TypeOK
  <2>6. \A x \in Sessions :
          Attached(x)' /\ x \notin struck' => pending[x] \subseteq pending'[x]
    BY <1>22, <2>1, <2>3 DEF CloseExpired, Leave, Moves, Attached, InHub, Gone, RoomInv,
       TypeOK
  <2> QED
    BY <2>1, <2>2, <2>3, <2>4, <2>5, <2>6, AnnouncedStays
<1>23. ASSUME NEW s \in Sessions, DeleteOnlineUser(s) PROVE AnnouncedOK'
  BY <1>23 DEF RoomInv, AnnouncedOK, Announcing, Attached, TypeOK, DeleteOnlineUser,
     Goto
<1>24. ASSUME NEW s \in Sessions, BroadcastOffline(s) PROVE AnnouncedOK'
  <2>1. Moves(s, "leaving", {"closed"})
    BY <1>24, TwoOutcomes
  <2>2. \A x \in Sessions : Attached(x)' => x # s /\ pc[x] \notin Gone
    BY <2>1 DEF Moves, Attached, InHub, Gone
  <2>3. \/ struck' = Sessions
        \/ \A x \in Sessions \ {s} :
             pc[x] \notin Gone => [kind |-> "offline", of |-> s] \in pending'[x]
    BY <1>24, OfflineAdds
  <2>4. [kind |-> "offline", of |-> s].kind \in Notices
    BY DEF Notices
  <2> QED
    BY <2>1, <2>2, <2>3, <2>4, AnnouncedNow
<1>25. ASSUME NEW s \in Sessions, NEW m \in Senders, MarkMessageSeen(s, m)
     PROVE  AnnouncedOK'
  <2>1. Moves(s, "open", {"telling"})
    BY <1>25 DEF MarkMessageSeen, Goto, MayHandle, Moves, RoomInv, TypeOK
  <2>2. UNCHANGED <<cid, conn, stale, deletion>>
    BY <1>25 DEF MarkMessageSeen, page
  <2>3. \A x \in Sessions : Attached(x)' => Attached(x)
    BY <2>1, <2>2 DEF Moves, Attached, InHub, Gone
  <2>4. \A x \in Sessions : Announcing(x) => Announcing(x)'
    BY <2>1 DEF Moves, Announcing
  <2>5. struck \subseteq struck'
    BY <1>25 DEF MarkMessageSeen, page, RoomInv, TypeOK
  <2>6. \A x \in Sessions :
          Attached(x)' /\ x \notin struck' => pending[x] \subseteq pending'[x]
    BY <1>25 DEF MarkMessageSeen, page
  <2> QED
    BY <2>1, <2>2, <2>3, <2>4, <2>5, <2>6, AnnouncedStays
<1>26. ASSUME NEW s \in Sessions, NEW m \in pending[s], Visit(s, m)
     PROVE  AnnouncedOK'
  BY <1>26 DEF RoomInv, AnnouncedOK, Announcing, Attached, InHub, DeletionBegun,
     TypeOK, Visit, PageCloses, past
<1>27. ASSUME NEW s \in Sessions, NEW m \in pending[s], Lose(s, m) PROVE AnnouncedOK'
  BY <1>27 DEF RoomInv, AnnouncedOK, Announcing, Attached, InHub, DeletionBegun,
     Lose
<1>28. ASSUME \/ CreateChannel
              \/ \E u \in Users : AddUserToChannel(u) \/ Expire(u)
              \/ \E s \in Sessions : FetchMessages(s)
              \/ UNCHANGED vars
     PROVE  AnnouncedOK'
  <2>1. UNCHANGED <<pc, cid, conn, struck, pending, stale, deletion>>
    BY <1>28 DEF CreateChannel, AddUserToChannel, Expire, FetchMessages, past, vars
  <2> QED
    BY <2>1 DEF RoomInv, AnnouncedOK, Announcing, Attached, InHub, DeletionBegun
<1> QED
  <2>1. ASSUME NEW u \in Users,
               AddUserToChannel(u) \/ Expire(u) \/ DeleteCheck(u) \/ DeleteChannel(u)
        PROVE  AnnouncedOK'
    BY <2>1, <1>1, <1>2, <1>3, <1>4, <1>5, <1>28 DEF DeleteChannel
  <2>2. ASSUME NEW s \in Sessions,
               \/ StartChat(s) \/ Connect(s) \/ SendText(s) \/ Handle(s)
               \/ Close(s) \/ Drop(s) \/ End(s) \/ FetchMessages(s)
        PROVE  AnnouncedOK'
    BY <2>2, <1>6, <1>7, <1>8, <1>9, <1>10, <1>11, <1>12, <1>13, <1>14, <1>15,
       <1>16, <1>17, <1>18, <1>19, <1>20, <1>21, <1>22, <1>23, <1>24, <1>28 DEF
       Connect, Handle, End
  <2>3. ASSUME NEW s \in Sessions,
               \/ \E m \in Senders : MarkMessageSeen(s, m)
               \/ \E m \in pending[s] : Visit(s, m) \/ Lose(s, m)
        PROVE  AnnouncedOK'
    BY <2>3, <1>25, <1>26, <1>27
  <2> QED
    BY <2>1, <2>2, <2>3, <1>28 DEF Next

-----------------------------------------------------------------------------

\* At first there is no channel, no session and no message.
LEMMA InitHolds == Init => RoomInv
<1> SUFFICES ASSUME Init PROVE RoomInv
  OBVIOUS
<1>1. TypeOK
  <2>1. 0 \in 0..MaxFaults /\ <<>> \in Seq(Senders)
    BY RoomAssumption
  <2>2. "out" \in Locations
    BY DEF Locations
  <2> QED
    BY <2>1, <2>2 DEF Init, TypeOK
<1>2. SentOK /\ KeyOK /\ ChanOK /\ StoredOK /\ MarkedOK
  BY DEF Init, SentOK, KeyOK, ChanOK, StoredOK, MarkedOK
<1>3. PresenceOK
  <2>1. FiniteOnline
    BY FS_EmptySet DEF Init, FiniteOnline
  <2>2. OnlineOK /\ NoGhostOnline /\ NotBothWaiting
    BY DEF Init, OnlineOK, Attached, InHub, NoGhostOnline, NotBothWaiting
  <2> QED
    BY <2>1, <2>2 DEF PresenceOK
<1>4. DeliveredOK /\ AnnouncedOK
  BY DEF Init, DeliveredOK, AnnouncedOK, Attached, InHub
<1> QED
  BY <1>1, <1>2, <1>3, <1>4 DEF RoomInv

\* The invariant holds throughout: one lemma for each of its conjuncts.
LEMMA Inductive == Spec => []RoomInv
<1>1. RoomInv /\ [Next]_vars => RoomInv'
  <2> SUFFICES ASSUME RoomInv, [Next]_vars PROVE RoomInv'
    OBVIOUS
  <2>1. PresenceOK'
    BY FiniteOnlineStep, OnlineOKStep, NoGhostOnlineStep, NotBothWaitingStep
    DEF PresenceOK
  <2> QED
    BY <2>1, TypeOKStep, SentOKStep, KeyOKStep, ChanOKStep, StoredOKStep,
       MarkedOKStep, DeliveredOKStep, AnnouncedOKStep DEF RoomInv
<1> QED
  BY <1>1, InitHolds, PTL DEF Spec

-----------------------------------------------------------------------------
\* The five keys, the sessions and the pages are always in a state that TypeOK
\* describes, for any number of users and sessions.
THEOREM TypeCorrect == Spec => []TypeOK
<1>1. RoomInv => TypeOK
  BY DEF RoomInv
<1> QED
  BY <1>1, Inductive, PTL

\* AddOnlineUser comes before a session has its key: the user of an attached session
\* is on the list, unless the channel is being deleted or HandleChatOnClose has run
\* for another session of his, or failed to.
THEOREM OpenIsOnline == Spec => []OpenMeansOnline
<1>1. RoomInv => OpenMeansOnline
  BY DEF RoomInv, PresenceOK, OnlineOK, Ended, OpenMeansOnline, Attached, InHub, Gone
<1> QED
  BY <1>1, Inductive, PTL

\* Whoever DeleteOnlineUser and DeleteAllOnlineUsers leave on the list has a session
\* that will take him off, or had one that was lost.
THEOREM NoGhosts == Spec => []NoGhostOnline
<1>1. RoomInv => NoGhostOnline
  BY DEF RoomInv, PresenceOK
<1> QED
  BY <1>1, Inductive, PTL

\* Two connect handlers that add and then count do not both count one user.
THEOREM OneOfTwoSees == Spec => []NotBothWaiting
<1>1. RoomInv => NotBothWaiting
  BY DEF RoomInv, PresenceOK
<1> QED
  BY <1>1, Inductive, PTL

\* In whatever order the broadcasts are visited: a page that is not told to ask after
\* the last change of the list is about to be.
THEOREM EveryoneIsTold == Spec => []ChangesAreAnnounced
<1>1. RoomInv => ChangesAreAnnounced
  BY DEF RoomInv, AnnouncedOK, Announcing, ChangesAreAnnounced, Settled
<1> QED
  BY <1>1, Inductive, PTL

\* A page that fetches the history after its session was attached has every text that
\* was published, but for those that ListMessages cut off.
THEOREM NothingBetween == Spec => []FetchedOrDelivered
<1>1. ASSUME RoomInv PROVE FetchedOrDelivered
  <2> SUFFICES ASSUME NEW s \in Sessions, NEW m \in published,
                      NEW i \in 1..fetched[s].len, history[i] = m,
                      ~(i <= fetched[s].len - MaxNum)
               PROVE  m \in Fetched(s)
    <3>1. \A s \in Sessions :
            fetched[s].len \in Int /\ fetched[s].len <= Len(history)
      BY <1>1 DEF RoomInv, TypeOK, StoredOK
    <3>2. Len(history) \in Nat
      BY <1>1 DEF RoomInv, TypeOK
    <3>3. \A s \in Sessions : \A i \in 1..fetched[s].len : i \in 1..Len(history)
      BY <3>1, <3>2
    <3> QED
      BY <1>1, <3>3 DEF RoomInv, DeliveredOK, FetchedOrDelivered
  <2>1. fetched[s].len \in Int /\ MaxNum \in Nat
    BY <1>1, RoomAssumption DEF RoomInv, TypeOK
  <2> QED
    BY <2>1 DEF Fetched
<1> QED
  BY <1>1, Inductive, PTL

\* What the sender's page shows as seen is stored as seen, or was marked by a page
\* that had fetched it before it was published.
THEOREM TicksAreTrue == Spec => []TickMeansSeen
<1>1. RoomInv => TickMeansSeen
  BY DEF RoomInv, MarkedOK, Marked, TickMeansSeen
<1> QED
  BY <1>1, Inductive, PTL
=============================================================================
