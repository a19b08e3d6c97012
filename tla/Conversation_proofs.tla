-------------------------- MODULE Conversation_proofs --------------------------
(***************************************************************************)
(* ChatRoom implements Conversation, for any users and sessions and        *)
(* whatever fails.  The mapping is in ChatRoom: who is inside has passed   *)
(* StartChat, the log is rc:msgs, a page shows what came through its       *)
(* socket and what it fetched, and a mark lasts although InsertMessage     *)
(* may reset its field.                                                    *)
(***************************************************************************)
EXTENDS ChatRoom_proofs

\* What is on its way to a page: texts that were published, and marks for the page's
\* own user.
TalkOK ==
  \A s \in Sessions : \A m \in pending[s] :
    /\ m.kind = "seen" => UserOf[m.of] = UserOf[s]
    /\ m.kind = "text" => m.of \in published

\* A step that sends neither a text nor a mark.
Quiet ==
  /\ published \subseteq published'
  /\ \A x \in Sessions : \A m \in pending'[x] :
       m.kind \in {"text", "seen"} => m \in pending[x]

\* Such a step keeps TalkOK.
LEMMA QuietKeeps ==
  ASSUME TalkOK, Quiet
  PROVE  TalkOK'
BY DEF TalkOK, Quiet

\* Every step of a session but PublishText and TellSeen.
LEMMA QuietSessions ==
  ASSUME RoomInv, NEW s \in Sessions,
         \/ StartChat(s) \/ Connect(s) \/ SendText(s) \/ InsertRPush(s)
         \/ InsertHSet(s) \/ Close(s) \/ Drop(s) \/ End(s) \/ FetchMessages(s)
         \/ \E m \in Senders : MarkMessageSeen(s, m)
         \/ \E m \in pending[s] : Visit(s, m) \/ Lose(s, m)
  PROVE  Quiet
<1> USE DEF Quiet, RoomInv, TypeOK, redis, page, past
<1>1. CASE StartChat(s)
  BY <1>1 DEF StartChat, Goto
<1>2. CASE Upgrade(s) \/ ConnectExpired(s) \/ SetCid(s) \/ CountOnline(s)
  BY <1>2 DEF Upgrade, ConnectExpired, SetCid, CountOnline, Goto
<1>3. CASE AddOnlineUser(s) \/ FindChannel(s)
  BY <1>3 DEF AddOnlineUser, FindChannel, Goto
<1>4. CASE BroadcastConnectMessage(s)
  <2>1. UNCHANGED published
    BY <1>4 DEF BroadcastConnectMessage
  <2>2. \A x \in Sessions : \A m \in pending'[x] :
          m \in pending[x] \/ m.kind \in {"waiting", "joined"}
    BY <1>4, ConnectAdds
  <2> QED
    BY <2>1, <2>2
<1>5. CASE SendText(s) \/ InsertRPush(s) \/ InsertHSet(s)
  BY <1>5 DEF SendText, InsertRPush, InsertHSet
<1>6. CASE Close(s) \/ Drop(s) \/ FetchMessages(s)
  BY <1>6 DEF Close, Drop, FetchMessages
<1>7. CASE ReadFails(s) \/ CloseExpired(s)
  BY <1>7 DEF ReadFails, CloseExpired, Leave, Goto
<1>8. CASE DeleteOnlineUser(s)
  BY <1>8 DEF DeleteOnlineUser, Leave
<1>9. CASE BroadcastOffline(s)
  <2>1. UNCHANGED published
    BY <1>9 DEF BroadcastOffline
  <2>2. \A x \in Sessions :
          pending'[x] \subseteq pending[x] \cup {[kind |-> "offline", of |-> s]}
    BY <1>9, OfflineAdds
  <2> QED
    BY <2>1, <2>2
<1>10. CASE \E m \in Senders : MarkMessageSeen(s, m)
  BY <1>10 DEF MarkMessageSeen, Goto
<1>11. CASE \E m \in pending[s] : Visit(s, m) \/ Lose(s, m)
  BY <1>11 DEF Visit, Lose
<1> QED
  BY <1>1, <1>2, <1>3, <1>4, <1>5, <1>6, <1>7, <1>8, <1>9, <1>10, <1>11
   DEF Connect, End

\* The steps of the match service, and of a deletion.
LEMMA QuietUsers ==
  ASSUME RoomInv,
         \/ CreateChannel
         \/ \E u \in Users :
              AddUserToChannel(u) \/ Expire(u) \/ DeleteCheck(u) \/ DeleteChannel(u)
         \/ UNCHANGED vars
  PROVE  Quiet
<1> USE DEF Quiet, RoomInv, TypeOK, redis, page, past
<1>1. ASSUME NEW u \in Users, BroadcastLeaved(u) PROVE Quiet
  <2>1. UNCHANGED published
    BY <1>1 DEF BroadcastLeaved
  <2>2. \A x \in Sessions :
          pending'[x] \subseteq pending[x] \cup {[kind |-> "leaved", of |-> u]}
    BY <1>1, Messages, PublishAdds DEF BroadcastLeaved, PublishFails
  <2> QED
    BY <2>1, <2>2
<1>2. CASE \/ CreateChannel
           \/ \E u \in Users :
                \/ AddUserToChannel(u) \/ Expire(u) \/ DeleteCheck(u)
                \/ DeleteName(u) \/ DeleteMembers(u) \/ DeleteAllOnlineUsers(u)
           \/ UNCHANGED vars
  BY <1>2 DEF CreateChannel, AddUserToChannel, Expire, DeleteCheck, DeleteName,
     DeleteMembers, DeleteAllOnlineUsers, vars
<1> QED
  BY <1>1, <1>2 DEF DeleteChannel

\* TalkOK is kept by the two steps that are not quiet, too.
LEMMA TalkOKStep ==
  ASSUME RoomInv, TalkOK, [Next]_vars
  PROVE  TalkOK'
<1>1. ASSUME NEW s \in Sessions, PublishText(s) PROVE TalkOK'
  <2>1. published \subseteq published'
    BY <1>1 DEF PublishText
  <2>2. \/ pending' = pending
        \/ /\ Publish([kind |-> "text", of |-> s])
           /\ s \in published'
    BY <1>1 DEF PublishText, PublishFails
  <2>3. \A x \in Sessions : \A m \in pending'[x] :
          m \in pending[x] \/ (s \in published' /\ m = [kind |-> "text", of |-> s])
    BY <2>2, Messages, PublishAdds
  <2> QED
    BY <2>1, <2>3 DEF TalkOK
<1>2. ASSUME NEW s \in Sessions, TellSeen(s) PROVE TalkOK'
  <2>1. UNCHANGED published
    BY <1>2 DEF TellSeen
  <2> DEFINE n == [kind |-> "seen", of |-> subject[s]]
  <2>2. pending' = pending \/ Publish(n)
    BY <1>2 DEF TellSeen, PublishFails
  <2>3. \A x \in Sessions : \A m \in pending'[x] :
          m \in pending[x] \/ (m = n /\ UserOf[subject[s]] = UserOf[x])
    BY <2>2 DEF Publish, Concerns
  <2> QED
    BY <2>1, <2>3 DEF TalkOK
<1>3. Quiet => TalkOK'
  BY QuietKeeps
<1> QED
  BY <1>1, <1>2, <1>3, QuietSessions, QuietUsers DEF Next, Handle
-----------------------------------------------------------------------------
(* What Conversation sees of a state, and of a step that concerns it.       *)

Inside == {s \in Sessions : pc[s] \notin {"out", "refused"}}
Shown == [s \in Sessions |-> live[s] \cup Fetched(s)]
Stored == {history[i] : i \in DOMAIN history}
MarkedOnce == seen \cup early

LEMMA StoredIsInHistory ==
  ASSUME RoomInv
  PROVE  \A m : m \in Stored <=> InHistory(m)
BY DEF RoomInv, TypeOK, Stored, InHistory

LEMMA StillStutters ==
  ASSUME UNCHANGED <<members, history, live, fetched, ticks>>,
         MarkedOnce' = MarkedOnce, Inside' = Inside
  PROVE  UNCHANGED Talk!vars
BY DEF Talk!vars, MarkedOnce, Inside, Fetched
-----------------------------------------------------------------------------
(* The steps that Conversation sees.                                        *)

\* StartChat lets a member in, and a refusal is nothing.
LEMMA StartChatMaps ==
  ASSUME RoomInv, NEW s \in Sessions, StartChat(s)
  PROVE  [Talk!Next]_(Talk!vars)
<1>1. UNCHANGED <<members, history, seen, early, live, fetched, ticks>>
  BY DEF StartChat, redis, page, past
<1>2. MarkedOnce' = MarkedOnce /\ Shown' = Shown
  BY <1>1 DEF MarkedOnce, Shown, Fetched
<1>3. Moves(s, "out", {"upgrading", "refused"})
  BY TwoOutcomes
<1>4. CASE pc'[s] = "refused"
  <2>1. Inside' = Inside
    BY <1>3, <1>4 DEF Moves, Inside
  <2> QED
    BY <1>1, <1>2, <2>1, StillStutters
<1>5. CASE pc'[s] = "upgrading"
  <2>1. UserOf[s] \in members
    BY <1>5 DEF StartChat, Goto, RoomInv, TypeOK
  <2>2. Inside' = Inside \cup {s}
    BY <1>3, <1>5 DEF Moves, Inside
  <2>3. Talk!Enter(s)
    BY <1>1, <1>2, <2>1, <2>2 DEF Talk!Enter, Inside, Shown, MarkedOnce
  <2> QED
    BY <2>3 DEF Talk!Next
<1> QED
  BY <1>3, <1>4, <1>5 DEF Moves

\* RPUSH writes the message down, each time that it is sent.
LEMMA InsertRPushMaps ==
  ASSUME RoomInv, NEW s \in Sessions, InsertRPush(s)
  PROVE  [Talk!Next]_(Talk!vars)
<1>1. UNCHANGED <<members, seen, early, live, fetched, ticks>>
  BY DEF InsertRPush, page, past
<1>2. Moves(s, "inserting", {"inserting", "flagging", "open"})
  BY TwoOutcomes
<1>3. Inside' = Inside /\ s \in Inside
  BY <1>2 DEF Moves, Inside
<1>4. \A x \in Sessions : Fetched(x)' = Fetched(x)
  <2>1. /\ Len(history) \in Nat
        /\ \A i \in 1..Len(history) : history'[i] = history[i]
    BY HistoryGrows
  <2>2. \A x \in Sessions : fetched[x].len \in Int /\ fetched[x].len <= Len(history)
    BY DEF RoomInv, TypeOK, StoredOK
  <2>3. \A x \in Sessions : \A i \in 1..fetched[x].len : history'[i] = history[i]
    BY <2>1, <2>2
  <2> QED
    BY <1>1, <2>3 DEF Fetched
<1>5. Shown' = Shown /\ MarkedOnce' = MarkedOnce
  BY <1>1, <1>4 DEF Shown, MarkedOnce
<1>6. CASE history' = history
  BY <1>1, <1>3, <1>6, StillStutters DEF MarkedOnce
<1>7. CASE history' = Append(history, s)
  <2>1. Talk!Say(s)
    BY <1>1, <1>3, <1>5, <1>7 DEF Talk!Say, Inside, Shown, MarkedOnce
  <2> QED
    BY <2>1 DEF Talk!Next
<1> QED
  BY <1>6, <1>7 DEF InsertRPush

\* A field that is reset had been set before the message was published, if ever.
LEMMA InsertHSetMaps ==
  ASSUME RoomInv, NEW s \in Sessions, InsertHSet(s)
  PROVE  [Talk!Next]_(Talk!vars)
<1>1. UNCHANGED <<members, history, early, live, fetched, ticks>>
  BY DEF InsertHSet, page, past
<1>2. seen' = seen \ {s} \/ seen' = seen
  BY DEF InsertHSet
<1>3. Moves(s, "flagging", {"publishing", "inserting", "open"})
  BY TwoOutcomes
<1>4. s \in seen => s \in early
  BY <1>3 DEF Moves, RoomInv, StoredOK, MarkedOK
<1>5. MarkedOnce' = MarkedOnce
  BY <1>1, <1>2, <1>4 DEF MarkedOnce
<1>6. Inside' = Inside
  BY <1>3 DEF Moves, Inside
<1> QED
  BY <1>1, <1>5, <1>6, StillStutters

\* A page marks what it shows of another user.
LEMMA MarkMaps ==
  ASSUME RoomInv, NEW s \in Sessions, NEW m \in Senders, MarkMessageSeen(s, m)
  PROVE  [Talk!Next]_(Talk!vars)
<1>1. UNCHANGED <<members, history, live, fetched, ticks>>
  BY DEF MarkMessageSeen, page
<1>2. MarkedOnce' = MarkedOnce \cup {m}
  BY DEF MarkMessageSeen, MarkedOnce
<1>3. Moves(s, "open", {"telling"})
  BY DEF MarkMessageSeen, Goto, MayHandle, Moves, RoomInv, TypeOK
<1>4. Inside' = Inside /\ s \in Inside
  BY <1>3 DEF Moves, Inside
<1>5. Shown' = Shown /\ m \in Shown[s] /\ UserOf[m] # UserOf[s]
  BY <1>1 DEF MarkMessageSeen, Shown, Fetched
<1>6. Talk!Mark(s, m)
  BY <1>1, <1>2, <1>4, <1>5 DEF Talk!Mark, Inside, Shown, MarkedOnce
<1>7. m \in Sessions
  BY RoomAssumption
<1> QED
  BY <1>6, <1>7 DEF Talk!Next

\* A visit shows a text, ticks a message, or is nothing.
LEMMA VisitMaps ==
  ASSUME RoomInv, TalkOK, NEW s \in Sessions, NEW m \in pending[s], Visit(s, m)
  PROVE  [Talk!Next]_(Talk!vars)
<1>1. UNCHANGED <<members, history, seen, early, fetched, pc>>
  BY DEF Visit, redis, past
<1>2. Inside' = Inside /\ MarkedOnce' = MarkedOnce
  BY <1>1 DEF Inside, MarkedOnce
<1>3. m \in Message
  BY DEF RoomInv, TypeOK
<1>4. CASE ~(Attached(s) /\ conn[s] = "up") \/ m.kind \notin {"text", "seen"}
  <2>1. UNCHANGED <<live, ticks>>
    BY <1>4 DEF Visit
  <2> QED
    BY <1>1, <1>2, <2>1, StillStutters
<1>5. CASE Attached(s) /\ conn[s] = "up" /\ m.kind = "text"
  <2>1. s \in Inside
    BY <1>5 DEF Attached, InHub, Gone, Inside
  <2>2. m.of \in Stored
    BY <1>5, StoredIsInHistory DEF TalkOK, RoomInv, StoredOK
  <2>3. live' = [live EXCEPT ![s] = @ \cup {m.of}] /\ ticks' = ticks
    BY <1>5 DEF Visit
  <2>4. Shown' = [Shown EXCEPT ![s] = @ \cup {m.of}]
    <3>1. /\ live'[s] = live[s] \cup {m.of}
          /\ \A x \in Sessions \ {s} : live'[x] = live[x]
      BY <2>3 DEF RoomInv, TypeOK
    <3>2. \A x \in Sessions : Fetched(x)' = Fetched(x)
      BY <1>1 DEF Fetched
    <3> QED
      BY <3>1, <3>2 DEF Shown
  <2>5. Talk!Show(s, {m.of})
    BY <1>1, <1>2, <2>1, <2>2, <2>3, <2>4
     DEF Talk!Show, Talk!Said, Inside, Shown, MarkedOnce, Stored
  <2>6. {m.of} \in SUBSET Talk!Said
    BY <2>2 DEF Talk!Said, Stored
  <2> QED
    BY <2>5, <2>6 DEF Talk!Next
<1>6. CASE Attached(s) /\ conn[s] = "up" /\ m.kind = "seen"
  <2>1. s \in Inside
    BY <1>6 DEF Attached, InHub, Gone, Inside
  <2>2. m.of \in MarkedOnce /\ UserOf[m.of] = UserOf[s]
    BY <1>6 DEF RoomInv, MarkedOK, Marked, MarkedOnce, TalkOK
  <2>3. live' = live /\ ticks' = [ticks EXCEPT ![s] = @ \cup {m.of}]
    BY <1>6 DEF Visit
  <2>4. Shown' = Shown
    BY <1>1, <2>3 DEF Shown, Fetched
  <2>5. m.of \in Sessions
    BY <1>6, <1>3, RoomAssumption DEF RoomInv, SentOK
  <2>6. Talk!Tick(s, m.of)
    BY <1>1, <1>2, <2>1, <2>2, <2>3, <2>4
     DEF Talk!Tick, Inside, Shown, MarkedOnce
  <2> QED
    BY <2>5, <2>6 DEF Talk!Next
<1> QED
  BY <1>4, <1>5, <1>6

\* A page shows what it fetched of the history.
LEMMA FetchMaps ==
  ASSUME RoomInv, NEW s \in Sessions, FetchMessages(s)
  PROVE  [Talk!Next]_(Talk!vars)
<1>1. UNCHANGED <<members, history, seen, early, live, ticks, pc>>
  BY DEF FetchMessages, redis, past
<1>2. Inside' = Inside /\ MarkedOnce' = MarkedOnce /\ s \in Inside
  BY <1>1 DEF Inside, MarkedOnce, FetchMessages, InHub, Gone
<1>3. PICK M : M = Fetched(s)' /\ M \subseteq Stored
  <2>1. fetched'[s].len = Len(history) /\ history' = history
    BY <1>1 DEF FetchMessages, RoomInv, TypeOK
  <2>2. Len(history) \in Nat /\ DOMAIN history = 1..Len(history)
    BY DEF RoomInv, TypeOK
  <2> QED
    BY <2>1, <2>2 DEF Fetched, Stored
<1>4. Fetched(s) = {}
  <2>1. fetched[s].len = -1
    BY DEF FetchMessages
  <2> QED
    BY <2>1 DEF Fetched
<1>5. \A x \in Sessions \ {s} : Fetched(x)' = Fetched(x)
  <2>1. \A x \in Sessions \ {s} : fetched'[x] = fetched[x]
    BY DEF FetchMessages, RoomInv, TypeOK
  <2> QED
    BY <1>1, <2>1 DEF Fetched
<1>6. Shown' = [Shown EXCEPT ![s] = @ \cup M]
  BY <1>1, <1>3, <1>4, <1>5 DEF Shown
<1>7. Talk!Show(s, M)
  BY <1>1, <1>2, <1>3, <1>6
   DEF Talk!Show, Talk!Said, Inside, Shown, MarkedOnce, Stored
<1>8. M \in SUBSET Talk!Said
  BY <1>3 DEF Talk!Said, Stored
<1> QED
  BY <1>7, <1>8 DEF Talk!Next

\* AddUserToChannel admits, and a deletion dismisses.
LEMMA MembersMap ==
  ASSUME RoomInv, NEW u \in Users, AddUserToChannel(u) \/ DeleteMembers(u)
  PROVE  [Talk!Next]_(Talk!vars)
<1>1. UNCHANGED <<history, seen, early, live, fetched, ticks, pc>>
  BY DEF AddUserToChannel, DeleteMembers, page, past
<1>2. Inside' = Inside /\ MarkedOnce' = MarkedOnce /\ Shown' = Shown
  BY <1>1 DEF Inside, MarkedOnce, Shown, Fetched
<1>3. CASE members' = members
  BY <1>1, <1>2, <1>3, StillStutters
<1>4. CASE members' = members \cup {u}
  <2>1. Talk!Admit(u)
    BY <1>1, <1>2, <1>4 DEF Talk!Admit, Inside, Shown, MarkedOnce
  <2> QED
    BY <2>1 DEF Talk!Next
<1>5. CASE members' = {}
  <2>1. Talk!Dismiss
    BY <1>1, <1>2, <1>5 DEF Talk!Dismiss, Inside, Shown, MarkedOnce
  <2> QED
    BY <2>1 DEF Talk!Next
<1> QED
  BY <1>3, <1>4, <1>5 DEF AddUserToChannel, DeleteMembers

\* The other steps change nothing that Conversation sees.
LEMMA OtherSessionStepsMap ==
  ASSUME RoomInv, NEW s \in Sessions,
         \/ Connect(s) \/ SendText(s) \/ PublishText(s) \/ TellSeen(s)
         \/ Close(s) \/ Drop(s) \/ End(s)
         \/ \E m \in pending[s] : Lose(s, m)
  PROVE  [Talk!Next]_(Talk!vars)
<1>1. UNCHANGED <<members, history, seen, early, live, fetched, ticks>>
  BY DEF Connect, End, Upgrade, ConnectExpired, AddOnlineUser, SetCid, FindChannel,
     CountOnline, BroadcastConnectMessage, SendText, PublishText, TellSeen, Close,
     Drop, ReadFails, CloseExpired, DeleteOnlineUser, BroadcastOffline, Lose, redis,
     page, past
<1>2. Inside' = Inside
  <2>1. CASE AddOnlineUser(s) \/ FindChannel(s) \/ BroadcastConnectMessage(s)
              \/ Upgrade(s) \/ PublishText(s) \/ TellSeen(s) \/ DeleteOnlineUser(s)
              \/ BroadcastOffline(s)
    BY <2>1, TwoOutcomes DEF Moves, Inside
  <2>2. CASE ConnectExpired(s) \/ SetCid(s) \/ CountOnline(s) \/ SendText(s)
              \/ ReadFails(s) \/ CloseExpired(s)
    BY <2>2 DEF ConnectExpired, SetCid, CountOnline, SendText, MayHandle, ReadFails,
       CloseExpired, Leave, Goto, Inside, RoomInv, TypeOK
  <2>3. CASE Close(s) \/ Drop(s) \/ \E m \in pending[s] : Lose(s, m)
    BY <2>3 DEF Close, Drop, Lose, Inside
  <2> QED
    BY <2>1, <2>2, <2>3 DEF Connect, End
<1> QED
  BY <1>1, <1>2, StillStutters DEF MarkedOnce

\* Nor is anything else that users do.
LEMMA OtherUserStepsMap ==
  ASSUME \/ CreateChannel
         \/ \E u \in Users :
              \/ Expire(u) \/ DeleteCheck(u) \/ BroadcastLeaved(u)
              \/ DeleteName(u) \/ DeleteAllOnlineUsers(u)
         \/ UNCHANGED vars
  PROVE  [Talk!Next]_(Talk!vars)
<1>1. UNCHANGED <<members, history, seen, early, live, fetched, ticks, pc>>
  BY DEF CreateChannel, Expire, DeleteCheck, BroadcastLeaved, DeleteName,
     DeleteAllOnlineUsers, redis, page, past, vars
<1> QED
  BY <1>1, StillStutters DEF MarkedOnce, Inside
-----------------------------------------------------------------------------
\* In every room, whatever fails: nothing is on its way to a page but texts that were
\* published, and marks for its own user.
LEMMA TalkInvariant == Spec => []TalkOK
<1>1. Init => TalkOK
  BY DEF Init, TalkOK
<1> QED
  BY <1>1, TalkOKStep, Inductive, PTL DEF Spec

\* ChatRoom implements Conversation: every step of StartChat, of the three handlers, of
\* a deletion, of the hubs and of the pages, the failures among them, is a step of
\* Conversation or changes nothing of it.
THEOREM RoomIsConversation == Spec => ImplementsConversation
<1>1. Init => Talk!Init
  <2> SUFFICES ASSUME Init PROVE Talk!Init
    OBVIOUS
  <2>1. \A s \in Sessions : live[s] \cup Fetched(s) = {}
    BY DEF Init, Fetched
  <2> QED
    BY <2>1 DEF Init, Talk!Init
<1>2. ASSUME RoomInv, TalkOK, [Next]_vars
      PROVE  [Talk!Next]_(Talk!vars)
  <2>1. ASSUME NEW u \in Users,
               AddUserToChannel(u) \/ Expire(u) \/ DeleteCheck(u) \/ DeleteChannel(u)
        PROVE  [Talk!Next]_(Talk!vars)
    BY <1>2, <2>1, MembersMap, OtherUserStepsMap DEF DeleteChannel
  <2>2. ASSUME NEW s \in Sessions,
               \/ StartChat(s) \/ Connect(s) \/ SendText(s) \/ Handle(s)
               \/ Close(s) \/ Drop(s) \/ End(s) \/ FetchMessages(s)
        PROVE  [Talk!Next]_(Talk!vars)
    BY <1>2, <2>2, StartChatMaps, InsertRPushMaps, InsertHSetMaps, FetchMaps,
       OtherSessionStepsMap DEF Handle
  <2>3. ASSUME NEW s \in Sessions,
               \/ \E m \in Senders : MarkMessageSeen(s, m)
               \/ \E m \in pending[s] : Visit(s, m) \/ Lose(s, m)
        PROVE  [Talk!Next]_(Talk!vars)
    BY <1>2, <2>3, MarkMaps, VisitMaps, OtherSessionStepsMap
  <2> QED
    BY <1>2, <2>1, <2>2, <2>3, OtherUserStepsMap DEF Next
<1> QED
  BY <1>1, <1>2, Inductive, TalkInvariant, PTL
   DEF Spec, ImplementsConversation, Talk!Spec
-----------------------------------------------------------------------------
(* What the room owes to being a conversation.                              *)

\* A mark was made by a page of another user than the sender, on a message that it
\* showed, and a tick is a mark for the sender.
TickOK ==
  /\ \A m \in MarkedOnce : \E t \in Sessions : UserOf[t] # UserOf[m] /\ m \in Shown[t]
  /\ ticks \in [Sessions -> SUBSET MarkedOnce]
  /\ \A s \in Sessions : \A m \in ticks[s] : UserOf[m] = UserOf[s]

\* Every step of a conversation keeps it.
LEMMA TickOKStep ==
  ASSUME TickOK, [Talk!Next]_(Talk!vars)
  PROVE  TickOK'
<1> USE DEF TickOK
<1>1. ASSUME Shown' = Shown, MarkedOnce' = MarkedOnce, ticks' = ticks PROVE TickOK'
  BY <1>1
<1>2. CASE Talk!Dismiss \/ \E u \in Users : Talk!Admit(u)
  BY <1>1, <1>2 DEF Talk!Dismiss, Talk!Admit, Shown, MarkedOnce
<1>3. ASSUME NEW s \in Sessions, Talk!Enter(s) \/ Talk!Say(s) PROVE TickOK'
  BY <1>1, <1>3 DEF Talk!Enter, Talk!Say, Shown, MarkedOnce
<1>4. ASSUME NEW s \in Sessions, NEW M, Talk!Show(s, M) PROVE TickOK'
  <2>1. /\ Shown' = [Shown EXCEPT ![s] = @ \cup M]
        /\ MarkedOnce' = MarkedOnce /\ ticks' = ticks
    BY <1>4 DEF Talk!Show, Shown, MarkedOnce
  <2>2. DOMAIN Shown = Sessions
    BY DEF Shown
  <2>3. \A m \in MarkedOnce' :
          \E t \in Sessions : UserOf[t] # UserOf[m] /\ m \in Shown'[t]
    BY <2>1, <2>2
  <2> QED
    BY <2>1, <2>3
<1>5. ASSUME NEW s \in Sessions, NEW m \in Sessions, Talk!Mark(s, m) PROVE TickOK'
  <2>1. /\ m \in Shown[s] /\ UserOf[m] # UserOf[s]
        /\ MarkedOnce' = MarkedOnce \cup {m}
        /\ Shown' = Shown /\ ticks' = ticks
    BY <1>5 DEF Talk!Mark, Shown, MarkedOnce
  <2> QED
    BY <2>1
<1>6. ASSUME NEW s \in Sessions, NEW m \in Sessions, Talk!Tick(s, m) PROVE TickOK'
  <2>1. /\ m \in MarkedOnce /\ UserOf[m] = UserOf[s]
        /\ ticks' = [ticks EXCEPT ![s] = @ \cup {m}]
        /\ Shown' = Shown /\ MarkedOnce' = MarkedOnce
    BY <1>6 DEF Talk!Tick, Shown, MarkedOnce
  <2> QED
    BY <2>1
<1>7. CASE UNCHANGED Talk!vars
  BY <1>1, <1>7 DEF Talk!vars, Shown, MarkedOnce
<1> QED
  BY <1>2, <1>3, <1>4, <1>5, <1>6, <1>7 DEF Talk!Next

\* Whatever is lost, retried or overtaken: a message that its sender's page shows as
\* seen has been shown by a page of another user.
THEOREM TicksMeanShown == Spec => []Talk!TickedWasShown
<1>1. Talk!Init => TickOK
  BY DEF Talk!Init, TickOK, MarkedOnce
<1>2. TickOK => Talk!TickedWasShown
  <2> SUFFICES ASSUME TickOK PROVE Talk!TickedWasShown
    OBVIOUS
  <2>1. \A x \in Sessions : Shown[x] = live[x] \cup Fetched(x)
    BY DEF Shown
  <2>2. \A s \in Sessions : \A m \in ticks[s] :
          m \in MarkedOnce /\ UserOf[m] = UserOf[s]
    BY DEF TickOK
  <2>3. \A s \in Sessions : \A m \in ticks[s] :
          \E t \in Sessions : UserOf[t] # UserOf[s] /\ m \in Shown[t]
    BY <2>2 DEF TickOK
  <2> QED
    BY <2>3 DEF Talk!TickedWasShown, Shown
<1>3. Talk!Spec => []Talk!TickedWasShown
  BY <1>1, <1>2, TickOKStep, PTL DEF Talk!Spec
<1> QED
  BY <1>3, RoomIsConversation, PTL DEF ImplementsConversation
=============================================================================
