------------------------------ MODULE ChatRoom ------------------------------
(***************************************************************************)
(* One channel of the chat service, from CreateChannel on.  Its state is   *)
(* five Redis keys; the sessions of its users are served by any number of  *)
(* chat servers, which learn of each other's messages through the pub/sub  *)
(* topic rc:msg:pubsub.  Channels share no key, so one stands for all.     *)
(*                                                                         *)
(* What is published reaches a session when its server's hub runs the      *)
(* broadcast filter on it.  Each server has a subscription and workers of  *)
(* its own, so a message's visits to two sessions, and the visits of two   *)
(* messages to one session, come in any order (see WorkerPool).            *)
(*                                                                         *)
(* Text and file messages take the same path and are one operation here.   *)
(* The page that holds a session's other end is modelled by what it sends, *)
(* asks for and does with a message.                                       *)
(***************************************************************************)
EXTENDS Integers, Sequences, FiniteSets

CONSTANTS
  Users,     \* the users whom the match service adds to the channel
  Sessions,  \* websockets ever opened to /api/chat with its tokens
  UserOf,    \* the user who opens a session
  Senders,   \* bound: sessions that send a text, one each
  Readers,   \* bound: sessions whose page asks for the history, and marks
  Leavers,   \* bound: sessions whose page closes or is cut off by itself
  Deleters,  \* bound: users who ask to delete the channel
  Expiring,  \* users whose token may expire
  MaxNum,    \* messages that ListMessages returns at most
  MaxFaults  \* bound: failures that may happen

ASSUME RoomAssumption ==
  /\ UserOf \in [Sessions -> Users]
  /\ Senders \subseteq Sessions
  /\ Readers \subseteq Sessions
  /\ Leavers \subseteq Sessions
  /\ Deleters \subseteq Users
  /\ Expiring \subseteq Users
  /\ MaxNum \in Nat \ {0}
  /\ MaxFaults \in Nat

VARIABLES
  chan,      \* Redis rc:chan: not yet set, there, or deleted
  members,   \* Redis rc:chanusers
  online,    \* Redis rc:onlineusers
  history,   \* Redis rc:msgs; a message is named by the session it came from
  seen,      \* Redis rc:seenmsgs: the messages whose field is 1
  toAdd,     \* users whose AddUserToChannel call is still to come
  expired,   \* users whose token has expired
  pc,        \* where the goroutine that serves a session is
  cid,       \* the session's key sessCidKey
  conn,      \* what the page has done to its connection
  subject,   \* the message that a session marks as seen
  deletion,  \* where a user's DELETE request is
  pending,   \* messages whose visit to a session is still to come
  live,      \* page: messages that came through the websocket
  fetched,   \* page: how long the history was when it was fetched, and
             \* whether the session was attached by then
  ticks,     \* page: own messages shown as seen
  published, \* history: messages that were published
  early,     \* history: messages marked seen before they were published
  says,      \* history: what a session's connect message said
  stale,     \* history: sessions whose page has not been told to ask who is
             \* online since that last changed
  faults,    \* failures so far
  struck     \* history: sessions that a failure may have kept a message from

redis == <<chan, members, online, history, seen>>
page == <<live, fetched, ticks>>
past == <<published, early, says, struck>>
vars == <<redis, toAdd, expired, pc, cid, conn, subject, deletion, pending, page,
          past, stale, faults>>

Locations ==
  {"out", "refused", "upgrading", "registered", "added", "counting", "counted",
   "announcing", "open", "inserting", "flagging", "publishing", "telling",
   "leaving", "closed", "lost"}

\* The session is gone: with its close handler complete, or without.
Gone == {"refused", "closed", "lost"}

InHub(s) == pc[s] \notin Gone \cup {"out", "upgrading"}

Attached(s) == InHub(s) /\ cid[s] = "room"

\* What the filters, and the pages, tell apart.
Message ==
  [kind : {"text", "seen"}, of : Sessions]
    \cup [kind : {"waiting", "joined", "offline"}, of : Sessions]
    \cup [kind : {"leaved"}, of : Users]

\* The messages on which a page asks who is online.
Notices == {"waiting", "joined", "offline", "leaved"}

Fault == faults < MaxFaults /\ faults' = faults + 1

TypeOK ==
  /\ chan \in {"new", "there", "deleted"}
  /\ members \subseteq Users /\ online \subseteq Users
  /\ toAdd \subseteq Users /\ expired \subseteq Expiring
  /\ history \in Seq(Senders)
  /\ seen \subseteq Senders
  /\ published \subseteq Senders /\ early \subseteq Senders
  /\ pc \in [Sessions -> Locations]
  /\ cid \in [Sessions -> {"unset", "room", "zero"}]
  /\ conn \in [Sessions -> {"up", "closing", "dropped"}]
  /\ subject \in [Sessions -> Sessions]
  /\ deletion \in [Users -> {"none", "checked", "told", "unnamed", "emptied",
                             "done", "failed"}]
  /\ pending \in [Sessions -> SUBSET Message]
  /\ live \in [Sessions -> SUBSET Senders]
  /\ fetched \in [Sessions -> [len : Nat \cup {-1}, attached : BOOLEAN]]
  /\ ticks \in [Sessions -> SUBSET Senders]
  /\ says \in [Sessions -> {"nothing", "waiting", "joined"}]
  /\ stale \subseteq Sessions /\ struck \subseteq Sessions
  /\ faults \in 0..MaxFaults

Init ==
  /\ chan = "new"
  /\ members = {} /\ online = {} /\ history = <<>> /\ seen = {}
  /\ toAdd = Users /\ expired = {}
  /\ pc = [s \in Sessions |-> "out"]
  /\ cid = [s \in Sessions |-> "unset"]
  /\ conn = [s \in Sessions |-> "up"]
  /\ subject = [s \in Sessions |-> s]
  /\ deletion = [u \in Users |-> "none"]
  /\ pending = [s \in Sessions |-> {}]
  /\ live = [s \in Sessions |-> {}]
  /\ fetched = [s \in Sessions |-> [len |-> -1, attached |-> FALSE]]
  /\ ticks = [s \in Sessions |-> {}]
  /\ published = {} /\ early = {} /\ struck = {}
  /\ says = [s \in Sessions |-> "nothing"]
  /\ stale = Sessions
  /\ faults = 0

-----------------------------------------------------------------------------
(* Parts of steps.                                                          *)

Goto(s, l) == pc' = [pc EXCEPT ![s] = l]

\* A page shows a tick on its own messages only; the visit to others is left out.
Concerns(m, s) == m.kind = "seen" => UserOf[m.of] = UserOf[s]

\* PublishMessage: every session will be visited that is, or by then will be,
\* in a hub.
Publish(m) ==
  pending' = [s \in Sessions |->
                IF pc[s] \notin Gone /\ Concerns(m, s) THEN pending[s] \cup {m}
                                                       ELSE pending[s]]

\* The publish fails, and nobody is told.
PublishFails ==
  /\ Fault
  /\ struck' = Sessions
  /\ UNCHANGED pending

SetOnline(S) ==
  /\ online' = S
  /\ stale' = IF S = online THEN stale ELSE Sessions

-----------------------------------------------------------------------------
(* The match service creates the channel and adds its users, the second    *)
(* perhaps long after the first has begun to chat.                          *)

CreateChannel ==
  /\ chan = "new"
  /\ chan' = "there"
  /\ UNCHANGED <<members, online, history, seen, toAdd, expired, pc, cid, conn,
                 subject, deletion, pending, page, past, stale, faults>>

\* A call whose answer is lost is made again.
AddUserToChannel(u) ==
  /\ u \in toAdd
  /\ chan # "new"
  /\ members' = members \cup {u}
  /\ \/ toAdd' = toAdd \ {u} /\ UNCHANGED faults
     \/ toAdd' = toAdd /\ Fault
  /\ UNCHANGED <<chan, online, history, seen, expired, pc, cid, conn, subject,
                 deletion, pending, page, past, stale>>

Expire(u) ==
  /\ u \in Expiring \ expired
  /\ expired' = expired \cup {u}
  /\ UNCHANGED <<redis, toAdd, pc, cid, conn, subject, deletion, pending, page,
                 past, stale, faults>>

-----------------------------------------------------------------------------
(* StartChat and HandleChatOnConnect.                                       *)

\* An expired token names channel 0, of which nobody is a member, so that the
\* missing return after it does not let it pass.
StartChat(s) ==
  /\ pc[s] = "out"
  /\ \/ /\ UserOf[s] \in members \ expired
        /\ Goto(s, "upgrading")
        /\ UNCHANGED <<pending, faults>>
     \/ /\ \/ UserOf[s] \notin members \ expired /\ UNCHANGED faults
           \/ Fault
        /\ Goto(s, "refused")
        /\ pending' = [pending EXCEPT ![s] = {}]
  /\ UNCHANGED <<redis, toAdd, expired, cid, conn, subject, deletion, page, past,
                 stale>>

\* The upgrade, after which the page may speak and ask, and the hub's register.
Upgrade(s) ==
  /\ pc[s] = "upgrading"
  /\ Goto(s, "registered")
  /\ UNCHANGED <<redis, toAdd, expired, cid, conn, subject, deletion, pending,
                 page, past, stale, faults>>

\* With a token that expired meanwhile the session joins channel 0.
ConnectExpired(s) ==
  /\ pc[s] = "registered"
  /\ UserOf[s] \in expired
  /\ cid' = [cid EXCEPT ![s] = "zero"]
  /\ Goto(s, "open")
  /\ UNCHANGED <<redis, toAdd, expired, conn, subject, deletion, pending, page,
                 past, stale, faults>>

\* When the command fails, applied or not, the session stays open without a key.
AddOnlineUser(s) ==
  /\ pc[s] = "registered"
  /\ UserOf[s] \notin expired
  /\ \/ /\ SetOnline(online \cup {UserOf[s]})
        /\ Goto(s, "added")
        /\ UNCHANGED <<faults, struck>>
     \/ /\ Fault
        /\ SetOnline(online \cup {UserOf[s]}) \/ UNCHANGED <<online, stale>>
        /\ struck' = Sessions
        /\ Goto(s, "open")
  /\ UNCHANGED <<chan, members, history, seen, toAdd, expired, cid, conn, subject,
                 deletion, pending, page, published, early, says>>

SetCid(s) ==
  /\ pc[s] = "added"
  /\ cid' = [cid EXCEPT ![s] = "room"]
  /\ Goto(s, "counting")
  /\ UNCHANGED <<redis, toAdd, expired, conn, subject, deletion, pending, page,
                 past, stale, faults>>

\* GetOnlineUserIDs looks for the channel first.  Without it, or without an
\* answer, nothing is announced and the session stays.
FindChannel(s) ==
  /\ pc[s] = "counting"
  /\ \/ chan = "there" /\ Goto(s, "counted") /\ UNCHANGED <<faults, struck>>
     \/ chan # "there" /\ Goto(s, "open") /\ UNCHANGED <<faults, struck>>
     \/ Fault /\ struck' = Sessions /\ Goto(s, "open")
  /\ UNCHANGED <<redis, toAdd, expired, cid, conn, subject, deletion, pending,
                 page, published, early, says, stale>>

\* Wrong: the user who connects is not counted.
CountOthers(s) ==
  /\ pc[s] = "counted"
  /\ says' = [says EXCEPT ![s] =
                IF Cardinality(online \ {UserOf[s]}) <= 1 THEN "waiting"
                                                         ELSE "joined"]
  /\ Goto(s, "announcing")
  /\ UNCHANGED <<redis, toAdd, expired, cid, conn, subject, deletion, pending,
                 page, published, early, struck, stale, faults>>

\* Wrong: neither action is chosen.
CountForNothing(s) ==
  /\ pc[s] = "counted"
  /\ Goto(s, "announcing")
  /\ UNCHANGED <<redis, toAdd, expired, cid, conn, subject, deletion, pending,
                 page, past, stale, faults>>

CountOnline(s) ==
  /\ pc[s] = "counted"
  /\ says' = [says EXCEPT ![s] =
                IF Cardinality(online) = 1 THEN "waiting" ELSE "joined"]
  /\ Goto(s, "announcing")
  /\ UNCHANGED <<redis, toAdd, expired, cid, conn, subject, deletion, pending,
                 page, published, early, struck, stale, faults>>

BroadcastConnectMessage(s) ==
  /\ pc[s] = "announcing"
  /\ \/ Publish([kind |-> says[s], of |-> s]) /\ UNCHANGED <<faults, struck>>
     \/ PublishFails
  /\ Goto(s, "open")
  /\ UNCHANGED <<redis, toAdd, expired, cid, conn, subject, deletion, page,
                 published, early, says, stale>>

-----------------------------------------------------------------------------
(* HandleChatOnMessage.  It takes the channel from the token, not from the *)
(* session.                                                                 *)

\* What the page sent before it closed or was cut off may still be handled.
MayHandle(s) == pc[s] = "open" /\ UserOf[s] \notin expired

\* Wrong: the message is published before it is stored.
PublishFirst(s) ==
  /\ MayHandle(s)
  /\ s \in Senders \ published
  /\ Publish([kind |-> "text", of |-> s])
  /\ published' = published \cup {s}
  /\ Goto(s, "inserting")
  /\ UNCHANGED <<redis, toAdd, expired, cid, conn, subject, deletion, page, early,
                 says, struck, stale, faults>>

SendText(s) ==
  /\ MayHandle(s)
  /\ s \in Senders
  /\ \A i \in 1..Len(history) : history[i] # s
  /\ Goto(s, "inserting")
  /\ UNCHANGED <<redis, toAdd, expired, cid, conn, subject, deletion, pending,
                 page, past, stale, faults>>

\* InsertMessage is a pipeline, no transaction: others come between its commands.
\* When an answer is lost, the command applied or not, the pipeline is sent again
\* after a backoff, in which others come too, or the client gives up.
InsertRPush(s) ==
  /\ pc[s] = "inserting"
  /\ \/ history' = Append(history, s) /\ Goto(s, "flagging") /\ UNCHANGED faults
     \/ /\ Fault
        /\ history' \in {history, Append(history, s)}
        /\ \E l \in {"inserting", "open"} : Goto(s, l)
  /\ UNCHANGED <<chan, members, online, seen, toAdd, expired, cid, conn, subject,
                 deletion, pending, page, past, stale>>

InsertHSet(s) ==
  /\ pc[s] = "flagging"
  /\ \/ seen' = seen \ {s} /\ Goto(s, "publishing") /\ UNCHANGED faults
     \/ /\ Fault
        /\ seen' \in {seen, seen \ {s}}
        /\ \E l \in {"inserting", "open"} : Goto(s, l)
  /\ UNCHANGED <<chan, members, online, history, toAdd, expired, cid, conn, subject,
                 deletion, pending, page, past, stale>>

PublishText(s) ==
  /\ pc[s] = "publishing"
  /\ \/ /\ Publish([kind |-> "text", of |-> s])
        /\ published' = published \cup {s}
        /\ UNCHANGED <<faults, struck>>
     \/ PublishFails /\ UNCHANGED published
  /\ Goto(s, "open")
  /\ UNCHANGED <<redis, toAdd, expired, cid, conn, subject, deletion, page, early,
                 says, stale>>

\* What the page fetched: the last MaxNum messages of that time.
Fetched(s) ==
  {history[i] : i \in {j \in 1..fetched[s].len : j > fetched[s].len - MaxNum}}

\* Wrong: the message is reported as seen whether it was marked or not.
MarkUnchecked(s, m) ==
  /\ MayHandle(s)
  /\ s \in Readers
  /\ m \in live[s] \cup Fetched(s)
  /\ UserOf[m] # UserOf[s]
  /\ m \notin seen
  /\ \/ seen' = seen \cup {m} /\ UNCHANGED faults
     \/ Fault /\ UNCHANGED seen
  /\ early' = IF m \in published THEN early ELSE early \cup {m}
  /\ subject' = [subject EXCEPT ![s] = m]
  /\ Goto(s, "telling")
  /\ UNCHANGED <<chan, members, online, history, toAdd, expired, cid, conn,
                 deletion, pending, page, published, says, struck, stale>>

\* The page marks messages of others that it shows.  (When the command fails
\* nothing happens.)
MarkMessageSeen(s, m) ==
  /\ MayHandle(s)
  /\ s \in Readers
  /\ m \in live[s] \cup Fetched(s)
  /\ UserOf[m] # UserOf[s]
  /\ m \notin seen
  /\ seen' = seen \cup {m}
  /\ early' = IF m \in published THEN early ELSE early \cup {m}
  /\ subject' = [subject EXCEPT ![s] = m]
  /\ Goto(s, "telling")
  /\ UNCHANGED <<chan, members, online, history, toAdd, expired, cid, conn,
                 deletion, pending, page, published, says, struck, stale, faults>>

TellSeen(s) ==
  /\ pc[s] = "telling"
  /\ \/ Publish([kind |-> "seen", of |-> subject[s]]) /\ UNCHANGED <<faults, struck>>
     \/ PublishFails
  /\ Goto(s, "open")
  /\ subject' = [subject EXCEPT ![s] = s]
  /\ UNCHANGED <<redis, toAdd, expired, cid, conn, deletion, page, published,
                 early, says, stale>>

-----------------------------------------------------------------------------
(* The end of a session.  Only a close frame runs HandleChatOnClose.        *)

Close(s) ==
  /\ s \in Leavers
  /\ InHub(s)
  /\ conn[s] = "up"
  /\ conn' = [conn EXCEPT ![s] = "closing"]
  /\ UNCHANGED <<redis, toAdd, expired, pc, cid, subject, deletion, pending, page,
                 past, stale, faults>>

Drop(s) ==
  /\ s \in Leavers
  /\ InHub(s)
  /\ conn[s] # "dropped"
  /\ Fault
  /\ conn' = [conn EXCEPT ![s] = "dropped"]
  /\ UNCHANGED <<redis, toAdd, expired, pc, cid, subject, deletion, pending, page,
                 past, stale>>

\* The hub forgets the session.
Leave(s, l) ==
  /\ Goto(s, l)
  /\ pending' = [pending EXCEPT ![s] = {}]

ReadFails(s) ==
  /\ pc[s] = "open"
  /\ conn[s] = "dropped"
  /\ Leave(s, "lost")
  /\ UNCHANGED <<redis, toAdd, expired, cid, conn, subject, deletion, page, past,
                 stale, faults>>

\* An expired token ends the handler before it has done anything.
CloseExpired(s) ==
  /\ pc[s] = "open"
  /\ conn[s] = "closing"
  /\ UserOf[s] \in expired
  /\ Leave(s, "lost")
  /\ UNCHANGED <<redis, toAdd, expired, cid, conn, subject, deletion, page, past,
                 stale, faults>>

\* Wrong: the whole key is deleted.
DeleteOnlineKey(s) ==
  /\ pc[s] = "open"
  /\ conn[s] = "closing"
  /\ UserOf[s] \notin expired
  /\ SetOnline({})
  /\ Goto(s, "leaving")
  /\ UNCHANGED <<chan, members, history, seen, toAdd, expired, cid, conn, subject,
                 deletion, pending, page, past, faults>>

\* Wrong: the user is announced to be offline, and stays on the list.
LeaveOnlineUser(s) ==
  /\ pc[s] = "open"
  /\ conn[s] = "closing"
  /\ UserOf[s] \notin expired
  /\ Goto(s, "leaving")
  /\ UNCHANGED <<redis, toAdd, expired, cid, conn, subject, deletion, pending,
                 page, past, stale, faults>>

DeleteOnlineUser(s) ==
  /\ pc[s] = "open"
  /\ conn[s] = "closing"
  /\ UserOf[s] \notin expired
  /\ \/ /\ SetOnline(online \ {UserOf[s]})
        /\ Goto(s, "leaving")
        /\ UNCHANGED <<pending, faults, struck>>
     \/ /\ Fault
        /\ SetOnline(online \ {UserOf[s]}) \/ UNCHANGED <<online, stale>>
        /\ struck' = Sessions
        /\ Leave(s, "lost")
  /\ UNCHANGED <<chan, members, history, seen, toAdd, expired, cid, conn, subject,
                 deletion, page, published, early, says>>

\* Wrong: nobody is told.
CloseQuietly(s) ==
  /\ pc[s] = "leaving"
  /\ Leave(s, "closed")
  /\ UNCHANGED <<redis, toAdd, expired, cid, conn, subject, deletion, page, past,
                 stale, faults>>

BroadcastOffline(s) ==
  /\ pc[s] = "leaving"
  /\ \/ /\ pending' = [x \in Sessions |->
                         IF x = s \/ pc[x] \in Gone THEN {}
                         ELSE pending[x] \cup {[kind |-> "offline", of |-> s]}]
        /\ UNCHANGED <<faults, struck>>
     \/ /\ Fault
        /\ struck' = Sessions
        /\ pending' = [pending EXCEPT ![s] = {}]
  /\ Goto(s, "closed")
  /\ UNCHANGED <<redis, toAdd, expired, cid, conn, subject, deletion, page,
                 published, early, says, stale>>

-----------------------------------------------------------------------------
(* The handler of DELETE /api/channel.  A request that failed may be        *)
(* made again.                                                              *)

DeletionStep(u, from, to) ==
  /\ deletion[u] = from
  /\ \/ deletion' = [deletion EXCEPT ![u] = to] /\ UNCHANGED faults
     \/ Fault /\ deletion' = [deletion EXCEPT ![u] = "failed"]

DeleteCheck(u) ==
  /\ u \in Deleters
  /\ deletion[u] \in {"none", "failed"}
  /\ u \in members \ expired
  /\ deletion' = [deletion EXCEPT ![u] = "checked"]
  /\ UNCHANGED <<redis, toAdd, expired, pc, cid, conn, subject, pending, page, past,
                 stale, faults>>

BroadcastLeaved(u) ==
  /\ deletion[u] = "checked"
  /\ \/ /\ Publish([kind |-> "leaved", of |-> u])
        /\ deletion' = [deletion EXCEPT ![u] = "told"]
        /\ UNCHANGED <<faults, struck>>
     \/ PublishFails /\ deletion' = [deletion EXCEPT ![u] = "failed"]
  /\ UNCHANGED <<redis, toAdd, expired, pc, cid, conn, subject, page, published,
                 early, says, stale>>

DeleteName(u) ==
  /\ DeletionStep(u, "told", "unnamed")
  /\ chan' = IF deletion'[u] = "failed" THEN chan ELSE "deleted"
  /\ UNCHANGED <<members, online, history, seen, toAdd, expired, pc, cid, conn,
                 subject, pending, page, past, stale>>

DeleteMembers(u) ==
  /\ DeletionStep(u, "unnamed", "emptied")
  /\ members' = IF deletion'[u] = "failed" THEN members ELSE {}
  /\ UNCHANGED <<chan, online, history, seen, toAdd, expired, pc, cid, conn,
                 subject, pending, page, past, stale>>

DeleteAllOnlineUsers(u) ==
  /\ DeletionStep(u, "emptied", "done")
  /\ SetOnline(IF deletion'[u] = "failed" THEN online ELSE {})
  /\ UNCHANGED <<chan, members, history, seen, toAdd, expired, pc, cid, conn,
                 subject, pending, page, past>>

-----------------------------------------------------------------------------
(* The hub's visits, and the page.                                          *)

\* Wrong: the page keeps its socket when the other user has left.
PageStays(s, m) == UNCHANGED conn

\* On "leaved" the page throws its token away and closes its socket.
PageCloses(s, m) ==
  conn' = IF m.kind = "leaved" /\ conn[s] = "up"
            THEN [conn EXCEPT ![s] = "closing"] ELSE conn

\* The filter looks for the key; the page reads what the hub writes.
Visit(s, m) ==
  /\ m \in pending[s]
  /\ pending' = [pending EXCEPT ![s] = @ \ {m}]
  /\ IF Attached(s) /\ conn[s] = "up"
       THEN /\ live' = IF m.kind = "text"
                         THEN [live EXCEPT ![s] = @ \cup {m.of}] ELSE live
            /\ ticks' = IF m.kind = "seen"
                          THEN [ticks EXCEPT ![s] = @ \cup {m.of}] ELSE ticks
            /\ stale' = IF m.kind \in Notices THEN stale \ {s} ELSE stale
            /\ PageCloses(s, m)
       ELSE UNCHANGED <<live, ticks, stale, conn>>
  /\ UNCHANGED <<redis, toAdd, expired, pc, cid, subject, deletion, fetched, past,
                 faults>>

\* A subscription that is cut, or a pool that is stopped, loses messages.
Lose(s, m) ==
  /\ m \in pending[s]
  /\ Fault
  /\ pending' = [pending EXCEPT ![s] = @ \ {m}]
  /\ struck' = struck \cup {s}
  /\ UNCHANGED <<redis, toAdd, expired, pc, cid, conn, subject, deletion, page,
                 published, early, says, stale>>

\* The page asks for the messages once, any time after its socket has opened.
FetchMessages(s) ==
  /\ s \in Readers
  /\ InHub(s)
  /\ conn[s] = "up"
  /\ chan = "there"
  /\ UserOf[s] \notin expired
  /\ fetched[s].len = -1
  /\ fetched' = [fetched EXCEPT ![s] =
                   [len |-> Len(history), attached |-> cid[s] = "room"]]
  /\ UNCHANGED <<redis, toAdd, expired, pc, cid, conn, subject, deletion, pending,
                 live, ticks, past, stale, faults>>

-----------------------------------------------------------------------------
Connect(s) ==
  \/ Upgrade(s) \/ ConnectExpired(s) \/ AddOnlineUser(s) \/ SetCid(s)
  \/ FindChannel(s) \/ CountOnline(s) \/ BroadcastConnectMessage(s)

Handle(s) ==
  \/ InsertRPush(s) \/ InsertHSet(s) \/ PublishText(s) \/ TellSeen(s)

End(s) ==
  \/ ReadFails(s) \/ CloseExpired(s) \/ DeleteOnlineUser(s)
  \/ BroadcastOffline(s)

DeleteChannel(u) ==
  \/ BroadcastLeaved(u) \/ DeleteName(u) \/ DeleteMembers(u)
  \/ DeleteAllOnlineUsers(u)

Next ==
  \/ CreateChannel
  \/ \E u \in Users :
       AddUserToChannel(u) \/ Expire(u) \/ DeleteCheck(u) \/ DeleteChannel(u)
  \/ \E s \in Sessions :
       \/ StartChat(s) \/ Connect(s) \/ SendText(s) \/ Handle(s)
       \/ Close(s) \/ Drop(s) \/ End(s) \/ FetchMessages(s)
       \/ \E m \in Senders : MarkMessageSeen(s, m)
       \/ \E m \in pending[s] : Visit(s, m) \/ Lose(s, m)

Spec == Init /\ [][Next]_vars

\* Goroutines, hubs and workers run on.  What users and pages do is up to them.
FairSpec ==
  /\ Spec
  /\ \A s \in Sessions :
       /\ WF_vars(Connect(s) \/ Handle(s) \/ End(s))
       /\ WF_vars(\E m \in pending[s] : Visit(s, m))
  /\ \A u \in Users : WF_vars(DeleteChannel(u))

-----------------------------------------------------------------------------
(* Safety.                                                                  *)

\* HandleChatOnClose has taken the session's user off the list.
TakenOff(s) == pc[s] \in {"leaving", "closed"}

DeletionBegun == \E u \in Users : deletion[u] # "none"

\* The user of an attached session is on the list of online users, unless the
\* channel is being deleted or another session of the same user has ended, by a
\* close whose answer may have been lost.
OpenMeansOnline ==
  \A s \in Sessions :
    Attached(s) /\ ~TakenOff(s) =>
      \/ UserOf[s] \in online
      \/ DeletionBegun
      \/ \E t \in Sessions \ {s} :
           UserOf[t] = UserOf[s] /\ (TakenOff(t) \/ pc[t] = "lost")

\* A user who is on the list has a session whose close will take him off, or one
\* that was lost: cut off, failed at the close, or with an expired token.  This
\* holds when the channel is deleted, too.
NoGhostOnline ==
  \A u \in online :
    \E s \in Sessions :
      UserOf[s] = u /\ (pc[s] = "lost" \/ (InHub(s) /\ ~TakenOff(s)))

\* Of two users who are both here the later one has seen the other: their pages
\* are not both told to wait.
NotBothWaiting ==
  \A s, t \in Sessions :
    /\ UserOf[s] # UserOf[t]
    /\ says[s] = "waiting" /\ says[t] = "waiting"
    => \/ DeletionBegun
       \/ \E x \in Sessions :
            UserOf[x] \in {UserOf[s], UserOf[t]} /\ (TakenOff(x) \/ pc[x] = "lost")

\* No session is on its way to announce a change of the list, or to be visited for
\* one.
Settled(s) ==
  /\ \A m \in pending[s] : m.kind \notin Notices
  /\ \A t \in Sessions :
       pc[t] \notin {"added", "counting", "counted", "announcing", "leaving"}

\* Whatever order the visits come in, once they are over every attached page has
\* been told to ask for the list after it last changed.
ChangesAreAnnounced ==
  \A s \in Sessions :
    /\ Attached(s) /\ pc[s] = "open" /\ conn[s] = "up"
    /\ Settled(s) /\ ~DeletionBegun /\ s \notin struck
    => s \notin stale

\* No message falls between the history and the websocket: a page that fetched
\* the history after its session had attached has every later message, and those
\* of the last MaxNum before.  (One that fetched sooner may have a gap.)
FetchedOrDelivered ==
  \A s \in Sessions : \A m \in published :
    /\ Attached(s) /\ conn[s] = "up" /\ s \notin struck
    /\ fetched[s].attached
    /\ [kind |-> "text", of |-> m] \notin pending[s]
    => \/ m \in live[s] \cup Fetched(s)
       \/ \E i \in 1..Len(history) : history[i] = m /\ i <= fetched[s].len - MaxNum

\* What a page shows as seen is stored as seen, unless the other page had fetched
\* the message and marked it before InsertMessage reset its field.
TickMeansSeen ==
  \A s \in Sessions : \A m \in ticks[s] : m \in seen \/ m \in early

-----------------------------------------------------------------------------
(* What it comes to.                                                        *)

Talk == INSTANCE Conversation WITH
  inside <- {s \in Sessions : pc[s] \notin {"out", "refused"}},
  log <- history,
  shown <- [s \in Sessions |-> live[s] \cup Fetched(s)],
  marked <- seen \cup early,
  ticked <- ticks

\* Whatever fails, overtakes or is sent twice, every step of the service and of the
\* pages is one of Conversation, or changes nothing of it: only members come in, a
\* page shows only what was stored, and a tick means that another user's page has
\* shown the message and marked it.
ImplementsConversation == Talk!Spec

-----------------------------------------------------------------------------
(* Liveness, under FairSpec and without failures.                           *)

\* When a user leaves, the sessions attached then end, and take their users off.
LeavingEndsSessions ==
  \A u \in Users, s \in Sessions :
    deletion[u] = "checked" /\ Attached(s) ~> pc[s] \in Gone
=============================================================================
