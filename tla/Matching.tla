------------------------------ MODULE Matching ------------------------------
(***************************************************************************)
(* The match service: a visitor opens a websocket, is paired with the one  *)
(* user who waits in the Redis wait list or becomes that user, and every   *)
(* session of the two users is told the access token of a fresh channel    *)
(* through the pub/sub topic rc:match:pubsub.                              *)
(*                                                                         *)
(* One visit is one websocket.  A user may make several, one after the     *)
(* other or at once (a second tab, a reload before the first socket's      *)
(* close frame is handled).  Three kinds of process act on a visit: the    *)
(* page, the goroutine that serves its socket, and the hub goroutine of    *)
(* its server, which runs the broadcast filters one session at a time.     *)
(***************************************************************************)
EXTENDS Integers, FiniteSets

CONSTANTS
  Users,      \* user ids, as in the uid query parameter
  Visits,     \* websocket connections ever made to /api/match
  Servers,    \* match server processes, each with its melody hub
  UserOf,     \* the user who makes a visit
  ServerOf,   \* the server that serves it
  None,       \* what the wait-list script returns when it pops nobody
  Leavers,    \* bound: visits whose visitor leaves or vanishes unserved
  MaxIDs,     \* bound: channel ids ever drawn
  MaxFaults   \* bound: failures that may happen

ASSUME ConstantsAssumption ==
  /\ UserOf \in [Visits -> Users]
  /\ ServerOf \in [Visits -> Servers]
  /\ None \notin Visits \cup Users
  /\ Leavers \subseteq Visits
  /\ MaxIDs \in Nat
  /\ MaxFaults \in Nat

VARIABLES
  pc,         \* where the socket goroutine of a visit is
  conn,       \* what the page has done to its connection
  waitList,   \* Redis rc:userwait.  A member is a user; the visit that added
              \* it is kept in its place as history, and no step looks at more
              \* of it than its user.  Scores are left out: see OneWaiter.
  peer,       \* the visit whose entry the script popped for this one
  lastID,     \* the last channel id drawn (sonyflake: never drawn twice)
  results,    \* every MatchResult ever made
  members,    \* Redis rc:chanusers:<channel>: pairs <<channel, user>>
  subscribed, \* servers whose Subscribe has received its confirmation
  inbox,      \* results a server's subscriber or its pool still holds
  hub,        \* <<result, session>> pairs the running broadcast has to visit
  outbox,     \* results written to a session
  token,      \* the result the page has stored
  faults,     \* failures so far
  struck      \* history: visits that a failure, a publish before Subscribe,
              \* or the close of another visit of the same user has hit

vars == <<pc, conn, waitList, peer, lastID, results, members, subscribed,
          inbox, hub, outbox, token, faults, struck>>

\* The steps of HandleRequest, HandleMatchOnConnect and the read loop.
Locations == {"new", "registered", "keyed", "creating", "publishing", "open",
              "closing", "closed"}

\* The sessions a hub holds: from melody's register to its unregister.
Attached == {"registered", "keyed", "creating", "publishing", "open", "closing"}

MatchResult == [user : Visits, peer : Visits, chan : 1..MaxIDs]

Pair(r) == {UserOf[r.user], UserOf[r.peer]}

Listed(u) == \E t \in waitList : UserOf[t] = u

\* The visits whose page is waiting for a result that goes to r's two users.
AttachedOf(r) == {s \in Visits : pc[s] \in Attached /\ UserOf[s] \in Pair(r)}

\* t and the open sockets of t's user, who all wait on the one entry t stands for.
SharingEntry(t) ==
  {t} \cup {x \in Visits : pc[x] \in Attached /\ UserOf[x] = UserOf[t]}

HubIdle(v) == hub[v] = {}

Fault == faults < MaxFaults /\ faults' = faults + 1

TypeOK ==
  /\ pc \in [Visits -> Locations]
  /\ conn \in [Visits -> {"up", "closing", "dropped"}]
  /\ waitList \subseteq Visits
  /\ peer \in [Visits -> Visits \cup {None}]
  /\ \A s \in Visits : pc[s] = "creating" => peer[s] \in Visits
  /\ lastID \in 0..MaxIDs
  /\ results \subseteq MatchResult
  /\ members \subseteq (1..MaxIDs) \X Users
  /\ subscribed \subseteq Servers
  /\ inbox \in [Servers -> SUBSET results]
  /\ hub \in [Servers -> SUBSET (results \X Visits)]
  /\ outbox \in [Visits -> SUBSET results]
  /\ token \in [Visits -> SUBSET results]
  /\ faults \in 0..MaxFaults
  /\ struck \subseteq Visits

Init ==
  /\ pc = [s \in Visits |-> "new"]
  /\ conn = [s \in Visits |-> "up"]
  /\ waitList = {}
  /\ peer = [s \in Visits |-> None]
  /\ lastID = 0
  /\ results = {}
  /\ members = {}
  /\ subscribed = {}
  /\ inbox = [v \in Servers |-> {}]
  /\ hub = [v \in Servers |-> {}]
  /\ outbox = [s \in Visits |-> {}]
  /\ token = [s \in Visits |-> {}]
  /\ faults = 0
  /\ struck = {}

-----------------------------------------------------------------------------
(* The server starts: Run listens and subscribes in separate goroutines,   *)
(* so sessions may come before the subscription.                            *)

Subscribe(v) ==
  /\ v \notin subscribed
  /\ subscribed' = subscribed \cup {v}
  /\ UNCHANGED <<pc, conn, waitList, peer, lastID, results, members, inbox,
                 hub, outbox, token, faults, struck>>

-----------------------------------------------------------------------------
(* The socket goroutine of a visit.                                         *)

\* A bad uid, or a GetUser call that fails, is answered before the upgrade.
Refuse(s) ==
  /\ pc[s] = "new"
  /\ pc' = [pc EXCEPT ![s] = "closed"]
  /\ UNCHANGED <<conn, waitList, peer, lastID, results, members, subscribed,
                 inbox, hub, outbox, token, faults, struck>>

\* The upgrade, then the unbuffered send to the hub, which takes it only
\* between two broadcasts.
Connect(s) ==
  /\ pc[s] = "new"
  /\ HubIdle(ServerOf[s])
  /\ pc' = [pc EXCEPT ![s] = "registered"]
  /\ UNCHANGED <<conn, waitList, peer, lastID, results, members, subscribed,
                 inbox, hub, outbox, token, faults, struck>>

\* initializeMatchSession: from here on the broadcast filter can read the uid.
SetUid(s) ==
  /\ pc[s] = "registered"
  /\ pc' = [pc EXCEPT ![s] = "keyed"]
  /\ UNCHANGED <<conn, waitList, peer, lastID, results, members, subscribed,
                 inbox, hub, outbox, token, faults, struck>>

\* Wrong: without the ZSCORE test.
ScriptWithoutZScore(s, popped) ==
  \/ popped \in waitList /\ waitList' = waitList \ {popped}
  \/ waitList = {} /\ popped = None /\ waitList' = {s}

\* Wrong: the first of the list is read (ZRANGE) and stays on it.
ScriptThatPeeks(s, popped) ==
  \/ Listed(UserOf[s]) /\ popped = None /\ waitList' = waitList
  \/ ~Listed(UserOf[s]) /\ popped \in waitList /\ waitList' = waitList
  \/ waitList = {} /\ popped = None /\ waitList' = {s}

\* Wrong: whoever is not listed is added, and nobody is popped.
ScriptThatOnlyAdds(s, popped) ==
  /\ popped = None
  /\ waitList' = IF Listed(UserOf[s]) THEN waitList ELSE waitList \cup {s}

\* The Lua script, one atomic step of Redis, run for s: popped is its answer.
ZPopMinOrAddOne(s, popped) ==
  \/ /\ Listed(UserOf[s])
     /\ popped = None
     /\ waitList' = waitList
  \/ /\ ~Listed(UserOf[s])
     /\ popped \in waitList
     /\ waitList' = waitList \ {popped}
  \/ /\ waitList = {}
     /\ popped = None
     /\ waitList' = {s}

\* Wrong: Match goes on to make a channel whether or not somebody was popped.
MatchWithoutMatchedTest(s) ==
  /\ pc[s] = "keyed"
  /\ \E popped \in Visits \cup {None} :
       ZPopMinOrAddOne(s, popped) /\ peer' = [peer EXCEPT ![s] = popped]
  /\ pc' = [pc EXCEPT ![s] = "creating"]
  /\ UNCHANGED <<conn, lastID, results, members, subscribed, inbox, hub, outbox,
                 token, faults, struck>>

PopOrPushWaitList(s) ==
  /\ pc[s] = "keyed"
  /\ \E popped \in Visits \cup {None} :
       /\ ZPopMinOrAddOne(s, popped)
       /\ pc' = [pc EXCEPT ![s] = IF popped = None THEN "open" ELSE "creating"]
       /\ peer' = [peer EXCEPT ![s] = popped]
  /\ UNCHANGED <<conn, lastID, results, members, subscribed, inbox, hub, outbox,
                 token, faults, struck>>

\* The CreateChannel call to the chat service and the MatchResult built on it.
CreateChannel(s) ==
  /\ pc[s] = "creating"
  /\ lastID < MaxIDs
  /\ lastID' = lastID + 1
  /\ results' = results \cup
       {[user |-> s, peer |-> peer[s], chan |-> lastID + 1]}
  /\ pc' = [pc EXCEPT ![s] = "publishing"]
  /\ UNCHANGED <<conn, waitList, peer, members, subscribed, inbox, hub, outbox,
                 token, faults, struck>>

\* Redis hands the message to the servers that are subscribed now; a session of
\* the pair on any other server will never hear of it.
DeliverToSubscribers(r) ==
  /\ inbox' = [v \in Servers |->
       IF v \in subscribed THEN inbox[v] \cup {r} ELSE inbox[v]]
  /\ struck' = struck \cup {t \in AttachedOf(r) : ServerOf[t] \notin subscribed}

\* Wrong: the result is broadcast to the sessions of this server alone.
BroadcastOnThisServerOnly(s) ==
  /\ pc[s] = "publishing"
  /\ \E r \in results :
       /\ r.user = s
       /\ inbox' = [inbox EXCEPT ![ServerOf[s]] = @ \cup {r}]
  /\ pc' = [pc EXCEPT ![s] = "open"]
  /\ UNCHANGED <<conn, waitList, peer, lastID, results, members, subscribed,
                 hub, outbox, token, faults, struck>>

PublishMatchResult(s) ==
  /\ pc[s] = "publishing"
  /\ \E r \in results : r.user = s /\ DeliverToSubscribers(r)
  /\ pc' = [pc EXCEPT ![s] = "open"]
  /\ UNCHANGED <<conn, waitList, peer, lastID, results, members, subscribed,
                 hub, outbox, token, faults>>

\* Wrong: the close handler leaves the list alone.
LeaveWaitListAlone(s) == waitList' = waitList /\ struck' = struck

\* A close frame is read: HandleMatchOnClose takes the user off the wait list,
\* whichever visit put the user there.
RemoveFromWaitList(s) ==
  /\ waitList' = {t \in waitList : UserOf[t] # UserOf[s]}
  /\ struck' = struck \cup
       IF Listed(UserOf[s])
       THEN {t \in Visits \ {s} : pc[t] = "open" /\ UserOf[t] = UserOf[s]}
       ELSE {}

HandleMatchOnClose(s) ==
  /\ pc[s] = "open"
  /\ conn[s] = "closing"
  /\ RemoveFromWaitList(s)
  /\ pc' = [pc EXCEPT ![s] = "closing"]
  /\ UNCHANGED <<conn, peer, lastID, results, members, subscribed, inbox, hub,
                 outbox, token, faults>>

\* No frame for PongWait: the read fails and no close handler runs.
ReadDeadline(s) ==
  /\ pc[s] = "open"
  /\ conn[s] = "dropped"
  /\ pc' = [pc EXCEPT ![s] = "closing"]
  /\ UNCHANGED <<conn, waitList, peer, lastID, results, members, subscribed,
                 inbox, hub, outbox, token, faults, struck>>

\* The hub takes the unregistration, again only between two broadcasts.
Unregister(s) ==
  /\ pc[s] = "closing"
  /\ HubIdle(ServerOf[s])
  /\ pc' = [pc EXCEPT ![s] = "closed"]
  /\ UNCHANGED <<conn, waitList, peer, lastID, results, members, subscribed,
                 inbox, hub, outbox, token, faults, struck>>

-----------------------------------------------------------------------------
(* The subscriber's pool and the hub goroutine of a server.                 *)

\* Wrong: Broadcast, without a filter.
BroadcastToAll(v) ==
  /\ HubIdle(v)
  /\ \E r \in inbox[v] :
       /\ inbox' = [inbox EXCEPT ![v] = @ \ {r}]
       /\ hub' = [hub EXCEPT ![v] =
            {<<r, t>> : t \in {t \in Visits : pc[t] \in Attached /\ ServerOf[t] = v}}]
  /\ UNCHANGED <<pc, conn, waitList, peer, lastID, results, members, subscribed,
                 outbox, token, faults, struck>>

\* Wrong: the filter asks for the user who matched and forgets the peer.
BroadcastToUserOnly(v) ==
  /\ HubIdle(v)
  /\ \E r \in inbox[v] :
       /\ inbox' = [inbox EXCEPT ![v] = @ \ {r}]
       /\ hub' = [hub EXCEPT ![v] = {<<r, t>> : t \in {t \in AttachedOf(r) :
                    ServerOf[t] = v /\ UserOf[t] = UserOf[r.user]}}]
  /\ UNCHANGED <<pc, conn, waitList, peer, lastID, results, members, subscribed,
                 outbox, token, faults, struck>>

\* A pool worker hands the envelope of sendMatchResult to the idle hub.  Filters
\* of sessions of other users return false and are left out.
BroadcastFilter(v) ==
  /\ HubIdle(v)
  /\ \E r \in inbox[v] :
       /\ inbox' = [inbox EXCEPT ![v] = @ \ {r}]
       /\ hub' = [hub EXCEPT ![v] =
            {<<r, t>> : t \in {t \in AttachedOf(r) : ServerOf[t] = v}}]
  /\ UNCHANGED <<pc, conn, waitList, peer, lastID, results, members, subscribed,
                 outbox, token, faults, struck>>

AddUserToChannel(r, s) == members' = members \cup {<<r.chan, UserOf[s]>>}

\* The filter runs for one session: without the uid key it is passed over, with
\* it the user joins the channel before the token is written.
VisitSession(v) ==
  /\ \E r \in results, s \in Visits :
       /\ <<r, s>> \in hub[v]
       /\ hub' = [hub EXCEPT ![v] = @ \ {<<r, s>>}]
       /\ IF pc[s] = "registered"
            THEN UNCHANGED <<members, outbox>>
            ELSE /\ AddUserToChannel(r, s)
                 /\ outbox' = [outbox EXCEPT ![s] = @ \cup {r}]
  /\ UNCHANGED <<pc, conn, waitList, peer, lastID, results, subscribed, inbox,
                 token, faults, struck>>

-----------------------------------------------------------------------------
(* The page.                                                                *)

\* onmessage stores the token, closes the socket and goes to /chat.  The write
\* pump that carries the message starts after the connect handler.
Receive(s) ==
  /\ pc[s] = "open"
  /\ conn[s] = "up"
  /\ \E r \in outbox[s] : token' = [token EXCEPT ![s] = {r}]
  /\ conn' = [conn EXCEPT ![s] = "closing"]
  /\ UNCHANGED <<pc, waitList, peer, lastID, results, members, subscribed, inbox,
                 hub, outbox, faults, struck>>

\* The visitor leaves and the browser sends a close frame, or vanishes.
Leave(s, how) ==
  /\ s \in Leavers
  /\ pc[s] \in Attached \ {"closing"}
  /\ conn[s] = "up"
  /\ conn' = [conn EXCEPT ![s] = how]
  /\ UNCHANGED <<pc, waitList, peer, lastID, results, members, subscribed, inbox,
                 hub, outbox, token, faults, struck>>

CloseTab(s) == Leave(s, "closing")

Drop(s) == Leave(s, "dropped")

-----------------------------------------------------------------------------
(* Failures, at most MaxFaults of them.                                     *)

\* The script does not run, or runs and its reply is lost.  The client gives up
\* (the handler logs and returns) or, after a lost reply, runs it once more.
PopOrPushFails(s) ==
  /\ pc[s] = "keyed"
  /\ Fault
  /\ \/ /\ pc' = [pc EXCEPT ![s] = "open"]
        /\ waitList' = waitList
        /\ struck' = struck \cup {s}
     \/ \E popped \in Visits \cup {None} :
          /\ ZPopMinOrAddOne(s, popped)
          /\ pc' \in {pc, [pc EXCEPT ![s] = "open"]}
          /\ struck' = struck \cup {s}
               \cup IF popped = None THEN {} ELSE SharingEntry(popped)
  /\ UNCHANGED <<conn, peer, lastID, results, members, subscribed, inbox, hub,
                 outbox, token>>

\* Each attempt of the gRPC client may have drawn an id before it failed.  Match
\* returns the last error without putting the popped user back.
CreateChannelFails(s) ==
  /\ pc[s] = "creating"
  /\ Fault
  /\ lastID' \in {lastID, lastID + 1} \cap 0..MaxIDs
  /\ \/ pc' = pc /\ struck' = struck
     \/ /\ pc' = [pc EXCEPT ![s] = "open"]
        /\ struck' = struck \cup {s} \cup SharingEntry(peer[s])
  /\ UNCHANGED <<conn, waitList, peer, results, members, subscribed, inbox, hub,
                 outbox, token>>

\* The publish is lost, or its reply is and the client publishes once more.
PublishFails(s) ==
  /\ pc[s] = "publishing"
  /\ Fault
  /\ \E r \in results :
       /\ r.user = s
       /\ \/ /\ inbox' = inbox
             /\ struck' = struck \cup AttachedOf(r) \cup {r.user, r.peer}
             /\ pc' = [pc EXCEPT ![s] = "open"]
          \/ DeliverToSubscribers(r) /\ pc' = pc
  /\ UNCHANGED <<conn, waitList, peer, lastID, results, members, subscribed,
                 hub, outbox, token>>

\* The subscription loses a message: a reconnect, or a full go-redis channel.
LoseMessage(v) ==
  /\ Fault
  /\ \E r \in inbox[v] :
       /\ inbox' = [inbox EXCEPT ![v] = @ \ {r}]
       /\ struck' = struck \cup AttachedOf(r)
  /\ UNCHANGED <<pc, conn, waitList, peer, lastID, results, members, subscribed,
                 hub, outbox, token>>

\* Wrong: the error is logged and the filter returns true.
IgnoreAddUserError(v) ==
  /\ Fault
  /\ \E r \in results, s \in Visits :
       /\ <<r, s>> \in hub[v]
       /\ pc[s] # "registered"
       /\ hub' = [hub EXCEPT ![v] = @ \ {<<r, s>>}]
       /\ outbox' = [outbox EXCEPT ![s] = @ \cup {r}]
       /\ struck' = struck \cup {s}
  /\ UNCHANGED <<pc, conn, waitList, peer, lastID, results, members, subscribed,
                 inbox, token>>

\* AddUserToChannel fails, with or without effect: the filter returns false.
VisitSessionFails(v) ==
  /\ Fault
  /\ \E r \in results, s \in Visits :
       /\ <<r, s>> \in hub[v]
       /\ pc[s] # "registered"
       /\ hub' = [hub EXCEPT ![v] = @ \ {<<r, s>>}]
       /\ AddUserToChannel(r, s) \/ members' = members
       /\ struck' = struck \cup {s}
  /\ UNCHANGED <<pc, conn, waitList, peer, lastID, results, subscribed, inbox,
                 outbox, token>>

\* ZREM is lost and the error ends the read loop, or ZREM is run once more.
RemoveFails(s) ==
  /\ pc[s] = "open"
  /\ conn[s] = "closing"
  /\ Fault
  /\ \/ /\ pc' = [pc EXCEPT ![s] = "closing"]
        /\ waitList' = waitList
        /\ struck' = struck \cup {s}
     \/ pc' = pc /\ RemoveFromWaitList(s)
  /\ UNCHANGED <<conn, peer, lastID, results, members, subscribed, inbox, hub,
                 outbox, token>>

\* A server process ends, by a crash or by GracefulStop, which waits for no
\* websocket: its sessions die without their close handlers, and the popped
\* peers of the handlers it was running are forgotten.
Crash(v) ==
  /\ Fault
  /\ LET here == {s \in Visits : ServerOf[s] = v /\ pc[s] \in Attached}
         lost == {r \in results : pc[r.user] = "publishing" /\ r.user \in here}
     IN  /\ pc' = [s \in Visits |-> IF s \in here THEN "closed" ELSE pc[s]]
         /\ conn' = [s \in Visits |-> IF s \in here THEN "dropped" ELSE conn[s]]
         /\ struck' = struck \cup here
              \cup (UNION {SharingEntry(peer[s]) :
                             s \in {t \in here : pc[t] = "creating"}})
              \cup (UNION {AttachedOf(r) \cup {r.peer} : r \in lost})
  /\ subscribed' = subscribed \ {v}
  /\ inbox' = [inbox EXCEPT ![v] = {}]
  /\ hub' = [hub EXCEPT ![v] = {}]
  /\ UNCHANGED <<waitList, peer, lastID, results, members, outbox, token>>

-----------------------------------------------------------------------------
VisitStep(s) ==
  \/ Refuse(s) \/ Connect(s) \/ SetUid(s) \/ PopOrPushWaitList(s)
  \/ CreateChannel(s) \/ PublishMatchResult(s) \/ HandleMatchOnClose(s)
  \/ ReadDeadline(s) \/ Unregister(s) \/ Receive(s) \/ CloseTab(s) \/ Drop(s)

ServerStep(v) == Subscribe(v) \/ BroadcastFilter(v) \/ VisitSession(v)

FaultStep ==
  \/ \E s \in Visits : \/ PopOrPushFails(s) \/ CreateChannelFails(s)
                       \/ PublishFails(s) \/ RemoveFails(s)
  \/ \E v \in Servers : LoseMessage(v) \/ VisitSessionFails(v) \/ Crash(v)

Next ==
  \/ \E s \in Visits : VisitStep(s)
  \/ \E v \in Servers : ServerStep(v)
  \/ FaultStep

Spec == Init /\ [][Next]_vars

\* The goroutines of the servers and the page's onmessage run on; visitors come
\* and go as they please, and nothing has to fail.
Fairness ==
  /\ \A s \in Visits :
       /\ WF_vars(SetUid(s)) /\ WF_vars(PopOrPushWaitList(s))
       /\ WF_vars(CreateChannel(s)) /\ WF_vars(PublishMatchResult(s))
       /\ WF_vars(HandleMatchOnClose(s)) /\ WF_vars(ReadDeadline(s))
       /\ WF_vars(Unregister(s)) /\ WF_vars(Receive(s))
  /\ \A v \in Servers :
       /\ WF_vars(Subscribe(v)) /\ WF_vars(BroadcastFilter(v))
       /\ WF_vars(VisitSession(v))

FairSpec == Spec /\ Fairness
-----------------------------------------------------------------------------
(* Safety.                                                                  *)

\* At most one user waits: whoever comes second takes the first away, so the
\* score (the second of arrival) decides nothing.  redis.go:199-217.
OneWaiter == \A s, t \in waitList : s = t

\* Nobody is paired with themselves, not even through a second tab of theirs
\* (the ZSCORE test of the script comes before the ZPOPMIN).
NeverMatchedWithSelf ==
  /\ \A r \in results : UserOf[r.user] # UserOf[r.peer]
  /\ \A s \in Visits : pc[s] = "creating" => UserOf[s] # UserOf[peer[s]]

\* A channel belongs to one result, and only the two users of that result are
\* ever made members of it or shown its token.
ChannelIsForOnePair ==
  /\ \A r1, r2 \in results : r1.chan = r2.chan => r1 = r2
  /\ \A m \in members : \E r \in results : r.chan = m[1] /\ m[2] \in Pair(r)
  /\ \A s \in Visits : \A r \in outbox[s] \cup token[s] : UserOf[s] \in Pair(r)

\* Whoever is shown a token can use it: StartChat lets only members in, and the
\* filter has made the user one before it lets the hub write (match_sub.go:75).
TokenMeansMember ==
  \A s \in Visits : \A r \in outbox[s] \cup token[s] :
    <<r.chan, UserOf[s]>> \in members

\* One visit is good for one match: without failures no visit takes part in two
\* results, and none that took part in one is (still, or again) on the list.
VisitConsumedOnce ==
  \A s \in Visits \ struck : \A r1 \in results :
    s \in {r1.user, r1.peer} =>
      /\ s \notin waitList
      /\ \A r2 \in results : s \in {r2.user, r2.peer} => r1 = r2

\* A result that session s is still going to be told.
OnItsWay(r, s) ==
  \/ pc[r.user] = "publishing"
  \/ r \in inbox[ServerOf[s]]
  \/ <<r, s>> \in hub[ServerOf[s]]
  \/ r \in outbox[s]

Waiting(s) == pc[s] = "open" /\ conn[s] = "up" /\ s \notin struck

Promised(s) ==
  \/ \E t \in Visits : pc[t] = "creating" /\ UserOf[peer[t]] = UserOf[s]
  \/ \E r \in results : UserOf[s] \in Pair(r) /\ OnItsWay(r, s)

\* Nobody waits in vain: a page that shows the spinner is on the wait list, or
\* was taken off it by a handler that is making a channel now, or its token is
\* on its way to this very socket.
EveryWaiterAccountedFor ==
  \A s \in Visits : Waiting(s) => Listed(UserOf[s]) \/ Promised(s)

\* Two strangers never both wait with nothing under way for either.
NoTwoStrangersIdle ==
  \A s, t \in Visits :
    Waiting(s) /\ Waiting(t) /\ UserOf[s] # UserOf[t] => Promised(s) \/ Promised(t)

\* The list names nobody who has left with a close frame: an entry whose visit
\* is over belongs to a connection that vanished, or a failure kept it.
NoGhostListed ==
  \A s \in waitList :
    pc[s] \in {"closing", "closed"} => conn[s] = "dropped" \/ s \in struck

-----------------------------------------------------------------------------
(* Liveness, under FairSpec.                                                *)

Settled(s) == token[s] # {} \/ conn[s] # "up" \/ s \in struck

\* Both users of a result are told, unless they leave first or a failure hits.
BothAreTold ==
  \A s \in Visits :
    (\E r \in results : s \in {r.user, r.peer}) ~> Settled(s)

\* Of two strangers who wait, one is served or leaves.
StrangersMeet ==
  \A s, t \in Visits :
    (UserOf[s] # UserOf[t] /\ Waiting(s) /\ Waiting(t))
      ~> (Settled(s) \/ Settled(t))
-----------------------------------------------------------------------------
(* What it comes to (Pairing): entries, results and tokens by their users.  *)

Promise == INSTANCE Pairing WITH
  Rooms <- 1..MaxIDs,
  chair <- {UserOf[s] : s \in waitList},
  promised <- [s \in Visits |->
                 IF pc[s] = "creating" THEN UserOf[peer[s]] ELSE None],
  rooms <- {[name |-> r.chan, pair |-> Pair(r)] : r \in results},
  told <- [s \in Visits |-> {r.chan : r \in token[s]}]

\* Every step of the service, failing or not, is a step of Pairing or changes
\* nothing that Pairing sees: sockets, hubs, topics and retries add no behaviour
\* to the one chair, the rooms of two and the visits told of one room.
ImplementsPairing == Promise!Spec
=============================================================================
