------------------------------ MODULE Visitor ------------------------------
(***************************************************************************)
(* A visitor's browser, from the first question to the end of a chat.  Its *)
(* tabs show home.js or chat.js and share one local storage, which outlives *)
(* them; the user service keeps a record of each user, for a day; a token  *)
(* opens one channel, for a day.                                           *)
(*                                                                         *)
(* How strangers are paired is in Matching, what happens in a channel in   *)
(* ChatRoom.  Here a match is one step, and so is a deletion; a stranger   *)
(* is somebody who may leave.                                              *)
(***************************************************************************)
EXTENDS Integers, FiniteSets

CONSTANTS
  Tabs,
  Ids,       \* ids that the user service may draw
  Channels,  \* channels that the match service may create
  None,      \* nothing is stored
  Bad,       \* "undefined", which is no id
  MaxPosts,  \* bound: answers to the first question that one page sends
  MaxFaults, \* bound: failures that may happen
  MaxWhims   \* bound: tabs closed or reloaded for no reason

ASSUME VisitorAssumption ==
  /\ None \notin Ids \cup Channels
  /\ Bad \notin Ids \cup {None}
  /\ MaxPosts \in Nat \ {0} /\ MaxFaults \in Nat /\ MaxWhims \in Nat

VARIABLES
  uid,       \* local storage: rc:userid
  token,     \* local storage: rc:accesstoken; a token is named by its channel
  at,        \* where a tab's page is
  me,        \* the id that the page has read, and uses
  mine,      \* chat.js: its ACCESS_TOKEN
  posts,     \* home.js: POST requests whose answer is still to come
  mail,      \* the token on its way to a socket that waits for a match
  born,      \* ids drawn so far
  record,    \* Redis rc:user: users whose record has not expired
  owner,     \* the user of this browser for whom a channel was made
  room,      \* a channel: not made, there, with an expired token, or deleted
  rival,     \* history: an id was stored over another one, or the stored one was
             \* changed behind a socket that asks for a match
  faults, whims

storage == <<uid, token>>
pages == <<at, me, mine, posts, mail>>
services == <<born, record, owner, room>>
bounds == <<faults, whims>>
vars == <<storage, pages, services, rival, bounds>>

Home == {"home", "asked", "naming", "ready", "checking", "dialling", "waiting", "stuck"}
Chat == {"chat", "connecting", "inside", "cut", "dropped", "leaving", "over"}

TypeOK ==
  /\ uid \in Ids \cup {None, Bad}
  /\ token \in Channels \cup {None}
  /\ at \in [Tabs -> Home \cup Chat \cup {"off"}]
  /\ me \in [Tabs -> Ids \cup {None, Bad}]
  /\ mine \in [Tabs -> Channels \cup {None}]
  /\ posts \in [Tabs -> 0..MaxPosts]
  /\ mail \in [Tabs -> Channels \cup {None}]
  /\ born \subseteq Ids /\ record \subseteq born
  /\ owner \in [Channels -> born \cup {None}]
  /\ room \in [Channels -> {"none", "there", "expired", "deleted"}]
  /\ rival \in BOOLEAN
  /\ \A t \in Tabs : at[t] = "waiting" => me[t] \in born
  /\ faults \in 0..MaxFaults /\ whims \in 0..MaxWhims

Init ==
  /\ uid = None /\ token = None
  /\ at = [t \in Tabs |-> "off"]
  /\ me = [t \in Tabs |-> None]
  /\ mine = [t \in Tabs |-> None]
  /\ posts = [t \in Tabs |-> 0]
  /\ mail = [t \in Tabs |-> None]
  /\ born = {} /\ record = {}
  /\ owner = [c \in Channels |-> None]
  /\ room = [c \in Channels |-> "none"]
  /\ rival = FALSE
  /\ faults = 0 /\ whims = 0

Fault == faults < MaxFaults /\ faults' = faults + 1 /\ UNCHANGED whims
Whim == whims < MaxWhims /\ whims' = whims + 1 /\ UNCHANGED faults

-----------------------------------------------------------------------------
(* Parts of steps.                                                          *)

\* The page shows something else, and its data stay.
Goto(t, l) ==
  /\ at' = [at EXCEPT ![t] = l]
  /\ UNCHANGED <<me, mine, posts, mail>>

\* The page makes a request as user u.
GotoAs(t, l, u) ==
  /\ at' = [at EXCEPT ![t] = l]
  /\ me' = [me EXCEPT ![t] = u]
  /\ UNCHANGED <<mine, posts, mail>>

\* The tab goes to another page, or is closed: nothing of the old page is left, and
\* its sockets are closed.
Navigate(t, l) ==
  /\ at' = [at EXCEPT ![t] = l]
  /\ me' = [me EXCEPT ![t] = None]
  /\ mine' = [mine EXCEPT ![t] = None]
  /\ posts' = [posts EXCEPT ![t] = 0]
  /\ mail' = [mail EXCEPT ![t] = None]

\* A socket of the browser asks for a match, under the id that was stored then.
Matching == \E t \in Tabs : at[t] \in {"dialling", "waiting"}

StoreUid(u) ==
  /\ uid' = u
  /\ rival' = (rival \/ uid # None \/ Matching)
  /\ UNCHANGED token

-----------------------------------------------------------------------------
(* A tab, and its loading of a page.                                        *)

Open(t) ==
  /\ at[t] = "off"
  /\ Navigate(t, "home")
  /\ UNCHANGED <<storage, services, rival, bounds>>

Close(t) ==
  /\ at[t] # "off"
  /\ Whim
  /\ Navigate(t, "off")
  /\ UNCHANGED <<storage, services, rival>>

LoadHome(t) ==
  /\ at[t] = "home"
  /\ IF uid = None
       THEN Goto(t, "asked")
       ELSE IF token = None THEN Goto(t, "ready") ELSE Navigate(t, "chat")
  /\ UNCHANGED <<storage, services, rival, bounds>>

LoadChat(t) ==
  /\ at[t] = "chat"
  /\ IF uid = None \/ token = None
       THEN Navigate(t, "home")
       ELSE /\ at' = [at EXCEPT ![t] = "connecting"]
            /\ me' = [me EXCEPT ![t] = uid]
            /\ mine' = [mine EXCEPT ![t] = token]
            /\ UNCHANGED <<posts, mail>>
  /\ UNCHANGED <<storage, services, rival, bounds>>

-----------------------------------------------------------------------------
(* home.js and the user service.                                            *)

\* Nothing keeps the visitor from answering twice.
Submit(t) ==
  /\ at[t] \in {"asked", "naming"}
  /\ posts[t] < MaxPosts
  /\ at' = [at EXCEPT ![t] = "naming"]
  /\ posts' = [posts EXCEPT ![t] = @ + 1]
  /\ UNCHANGED <<me, mine, mail, storage, services, rival, bounds>>

\* The page goes on, through the second question, whatever the answer was.
Answered(t) ==
  /\ posts[t] > 0
  /\ posts' = [posts EXCEPT ![t] = @ - 1]
  /\ at' = IF at[t] = "naming" THEN [at EXCEPT ![t] = "ready"] ELSE at
  /\ UNCHANGED <<me, mine, mail>>

CreateUser(t) ==
  /\ Answered(t)
  /\ \E id \in Ids \ born :
       /\ born' = born \cup {id}
       /\ record' = record \cup {id}
       /\ StoreUid(id)
  /\ UNCHANGED <<owner, room, bounds>>

\* The page does not look at the status: of an error's body, which has no id, it
\* stores the word "undefined".  Without an answer it stores nothing.
CreateUserFails(t) ==
  /\ Answered(t)
  /\ Fault
  /\ StoreUid(Bad) \/ UNCHANGED <<storage, rival>>
  /\ UNCHANGED services

Start(t) ==
  /\ at[t] = "ready"
  /\ GotoAs(t, "checking", uid)
  /\ UNCHANGED <<storage, services, rival, bounds>>

\* Found, and the page reads its id again.
NameFound(t) ==
  /\ at[t] = "checking"
  /\ me[t] \in record
  /\ GotoAs(t, "dialling", uid)
  /\ UNCHANGED <<storage, services, rival, bounds>>

\* Wrong: the token is left behind.
ForgetUid(t) ==
  /\ uid' = None
  /\ rival' = (rival \/ Matching)
  /\ Navigate(t, "home")
  /\ UNCHANGED token

\* Any status but 200: 404 without a record, 400 without an id, 500.
Forget(t) ==
  /\ uid' = None /\ token' = None
  /\ rival' = (rival \/ Matching)
  /\ Navigate(t, "home")

NameNotFound(t) ==
  /\ at[t] = "checking"
  /\ me[t] \notin record
  /\ Forget(t)
  /\ UNCHANGED <<services, bounds>>

CheckFails(t) ==
  /\ at[t] = "checking"
  /\ Fault
  /\ \/ Forget(t)
     \/ GotoAs(t, "stuck", None) /\ UNCHANGED <<storage, rival>>
  /\ UNCHANGED services

-----------------------------------------------------------------------------
(* The match service.                                                       *)

\* Wrong: the user is not looked up.
MatchAnybody(t) ==
  /\ at[t] = "dialling"
  /\ Goto(t, "waiting")
  /\ UNCHANGED <<storage, services, rival, bounds>>

Match(t) ==
  /\ at[t] = "dialling"
  /\ me[t] \in record
  /\ Goto(t, "waiting")
  /\ UNCHANGED <<storage, services, rival, bounds>>

\* GetUserByID takes a user out of the answer that there is none, and panics; the
\* page listens neither for an error of its socket nor for its end.
MatchRefuses(t) ==
  /\ at[t] = "dialling"
  /\ \/ me[t] \notin record /\ UNCHANGED bounds
     \/ Fault
  /\ GotoAs(t, "stuck", None)
  /\ UNCHANGED <<storage, services, rival>>

MatchSocketEnds(t) ==
  /\ at[t] = "waiting"
  /\ Fault
  /\ at' = [at EXCEPT ![t] = "stuck"]
  /\ me' = [me EXCEPT ![t] = None]
  /\ mail' = [mail EXCEPT ![t] = None]
  /\ UNCHANGED <<mine, posts, storage, services, rival>>

\* A stranger is there, and the result goes to all of the user's sockets.
Matched(u, c) ==
  /\ room[c] = "none"
  /\ \E t \in Tabs : at[t] = "waiting" /\ me[t] = u /\ mail[t] = None
  /\ owner' = [owner EXCEPT ![c] = u]
  /\ room' = [room EXCEPT ![c] = "there"]
  /\ mail' = [t \in Tabs |->
                IF at[t] = "waiting" /\ me[t] = u /\ mail[t] = None THEN c
                                                                    ELSE mail[t]]
  /\ UNCHANGED <<at, me, mine, posts, storage, born, record, rival, bounds>>

Receive(t) ==
  /\ at[t] = "waiting"
  /\ mail[t] # None
  /\ token' = mail[t]
  /\ Navigate(t, "chat")
  /\ UNCHANGED <<uid, services, rival, bounds>>

-----------------------------------------------------------------------------
(* chat.js and the chat service.                                            *)

\* IsChannelUserExist.
IsMember(u, c) == owner[c] = u /\ room[c] # "deleted"

\* Auth takes the token, and the user is a member of the channel it names.
Admitted(t) ==
  mine[t] # None /\ room[mine[t]] # "expired" /\ IsMember(me[t], mine[t])

Delete(c) == room' = [room EXCEPT ![c] = "deleted"]

Reload(t) ==
  /\ at[t] \in Home \cup Chat
  /\ Navigate(t, IF at[t] \in Home THEN "home" ELSE "chat")
  /\ UNCHANGED <<storage, services, rival>>

ReloadOnAWhim(t) == Whim /\ Reload(t)

\* A page that says "Matching..." with no socket behind it, or "disconnected".  (That
\* a visitor does so again and again is a whim, if the room does not admit him.)
ReloadStuck(t) ==
  /\ at[t] = "stuck" \/ (at[t] = "dropped" /\ Admitted(t))
  /\ Reload(t)
  /\ UNCHANGED bounds

StartChat(t) ==
  /\ at[t] = "connecting"
  /\ Admitted(t)
  /\ Goto(t, "inside")
  /\ UNCHANGED <<storage, services, rival, bounds>>

\* When a socket ends the page opens another in a second: without end, and not at
\* all when the page is hidden just then.
SocketEnds(t) == Goto(t, "cut") \/ Goto(t, "dropped")

StartChatRefuses(t) ==
  /\ at[t] = "connecting"
  /\ \/ ~Admitted(t) /\ UNCHANGED bounds
     \/ Fault
  /\ SocketEnds(t)
  /\ UNCHANGED <<storage, services, rival>>

Cut(t) ==
  /\ at[t] = "inside"
  /\ Fault
  /\ SocketEnds(t)
  /\ UNCHANGED <<storage, services, rival>>

Reconnect(t) ==
  /\ at[t] = "cut"
  /\ Goto(t, "connecting")
  /\ UNCHANGED <<storage, services, rival, bounds>>

\* The leave button is on the page from the start.
DELETE(t) == at[t] \in {"connecting", "inside", "cut", "dropped", "over"}

\* JWTAuth, and the handler: 204, or 401, 400.  The page does not tell them apart.
Leave(t) ==
  /\ DELETE(t)
  /\ IF Admitted(t) THEN Delete(mine[t]) ELSE UNCHANGED room
  /\ Goto(t, "leaving")
  /\ UNCHANGED <<storage, born, record, owner, rival, bounds>>

\* 500, which it does not tell apart either; or the answer is lost, and the page
\* stays as it is.
LeaveFails(t) ==
  /\ DELETE(t)
  /\ Fault
  /\ \/ Goto(t, "leaving") /\ UNCHANGED room
     \/ Admitted(t) /\ Delete(mine[t]) /\ UNCHANGED pages
  /\ UNCHANGED <<storage, born, record, owner, rival>>

\* Wrong: the token stays in the storage.
KeepToken(t) == UNCHANGED token

\* Whatever token is stored by now.
RemoveToken(t) == token' = None

LeaveDone(t) ==
  /\ at[t] = "leaving"
  /\ RemoveToken(t)
  /\ Navigate(t, "chat")
  /\ UNCHANGED <<uid, services, rival, bounds>>

\* "leaved" has come: the page keeps the socket closed, and shows a link.
Leaved(t) ==
  /\ at[t] = "inside"
  /\ room[mine[t]] = "deleted"
  /\ RemoveToken(t)
  /\ at' = [at EXCEPT ![t] = "over"]
  /\ mine' = [mine EXCEPT ![t] = None]
  /\ UNCHANGED <<me, posts, mail, uid, services, rival, bounds>>

Back(t) ==
  /\ at[t] = "over"
  /\ Navigate(t, "home")
  /\ UNCHANGED <<storage, services, rival, bounds>>

-----------------------------------------------------------------------------
(* The others, and the time.                                                *)

StrangerLeaves(c) ==
  /\ room[c] \in {"there", "expired"}
  /\ Delete(c)
  /\ UNCHANGED <<storage, pages, born, record, owner, rival, bounds>>

ExpireUser(u) ==
  /\ u \in record
  /\ record' = record \ {u}
  /\ UNCHANGED <<storage, pages, born, owner, room, rival, bounds>>

ExpireToken(c) ==
  /\ room[c] = "there"
  /\ room' = [room EXCEPT ![c] = "expired"]
  /\ UNCHANGED <<storage, pages, born, record, owner, rival, bounds>>

-----------------------------------------------------------------------------
\* What browser and services do by themselves.
Proceed(t) ==
  \/ LoadHome(t) \/ LoadChat(t)
  \/ CreateUser(t) \/ NameFound(t) \/ NameNotFound(t)
  \/ Match(t) \/ MatchRefuses(t) \/ Receive(t)
  \/ StartChat(t) \/ StartChatRefuses(t) \/ Reconnect(t)
  \/ LeaveDone(t) \/ Leaved(t)

\* What the page asks the visitor to do.
Respond(t) == Open(t) \/ Submit(t) \/ Start(t) \/ ReloadStuck(t) \/ Back(t)

Next ==
  \/ \E t \in Tabs :
       \/ Proceed(t) \/ Respond(t) \/ Leave(t)
       \/ Close(t) \/ ReloadOnAWhim(t)
       \/ CreateUserFails(t) \/ CheckFails(t) \/ MatchSocketEnds(t)
       \/ Cut(t) \/ LeaveFails(t)
  \/ \E u \in Ids : ExpireUser(u) \/ \E c \in Channels : Matched(u, c)
  \/ \E c \in Channels : StrangerLeaves(c) \/ ExpireToken(c)

Spec == Init /\ [][Next]_vars

\* Pages and services run on, and the visitor is patient: he does what the page asks
\* him to do, and leaves a room that he cannot get into.
FairSpec ==
  /\ Spec
  /\ \A t \in Tabs :
       /\ WF_vars(at[t] # "off" /\ (Proceed(t) \/ Respond(t)))
       /\ WF_vars(~Admitted(t) /\ Leave(t))
-----------------------------------------------------------------------------
(* Safety.                                                                  *)

\* A stored token is for the stored id, and a chat page is in its own room, in
\* spite of tabs that share the storage: unless an id was stored over another one,
\* or the id of a socket that asks for a match was changed.  (Two tabs that ask at
\* once do that, and so does a page that is answered twice: the visitor then has
\* the token of a channel of which he is no member.)
TokenIsHisOwn ==
  ~rival =>
    /\ token # None => uid = owner[token]
    /\ \A t \in Tabs : mine[t] # None => me[t] = owner[mine[t]]

-----------------------------------------------------------------------------
(* Liveness, under FairSpec.                                                *)

Served(t) == at[t] = "waiting" \/ (at[t] = "inside" /\ Admitted(t))

\* A patient visitor is never trapped: neither a token that opens nothing any more
\* nor an id without a record, nor "undefined", keeps him from waiting for a
\* stranger, or from the room where one is.  (Two tabs may undo each other's
\* registration for as long as there are ids.)
VisitorIsServed ==
  \A t \in Tabs : at[t] # "off" ~> (Served(t) \/ at[t] = "off" \/ born = Ids)
=============================================================================
