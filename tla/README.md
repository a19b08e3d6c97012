# Rapid Messenger in TLA+

Rapid Messenger pairs strangers and lets them chat. This directory holds TLA+
modules translated from its Go services and browser pages, TLC configurations
that check them on small instances, and TLAPS proofs of all their safety properties
for instances of any size. Paths such as `pool.go:120` are relative to the package
named with them, or to `src/pkg/`.

| Module | What it models | Checked by | Proofs |
|---|---|---|---|
| `Pairing` | abstract: one chair, promises, rooms of two | through `MCMatching` | `Pairing_proofs` |
| `Matching` | wait list, pairing, broadcast of results | `MCMatching` | `Matching_proofs`, `Pairing_proofs` |
| `MessagePool` | abstract: what a server relies on its pool for | through `MCWorkerPool`, `MCServerLife` | `WorkerPool_proofs` |
| `WorkerPool` | `common/pool.go` and the subscriber that uses it | `MCWorkerPool` | `WorkerPool_proofs` |
| `Conversation` | abstract: members, what is said, shown, marked, ticked | through `MCChatRoom` | `Conversation_proofs` |
| `ChatRoom` | one channel: presence, messages, deletion, the page | `MCChatRoom` | `ChatRoom_proofs`, `Conversation_proofs` |
| `ServerLife` | a server: start, `MaxAllowed`, graceful stop | `MCServerLife` | `ServerLife_proofs` |
| `GrpcCall` | one gRPC endpoint: deadlines, retries, breaker | `MCGrpcCall` | `GrpcCall_proofs` |
| `Visitor` | a browser: pages, storage, user records, tokens | `MCVisitor` | `Visitor_proofs` |

`Matching`, `ChatRoom` and `Visitor` are three views of one story: `Visitor` follows a
person from the first page to the end of a chat and takes a match or a deletion as one
step; the other two open those steps up. `WorkerPool`, `ServerLife` and `GrpcCall` are the
machinery below, and what the upper modules assume of it is proved there: a subscriber
runs each message once (`WorkerPool`), a call in a hub's filter ends (`GrpcCall`), and a stop
waits for the calls and tasks under way (`ServerLife`; it does not wait for websockets, so to the
upper modules a stop is a failure of what their handlers are doing).

Three abstract specifications say what a component comes to, and the detailed ones are
proved to implement them: `Matching` implements `Pairing`, `ChatRoom` implements
`Conversation`, and `WorkerPool` implements `MessagePool`. The last is also a part of
`ServerLife`, whose steps that touch the pool *are* steps of `MessagePool`: it assumes
nothing of the pool that `WorkerPool` is not proved to keep.

`PROJECT.json` names, for each definition, the lines it translates; for each
property, a plausible bug ("Wrong:" operators in the modules) that breaks it; and
for each hazard of the code, the properties that watch it.

## 1. The system

### Components, their state and their operations

**Match service** (`pkg/match`). State: the Redis sorted set `rc:userwait`; per
server a melody hub of websockets, each with a `uid` key, and a subscription to
`rc:match:pubsub` with a worker pool. Operations: upgrade (`Match`), connect
handler (pop somebody from the wait list or wait; if somebody was popped, create a
channel over gRPC and publish a `MatchResult`), close handler (leave the wait
list), and the broadcast of a result, whose filter calls the chat service once for
each session of the two users and then lets the hub write the token to it.
*Correct when* nobody is paired with themselves, a channel is for one pair, a token
that is shown opens the channel, and nobody waits in vain.

**Match page** (`web/assets/js/home.js`). State: the socket and the token in local
storage, shared with every other tab. It registers a visitor (two questions, a POST),
checks that the name is still known, opens the socket, closes it on a result and moves
to `/chat`. *Correct when* the stored token is the stored user's, and nothing stored can
lock a visitor out for good.

**Chat service** (`pkg/chat`). State: per channel five Redis keys, `rc:chan`,
`rc:chanusers`, `rc:onlineusers`, `rc:msgs`, `rc:seenmsgs`; per server a hub whose
sessions have a channel key, and a subscription to `rc:msg:pubsub` with a worker
pool. Operations: `CreateChannel`, `AddUserToChannel` (gRPC); `StartChat`, connect,
message (text, file, seen, typing) and close handlers; `ListMessages`,
`GetChannelUsers`, `GetOnlineUsers`, `DeleteChannel` (HTTP). *Correct when* the list
of online users agrees with the sessions, changes of it are announced, a text that
is stored reaches both pages once and without a gap between history and socket, the
tick on a message means that it is stored as seen, and deleting a channel ends its
sessions.

**Chat page** (`web/assets/js/chat.js`). State: the socket, the messages shown, the
users shown online. It fetches the history on open, asks who is online after each
notice, marks as seen what it shows, and closes on "leaved".

**Worker pool** (`common/pool.go`). State: `state`, a context, a task channel of
capacity `NumberWorker`, a `WaitGroup`. Operations: `NewPool`, `Start`, `Do`/`push`,
`Stop`, `Task.Execute`. *Correct when* no task is lost or run twice, tasks start in
order, and `Stop` waits for what was accepted.

**Redis access** (`infra/redis.go`): the wait-list script, pipelines that are no
transactions, a TTL on what `Set` stores (`rc:user`, `rc:chan`) and on nothing else, reads
that replicas may answer.

**Tokens** (`common/jwt.go`): a JWT that names the channel; one that has expired
names channel 0.

**gRPC transport** (`transport/grpc.go`). State, for each method: a circuit breaker
shared by all goroutines. A call has up to three attempts of 3 s, with waits between.
*Correct when* a call ends, fails only after its attempts, and the breaker lets calls
through again once the other server is well.

**Middleware** (`common/http_middleware.go`): `MaxAllowed`, a semaphore around all HTTP
handlers of the match and chat servers, websockets included; `JWTAuth`. *Correct when*
slots are given back whatever a handler does.

**Server life cycle** (`common/server.go`, the routers and closers). State: which parts
have got going, where `GracefulStop` is. *Correct when* a stop ends, Redis is closed after what
the stop waits for, and the process dies in its work only in ways that are known.

**User service** (`pkg/user`): a record for each user, with a TTL of a day. **Uploader**,
**web server**: objects in S3, static pages.

### How they interact

    home.js --ws--> match --Lua script--> Redis rc:userwait
                      |---gRPC CreateChannel, AddUserToChannel--> chat
                      |---PUBLISH rc:match:pubsub--> every match server
                      |      subscription -> pool -> hub -> filter -> ws
    chat.js --ws, http--> chat --commands--> Redis rc:chan, rc:chanusers, ...
                      |---PUBLISH rc:msg:pubsub--> every chat server
                             subscription -> pool -> hub -> filter -> ws

### What is hard

A socket is served by its own goroutine, the hub is another, the pool's workers are
others, and several servers share Redis. So a session may be in the hub without its
key; a result or message may be published while a subscription is not there; two
sessions of one user (a tab, a reload) share one entry of the wait list and one of
the list of online users; handlers of three or more commands are interrupted by
others, or fail half-way; only a close frame runs a close handler, so that a
vanished connection or a stopped server leaves entries behind; a token expires
between any two steps; messages overtake each other in the pool; `Stop` races
`Start` and `push`; a call is retried after its answer was lost, while the hub waits for
it; two tabs write one storage; records and tokens expire separately; a websocket keeps
the slot that the request to leave it needs. `PROJECT.json` lists each at its line under "hazards".

## 2. Matching

One *visit* is one websocket to `/api/match`. `pc[s]` is where its goroutine is:
`new`, `registered` (in the hub, connect handler begun), `keyed` (uid set),
`creating` (somebody was popped), `publishing`, `open` (the read loop),
`closing` (before unregister), `closed`. A server has `subscribed`, an `inbox` (what
subscription and pool hold) and `hub` (the sessions the running broadcast has still
to visit). `hub[v] = {}` is what lets melody register or unregister: its `run` loop
does one thing at a time, and the filter, gRPC call included, runs inside it.

| Action | Code |
|---|---|
| `Refuse`, `Connect`, `SetUid` | `http_api.go:13-61` `Match`, `HandleMatchOnConnect` |
| `PopOrPushWaitList` with `ZPopMinOrAddOne` | `repo.go:119`, script of `redis.go:199` |
| `CreateChannel` | `service.go:43` |
| `PublishMatchResult`, `DeliverToSubscribers` | `repo.go:136`, `match_sub.go:38` |
| `BroadcastFilter`, `VisitSession` | `match_sub.go:64` `sendMatchResult` |
| `HandleMatchOnClose`, `ReadDeadline`, `Unregister` | `http_api.go:62` and melody |
| `Receive`, `CloseTab`, `Drop` | `home.js:107` and the network |
| `PopOrPushFails`, `CreateChannelFails`, `PublishFails`, `LoseMessage`, `VisitSessionFails`, `RemoveFails`, `Crash` | the error paths |

Failures include replies that are lost after the command ran, followed by the
client's retry. The history variable `struck` holds the visits that a failure hit,
or a publish before `Subscribe`, or the close handler of *another* visit of the same
user: the last two need no failure, they are how the code behaves, and the promises
below are for the other visits. The wait-list entry is a user in Redis; the model
keeps the visit that added it in its place as history. Scores are left out because
the list never holds two entries (`OneWaiter`, proved).

Properties: `OneWaiter`, `NeverMatchedWithSelf`, `ChannelIsForOnePair`,
`TokenMeansMember`, `VisitConsumedOnce` (one visit, one match),
`EveryWaiterAccountedFor` (who shows the spinner is listed, or popped by a handler
that is making a channel, or his token is on its way to *this* socket),
`NoGhostListed`; liveness `BothAreTold`, `StrangersMeet`. `NoTwoStrangersIdle` is proved
and follows from the others.

**What it comes to: `Pairing`.** The abstract specification has no sockets, hubs or
topics: a user sits down on the one chair, gets up, or is taken away by another, who
is then *promised* him; a promise becomes a room with a name of its own, or is broken;
a visit is told of one room of its user. `ImplementsPairing` says that every step of
`Matching`, failing or not, is such a step or changes nothing of it:

| Pairing | in Matching |
|---|---|
| `chair` | the users of `waitList` |
| `promised[s]` | the user that `s` has popped, while its handler is at `creating` |
| `rooms` | the results: channel and pair |
| `told[s]` | the channels in the token that the page of `s` has stored |

A script is `SitDown`, `TakeAway`, or nothing (the same user's other tab); a failed
`CreateChannel` and a crash are `BreakPromises`; `Receive` is `Tell`; the close handler is
`StandUp`. It is an honest statement of what the service does *not* promise as well:
nothing in `Pairing` says that a promise is kept when something fails. What it is good for is
`NoThirdUser`, which speaks of three visits at once: whatever was crashed, retried, or sent
twice, those who are told of one room are of two users at most.

## 3. WorkerPool

Three kinds of goroutine: the subscriber (`sub`: makes the pool, starts it, receives
messages and pushes tasks), the workers, and `GracefulStop` (`closer`: `Close`, then
`Stop`). `push`'s `select` is modelled with Go's rules: any ready case may be
chosen, a send on a closed channel is ready and panics, a blocked sender's value
goes in with the next receive, and a blocked sender is woken by the context. `Stop`
is five steps, `Start` is a swap, `wg.Add` and one spawn for each worker; each may
fall anywhere between the others. `Close` on a pool that is not made yet is a nil
dereference, as in the code. The tasks' results are not modelled: the future has
room for its one result, and nobody reads it.

Properties: `TaskInOnePlace`, `OvertakenByFew` (a task finishes
before fewer older ones than there are workers, so that with one worker messages keep
their order), `NobodyIsStuck` (a blocked sender, the workers and a waiting `Stop` never all wait
for each other, although `Stop` may find the pool half started); liveness `MessageIsHandled`
(a started pool executes every message, unless a stop drops it before it is accepted),
`StopReturns`. `StartedInOrder` and `StopDrains` are proved and not repeated by a run. Two runs
find a comment contradicted (section 9).

**What it comes to: `MessagePool`.** No workers, queue or counter: a message is taken and
becomes a task, the task ends, and `Stop` returns when none runs. `ImplementsMessagePool` holds
under this mapping:

| MessagePool | in WorkerPool |
|---|---|
| `ready` | the subscriber is past `Start` |
| `alive` | `Alive` |
| `halt` | `Halt`: `stopping` from the swap that is certain to succeed, `closed` once the queue is, `over` after `wg.Wait`, `missed` where neither swap succeeds or only that of a pool not started |
| `task` | `Fate`: `running` from the moment the queue takes a task that some worker will get |

The abstract `Stop` decides at once what it will do, the code only with its second swap; so
`Halt` reads off the state which of the two swaps is going to succeed. It says what the pool does
*not* promise too: a `Stop` during the start may miss it, and a message after `Stop` may panic.

## 4. ChatRoom

One channel; channels share no key. `pc[s]` is where the goroutine of a chat session
is, with a location between every two Redis commands; `cid[s]` is the session's key;
`pending[s]` holds the messages whose visit to `s` is still to come; `deletion[u]` is
where a DELETE request is; `live`, `fetched`, `ticks` are the page.

| Action | Code |
|---|---|
| `CreateChannel`, `AddUserToChannel` | `grpc_rpc.go`, `repo.go:55`, `repo.go:212` |
| `StartChat`, `Upgrade` | `http_api.go:13-45` |
| `AddOnlineUser`, `SetCid`, `ConnectExpired` | `http_api.go:163-198` |
| `FindChannel`, `CountOnline`, `BroadcastConnectMessage` | `service.go:61-85` |
| `SendText`, `InsertRPush`, `InsertHSet`, `PublishText` | `http_api.go:200`, `repo.go:134`, `service.go:43` |
| `MarkMessageSeen`, `TellSeen` | `service.go:104`, `repo.go:154` |
| `DeleteOnlineUser`, `BroadcastOffline`, `CloseExpired`, `ReadFails` | `http_api.go:238` |
| `DeleteCheck`, `BroadcastLeaved`, `DeleteName`, `DeleteMembers`, `DeleteAllOnlineUsers` | `http_api.go:122`, `repo.go:224`, `service.go:169` |
| `Visit`, `Lose` | `msg_sub.go:36-79` |
| `Close`, `PageCloses`, `FetchMessages` | `chat.js` |

Properties:

- `OpenMeansOnline`: the user of an attached session is on the list, unless the
  channel is being deleted or another session of the *same* user has ended, by a close
  whose answer may have been lost. (The code takes the user off then: the entry stands
  for the user, not the socket.)
- `NoGhostOnline`: whoever is listed has a session that will still take him off, or
  one that was lost: vanished, failed at its close, or with an expired token.
- `NotBothWaiting`: two users' pages are not both told to wait, as each counts after
  adding himself.
- `ChangesAreAnnounced`: whatever order visits come in, when they are over every
  attached page has been told to ask for the list after it last changed.
- `FetchedOrDelivered`: no gap between history and socket for a page whose fetch came
  after its session was attached. `chat.js` fetches as soon as the socket is open,
  which may be earlier; such a page may have a gap, and the property says nothing of it.
- `TickMeansSeen` (proved, and not repeated by a run): a tick means that the message is stored
  as seen, except where the other page fetched and marked it between the `RPUSH` and the `HSET`
  of its insertion, and `HSET` then reset the field.
- Liveness: `LeavingEndsSessions`.

**What it comes to: `Conversation`.** Members are admitted and may come in; who is inside says
a thing once; a page shows only what was said, marks only what it shows of others, and ticks
only what was marked. `ImplementsConversation` says that every step of `ChatRoom` is one of
these or changes nothing of them:

| Conversation | in ChatRoom |
|---|---|
| `members` | `rc:chanusers` |
| `inside` | the sessions past `StartChat`, over or not |
| `log` | `rc:msgs`; an `RPUSH` whose answer was lost may write a message twice, with others in between |
| `shown` | what came through the socket and what was fetched |
| `marked` | the fields of `rc:seenmsgs` that are set, and those that `HSET` reset |
| `ticked` | the ticks of the page |

The steps that matter most are stutters: `InsertHSet` takes a mark back from Redis, but not from
`marked`; publishing, visits to a socket that is gone, and everything about presence are nothing
of a conversation. One fact is proved of `Conversation` and carried over: `TickedWasShown`
(a tick on my message means that a page of *another* user has shown it).

**A pipeline that is repeated.** `ExecPipeLine` (`redis.go:230`) sends `RPUSH` and `HSET` together.
When the answer is lost go-redis waits and sends both again, and other sessions' commands run
meanwhile. So a fault in `InsertRPush` or `InsertHSet` leaves the command done or not, and the
handler either at `inserting` again, for both commands once more, or in its read loop, when the
attempts are used up: a history like *s, t, s* is reached, and `Conversation` allows it. Two
assumptions: what a sending did to Redis it did before it is sent again, and `RPUSH` comes before
`HSET`. In a cluster the two keys may lie on different nodes; were the first `HSET` before its `RPUSH` it
would reset a field that nobody can have set yet, and so do less harm than in the modelled order.

Abstractions: text and file messages take one path and are one operation; a message
is named by the session that sends it, one for each (bound). Every server has its own
pool, so visits to a session come in any order and a server needs no identity. What
the hub writes, the page reads in the same step. Reads see the latest write (replica
lag is left out, section 11). Typing notices store nothing;
`GetChannelUsers` and `GetOnlineUsers` change nothing: both are left out, and of the
page's question who is online only the fact that it is *told to ask* is kept
(`stale`). "seen" messages are visited to the sender's sessions only; other pages
ignore them.

## 5. ServerLife

One process, one of five servers (`Servers`: the parts `Run` starts, the requests it
routes, whether `MaxAllowed` stands before them). `up` holds the parts whose goroutine of
`Run` has got going; `stop` is where `GracefulStop` is; `req[r]` is where an HTTP request
is, `acquiring` the queue at the semaphore and `taken` the elements in its channel; `hub` is
the message that melody's hub is broadcasting; `failed` and `early` are history.

| Action | Code |
|---|---|
| `StartPart` | `common/server.go` `Run`, the routers' `Run` |
| `PartFails` | the `logger.Fatal` of `chat/http.go:115-124`, `chat/grpc.go:44-50` and the servers like them, of `observability.go:68` |
| `Arrive`, `Acquire`, `Answer`, `Return` | `http_middleware.go` `MaxAllowed` |
| `Upgrade`, `Register`, `Unregister` | melody's `HandleRequest` and hub |
| `Frame`, `HandlerReturns`, `EndSocket` | the websocket handlers, `chat.js` |
| `KeysRace` | `sess.Set` in a connect handler, `sess.Get` in a filter |
| `RpcArrives`, `RpcReturns`, `MessageArrives` | gRPC servers, subscribers |
| `TaskEnds`, `BroadcastEnds` | `sendMatchResult`, `sendMessage`: the task, and the filter in the hub |
| `Signal`, `Deadline`, `StopGrpc` … `Exit` | `Serve`, `GracefulStop` of each router, the closers |
| `StopPool`, `ClosePool`, `PoolHasStopped` | the subscriber's `Close`, `pool.Stop`: steps of `MessagePool` |

A websocket's request stays in its handler, and keeps its slot: `upgraded` (waiting for the hub to
register it), `connecting`, `open` (reading), `handling` (a message, chat server only), `closing`
(the close handler and the wait for the hub). The hub does one thing at a time, so nothing is
registered or forgotten while a filter runs.

**What a stop waits for.** gRPC calls without a deadline; the pool's tasks without a deadline;
plain HTTP requests, those that queue for a slot included, for 5 seconds. It does *not* wait for
websockets, whose connections melody has taken from the server, nor for the hub: the task of a
message is over when `BroadcastFilter` has handed it to the hub, and the filter, which in the match
server calls `AddUserToChannel` (`match_sub.go:75`), runs on. So Redis and the connections may be
closed under a connect, message or close handler and under a filter, and an error in one of them is
then what `Matching` and `ChatRoom` have as a fault. `InfraOutlivesHandlers` says what *is* over at
the close, and `LastBroadcast` (proved) that no broadcast begins after it.

**How a process dies.** `Run` starts parts in goroutines and `Serve` does not wait for them. A
signal may therefore find a pool or an HTTP server that is not made yet (a nil dereference), and
`Serve` of a gRPC server that is stopped already is fatal: `early`. A listener that fails, the
subscription and the metrics' listener are fatal at any time, whatever else is being served:
`failed`. After `Stop` of the pool the subscriber still receives: with the context cancelled and the
queue closed, both cases of `push`'s `select` are ready, and one panics. And the pinned melody (2017)
keeps a session's keys in a map without a lock: a connect handler that writes its key while a
filter reads it may be found out by the runtime, which ends the process. `CrashesAreKnown` says that
these are all. Failures before `Run` (arguments, the tracer) never serve anything and are left out.

The pool comes from `Pool == INSTANCE MessagePool`, with `ready` for "the pool's part is up" and
`alive` for "not crashed"; `WorkerPool` has the inside of it. A `Stop` that comes while the pool is
being started may miss it: its tasks may then run on when Redis is closed, the exception in
`InfraOutlivesHandlers` and `LastBroadcast`.

Properties: `SlotsBalance` (the semaphore counts the running handlers), `InfraOutlivesHandlers`,
`LastBroadcast`, `CrashesAreKnown`; liveness `RequestsAreServed` (a request that waits for a slot
gets one, *unless websockets hold all*: the page that wants to leave closes its socket after the
answer to a DELETE which waits for a slot, so then only closed tabs make room), `StopEnds` (whatever
sockets are open).

## 6. GrpcCall

One method as the services call it: retries inside a breaker inside a deadline for the
whole. `pc[c]` is where a caller is, `attempt[c]`, `timer[c]` and `spent[c]` its attempt, the
time in it and the time in the call; `state`, `failures`, `left`, `current` are the breaker.
Time is discrete and `Tick` never passes what is due.

| Action | Code |
|---|---|
| `Begin`, `Reject`, `CountRequest`, `CountResult`, `NewGeneration` | `transport/grpc.go` and gobreaker |
| `Try`, `Unreachable`, `TimeOut`, `HandlerFails`, `Wait`, `Again` | the retry interceptor |
| `Cancel` | a request's context that ends (`GetUser`; the other calls have none) |
| `FallIll`, `GetWell` | the other server |

gobreaker and the interceptor are libraries, modelled from their use and marked external. Of
gobreaker's generation numbers the set of calls admitted in the present one is kept. An
answer that is lost after the handler ran is `TimeOut` with `handled`: the handler then runs
again, which is what `Matching` assumes of `CreateChannel` (an id drawn in vain).

Properties: `CallsEndInTime` (three attempts and two waits, 11.2 s, so that the 15 s for the
whole never cut off an attempt, and a hub whose filter calls is held up no longer),
`BreakerKnowsItsCalls` (a breaker that is not open counts just the calls under way; one that
is half-open has a single probe), `RetriesAreUsedUp` (a call fails only if each of three
attempts met a server that was not well); liveness `Recovers`.

## 7. Visitor

A browser with tabs that share one local storage (`uid`, `token`), and as much of the services
as a visitor sees: `record`, the users whose record has not expired; for each channel its
`owner` in this browser and its `room`, which may expire or be deleted. `at[t]` is where the
page of a tab is: `home`, `asked`, `naming`, `ready`, `checking`, `dialling`, `waiting`, `stuck`
for `home.js`; `chat`, `connecting`, `inside`, `cut`, `dropped`, `leaving`, `over` for `chat.js`.

| Action | Code |
|---|---|
| `LoadHome`, `Submit`, `CreateUser`, `Start`, `NameFound`, `NameNotFound` | `home.js`, `user/http_api.go`, `user/repo.go` |
| `Match`, `MatchRefuses`, `Matched`, `Receive` | `match/http_api.go:13`, `match/repo.go:97`, `home.js:107` |
| `LoadChat`, `StartChat`, `StartChatRefuses`, `Reconnect` | `chat.js`, `chat/http_api.go`, `JWTAuth` |
| `Leave`, `LeaveDone`, `Leaved`, `RemoveToken` | `chat.js`, `chat/http_api.go:122` |
| `ExpireUser`, `ExpireToken`, `StrangerLeaves` | the TTLs, the token's expiry, the other user |
| `CreateUserFails`, `CheckFails`, `MatchSocketEnds`, `Cut`, `LeaveFails` | the error paths |

Three things the pages do are modelled as they are: the answer to the POST is stored without a
look at its status, so that the word "undefined" may become the id (`Bad`); a second answer to
the first question sends a second POST; and the token that is removed at the end is whatever is
stored by then, another tab's included.

Properties: `TokenIsHisOwn` (the stored token is for the stored id, and a chat page is in its
own room, unless an id was stored over another or changed behind a socket that asks for a
match; the history variable `rival` says so); liveness `VisitorIsServed`: a visitor who does
what the page asks and leaves a room that will not admit him comes to wait for a stranger, or
to be in the room where one is, whatever has expired meanwhile.

## 8. Runs

| Run | Question | Bounds |
|---|---|---|
| `match_strangers` | safety of Matching; does it implement `Pairing` | 3 users, one visit each, 2 servers, 1 failure; one visitor on each server may leave |
| `match_tabs` | two visits of one user; are strangers paired and told | 2 users, 3 visits, 2 servers, no failure; fair |
| `pool` | safety of the pool; does it implement `MessagePool`; is nobody stuck, do tasks and `Stop` finish | 2 workers, 6 messages |
| `pool_expand`, `pool_stop` | comments contradicted | 2 workers, 6 and 2 messages |
| `room_presence` | presence, deletion, expiry | 2 sessions, 1 may delete, 1 token may expire, 1 failure |
| `room_reload` | presence with overlapping sessions of one user | 3 sessions, 1 failure; the old and the new session of one user may leave |
| `room_texts` | history and socket; does it implement `Conversation` | 2 texts, history cut at 1, 1 reading page, 1 failure; nobody leaves by himself |
| `room_leave` | does deleting the channel end its sessions | 2 sessions, 1 may delete, no failure |
| `server_life` | slots, the order of a stop, does it end | each of 5 servers; 2 sockets, 1 other request, 1 gRPC call, 1 message, 2 slots |
| `grpc_call` | deadlines, retries, breaker | 2 callers, one may be cancelled; attempts of 2, waits of 1 or 2, whole 11, open for 12, opens after more than 1 failure; 3 outages or cancels |
| `visitor` | is what is stored right, is a visitor trapped | 2 tabs, 2 ids, 1 channel, 1 POST of a page, 1 failure, 1 tab closed or reloaded on a whim |

Why these are enough to be interesting: two visits are what a pairing needs, the third
finds the list just emptied, or the same user on it; two servers are what a result
that crosses needs; two workers, a queue of two and a blocked sender hold five tasks,
and six messages let one more be pushed after that; one failure reaches every error
path and what follows from it. `MaxIDs` of 3 never disables `CreateChannel` before
every visit has had its turn but for a failed attempt that draws an id in vain. In
`room_texts` the cut of one makes the first text fall out of the history when the
second is stored. `Leavers` are those who may leave by themselves: in `match_strangers`
one of each server, as the two on the first are interchangeable; in the runs on texts
nobody, as the properties speak of a reader only while his page is there, and a
connection may still vanish. In `server_life` two sockets can hold both slots while another
request waits, which is the case where it is not served; one message is enough to be handed to the
hub, to race a connect handler, to be overtaken by the close, and to come too late. The lengths of `grpc_call` keep the
order of the real ones (an attempt is longer than a wait, the whole longer than 3 attempts and 2
waits, the breaker open longer than that), and only that order matters: the proofs
assume nothing else. In `visitor` two ids let one expire and another be drawn, and one
channel is enough to be entered, expired, deleted and left behind. The proofs need no bound.

`CHECK_DEADLOCK FALSE` is set throughout: visits, messages and sessions are finitely
many in a run, and when all are over the system rests.

**Fairness.** `FairSpec` gives weak fairness to what a running process does by
itself: the steps of handlers, hubs, workers and subscribers, and the page's
`onmessage`. The Go scheduler and the browser run what can run, a hub is never kept
from a step that stays possible, and calls end (with a timeout, if nothing else).
What users do (connect, send, close, delete), what the network does and every failure
has none. In `WorkerPool` the signal to stop and the messages have none either. In `ServerLife`
requests that are no websockets, calls, tasks and broadcasts end. Websockets and their handlers have
no fairness, but when a socket has ended the hub hears of it: a page may keep it for ever. In `GrpcCall` time passes, what is due happens and a server
that is well answers; calls and recoveries need not come (`Recovers` assumes them). `Visitor`
is the one place where a person is fair: he is patient, does in the end what the page asks
(answer, start, reload a page that says it is disconnected), and presses "leave" in a room that
does not admit him.

## 9. Where a comment and the code disagree

- `pool.go:68` says the pool is "capable of auto-expand on demand". It has
  `NumberWorker` workers from `Start` on; with all busy and the queue full, `push`
  blocks the subscriber (`pool_expand`).
- `pool.go:118` says that `Stop` will "wait all task done". `Stop` returns at once when
  `Start`'s swap falls between its two; and when it comes before `Start`'s, there are no
  workers, and a task that `select` prefers to the cancelled context stays queued
  (`pool_stop`). Both need a stop within the start of a server. For a pool that was
  started the comment holds: `StopDrains`, proved.

## 10. Proofs

Each proof module proves, from the named assumption on its constants and nothing else,
that the properties hold for every value of them. None of the properties is inductive by
itself; what was added is this.

`Matching_proofs` (any users, visits, servers, ids and number of failures;
`ConstantsAssumption`): every safety property of `Matching`. That a visit is consumed once needs
`OneRole` (a visit that is not struck has one role at a time: before the script none, then
listed, popped or matched) and `OneResultPerHandler`; that channels are private needs
`DrawnAndFiltered` (ids in use have been drawn; a broadcast holds only sessions of the pair).
`IInv` conjoins them with `TypeOK` and the properties; each conjunct has a lemma with a step for
each action that can disturb it. `NoTwoStrangersIdle` then follows from `OneWaiter` and
`EveryWaiterAccountedFor`: if neither is promised anything both are listed, and the list has one
entry.

`Pairing_proofs`: `Refinement`, that `Matching` implements `Pairing`. Initial states map to initial
states, and each step to a step or a stutter, under `IInv` and `StoredOnce` (a page stores one token,
and closes its socket with it). `ScriptOutcomes` says which of three things the script did,
`CreateChannelMaps` that a drawn id is no room's name, `StepThatBreaks` covers every step that only
loses promises, and `ListStepsMap` and `OtherStepsMap` the rest. `NobodyElseIsTold` carries
`NoThirdUser` over: `RoomOK` (a room's name is one room's, and who is told is one of its two) is
inductive in `Pairing` alone, and holds of `Matching` because it implements it.

`WorkerPool_proofs` (any finite non-empty set of workers and any number of messages;
`PoolAssumption`): `TypeOK`, `TaskInOnePlace`, `StartedInOrder`, `OvertakenByFew`, `StopDrains`,
`NobodyIsStuck` and `ImplementsMessagePool`. The argument for `StopDrains`: the counter is the number of workers that have not left
(`CounterCounts`), a worker leaves only when the queue is closed and empty (`DoneMeansDrained`),
nothing can be put into a closed queue, and before the workers are spawned nothing has been
received (`NothingBeforeStart`), so it does no harm that `wg.Wait` may find the counter 0 before
`wg.Add`. That a task is in one place rests on the order of the queue (`QueueInOrder`) and on
`TasksReceived`. `OvertakenByFew` rests on `NotAllBehind`: some worker is not held up by a task
older than n once n is executed, so that the older tasks, which are all running, are on fewer
workers. The refinement (`PoolIsMessagePool`) needs `StartOrder`, that `state`, the subscriber,
`closer` and the spawned workers agree on how far `Start` and `Stop` have come, for `Halt` to name the right outcome of
`Stop`; its `Return` step is `StopDrains` once more. `NobodyWaitsForNobody` counts: a blocked sender
means that the queue is full and so that there is a worker with something to take or to finish;
and while `wg` is not 0 some worker has not left (`CounterCounts`), and with the queue closed that
worker can go on.

`ChatRoom_proofs` (any users, sessions and failures, whoever sends, reads, leaves, deletes or
expires; `RoomAssumption`): all seven safety properties of `ChatRoom`. `RoomInv` conjoins them,
strengthened, with what the handlers keep among themselves:

- `KeyOK`: a session has no key before its user is on the list, and the channel's key when it counts
  and from then on. So `OnlineOK`, which speaks of sessions that were just added too, is inductive,
  and `OpenMeansOnline` follows from it.
- `NotBothWaiting`: who counts one user online counts his own (`CountsHimself`), and who said so
  earlier is on the list still (`WhoWaitsIsOnline`), so that the one would have been two.
- `AnnouncedOK`: an attached page that has not been told of a change has a notice on its way, or some
  session has yet to announce; `ChanOK` is needed because `FindChannel` announces nothing when the
  channel is gone, which only a deletion brings about.
- `StoredOK`: a message is published once, after it was stored, and the history only grows
  (`HistoryGrows`). `DeliveredOK` follows a published text from the visit to come to the page or the
  fetched part of the history.
- `MarkedOK`: what is marked, told or ticked is seen or was marked early; the only step that takes
  `seen` back is the `HSET` of an insertion, whose message is not published yet.

Each conjunct has a lemma with a step for each action that touches its variables, and one for all
others.

`Conversation_proofs` (the same assumption): `ImplementsConversation`. Added to `RoomInv` is `TalkOK`:
a text on its way to a page was published (and so is in the history), a mark on its way to a page
is of its own user's message. Six lemmas
map the steps that a conversation sees (`StartChatMaps` to `FetchMaps`), `MembersMap` those that
change its members, and the last two say that all other steps are stutters. `TicksMeanShown` is
proved of `Conversation` alone, by an invariant of a few lines, and holds of `ChatRoom` because it
implements it: stated of `ChatRoom` directly it would have needed a step for each of its actions.

`ServerLife_proofs` (any finite set of requests, any calls and messages, any number of slots;
`ServerAssumption`): `TypeOK`, `SlotsBalance`, `InfraOutlivesHandlers`, `LastBroadcast`,
`CrashesAreKnown`. Two
invariants: `SlotInv`, where `QueueOK` says that `acquiring` lists each waiting request once, so that
the head of the queue is no holder yet and `taken` grows with `Holders`; and `StopInv`, that past
the step which waits for calls (or tasks) none is running, that `halt` is as far as
`stop` says, and that a `Stop` missed its pool only in a process whose signal came early.
`AsideKeeps` covers the steps of websockets, the hub and failing parts, which no conjunct but
`CrashesAreKnown` can tell from none. `LastBroadcast` follows: past the pool's stop no task is left
that could hand the hub anything.

`GrpcCall_proofs` (any callers, any lengths in the order that `CallAssumption` states): `TypeOK`,
`CallsEndInTime`, `BreakerKnowsItsCalls`, `RetriesAreUsedUp`. `TimeOf` bounds the time spent by the
attempt, `HitsOf` says which attempts met a server that was not well. The heart is `QuietWhenDue`: a
call that an open breaker admitted earlier has lasted since then (`BreakerOK`), no call lasts as long
as the breaker stays open (`CallsAreShort`), and so no call is left when it lets the probe through.

`Visitor_proofs` (any number of tabs, ids, channels and failures; `VisitorAssumption`): `TypeOK` and
`TokenIsHisOwn`. `HolderInv` adds that channels with an owner are made (`Made`), for each tab that
what is on its way to a socket, or held by its page, belongs to the id it uses (`Held`), and that
without a rival a page that asks for a match asks under the stored id (`AsksAsStored`).

Only model-checked: all liveness, as the prover does not reason about ENABLED and
fairness here. No module declares a RECURSIVE operator, and no property rests on an induction over
data.

## 11. Not modelled

- Generated protobuf code, configuration, logging, tracing, wiring, static pages: no state that the
  services share. Object storage (`uploader`) is pure I/O under a fresh name. Ids are drawn fresh;
  sonyflake is a library.
- The chat page's own concurrency: answers of `updateOnlineUsers` that overtake each other
  (`chat.js:491`), and the loop that waits for the element of a seen message (`chat.js:434`). Both are
  listed as hazards without a property.
- Replica reads. `ReadOnly` and `RouteByLatency` (`redis.go:106`) let a read be answered by a replica
  that has not the last write; the modules let every read see it, as on one node.
- Typing notices, which store nothing, and `GetChannelUsers` and `GetOnlineUsers`, which change nothing.
- In `ChatRoom` the expiry of Redis records is left to `Visitor`; in `Visitor` pairing and presence are
  left to `Matching` and `ChatRoom`.

What would come next: `ChatClient`, the page's requests and answers in any order; `ReplicatedRedis`,
reads against the comment of `Get` (`redis.go:130`) and against `CountOnline`; an abstract call that
`GrpcCall` implements, as `WorkerPool` does `MessagePool`; and `Pairing` and `Conversation` composed,
from a visit to a conversation: they are small enough to be composed as they are.
