------------------------------ MODULE GrpcCall ------------------------------
(***************************************************************************)
(* One endpoint of NewGrpcEndpoint: a gRPC method that a service calls     *)
(* through, from the outside in, a deadline for the whole invocation, a    *)
(* circuit breaker that all callers share, and a retry interceptor that    *)
(* makes up to three attempts, each with a deadline of its own.            *)
(*                                                                         *)
(* Time is discrete: Tick moves all clocks on, and none beyond what is due *)
(* at it.  The deadline of the whole invocation is left out: CallsEndInTime *)
(* says that no call comes to it.  Of the generations that the breaker     *)
(* counts the set of the calls under way that it admitted in the present   *)
(* one is kept.                                                            *)
(***************************************************************************)
EXTENDS Integers, FiniteSets

CONSTANTS
  Callers,     \* goroutines that call the endpoint, one call at a time
  Cancelling,  \* those whose context is a request's, and ends with it (GetUser)
  PerTry,      \* the deadline of an attempt: 3 s
  BackoffMin,  \* the wait between two attempts: 0.9 s
  BackoffMax,  \* to 1.1 s
  Total,       \* the deadline of the whole invocation: 15 s
  OpenFor,     \* how long the breaker stays open: 60 s
  MaxFailures, \* more failures than these in a row open it: 5
  Retriable,   \* is the code of the handler's errors Unavailable (or Internal)?
  MaxFaults    \* a bound on outages and on cancelled calls

\* WithMax(3).
Attempts == 1..3

\* A whole call: three attempts, and two waits.
Longest == 3 * PerTry + 2 * BackoffMax

ASSUME CallAssumption ==
  /\ Cancelling \subseteq Callers
  /\ PerTry \in Nat \ {0} /\ BackoffMin \in Nat \ {0} /\ BackoffMax \in Nat
  /\ BackoffMin <= BackoffMax
  /\ Total \in Nat /\ OpenFor \in Nat
  /\ Longest < Total /\ Total < OpenFor
  /\ MaxFailures \in Nat /\ MaxFaults \in Nat
  /\ Retriable \in BOOLEAN

VARIABLES
  well,     \* the server answers every attempt in time and without an error
  faults,   \* outages and cancelled calls so far
  state,    \* the breaker,
  failures, \* the failures in a row that it has counted,
  left,     \* the time until it may let a probe through,
  current,  \* and the calls under way of its generation
  pc,       \* where a call is
  attempt,  \* the attempt it makes or made last
  timer,    \* time in this attempt or wait
  spent,    \* time in this call
  handled,  \* the handler has run for this attempt
  hit       \* history: attempts that met a server that was not well

breaker == <<state, failures, left, current>>
call == <<pc, attempt, timer, spent, handled, hit>>
vars == <<well, faults, breaker, call>>

Active == {"calling", "waiting"}
UnderWay == {c \in Callers : pc[c] \in Active}

TypeOK ==
  /\ well \in BOOLEAN /\ faults \in 0..MaxFaults
  /\ state \in {"closed", "open", "half"}
  /\ failures \in 0..MaxFailures /\ left \in 0..OpenFor
  /\ current \subseteq UnderWay
  /\ pc \in [Callers ->
             {"idle", "calling", "waiting", "ok", "failed", "refused", "rejected"}]
  /\ attempt \in [Callers -> Attempts]
  /\ timer \in [Callers -> 0..(PerTry + BackoffMax)]
  /\ spent \in [Callers -> Nat]
  /\ handled \in [Callers -> BOOLEAN]
  /\ hit \in [Callers -> SUBSET Attempts]

Init ==
  /\ well = TRUE /\ faults = 0
  /\ state = "closed" /\ failures = 0 /\ left = 0 /\ current = {}
  /\ pc = [c \in Callers |-> "idle"]
  /\ attempt = [c \in Callers |-> 1]
  /\ timer = [c \in Callers |-> 0]
  /\ spent = [c \in Callers |-> 0]
  /\ handled = [c \in Callers |-> FALSE]
  /\ hit = [c \in Callers |-> {}]

-----------------------------------------------------------------------------
(* The circuit breaker, gobreaker with its defaults and a timeout of 60 s.  *)

\* The breaker goes to state s, and so to a new generation.
NewGeneration(s) ==
  /\ state' = s
  /\ failures' = 0
  /\ left' = IF s = "open" THEN OpenFor ELSE 0
  /\ current' = {}

\* currentState: an open breaker whose time is over is half-open.
State == IF state = "open" /\ left = 0 THEN "half" ELSE state

\* Probes of the half-open breaker that are under way; it allows one.
Probes == IF state = "half" THEN current ELSE {}

\* Wrong: a half-open breaker lets everybody through.
AdmitsAll(c) == State # "open"

\* beforeRequest.
Admits(c) == State = "closed" \/ (State = "half" /\ Probes = {})

CountRequest(c) ==
  /\ state' = State
  /\ failures' = failures
  /\ left' = IF State = "open" THEN left ELSE 0
  /\ current' = (IF State = state THEN current ELSE {}) \cup {c}

\* Wrong: only failures are reported to the breaker.
CountOnlyFailures(c, success) ==
  IF success
    THEN UNCHANGED breaker
    ELSE IF state = "half" \/ failures = MaxFailures
           THEN NewGeneration("open")
           ELSE /\ failures' = failures + 1 /\ current' = current \ {c}
                /\ UNCHANGED <<state, left>>

\* afterRequest.  A result of an older generation is not counted.
CountResult(c, success) ==
  IF c \notin current
    THEN IF State = state THEN UNCHANGED breaker ELSE NewGeneration(State)
    ELSE IF success
      THEN IF state = "half"
             THEN NewGeneration("closed")
             ELSE /\ failures' = 0 /\ current' = current \ {c}
                  /\ UNCHANGED <<state, left>>
      ELSE IF state = "half" \/ failures = MaxFailures
             THEN NewGeneration("open")
             ELSE /\ failures' = failures + 1 /\ current' = current \ {c}
                  /\ UNCHANGED <<state, left>>

-----------------------------------------------------------------------------
(* A call.                                                                  *)

\* The caller takes the result.
Return(c) ==
  /\ pc[c] \notin Active \cup {"idle"}
  /\ pc' = [pc EXCEPT ![c] = "idle"]
  /\ UNCHANGED <<well, faults, breaker, attempt, timer, spent, handled, hit>>

\* Attempt i of c begins.
Try(c, i) ==
  /\ pc' = [pc EXCEPT ![c] = "calling"]
  /\ attempt' = [attempt EXCEPT ![c] = i]
  /\ timer' = [timer EXCEPT ![c] = 0]
  /\ handled' = [handled EXCEPT ![c] = FALSE]
  /\ hit' = [hit EXCEPT ![c] = @ \cup (IF well THEN {} ELSE {i})]

\* The endpoint is called, and the breaker lets the call through.
Begin(c) ==
  /\ pc[c] = "idle"
  /\ Admits(c)
  /\ CountRequest(c)
  /\ Try(c, 1)
  /\ UNCHANGED <<well, faults, spent>>

\* ErrOpenState or ErrTooManyRequests, at once.
Reject(c) ==
  /\ pc[c] = "idle"
  /\ ~Admits(c)
  /\ pc' = [pc EXCEPT ![c] = "rejected"]
  /\ UNCHANGED <<well, faults, breaker, attempt, timer, spent, handled, hit>>

Handle(c) ==
  /\ pc[c] = "calling" /\ ~handled[c]
  /\ handled' = [handled EXCEPT ![c] = TRUE]
  /\ UNCHANGED <<well, faults, breaker, pc, attempt, timer, spent, hit>>

\* The call returns to its caller.
End(c, result) ==
  /\ pc' = [pc EXCEPT ![c] = result]
  /\ attempt' = [attempt EXCEPT ![c] = 1]
  /\ timer' = [timer EXCEPT ![c] = 0]
  /\ spent' = [spent EXCEPT ![c] = 0]
  /\ handled' = [handled EXCEPT ![c] = FALSE]
  /\ hit' = [hit EXCEPT ![c] = {}]
  /\ CountResult(c, result = "ok")
  /\ UNCHANGED well

Reply(c) ==
  /\ pc[c] = "calling" /\ handled[c]
  /\ End(c, "ok")
  /\ UNCHANGED faults

\* The attempt failed in a way that is retried: wait, if there is one left.
Wait(c) ==
  /\ pc' = [pc EXCEPT ![c] = "waiting"]
  /\ timer' = [timer EXCEPT ![c] = 0]
  /\ UNCHANGED <<well, breaker, attempt, spent, handled, hit>>

\* Wrong: the code is not among those to be retried.
NoMoreTries(c) == End(c, "failed")

\* Wrong: attempts are made until one is answered.
TryForever(c) == Wait(c)

TryAgain(c) == IF attempt[c] < 3 THEN Wait(c) ELSE End(c, "failed")

\* The connection is down: Unavailable.
Unreachable(c) ==
  /\ pc[c] = "calling" /\ ~well
  /\ TryAgain(c)
  /\ UNCHANGED faults

\* The attempt's deadline, which is retried while the caller's context lives.
TimeOut(c) ==
  /\ pc[c] = "calling" /\ ~well
  /\ timer[c] = PerTry
  /\ TryAgain(c)
  /\ UNCHANGED faults

\* The handler ran into an error and answers with the service's code for it; or it
\* panicked, and the recovery interceptor answers Unknown, which is not retried.
HandlerFails(c) ==
  /\ pc[c] = "calling" /\ ~well /\ handled[c]
  /\ \/ Retriable /\ TryAgain(c)
     \/ End(c, "refused")
  /\ UNCHANGED faults

\* The wait between two attempts is over.
Again(c) ==
  /\ pc[c] = "waiting"
  /\ timer[c] \in BackoffMin..BackoffMax
  /\ Try(c, attempt[c] + 1)
  /\ UNCHANGED <<well, faults, breaker, spent>>

\* The visitor whose request the call is for has gone.
Cancel(c) ==
  /\ c \in Cancelling
  /\ pc[c] \in Active
  /\ faults < MaxFaults /\ faults' = faults + 1
  /\ End(c, "refused")

-----------------------------------------------------------------------------
(* The server and the clock.                                                *)

FallIll ==
  /\ well
  /\ faults < MaxFaults /\ faults' = faults + 1
  /\ well' = FALSE
  /\ hit' = [c \in Callers |->
               IF pc[c] = "calling" THEN hit[c] \cup {attempt[c]} ELSE hit[c]]
  /\ UNCHANGED <<breaker, pc, attempt, timer, spent, handled>>

\* Attempts that are out of time have failed by now.
GetWell ==
  /\ ~well
  /\ \A c \in Callers : pc[c] = "calling" => timer[c] < PerTry
  /\ well' = TRUE
  /\ UNCHANGED <<faults, breaker, call>>

Due(c) ==
  \/ pc[c] = "calling" /\ timer[c] = PerTry
  \/ pc[c] = "waiting" /\ timer[c] = BackoffMax

Tick ==
  /\ \A c \in Callers : ~Due(c)
  /\ state = "open" \/ UnderWay # {}
  /\ timer' = [c \in Callers |-> IF pc[c] \in Active THEN timer[c] + 1 ELSE timer[c]]
  /\ spent' = [c \in Callers |-> IF pc[c] \in Active THEN spent[c] + 1 ELSE spent[c]]
  /\ left' = IF left = 0 THEN 0 ELSE left - 1
  /\ UNCHANGED <<well, faults, state, failures, current, pc, attempt, handled, hit>>

-----------------------------------------------------------------------------
CallStep(c) ==
  \/ Begin(c) \/ Reject(c) \/ Handle(c) \/ Reply(c)
  \/ Unreachable(c) \/ TimeOut(c) \/ HandlerFails(c) \/ Again(c)
  \/ Cancel(c) \/ Return(c)

Next == (\E c \in Callers : CallStep(c)) \/ FallIll \/ GetWell \/ Tick

Spec == Init /\ [][Next]_vars

\* Time passes; what is due happens; a server that is well handles and answers.
\* Whether calls are made is left open.
Fairness ==
  /\ WF_vars(Tick)
  /\ \A c \in Callers :
       /\ WF_vars(TimeOut(c)) /\ WF_vars(Again(c))
       /\ WF_vars(well /\ Handle(c)) /\ WF_vars(well /\ Reply(c))

FairSpec == Spec /\ Fairness
-----------------------------------------------------------------------------
(* Safety.                                                                  *)

\* However the server fares, a call is over after three attempts and two waits:
\* 11.2 seconds, so that the 15 seconds for the whole invocation never cut off an
\* attempt.  A hub whose filter makes the call is held up for no longer.
CallsEndInTime == \A c \in UnderWay : spent[c] <= Longest

\* A breaker that is not open knows the calls under way: all are of its own
\* generation, and a half-open one has a single probe.  (Calls that it admitted
\* before it opened are over by the time it lets the probe through.)
BreakerKnowsItsCalls ==
  /\ state # "open" => UnderWay = current
  /\ state = "half" => \E c \in Callers : UnderWay = {c}

\* A call fails, unless the handler itself refused it or the visitor has gone, only
\* when each of three attempts met a server that was not well: an outage that spares
\* one of them is not noticed, be it long or short.
RetriesAreUsedUp ==
  [][\A c \in Callers :
       pc[c] \in Active /\ pc'[c] = "failed" => hit[c] = Attempts]_vars

-----------------------------------------------------------------------------
(* Liveness, under FairSpec.                                                *)

\* When the server is well for good and calls keep coming, the breaker closes and
\* stays closed.
Recovers ==
  <>[]well /\ []<><<\E c \in Callers : Begin(c) \/ Reject(c)>>_vars
    => <>[](state = "closed")
=============================================================================
