-------------------------- MODULE GrpcCall_proofs --------------------------
(***************************************************************************)
(* Proofs of GrpcCall's safety properties, for any number of callers and   *)
(* any deadlines under which a whole call, with its attempts and waits, is *)
(* shorter than the deadline of the invocation, and that shorter than the  *)
(* time for which the breaker stays open.                                  *)
(***************************************************************************)
EXTENDS GrpcCall, TLAPS

\* Time that may have been spent when attempt i begins.
Before(i) ==
  IF i = 1 THEN 0
  ELSE IF i = 2 THEN PerTry + BackoffMax
  ELSE 2 * PerTry + 2 * BackoffMax

\* An attempt keeps to its deadline, a wait to its length.
TimeOf(c) ==
  /\ pc[c] = "calling" => timer[c] <= PerTry /\ spent[c] <= Before(attempt[c]) + timer[c]
  /\ pc[c] = "waiting" => /\ attempt[c] < 3 /\ timer[c] <= BackoffMax
                          /\ spent[c] <= Before(attempt[c]) + PerTry + timer[c]

\* Every attempt before the present one met a server that was not well, and so has
\* the present one if the server is not well now.
HitsOf(c) ==
  /\ pc[c] = "waiting" => 1..attempt[c] \subseteq hit[c]
  /\ pc[c] = "calling" => /\ 1..(attempt[c] - 1) \subseteq hit[c]
                          /\ ~well => attempt[c] \in hit[c]

CallOK(c) == TimeOf(c) /\ HitsOf(c)

\* Calls that an open breaker admitted before it opened have lasted since then.
BreakerOK ==
  /\ state # "open" => UnderWay = current /\ left = 0
  /\ state = "half" => \E c \in Callers : UnderWay = {c}
  /\ state = "open" => /\ current = {}
                       /\ \A c \in UnderWay : OpenFor - left <= spent[c]

\* A caller between two calls has spent no time on one.
IdleOK == \A c \in Callers : pc[c] \notin Active => spent[c] = 0 /\ hit[c] = {}

Inv == TypeOK /\ (\A c \in Callers : CallOK(c)) /\ BreakerOK /\ IdleOK

-----------------------------------------------------------------------------

\* The lengths, as the provers need them.
LEMMA Constants ==
  /\ PerTry \in Nat /\ PerTry > 0 /\ BackoffMin \in Nat /\ BackoffMax \in Nat
  /\ Total \in Nat /\ OpenFor \in Nat /\ MaxFailures \in Nat /\ MaxFaults \in Nat
  /\ Longest = 3 * PerTry + 2 * BackoffMax /\ Longest < Total /\ Total < OpenFor
BY CallAssumption DEF Longest

\* No call lasts longer than three attempts and two waits.
LEMMA CallsAreShort ==
  ASSUME Inv, NEW c \in UnderWay
  PROVE  spent[c] <= Longest /\ spent[c] < OpenFor
<1>1. attempt[c] \in {1, 2, 3} /\ spent[c] \in Nat /\ timer[c] \in Nat
  BY Constants DEF Inv, TypeOK, UnderWay, Attempts
<1>2. pc[c] \in {"calling", "waiting"} /\ TimeOf(c)
  BY DEF Inv, CallOK, UnderWay, Active
<1>3. Before(attempt[c]) <= 2 * PerTry + 2 * BackoffMax /\ Before(attempt[c]) \in Nat
  BY <1>1, Constants DEF Before
<1>4. attempt[c] < 3 => Before(attempt[c]) <= PerTry + BackoffMax
  BY <1>1, Constants DEF Before
<1>5. CASE pc[c] = "calling"
  BY <1>1, <1>2, <1>3, <1>5, Constants DEF TimeOf
<1>6. CASE pc[c] = "waiting"
  BY <1>1, <1>2, <1>3, <1>4, <1>6, Constants DEF TimeOf
<1> QED
  BY <1>2, <1>5, <1>6

\* When the breaker may let a probe through, no call is under way.
LEMMA QuietWhenDue ==
  ASSUME Inv, state = "open", left = 0
  PROVE  UnderWay = {}
<1>1. \A c \in UnderWay : OpenFor <= spent[c] /\ spent[c] < OpenFor /\ spent[c] \in Nat
  BY CallsAreShort, Constants DEF Inv, BreakerOK, TypeOK, UnderWay
<1> QED
  BY <1>1, Constants

-----------------------------------------------------------------------------
\* A result is counted: the breaker goes on knowing the calls that are left.
LEMMA CountKeeps ==
  ASSUME Inv, NEW c \in UnderWay, NEW success \in BOOLEAN, CountResult(c, success),
         UnderWay' = UnderWay \ {c},
         \A d \in UnderWay' : spent'[d] = spent[d] /\ spent[d] \in Nat
  PROVE  /\ BreakerOK'
         /\ state' \in {"closed", "open", "half"}
         /\ failures' \in 0..MaxFailures /\ left' \in 0..OpenFor
         /\ current' \subseteq UnderWay'
<1> USE Constants
<1>1. /\ state \in {"closed", "open", "half"} /\ failures \in 0..MaxFailures
      /\ left \in 0..OpenFor /\ current \subseteq UnderWay
  BY DEF Inv, TypeOK
<1>2. CASE state = "open"
  <2>1. c \notin current /\ left # 0
    BY <1>2, QuietWhenDue DEF Inv, BreakerOK
  <2>2. UNCHANGED breaker
    BY <1>2, <2>1 DEF CountResult, State
  <2> QED
    BY <1>1, <1>2, <2>2 DEF Inv, BreakerOK, breaker
<1>3. CASE state # "open"
  <2>1. c \in current /\ UnderWay = current /\ left = 0
    BY <1>3 DEF Inv, BreakerOK
  <2>2. CASE NewGeneration("open")
    <3>1. /\ state' = "open" /\ failures' = 0 /\ left' = OpenFor /\ current' = {}
      BY <2>2 DEF NewGeneration
    <3> QED
      BY <3>1 DEF BreakerOK
  <2>3. CASE state = "half" /\ NewGeneration("closed")
    <3>1. UnderWay' = {}
      BY <2>3 DEF Inv, BreakerOK
    <3>2. state' = "closed" /\ failures' = 0 /\ left' = 0 /\ current' = {}
      BY <2>3 DEF NewGeneration
    <3> QED
      BY <3>1, <3>2 DEF BreakerOK
  <2>4. CASE /\ state # "half" /\ UNCHANGED <<state, left>>
             /\ current' = current \ {c} /\ failures' \in 0..MaxFailures
    <3>1. state = "closed" /\ state' = "closed" /\ left' = 0
      BY <1>1, <1>3, <2>1, <2>4
    <3> QED
      BY <2>1, <2>4, <3>1 DEF BreakerOK
  <2>5. \/ NewGeneration("open")
        \/ state = "half" /\ NewGeneration("closed")
        \/ /\ state # "half" /\ UNCHANGED <<state, left>>
           /\ current' = current \ {c} /\ failures' \in 0..MaxFailures
    <3>1. failures # MaxFailures => failures + 1 \in 0..MaxFailures
      BY <1>1
    <3>2. CASE success
      BY <2>1, <3>2 DEF CountResult
    <3>3. CASE ~success
      BY <2>1, <3>1, <3>3 DEF CountResult
    <3> QED
      BY <3>2, <3>3
  <2> QED
    BY <2>2, <2>3, <2>4, <2>5
<1> QED
  BY <1>2, <1>3

\* A call that ends is counted, and leaves its caller as it was.
LEMMA EndKeeps ==
  ASSUME Inv, NEW c \in UnderWay, faults' \in 0..MaxFaults,
         NEW result \in {"ok", "failed", "refused"}, End(c, result)
  PROVE  Inv'
<1> USE Constants
<1>1. UnderWay' = UnderWay \ {c}
  BY DEF Inv, TypeOK, End, UnderWay, Active
<1>2. \A d \in UnderWay' : spent'[d] = spent[d] /\ spent[d] \in Nat
  BY <1>1 DEF Inv, TypeOK, End, UnderWay
<1>3. /\ BreakerOK'
      /\ state' \in {"closed", "open", "half"}
      /\ failures' \in 0..MaxFailures /\ left' \in 0..OpenFor
      /\ current' \subseteq UnderWay'
  BY <1>1, <1>2, CountKeeps DEF End
<1>4. TypeOK'
  BY <1>3 DEF Inv, TypeOK, End, UnderWay, Attempts
<1>5. ASSUME NEW d \in Callers PROVE CallOK(d)'
  <2>1. CASE d = c
    BY <2>1 DEF Inv, TypeOK, End, CallOK, TimeOf, HitsOf
  <2>2. CASE d # c
    BY <2>2 DEF Inv, TypeOK, End, CallOK, TimeOf, HitsOf, Before
  <2> QED
    BY <2>1, <2>2
<1>6. IdleOK'
  BY DEF Inv, IdleOK, TypeOK, End
<1> QED
  BY <1>3, <1>4, <1>5, <1>6 DEF Inv

\* Steps of one call that leave the breaker and the calls under way as they are.
LEMMA CallKeeps ==
  ASSUME Inv, TypeOK', NEW c \in Callers, UNCHANGED <<state, left, current, well>>,
         UnderWay' = UnderWay, UNCHANGED spent, CallOK(c)',
         \A d \in Callers \ {c} :
           /\ pc'[d] = pc[d] /\ attempt'[d] = attempt[d] /\ timer'[d] = timer[d]
           /\ hit'[d] = hit[d],
         pc'[c] \notin Active => hit'[c] = {} /\ pc[c] \notin Active
  PROVE  Inv'
<1>1. ASSUME NEW d \in Callers \ {c} PROVE CallOK(d)'
  BY <1>1 DEF Inv, CallOK, TimeOf, HitsOf, Before
<1>2. BreakerOK'
  BY DEF Inv, BreakerOK
<1>3. IdleOK'
  BY DEF Inv, IdleOK
<1> QED
  BY <1>1, <1>2, <1>3 DEF Inv

\* An attempt that is followed by a wait met a server that was not well.
LEMMA WaitKeeps ==
  ASSUME Inv, NEW c \in Callers, pc[c] = "calling", ~well, attempt[c] < 3, Wait(c),
         faults' = faults
  PROVE  Inv'
<1> USE Constants
<1>1. UnderWay' = UnderWay
  BY DEF Inv, TypeOK, Wait, UnderWay, Active
<1>2. TypeOK'
  BY <1>1 DEF Inv, TypeOK, Wait, breaker
<1>3. /\ pc'[c] = "waiting" /\ timer'[c] = 0 /\ attempt'[c] = attempt[c]
      /\ spent'[c] = spent[c] /\ hit'[c] = hit[c] /\ well' = well
  BY DEF Inv, TypeOK, Wait
<1>4. attempt[c] \in {1, 2} /\ spent[c] \in Nat /\ timer[c] \in Nat
  BY DEF Inv, TypeOK, Attempts
<1>5. TimeOf(c)'
  BY <1>3, <1>4 DEF Inv, CallOK, TimeOf, Before
<1>6. HitsOf(c)'
  <2>1. 1..(attempt[c] - 1) \subseteq hit[c] /\ attempt[c] \in hit[c]
    BY DEF Inv, CallOK, HitsOf
  <2> QED
    BY <1>3, <1>4, <2>1 DEF HitsOf
<1>7. \A d \in Callers \ {c} :
        /\ pc'[d] = pc[d] /\ attempt'[d] = attempt[d] /\ timer'[d] = timer[d]
        /\ hit'[d] = hit[d]
  BY DEF Inv, TypeOK, Wait
<1>8. UNCHANGED <<state, left, current, well, spent>> /\ pc'[c] \in Active
  BY <1>3 DEF Wait, breaker, Active
<1> QED
  BY <1>1, <1>2, <1>5, <1>6, <1>7, <1>8, CallKeeps DEF CallOK

\* After the third attempt the call ends.
LEMMA TryAgainKeeps ==
  ASSUME Inv, NEW c \in Callers, pc[c] = "calling", ~well, TryAgain(c),
         faults' = faults
  PROVE  Inv'
<1>1. c \in UnderWay
  BY DEF UnderWay, Active
<1>2. CASE attempt[c] < 3
  BY <1>2, WaitKeeps DEF TryAgain
<1>3. CASE ~(attempt[c] < 3)
  BY <1>1, <1>3, EndKeeps DEF TryAgain, Inv, TypeOK
<1> QED
  BY <1>2, <1>3

-----------------------------------------------------------------------------

\* A breaker that lets a call through has it among those it knows.
LEMMA BeginKeeps ==
  ASSUME Inv, NEW c \in Callers, Begin(c)
  PROVE  Inv'
<1> USE Constants
<1>1. /\ UnderWay' = UnderWay \cup {c} /\ c \notin UnderWay
  BY DEF Inv, TypeOK, Begin, Try, UnderWay, Active
<1>2. /\ pc'[c] = "calling" /\ attempt'[c] = 1 /\ timer'[c] = 0 /\ spent' = spent
      /\ hit'[c] = hit[c] \cup (IF well THEN {} ELSE {1}) /\ well' = well
  BY DEF Inv, TypeOK, Begin, Try
<1>3. \A d \in Callers \ {c} :
        /\ pc'[d] = pc[d] /\ attempt'[d] = attempt[d] /\ timer'[d] = timer[d]
        /\ hit'[d] = hit[d]
  BY DEF Inv, TypeOK, Begin, Try
<1>4. spent[c] = 0
  BY DEF Inv, IdleOK, Begin, Active
<1>5. /\ BreakerOK' /\ state' \in {"closed", "open", "half"}
      /\ failures' \in 0..MaxFailures /\ left' \in 0..OpenFor
      /\ current' \subseteq UnderWay'
  <2>1. CASE state = "closed"
    <3>1. /\ UnderWay = current /\ left = 0 /\ state' = "closed" /\ left' = 0
          /\ current' = current \cup {c} /\ failures' = failures
      BY <2>1 DEF Inv, BreakerOK, Begin, CountRequest, State
    <3> QED
      BY <1>1, <3>1 DEF Inv, TypeOK, BreakerOK
  <2>2. CASE state = "open"
    <3>1. left = 0
      BY <2>2 DEF Begin, Admits, State
    <3>2. UnderWay = {}
      BY <2>2, <3>1, QuietWhenDue
    <3>3. /\ state' = "half" /\ left' = 0 /\ current' = {c} /\ failures' = failures
      BY <2>2, <3>1 DEF Begin, CountRequest, State
    <3> QED
      BY <1>1, <3>2, <3>3 DEF Inv, TypeOK, BreakerOK
  <2>3. CASE state = "half"
    <3>1. current # {}
      BY <2>3 DEF Inv, BreakerOK
    <3> QED
      BY <2>3, <3>1 DEF Begin, Admits, State, Probes
  <2> QED
    BY <2>1, <2>2, <2>3 DEF Inv, TypeOK
<1>6. TypeOK'
  BY <1>5 DEF Inv, TypeOK, Begin, Try, Attempts
<1>7. ASSUME NEW d \in Callers PROVE CallOK(d)'
  <2>1. CASE d = c
    BY <1>2, <1>4, <2>1 DEF CallOK, TimeOf, HitsOf, Before, Inv, TypeOK
  <2>2. CASE d # c
    BY <1>2, <1>3, <2>2 DEF Inv, CallOK, TimeOf, HitsOf, Before
  <2> QED
    BY <2>1, <2>2
<1>8. IdleOK'
  BY <1>2, <1>3 DEF Inv, IdleOK, Active
<1> QED
  BY <1>5, <1>6, <1>7, <1>8 DEF Inv

\* The next attempt begins within its time.
LEMMA AgainKeeps ==
  ASSUME Inv, NEW c \in Callers, Again(c)
  PROVE  Inv'
<1> USE Constants
<1>1. UnderWay' = UnderWay
  BY DEF Inv, TypeOK, Again, Try, UnderWay, Active
<1>2. /\ pc'[c] = "calling" /\ attempt'[c] = attempt[c] + 1 /\ timer'[c] = 0
      /\ hit'[c] = hit[c] \cup (IF well THEN {} ELSE {attempt[c] + 1})
      /\ well' = well /\ spent' = spent /\ pc[c] = "waiting"
  BY DEF Inv, TypeOK, Again, Try
<1>3. attempt[c] \in {1, 2} /\ spent[c] \in Nat /\ timer[c] \in Nat
      /\ timer[c] <= BackoffMax
  BY <1>2 DEF Inv, TypeOK, Attempts, CallOK, TimeOf
<1>4. TimeOf(c)'
  <2>1. spent[c] <= Before(attempt[c]) + PerTry + BackoffMax
    BY <1>2, <1>3 DEF Inv, CallOK, TimeOf, Before
  <2>2. Before(attempt[c] + 1) = Before(attempt[c]) + PerTry + BackoffMax
    BY <1>3 DEF Before
  <2>3. Before(attempt[c]) \in Nat
    BY <1>3 DEF Before
  <2> QED
    BY <1>2, <1>3, <2>1, <2>2, <2>3 DEF TimeOf, Before
<1>5. HitsOf(c)'
  BY <1>2, <1>3 DEF Inv, CallOK, HitsOf
<1>6. TypeOK'
  BY <1>1, <1>3 DEF Inv, TypeOK, Again, Try, Attempts, breaker
<1>7. \A d \in Callers \ {c} :
        /\ pc'[d] = pc[d] /\ attempt'[d] = attempt[d] /\ timer'[d] = timer[d]
        /\ hit'[d] = hit[d]
  BY DEF Inv, TypeOK, Again, Try
<1>8. UNCHANGED <<state, left, current, well, spent>>
  BY DEF Again, breaker
<1>9. pc'[c] \in Active
  BY <1>2 DEF Active
<1> QED
  BY <1>9, <1>1, <1>2, <1>4, <1>5, <1>6, <1>7, <1>8, CallKeeps DEF CallOK

\* Steps that change neither a call's time nor the breaker.
LEMMA QuietStepKeeps ==
  ASSUME Inv, NEW c \in Callers, Reject(c) \/ Return(c) \/ Handle(c)
  PROVE  Inv'
<1>1. UnderWay' = UnderWay
  BY DEF Inv, TypeOK, Reject, Return, Handle, UnderWay, Active
<1>2. TypeOK'
  BY <1>1 DEF Inv, TypeOK, Reject, Return, Handle, breaker
<1>3. /\ attempt' = attempt /\ timer' = timer /\ spent' = spent /\ hit' = hit
      /\ well' = well
      /\ pc'[c] = "waiting" => pc[c] = "waiting"
      /\ pc'[c] = "calling" => pc[c] = "calling"
  BY DEF Inv, TypeOK, Reject, Return, Handle
<1>4. CallOK(c)'
  BY <1>3 DEF Inv, CallOK, TimeOf, HitsOf, Before
<1>5. /\ UNCHANGED <<state, left, current, well, spent>>
      /\ \A d \in Callers \ {c} : pc'[d] = pc[d]
  BY DEF Inv, TypeOK, Reject, Return, Handle, breaker
<1>6. pc'[c] \notin Active => hit'[c] = {} /\ pc[c] \notin Active
  BY <1>3 DEF Inv, IdleOK, TypeOK, Reject, Return, Handle, Active
<1> QED
  BY <1>1, <1>2, <1>3, <1>4, <1>5, <1>6, CallKeeps

\* No clock goes beyond what is due at it.
LEMMA TickKeeps ==
  ASSUME Inv, Tick
  PROVE  Inv'
<1> USE Constants
<1>1. UnderWay' = UnderWay /\ UNCHANGED <<well, state, current, pc, attempt, hit>>
  BY DEF Tick, UnderWay
<1>2. ASSUME NEW c \in UnderWay
      PROVE  /\ timer'[c] = timer[c] + 1 /\ spent'[c] = spent[c] + 1
             /\ spent[c] \in Nat /\ timer[c] \in Nat
             /\ pc[c] = "calling" => timer[c] < PerTry
             /\ pc[c] = "waiting" => timer[c] < BackoffMax
  <2>1. CallOK(c) /\ timer[c] \in Nat /\ c \in Callers /\ pc[c] \in Active
    BY DEF Inv, TypeOK, UnderWay
  <2>2. ~Due(c)
    BY <2>1 DEF Tick
  <2> QED
    BY <2>1, <2>2 DEF Inv, TypeOK, Tick, Due, CallOK, TimeOf, UnderWay
<1>3. ASSUME NEW c \in Callers PROVE CallOK(c)'
  <2>1. CASE c \in UnderWay
    <3>1. attempt[c] \in {1, 2, 3}
      BY DEF Inv, TypeOK, Attempts
    <3>2. Before(attempt[c]) \in Nat
      BY <3>1 DEF Before
    <3>3. TimeOf(c)'
      BY <1>1, <1>2, <2>1, <3>1, <3>2 DEF Inv, CallOK, TimeOf, Before
    <3> QED
      BY <1>1, <3>3 DEF Inv, CallOK, HitsOf
  <2>2. CASE c \notin UnderWay
    BY <1>1, <2>2 DEF CallOK, TimeOf, HitsOf, UnderWay, Active
  <2> QED
    BY <2>1, <2>2
<1>4. left' \in 0..OpenFor /\ (left = 0 => left' = 0) /\ (left # 0 => left' = left - 1)
  BY DEF Inv, TypeOK, Tick
<1>5. BreakerOK'
  <2>1. CASE state # "open"
    BY <1>1, <1>4, <2>1 DEF Inv, BreakerOK
  <2>2. CASE state = "open"
    <3>1. ASSUME NEW c \in UnderWay PROVE OpenFor - left' <= spent'[c]
      <4>1. OpenFor - left <= spent[c] /\ left \in 0..OpenFor
        BY <2>2, <3>1 DEF Inv, TypeOK, BreakerOK
      <4> QED
        BY <1>2, <1>4, <3>1, <4>1
    <3> QED
      BY <1>1, <2>2, <3>1 DEF Inv, BreakerOK
  <2> QED
    BY <2>1, <2>2
<1>6. TypeOK'
  <2>1. ASSUME NEW c \in Callers
        PROVE  timer'[c] \in 0..(PerTry + BackoffMax) /\ spent'[c] \in Nat
    <3>1. CASE c \in UnderWay
      BY <1>2, <3>1 DEF UnderWay, Active
    <3>2. CASE c \notin UnderWay
      BY <3>2 DEF Inv, TypeOK, Tick, UnderWay
    <3> QED
      BY <3>1, <3>2
  <2>2. /\ timer' \in [Callers -> 0..(PerTry + BackoffMax)]
        /\ spent' \in [Callers -> Nat]
    BY <2>1 DEF Tick
  <2> QED
    BY <1>1, <1>4, <2>2 DEF Inv, TypeOK, Tick
<1>7. IdleOK'
  BY <1>1 DEF Inv, IdleOK, Tick, Active
<1> QED
  BY <1>3, <1>5, <1>6, <1>7 DEF Inv

\* An attempt under way when the server falls ill has met it.
LEMMA ServerKeeps ==
  ASSUME Inv, FallIll \/ GetWell
  PROVE  Inv'
<1>1. /\ UNCHANGED <<breaker, pc, attempt, timer, spent, handled>>
  BY DEF FallIll, GetWell, call
<1>8. well' \in BOOLEAN
  BY DEF FallIll, GetWell
<1>9. faults' \in 0..MaxFaults
  BY Constants DEF Inv, TypeOK, FallIll, GetWell
<1>2. hit' \in [Callers -> SUBSET Attempts]
  BY DEF Inv, TypeOK, FallIll, GetWell, call
<1>3. ASSUME NEW c \in Callers PROVE HitsOf(c)'
  <2>1. CASE FallIll
    <3>1. pc[c] = "calling" => hit'[c] = hit[c] \cup {attempt[c]}
      BY <2>1 DEF FallIll
    <3>2. pc[c] = "waiting" => hit'[c] = hit[c]
      BY <2>1 DEF FallIll
    <3> QED
      BY <1>1, <3>1, <3>2 DEF Inv, CallOK, HitsOf
  <2>2. CASE GetWell
    BY <2>2 DEF Inv, CallOK, HitsOf, GetWell, call
  <2> QED
    BY <2>1, <2>2
<1>4. UnderWay' = UnderWay
  BY <1>1 DEF UnderWay
<1>5. BreakerOK'
  BY <1>1, <1>4 DEF Inv, BreakerOK, breaker
<1>10. IdleOK'
  BY <1>1 DEF Inv, IdleOK, FallIll, GetWell, call, Active
<1>6. \A c \in Callers : TimeOf(c)'
  BY <1>1 DEF Inv, CallOK, TimeOf, Before
<1>7. TypeOK'
  BY <1>1, <1>2, <1>4, <1>8, <1>9 DEF Inv, TypeOK, breaker
<1> QED
  BY <1>3, <1>5, <1>6, <1>7, <1>10 DEF Inv, CallOK

-----------------------------------------------------------------------------

\* One step of any kind keeps the invariant.
LEMMA Step ==
  ASSUME Inv, [Next]_vars
  PROVE  Inv'
<1>1. CASE UNCHANGED vars
  BY <1>1 DEF vars, breaker, call, Inv, TypeOK, CallOK, TimeOf, HitsOf, Before,
              BreakerOK, IdleOK, UnderWay
<1>2. ASSUME NEW c \in Callers, CallStep(c) PROVE Inv'
  <2>1. ASSUME Reply(c) PROVE Inv'
    BY <2>1, EndKeeps DEF Reply, UnderWay, Active, Inv, TypeOK
  <2>2. ASSUME Unreachable(c) \/ TimeOut(c) PROVE Inv'
    BY <2>2, TryAgainKeeps DEF Unreachable, TimeOut
  <2>3. ASSUME HandlerFails(c) PROVE Inv'
    <3>1. c \in UnderWay /\ pc[c] = "calling" /\ ~well /\ faults' = faults
      BY <2>3 DEF HandlerFails, UnderWay, Active
    <3>2. CASE TryAgain(c)
      BY <3>1, <3>2, TryAgainKeeps
    <3>3. CASE End(c, "refused")
      BY <3>1, <3>3, EndKeeps DEF Inv, TypeOK
    <3> QED
      BY <2>3, <3>2, <3>3 DEF HandlerFails
  <2>4. ASSUME Cancel(c) PROVE Inv'
    <3>1. faults' \in 0..MaxFaults /\ c \in UnderWay
      BY <2>4, Constants DEF Cancel, Inv, TypeOK, UnderWay
    <3> QED
      BY <2>4, <3>1, EndKeeps DEF Cancel
  <2> QED
    BY <1>2, <2>1, <2>2, <2>3, <2>4, BeginKeeps, AgainKeeps, QuietStepKeeps
       DEF CallStep
<1> QED
  BY <1>1, <1>2, TickKeeps, ServerKeeps DEF Next

\* At first nobody calls.
LEMMA Start == Init => Inv
<1> SUFFICES ASSUME Init PROVE Inv
  OBVIOUS
<1>1. UnderWay = {}
  BY DEF Init, UnderWay, Active
<1>2. TypeOK
  BY <1>1, Constants DEF Init, TypeOK, Attempts
<1> QED
  BY <1>1, <1>2 DEF Init, Inv, CallOK, TimeOf, HitsOf, BreakerOK, IdleOK

\* The invariant holds throughout.
LEMMA Invariant == Spec => []Inv
BY Start, Step, PTL DEF Spec

\* Every variable keeps its type: in particular there is never a fourth attempt.
THEOREM TypeCorrect == Spec => []TypeOK
<1>1. Inv => TypeOK
  BY DEF Inv
<1> QED
  BY <1>1, Invariant, PTL

\* Whatever the server does, a call is over before its 15 seconds are.
THEOREM CallsAreBounded == Spec => []CallsEndInTime
<1>1. Inv => CallsEndInTime
  BY CallsAreShort DEF CallsEndInTime
<1> QED
  BY <1>1, Invariant, PTL

\* No call survives the time for which the breaker stays open, so that the breaker
\* never meets a result of an earlier generation, and probes with one call.
THEOREM BreakerIsExact == Spec => []BreakerKnowsItsCalls
<1>1. Inv => BreakerKnowsItsCalls
  BY DEF Inv, BreakerOK, BreakerKnowsItsCalls
<1> QED
  BY <1>1, Invariant, PTL

\* A call that fails for want of an answer has met three bad attempts.
THEOREM FailsAfterThree == Spec => RetriesAreUsedUp
<1>1. ASSUME Inv, [Next]_vars, NEW c \in Callers,
             pc[c] \in Active, pc'[c] = "failed"
      PROVE  hit[c] = Attempts
  <2>1. pc[c] = "calling" /\ ~well /\ attempt[c] = 3
    <3>1. pc' # pc /\ pc'[c] # pc[c]
      BY <1>1 DEF Active
    <3>2. PICK d \in Callers : CallStep(d)
      BY <1>1, <3>1 DEF Next, FallIll, GetWell, Tick, call, vars
    <3>3. pc[d] = "calling" /\ ~well /\ TryAgain(d) /\ d = c
      BY <1>1, <3>1, <3>2
         DEF CallStep, Begin, Try, Reject, Return, Handle, Reply, Unreachable, TimeOut,
             HandlerFails, Again, Cancel, TryAgain, Wait, End, Inv, TypeOK
    <3> QED
      BY <1>1, <3>3 DEF TryAgain, Wait, Inv, TypeOK, Attempts
  <2>2. 1..2 \subseteq hit[c] /\ 3 \in hit[c] /\ hit[c] \subseteq Attempts
    BY <1>1, <2>1 DEF Inv, TypeOK, CallOK, HitsOf
  <2> QED
    BY <2>2 DEF Attempts
<1>2. Inv /\ [Next]_vars
      => [\A c \in Callers :
            pc[c] \in Active /\ pc'[c] = "failed" => hit[c] = Attempts]_vars
  BY <1>1
<1> QED
  BY <1>2, Invariant, PTL DEF Spec, RetriesAreUsedUp
=============================================================================
