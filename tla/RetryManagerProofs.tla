-------------------------- MODULE RetryManagerProofs ---------------------------
(***************************************************************************)
(* Theorems about RetryManager, for every number of concurrent calls,      *)
(* every set of handlers and every setting of the circuit breaker.         *)
(***************************************************************************)
EXTENDS RetryManager, FiniteSetTheorems, SequenceTheorems, TLAPS

USE DEF breakerVars, callVars, period

\* register_fallback inserts: the handlers stay a sequence, and each one that
\* was at position p is at p or p + 1.
LEMMA WithHandlerInserts ==
  ASSUME FallbackTypeOK, NEW h \in Handlers
  PROVE  /\ WithHandler(h) \in Seq(Handlers)
         /\ Len(WithHandler(h)) = Len(fallbacks) + 1
         /\ \A p \in 1..Len(fallbacks) :
              fallbacks[p] \in {WithHandler(h)[p], WithHandler(h)[p + 1]}
<1> DEFINE ahead == {p \in DOMAIN fallbacks : Priority[fallbacks[p]] <= Priority[h]}
           k == Cardinality(ahead)
           front == SubSeq(fallbacks, 1, k)
           back == SubSeq(fallbacks, k + 1, Len(fallbacks))
<1>1. fallbacks \in Seq(Handlers) /\ Len(fallbacks) \in Nat
      /\ DOMAIN fallbacks = 1..Len(fallbacks)
  BY DEF FallbackTypeOK
<1>2. k \in 0..Len(fallbacks)
  <2>1. IsFiniteSet(1..Len(fallbacks)) /\ Cardinality(1..Len(fallbacks)) = Len(fallbacks)
    BY <1>1, FS_Interval
  <2>2. ahead \in SUBSET (1..Len(fallbacks))
    BY <1>1
  <2>3. IsFiniteSet(ahead) /\ k <= Len(fallbacks)
    BY <2>1, <2>2, FS_Subset
  <2> HIDE DEF ahead
  <2>4. Cardinality(ahead) \in Nat
    BY <2>3, FS_CardinalityType
  <2> QED BY <2>3, <2>4, <1>1
<1>3. WithHandler(h) = front \o <<h>> \o back
  BY DEF WithHandler
<1> HIDE DEF k
<1>4. front \in Seq(Handlers) /\ Len(front) = k /\ \A p \in 1..k : front[p] = fallbacks[p]
  BY <1>1, <1>2, SubSeqProperties
<1>5. /\ back \in Seq(Handlers)
      /\ Len(back) = Len(fallbacks) - k
      /\ \A p \in 1..(Len(fallbacks) - k) : back[p] = fallbacks[k + p]
  <2>1. k + 1 \in Int /\ Len(fallbacks) \in Int
        /\ \A i \in (k + 1)..Len(fallbacks) : fallbacks[i] \in Handlers
    BY <1>1, <1>2
  <2>2. /\ back \in Seq(Handlers)
        /\ Len(back) = IF k + 1 <= Len(fallbacks) THEN Len(fallbacks) - (k + 1) + 1 ELSE 0
        /\ \A i \in 1..(Len(fallbacks) - (k + 1) + 1) : back[i] = fallbacks[(k + 1) + i - 1]
    BY <2>1, SubSeqProperties
  <2> HIDE DEF back
  <2>3. ASSUME NEW p \in 1..(Len(fallbacks) - k)
        PROVE  back[p] = fallbacks[k + p]
    <3>1. p \in 1..(Len(fallbacks) - (k + 1) + 1) /\ (k + 1) + p - 1 = k + p
      BY <1>1, <1>2
    <3> QED BY <2>2, <3>1
  <2>4. Len(back) = Len(fallbacks) - k
    <3> DEFINE n == Len(fallbacks)  b == Len(back)
    <3>1. n \in Nat /\ k \in 0..n /\ b = IF k + 1 <= n THEN n - (k + 1) + 1 ELSE 0
      BY <1>1, <1>2, <2>2
    <3> HIDE DEF n, b
    <3>2. b = n - k
      BY <3>1
    <3> QED BY <3>2 DEF n, b
  <2> QED BY <2>2, <2>3, <2>4
<1> HIDE DEF front, back
<1>6. /\ front \o <<h>> \in Seq(Handlers)
      /\ Len(front \o <<h>>) = k + 1
      /\ \A p \in 1..k : (front \o <<h>>)[p] = fallbacks[p]
  BY <1>2, <1>4
<1>7. /\ WithHandler(h) \in Seq(Handlers)
      /\ Len(WithHandler(h)) = Len(fallbacks) + 1
      /\ \A p \in 1..k : WithHandler(h)[p] = fallbacks[p]
      /\ \A p \in (k + 2)..(Len(fallbacks) + 1) : WithHandler(h)[p] = fallbacks[p - 1]
  <2> DEFINE start == front \o <<h>>
  <2>1. start \in Seq(Handlers) /\ back \in Seq(Handlers) /\ WithHandler(h) = start \o back
    BY <1>3, <1>5, <1>6
  <2> HIDE DEF start
  <2>2. /\ WithHandler(h) \in Seq(Handlers)
        /\ Len(WithHandler(h)) = Len(start) + Len(back)
        /\ \A i \in 1..(Len(start) + Len(back)) :
             WithHandler(h)[i] = IF i <= Len(start) THEN start[i] ELSE back[i - Len(start)]
    BY <2>1, ConcatProperties
  <2>3. Len(start) = k + 1 /\ \A p \in 1..k : start[p] = fallbacks[p]
    BY <1>6 DEF start
  <2>4. Len(start) + Len(back) = Len(fallbacks) + 1
    BY <1>1, <1>2, <1>5, <2>3
  <2>5. ASSUME NEW p \in 1..k PROVE WithHandler(h)[p] = fallbacks[p]
    BY <1>1, <1>2, <2>2, <2>3, <2>4
  <2>6. ASSUME NEW p \in (k + 2)..(Len(fallbacks) + 1)
        PROVE  WithHandler(h)[p] = fallbacks[p - 1]
    <3>1. p \in 1..(Len(start) + Len(back)) /\ ~(p <= Len(start))
      BY <1>1, <1>2, <2>3, <2>4
    <3>2. WithHandler(h)[p] = back[p - Len(start)]
      BY <2>2, <3>1
    <3>3. p - Len(start) \in 1..(Len(fallbacks) - k) /\ k + (p - Len(start)) = p - 1
      BY <1>1, <1>2, <2>3
    <3> QED BY <1>5, <3>2, <3>3
  <2> QED BY <2>2, <2>4, <2>5, <2>6
<1>8. ASSUME NEW p \in 1..Len(fallbacks)
      PROVE  fallbacks[p] \in {WithHandler(h)[p], WithHandler(h)[p + 1]}
  BY <1>1, <1>2, <1>7
<1> QED BY <1>7, <1>8
--------------------------------------------------------------------------------
\* What each update of the circuit does to its type and to its threshold.
LEMMA CircuitSteps ==
  ASSUME BreakerTypeOK, ClosedBelowThreshold, now' = now
  PROVE  AllowClosed \/ AllowAfterTimeout \/ AllowProbe \/ Refuse \/ RecordSuccess
           \/ RecordFailure \/ ResetCircuit \/ UNCHANGED circuit
         => BreakerTypeOK' /\ ClosedBelowThreshold'
<1> DEFINE Good == BreakerTypeOK' /\ ClosedBelowThreshold'
           Fields == [state : {"CLOSED", "OPEN", "HALF_OPEN"},
                      consecutive_failures : Nat,
                      consecutive_successes : Nat,
                      half_open_calls : 0..HalfOpenMaxCalls,
                      last_failure_time : Nat \cup {Never},
                      last_state_change : Nat]
<1>0. /\ circuit \in Fields /\ now \in Nat /\ now' \in Nat
      /\ 0 \in 0..HalfOpenMaxCalls
      /\ circuit.state = "CLOSED" => circuit.consecutive_failures < FailureThreshold
  BY BreakerConfig DEF BreakerTypeOK, ClosedBelowThreshold
<1>z. ASSUME circuit' \in Fields,
             circuit'.state = "CLOSED" => circuit'.consecutive_failures < FailureThreshold
      PROVE  Good
  BY <1>z, <1>0 DEF BreakerTypeOK, ClosedBelowThreshold
<1> HIDE DEF Good
<1>1. AllowClosed \/ Refuse \/ UNCHANGED circuit => Good
  BY <1>0, <1>z DEF AllowClosed, Refuse
<1>2. AllowAfterTimeout => Good
  <2>1. HalfOpened(circuit) \in Fields /\ HalfOpened(circuit).state = "HALF_OPEN"
    BY <1>0 DEF HalfOpened
  <2> QED BY <2>1, <1>z DEF AllowAfterTimeout
<1>3. AllowProbe => Good
  <2>1. AllowProbe => /\ circuit' \in Fields
                      /\ circuit'.state = "HALF_OPEN"
    BY <1>0, BreakerConfig DEF AllowProbe
  <2> QED BY <2>1, <1>z
<1>4. RecordSuccess => Good
  <2> DEFINE counted == [circuit EXCEPT !.consecutive_successes = @ + 1,
                                        !.consecutive_failures = 0]
  <2>0. /\ counted = [circuit EXCEPT
                         !.consecutive_successes = circuit.consecutive_successes + 1,
                         !.consecutive_failures = 0]
        /\ circuit.consecutive_successes + 1 \in Nat
    BY <1>0
  <2>1. counted \in Fields /\ counted.consecutive_failures = 0
    <3> DEFINE n == circuit.consecutive_successes + 1
    <3> HIDE DEF n
    <3>1. n \in Nat => [circuit EXCEPT !.consecutive_successes = n, !.consecutive_failures = 0] \in Fields
      BY <1>0
    <3>2. n \in Nat => [circuit EXCEPT !.consecutive_successes = n, !.consecutive_failures = 0].consecutive_failures = 0
      BY <1>0
    <3> QED BY <2>0, <3>1, <3>2 DEF n
  <2> HIDE DEF counted
  <2>2. Closed(counted) \in Fields /\ Closed(counted).consecutive_failures = 0
    BY <1>0, <2>1 DEF Closed
  <2>3. RecordSuccess => circuit' \in {counted, Closed(counted)}
    BY DEF RecordSuccess, counted
  <2> QED BY <1>0, <1>z, <2>1, <2>2, <2>3, BreakerConfig
<1>5. RecordFailure => Good
  <2> DEFINE counted == [circuit EXCEPT !.consecutive_failures = @ + 1,
                                        !.consecutive_successes = 0]
             trips == \/ /\ circuit.state = "CLOSED"
                         /\ counted.consecutive_failures >= FailureThreshold
                      \/ circuit.state = "HALF_OPEN"
  <2>1. /\ counted \in Fields /\ counted.state = circuit.state
        /\ counted.consecutive_failures \in Nat
    <3> DEFINE n == circuit.consecutive_failures + 1
    <3>1. n \in Nat
      BY <1>0
    <3>2. counted = [circuit EXCEPT !.consecutive_failures = n, !.consecutive_successes = 0]
      OBVIOUS
    <3> HIDE DEF n
    <3> QED BY <1>0, <3>1, <3>2
  <2>2. RecordFailure => circuit' = IF trips THEN Opened(counted) ELSE counted
    BY DEF RecordFailure
  <2> HIDE DEF counted
  <2>3. Opened(counted) \in Fields /\ Opened(counted).state = "OPEN"
    BY <1>0, <2>1 DEF Opened
  <2> QED BY <1>0, <1>z, <2>1, <2>2, <2>3, BreakerConfig
<1>6. ResetCircuit => Good
  <2>1. ResetCircuit =>
          circuit' = [state |-> "CLOSED", consecutive_failures |-> 0,
                      consecutive_successes |-> 0, half_open_calls |-> 0,
                      last_failure_time |-> circuit.last_failure_time,
                      last_state_change |-> now]
    BY <1>0 DEF ResetCircuit
  <2>2. circuit.last_failure_time \in Nat \cup {Never}
    BY <1>0
  <2> QED BY <1>0, <1>z, <2>1, <2>2, BreakerConfig
<1> QED BY <1>1, <1>2, <1>3, <1>4, <1>5, <1>6 DEF Good

\* A search for a fallback moves its call on and keeps the types of its
\* variables.
LEMMA SearchTypes ==
  ASSUME TypeOK, NEW c \in Calls, NEW i \in Nat \ {0}, NEW before \in SUBSET Handlers,
         SearchFrom(c, i, before)
  PROVE  /\ pc' \in [Calls -> PCs]
         /\ attempt' \in [Calls -> 0..MaxRetries]
         /\ cursor' \in [Calls -> Nat]
         /\ unvisited' \in [Calls -> SUBSET Handlers]
<1> USE RetryConfig DEF TypeOK, PCs, Goto, GotoEnd
<1>1. CASE \E j \in i..Len(fallbacks) :
             /\ Goto(c, "fallback")
             /\ attempt' = [attempt EXCEPT ![c] = 0]
             /\ cursor' = [cursor EXCEPT ![c] = j]
             /\ unvisited' = [unvisited EXCEPT ![c] = before \ HandlersAt(i..j)]
  <2>1. Len(fallbacks) \in Nat
    BY DEF FallbackTypeOK
  <2> QED BY <1>1, <2>1
<1>2. CASE /\ GotoEnd(c, "escalating")
           /\ unvisited' = [unvisited EXCEPT
                               ![c] = before \ HandlersAt(i..Len(fallbacks))]
  BY <1>2
<1> QED BY <1>1, <1>2 DEF SearchFrom

LEMMA RegisteredType == FallbackTypeOK => Registered \in SUBSET Handlers
BY DEF FallbackTypeOK, Registered, HandlersAt

(***************************************************************************)
(* The types hold, and a closed circuit is below its threshold: can_execute*)
(* and the two record operations keep their counters within bounds.        *)
(***************************************************************************)
TypedInv ==
  /\ TypeOK /\ ClosedBelowThreshold
  /\ \A c \in Calls : pc[c] = "backoff" => attempt[c] < MaxRetries

LEMMA TypedInit == Init => TypedInv
BY BreakerConfig, RetryConfig
   DEF Init, TypedInv, TypeOK, ClosedBelowThreshold, BreakerInit, BreakerTypeOK, NewCircuit,
       FallbackInit, FallbackTypeOK, PCs, Never

LEMMA TypedStep == TypedInv /\ [Next]_vars => TypedInv'
<1> SUFFICES ASSUME TypedInv, [Next]_vars PROVE TypedInv'
  OBVIOUS
<1> USE RetryConfig DEF TypedInv, TypeOK, PCs
<1>1. ASSUME NEW c \in Calls, CallStep(c) PROVE TypedInv'
  <2>1. UNCHANGED now /\ UNCHANGED fallbacks /\ FallbackTypeOK'
        /\ probes' \subseteq Calls /\ unreported' \subseteq Calls
    BY <1>1 DEF CallStep, StartClosed, StartAfterTimeout, StartProbe, StartRefused, Succeed,
                FailAndSleep, FailLast, FailUnretried, Retry, FallbackReturns,
                FallbackReturnsNone, FallbackFails, Escalated, BeginAttempts, GiveUp,
                KeepPeriod, FallbackTypeOK
  <2>2. BreakerTypeOK' /\ ClosedBelowThreshold'
    <3>1. AllowClosed \/ AllowAfterTimeout \/ AllowProbe \/ Refuse \/ RecordSuccess
            \/ RecordFailure \/ UNCHANGED circuit
      BY <1>1 DEF CallStep, StartClosed, StartAfterTimeout, StartProbe, StartRefused, Succeed,
                  FailAndSleep, FailLast, FailUnretried, Retry, FallbackReturns,
                  FallbackReturnsNone, FallbackFails, Escalated
    <3> QED BY <2>1, <3>1, CircuitSteps
  <2>3. /\ pc' \in [Calls -> PCs]
        /\ attempt' \in [Calls -> 0..MaxRetries]
        /\ cursor' \in [Calls -> Nat]
        /\ unvisited' \in [Calls -> SUBSET Handlers]
    <3>1. CASE GiveUp(c)
      BY <3>1, SearchTypes, RegisteredType DEF GiveUp
    <3>2. CASE FallbackFails(c)
      <4>1. cursor[c] + 1 \in Nat \ {0} /\ unvisited[c] \in SUBSET Handlers
        OBVIOUS
      <4> QED BY <3>2, <4>1, SearchTypes DEF FallbackFails
    <3>3. CASE BeginAttempts(c)
      BY <3>3 DEF BeginAttempts, Goto
    <3>4. CASE Succeed(c) \/ FallbackReturns(c) \/ FallbackReturnsNone(c) \/ Escalated(c)
      BY <3>4 DEF Succeed, FallbackReturns, FallbackReturnsNone, Escalated, Goto, GotoEnd
    <3>5. CASE FailAndSleep(c)
      BY <3>5 DEF FailAndSleep, Goto
    <3>6. CASE Retry(c)
      <4>1. attempt[c] + 1 \in 0..MaxRetries
        BY <3>6 DEF Retry
      <4> QED BY <3>6, <4>1 DEF Retry, Goto
    <3> QED BY <1>1, <3>1, <3>2, <3>3, <3>4, <3>5, <3>6
            DEF CallStep, StartClosed, StartAfterTimeout, StartProbe, StartRefused,
                FailLast, FailUnretried
  <2>4. \A d \in Calls : pc'[d] = "backoff" => attempt'[d] < MaxRetries
    <3>1. CASE FailAndSleep(c)
      BY <3>1 DEF FailAndSleep, Goto
    <3>2. CASE ~FailAndSleep(c)
      <4>1. pc'[c] # "backoff" /\ \A d \in Calls \ {c} : pc'[d] = pc[d] /\ attempt'[d] = attempt[d]
        BY <1>1, <3>2
           DEF CallStep, StartClosed, StartAfterTimeout, StartProbe, StartRefused, Succeed,
               FailLast, FailUnretried, Retry, FallbackReturns, FallbackReturnsNone,
               FallbackFails, Escalated, BeginAttempts, GiveUp, SearchFrom, Goto, GotoEnd
      <4> QED BY <4>1
    <3> QED BY <3>1, <3>2
  <2> QED BY <2>1, <2>2, <2>3, <2>4
<1>2. CASE OperatorResets
  BY <1>2, CircuitSteps DEF OperatorResets, ResetCircuit, KeepPeriod, FallbackTypeOK
<1>3. CASE TimePasses
  BY <1>3 DEF TimePasses, Tick, FallbackTypeOK, BreakerTypeOK, ClosedBelowThreshold
<1>4. ASSUME NEW h \in Handlers, HandlerRegistered(h) PROVE TypedInv'
  BY <1>4, WithHandlerInserts
     DEF HandlerRegistered, RegisterFallback, FallbackTypeOK, BreakerTypeOK,
         ClosedBelowThreshold
<1>5. CASE UNCHANGED vars
  BY <1>5 DEF vars, FallbackTypeOK, BreakerTypeOK, ClosedBelowThreshold
<1> QED BY <1>1, <1>2, <1>3, <1>4, <1>5 DEF Next

\* Circuit, handlers and calls keep their types, and a closed circuit is below its
\* threshold.
THEOREM Typed == Spec => []TypedInv
BY TypedInit, TypedStep, PTL DEF Spec

(***************************************************************************)
(* TypeOK, whose half_open_calls : 0..HalfOpenMaxCalls says that can_execute*)
(* never counts a test call past the limit.                                *)
(***************************************************************************)
THEOREM TypeCorrect == Spec => []TypeOK
<1>1. TypedInv => TypeOK
  BY DEF TypedInv
<1> QED BY <1>1, Typed, PTL

(***************************************************************************)
(* A closed circuit is below its failure threshold.                        *)
(***************************************************************************)
THEOREM ClosedIsFresh == Spec => []ClosedBelowThreshold
<1>1. TypedInv => ClosedBelowThreshold
  BY DEF TypedInv
<1> QED BY <1>1, Typed, PTL
--------------------------------------------------------------------------------
\* Which operation of the circuit breaker a step of the whole is.
LEMMA StepsOfCircuit ==
  ASSUME [Next]_vars
  PROVE  AllowClosed \/ AllowAfterTimeout \/ AllowProbe \/ Refuse \/ RecordSuccess
           \/ RecordFailure \/ ResetCircuit \/ UNCHANGED circuit
BY DEF Next, vars, CallStep, StartClosed, StartAfterTimeout, StartProbe, StartRefused, Succeed,
       FailAndSleep, FailLast, FailUnretried, Retry, FallbackReturns, FallbackReturnsNone,
       FallbackFails, Escalated, OperatorResets, TimePasses, Tick, HandlerRegistered

(***************************************************************************)
(* The circuit under concurrent retried calls is a Breaker: it opens only  *)
(* from CLOSED or HALF_OPEN, tests only from OPEN, and lets at most        *)
(* HalfOpenMaxCalls + 1 calls through in one HALF_OPEN period.             *)
(***************************************************************************)
THEOREM RefinesBreaker == Spec => ImplementsBreaker
<1>1. Init => Abstract!Init
  BY DEF Init, BreakerInit, NewCircuit, Abstract!Init
<1>2. ASSUME TypedInv, [Next]_vars PROVE [Abstract!Next]_(Abstract!breakerVars)
  <2> DEFINE p == IF circuit.state = "HALF_OPEN" THEN circuit.half_open_calls + 1 ELSE 0
             pp == IF circuit'.state = "HALF_OPEN" THEN circuit'.half_open_calls + 1 ELSE 0
             Step == Abstract!Next \/ (circuit'.state = circuit.state /\ pp = p)
  <2>0. /\ circuit.half_open_calls \in Nat
        /\ circuit \in [state : {"CLOSED", "OPEN", "HALF_OPEN"},
                        consecutive_failures : Nat,
                        consecutive_successes : Nat,
                        half_open_calls : 0..HalfOpenMaxCalls,
                        last_failure_time : Nat \cup {Never},
                        last_state_change : Nat]
    BY <1>2, BreakerConfig DEF TypedInv, TypeOK, BreakerTypeOK
  <2>1. AllowClosed \/ Refuse \/ UNCHANGED circuit => Step
    BY DEF AllowClosed, Refuse
  <2>2. AllowAfterTimeout => Abstract!Probe
    BY <2>0 DEF AllowAfterTimeout, HalfOpened, Abstract!Probe
  <2>3. AllowProbe => Abstract!ProbeAgain
    BY <2>0, BreakerConfig DEF AllowProbe, Abstract!ProbeAgain
  <2>4. RecordSuccess => Step
    <3>1. RecordSuccess =>
            \/ circuit'.state = circuit.state
                 /\ circuit'.half_open_calls = circuit.half_open_calls
            \/ circuit.state = "HALF_OPEN" /\ circuit'.state = "CLOSED"
      BY <2>0 DEF RecordSuccess, Closed
    <3> QED BY <3>1 DEF Abstract!Next, Abstract!Close
  <2>5. RecordFailure => Step
    <3>1. RecordFailure =>
            \/ circuit'.state = circuit.state
                 /\ circuit'.half_open_calls = circuit.half_open_calls
            \/ circuit.state \in {"CLOSED", "HALF_OPEN"} /\ circuit'.state = "OPEN"
      BY <2>0 DEF RecordFailure, Opened
    <3> QED BY <3>1 DEF Abstract!Next, Abstract!Trip, Abstract!Reopen
  <2>6. ResetCircuit => Abstract!Reset
    <3>1. ResetCircuit => circuit'.state = "CLOSED"
      BY <2>0 DEF ResetCircuit
    <3> QED BY <3>1 DEF Abstract!Reset
  <2>7. Step
    BY <1>2, <2>1, <2>2, <2>3, <2>4, <2>5, <2>6, StepsOfCircuit DEF Abstract!Next
  <2> QED BY <2>7 DEF Abstract!breakerVars
<1> QED BY <1>1, <1>2, Typed, PTL DEF Spec, ImplementsBreaker, Abstract!Spec
--------------------------------------------------------------------------------
\* What a search has still to reach lies behind its cursor.
AheadOf(c) ==
  /\ pc[c] \in {"fallback", "escalating"} =>
       unvisited[c] \subseteq HandlersAt((cursor[c] + 1)..Len(fallbacks))
  /\ pc[c] = "escalating" /\ cursor[c] = 0 => unvisited[c] = {}
  /\ pc[c] = "fallback" => cursor[c] # 0

SearchAhead == \A c \in Calls : AheadOf(c)

\* A search that starts at i with nothing left to reach before i.
LEMMA SearchKeepsAhead ==
  ASSUME TypeOK, SearchAhead, fallbacks' = fallbacks,
         NEW c \in Calls, NEW i \in Nat \ {0},
         NEW before \in SUBSET HandlersAt(i..Len(fallbacks)),
         SearchFrom(c, i, before)
  PROVE  SearchAhead'
<1> USE DEF TypeOK, Goto, GotoEnd
<1>0. SUFFICES ASSUME NEW d \in Calls
               PROVE  /\ pc'[d] \in {"fallback", "escalating"} =>
                           unvisited'[d] \subseteq HandlersAt((cursor'[d] + 1)..Len(fallbacks))
                      /\ pc'[d] = "escalating" /\ cursor'[d] = 0 => unvisited'[d] = {}
                      /\ pc'[d] = "fallback" => cursor'[d] # 0
  <2>1. SUFFICES ASSUME NEW d \in Calls PROVE AheadOf(d)'
    BY DEF SearchAhead
  <2> QED BY DEF AheadOf, HandlersAt
<1>1. Len(fallbacks) \in Nat
  BY DEF FallbackTypeOK
<1>2. CASE d # c
  <2>1. pc'[d] = pc[d] /\ cursor'[d] = cursor[d] /\ unvisited'[d] = unvisited[d]
    BY <1>2 DEF SearchFrom
  <2> QED BY <2>1 DEF SearchAhead, AheadOf
<1>3. CASE \E j \in i..Len(fallbacks) :
             /\ Goto(c, "fallback")
             /\ attempt' = [attempt EXCEPT ![c] = 0]
             /\ cursor' = [cursor EXCEPT ![c] = j]
             /\ unvisited' = [unvisited EXCEPT ![c] = before \ HandlersAt(i..j)]
  <2>1. PICK j \in i..Len(fallbacks) :
             /\ Goto(c, "fallback")
             /\ cursor' = [cursor EXCEPT ![c] = j]
             /\ unvisited' = [unvisited EXCEPT ![c] = before \ HandlersAt(i..j)]
    BY <1>3
  <2>2. before \ HandlersAt(i..j) \subseteq HandlersAt((j + 1)..Len(fallbacks))
    <3> SUFFICES ASSUME NEW p \in i..Len(fallbacks), fallbacks[p] \notin HandlersAt(i..j)
                 PROVE  p \in (j + 1)..Len(fallbacks)
      BY DEF HandlersAt
    <3> QED BY <1>1 DEF HandlersAt
  <2>3. /\ pc'[c] = "fallback" /\ cursor'[c] = j /\ j # 0
        /\ unvisited'[c] = before \ HandlersAt(i..j)
    BY <1>1, <2>1
  <2> QED BY <1>2, <2>2, <2>3
<1>4. CASE /\ GotoEnd(c, "escalating")
           /\ unvisited' = [unvisited EXCEPT
                               ![c] = before \ HandlersAt(i..Len(fallbacks))]
  <2>1. unvisited'[c] = before \ HandlersAt(i..Len(fallbacks))
    BY <1>4
  <2>2. pc'[c] = "escalating" /\ unvisited'[c] = {}
    BY <1>4, <2>1
  <2> QED BY <1>2, <2>2
<1> QED BY <1>3, <1>4 DEF SearchFrom

\* Registration moves what is ahead of a cursor no further back than itself.
LEMMA RegistrationKeepsAhead ==
  ASSUME TypeOK, SearchAhead, NEW h \in Handlers, HandlerRegistered(h)
  PROVE  SearchAhead'
<1>0. fallbacks' = WithHandler(h) /\ UNCHANGED callVars
  BY DEF HandlerRegistered, RegisterFallback
<1>1. /\ Len(fallbacks) \in Nat /\ Len(fallbacks') = Len(fallbacks) + 1
      /\ \A p \in 1..Len(fallbacks) : fallbacks[p] \in {fallbacks'[p], fallbacks'[p + 1]}
  <2>1. FallbackTypeOK /\ Len(fallbacks) \in Nat
    BY DEF TypeOK, FallbackTypeOK
  <2>2. /\ Len(WithHandler(h)) = Len(fallbacks) + 1
        /\ \A p \in 1..Len(fallbacks) :
             fallbacks[p] \in {WithHandler(h)[p], WithHandler(h)[p + 1]}
    BY <2>1, WithHandlerInserts, Zenon
  <2> QED BY <1>0, <2>1, <2>2
<1>2. ASSUME NEW n \in Nat
      PROVE  HandlersAt((n + 1)..Len(fallbacks)) \subseteq HandlersAt((n + 1)..Len(fallbacks))'
  <2> SUFFICES ASSUME NEW p \in (n + 1)..Len(fallbacks)
               PROVE  \E q \in (n + 1)..Len(fallbacks') : fallbacks[p] = fallbacks'[q]
    BY DEF HandlersAt
  <2>1. p \in 1..Len(fallbacks) /\ p \in (n + 1)..Len(fallbacks')
        /\ p + 1 \in (n + 1)..Len(fallbacks')
    BY <1>1
  <2> QED BY <1>1, <2>1
<1>3. SUFFICES ASSUME NEW c \in Calls PROVE AheadOf(c)'
  BY DEF SearchAhead
<1>4. AheadOf(c) /\ cursor[c] \in Nat
  BY DEF SearchAhead, TypeOK
<1>5. HandlersAt((cursor[c] + 1)..Len(fallbacks)) \subseteq
        HandlersAt((cursor[c] + 1)..Len(fallbacks))'
  BY <1>0, <1>2, <1>4 DEF callVars
<1>6. HandlersAt((cursor[c] + 1)..Len(fallbacks)) \subseteq
        {fallbacks'[p] : p \in (cursor'[c] + 1)..Len(fallbacks')}
  BY <1>0, <1>5 DEF HandlersAt, callVars
<1> QED BY <1>0, <1>4, <1>6 DEF AheadOf, HandlersAt, callVars

LEMMA SearchStep == TypedInv /\ SearchAhead /\ [Next]_vars => SearchAhead'
<1> SUFFICES ASSUME TypedInv, SearchAhead, [Next]_vars PROVE SearchAhead'
  OBVIOUS
<1> USE DEF TypedInv
<1>1. ASSUME NEW c \in Calls, CallStep(c) PROVE SearchAhead'
  <2>0. fallbacks' = fallbacks
    BY <1>1 DEF CallStep, StartClosed, StartAfterTimeout, StartProbe, StartRefused, Succeed,
                FailAndSleep, FailLast, FailUnretried, Retry, FallbackReturns,
                FallbackReturnsNone, FallbackFails, Escalated, BeginAttempts, GiveUp
  <2>1. CASE GiveUp(c)
    <3>1. Registered \in SUBSET HandlersAt(1..Len(fallbacks))
      BY DEF Registered, TypeOK, FallbackTypeOK
    <3> QED BY <2>0, <2>1, <3>1, SearchKeepsAhead DEF GiveUp
  <2>2. CASE FallbackFails(c)
    <3>1. /\ cursor[c] + 1 \in Nat \ {0}
          /\ unvisited[c] \in SUBSET HandlersAt((cursor[c] + 1)..Len(fallbacks))
      BY <2>2 DEF FallbackFails, SearchAhead, AheadOf, TypeOK
    <3> QED BY <2>0, <2>2, <3>1, SearchKeepsAhead DEF FallbackFails
  <2>3. CASE FallbackReturnsNone(c)
    <3>1. /\ pc[c] = "fallback" /\ pc'[c] = "escalating"
          /\ \A d \in Calls \ {c} : pc'[d] = pc[d]
          /\ cursor' = cursor /\ unvisited' = unvisited
      BY <2>3 DEF FallbackReturnsNone, Goto, TypeOK
    <3> QED BY <2>0, <3>1 DEF SearchAhead, AheadOf, HandlersAt
  <2>4. CASE BeginAttempts(c) \/ Succeed(c) \/ FailAndSleep(c) \/ Retry(c)
               \/ FallbackReturns(c) \/ Escalated(c)
    <3>1. /\ pc'[c] \notin {"fallback", "escalating"}
          /\ \A d \in Calls \ {c} :
               pc'[d] = pc[d] /\ cursor'[d] = cursor[d] /\ unvisited'[d] = unvisited[d]
      BY <2>4 DEF BeginAttempts, Succeed, FailAndSleep, Retry, FallbackReturns, Escalated,
                  Goto, GotoEnd, TypeOK
    <3> QED BY <2>0, <3>1 DEF SearchAhead, AheadOf, HandlersAt
  <2> QED BY <1>1, <2>1, <2>2, <2>3, <2>4
          DEF CallStep, StartClosed, StartAfterTimeout, StartProbe, StartRefused,
              FailLast, FailUnretried
<1>2. CASE OperatorResets \/ TimePasses \/ UNCHANGED vars
  BY <1>2 DEF OperatorResets, TimePasses, vars, SearchAhead, AheadOf, HandlersAt
<1>3. ASSUME NEW h \in Handlers, HandlerRegistered(h) PROVE SearchAhead'
  BY <1>3, RegistrationKeepsAhead
<1> QED BY <1>1, <1>2, <1>3 DEF Next

(***************************************************************************)
(* Registration during a search never makes the search pass a handler over *)
(* that was registered when it began; only a handler that returns None     *)
(* leaves some untried, all of them behind itself.                         *)
(***************************************************************************)
THEOREM HandlersAllVisited == Spec => []NoHandlerSkipped
<1>1. Init => SearchAhead
  BY DEF Init, SearchAhead, AheadOf
<1>2. SearchAhead => NoHandlerSkipped
  BY DEF SearchAhead, AheadOf, NoHandlerSkipped
<1> QED BY <1>1, <1>2, SearchStep, Typed, PTL DEF Spec
--------------------------------------------------------------------------------
\* The calls of the current HALF_OPEN period that reported a success.
Reported == probes \ (InFlight \cup unreported)

\* While HALF_OPEN the counter is the number of calls let through, less the
\* first; every reported success is among the consecutive ones, and there are
\* too few of them to close the circuit.
PeriodInv ==
  circuit.state = "HALF_OPEN" =>
    /\ \A c \in probes : pc[c] # "new"
    /\ Cardinality(probes) = circuit.half_open_calls + 1
    /\ Cardinality(Reported) <= circuit.consecutive_successes
    /\ Reported # {} => circuit.consecutive_successes < SuccessThreshold

\* The steps that leave the circuit, the period and the calls' reports alone.
LEMMA PeriodUntouched ==
  ASSUME PeriodInv, circuit' = circuit, probes' = probes, Reported' = Reported,
         \A c \in Calls : pc[c] # "new" => pc'[c] # "new",
         probes \subseteq Calls
  PROVE  PeriodInv'
BY DEF PeriodInv

LEMMA PeriodStep == TypedInv /\ PeriodInv /\ [Next]_vars => PeriodInv'
<1> SUFFICES ASSUME TypedInv, PeriodInv, [Next]_vars PROVE PeriodInv'
  OBVIOUS
<1>0. /\ IsFiniteSet(probes) /\ IsFiniteSet(Reported)
      /\ Cardinality(probes) \in Nat /\ Cardinality(Reported) \in Nat
      /\ probes \subseteq Calls /\ pc \in [Calls -> PCs]
  <2>1. probes \in SUBSET Calls /\ Reported \in SUBSET Calls
    BY DEF TypedInv, TypeOK, Reported
  <2>2. IsFiniteSet(probes) /\ IsFiniteSet(Reported)
    BY <2>1, RetryConfig, FS_Subset
  <2> QED BY <2>1, <2>2, FS_CardinalityType DEF TypedInv, TypeOK
<1>f. /\ circuit.half_open_calls \in Nat /\ circuit.consecutive_successes \in Nat
      /\ circuit.state \in {"CLOSED", "OPEN", "HALF_OPEN"}
      /\ circuit \in [state : {"CLOSED", "OPEN", "HALF_OPEN"},
                      consecutive_failures : Nat,
                      consecutive_successes : Nat,
                      half_open_calls : 0..HalfOpenMaxCalls,
                      last_failure_time : Nat \cup {Never},
                      last_state_change : Nat]
  BY BreakerConfig DEF TypedInv, TypeOK, BreakerTypeOK
<1>1. ASSUME NEW c \in Calls, CallStep(c) PROVE PeriodInv'
  <2>1. CASE StartClosed(c)
    BY <2>1 DEF StartClosed, AllowClosed, PeriodInv
  <2>2. CASE StartAfterTimeout(c)
    <3>1. /\ circuit'.half_open_calls = 0
          /\ circuit'.consecutive_successes = circuit.consecutive_successes
          /\ probes' = {c} /\ pc'[c] = "running"
      BY <2>2, <1>0, <1>f DEF StartAfterTimeout, AllowAfterTimeout, HalfOpened, BeginAttempts, Goto
    <3>2. Reported' = {}
      BY <3>1 DEF Reported, InFlight
    <3>3. Cardinality(probes') = 1 /\ Cardinality(Reported') = 0
      BY <3>1, <3>2, FS_EmptySet, FS_Singleton
    <3>4. \A d \in probes' : pc'[d] # "new"
      BY <3>1
    <3> QED BY <3>1, <3>2, <3>3, <3>4, <1>f DEF PeriodInv
  <2>3. CASE StartProbe(c)
    <3>1. /\ circuit.state = "HALF_OPEN"
          /\ circuit'.half_open_calls = circuit.half_open_calls + 1
          /\ circuit'.consecutive_successes = circuit.consecutive_successes
          /\ probes' = probes \cup {c} /\ unreported' = unreported
          /\ pc[c] = "new" /\ pc' = [pc EXCEPT ![c] = "running"]
      BY <2>3, <1>f DEF StartProbe, AllowProbe, BeginAttempts, Goto
    <3>2. c \notin probes
      BY <3>1 DEF PeriodInv
    <3>3. Reported' = Reported
      BY <3>1, <3>2, <1>0 DEF Reported, InFlight
    <3>4. Cardinality(probes') = Cardinality(probes) + 1
      BY <3>1, <3>2, <1>0, FS_AddElement
    <3> QED BY <3>1, <3>3, <3>4, <1>0, <1>f DEF PeriodInv
  <2>4. CASE Succeed(c)
    <3>1. SUFFICES ASSUME circuit'.state = "HALF_OPEN" PROVE PeriodInv'
      BY DEF PeriodInv
    <3>2. /\ circuit.state = "HALF_OPEN"
          /\ circuit'.half_open_calls = circuit.half_open_calls
          /\ circuit'.consecutive_successes = circuit.consecutive_successes + 1
          /\ ~(circuit.consecutive_successes + 1 >= SuccessThreshold)
      BY <2>4, <3>1, <1>f DEF Succeed, RecordSuccess, Closed
    <3>3. /\ probes' = probes /\ unreported' = unreported
          /\ pc[c] = "running" /\ pc' = [pc EXCEPT ![c] = "returned"]
      BY <2>4, <3>1 DEF Succeed, KeepPeriod, GotoEnd, Goto
    <3>4. Reported' \in {Reported, Reported \cup {c}}
      BY <3>3, <1>0 DEF Reported, InFlight
    <3>a. Cardinality(Reported \cup {c}) \in {Cardinality(Reported), Cardinality(Reported) + 1}
      BY <1>0, FS_AddElement
    <3>b. Cardinality(Reported') \in {Cardinality(Reported), Cardinality(Reported) + 1}
      BY <3>4, <3>a
    <3>5. Cardinality(Reported') <= Cardinality(Reported) + 1
      BY <3>b, <1>0
    <3>6. Cardinality(Reported') \in Nat
      BY <3>b, <1>0
    <3> QED BY <3>2, <3>3, <3>5, <3>6, <1>0, <1>f, BreakerConfig DEF PeriodInv
  <2>5. CASE FailAndSleep(c) \/ FailLast(c)
    <3>1. CASE circuit'.state = "HALF_OPEN"
      BY <2>5, <3>1, <1>f DEF FailAndSleep, FailLast, RecordFailure, Opened
    <3>2. CASE circuit'.state # "HALF_OPEN"
      BY <3>2 DEF PeriodInv
    <3> QED BY <3>1, <3>2
  <2>6. CASE FailUnretried(c)
    <3>1. /\ circuit' = circuit /\ probes' = probes
          /\ unreported' = unreported \cup (probes \cap {c})
          /\ pc[c] = "running" /\ pc'[c] \notin {"new", "running", "backoff"}
          /\ \A d \in Calls \ {c} : pc'[d] = pc[d]
      BY <2>6, <1>0 DEF FailUnretried, GiveUp, SearchFrom, Goto, GotoEnd
    <3>2. Reported' = Reported
      BY <3>1, <1>0 DEF Reported, InFlight
    <3> QED BY <3>1, <3>2, <1>0, PeriodUntouched
  <2>7. CASE StartRefused(c) \/ Retry(c) \/ FallbackReturns(c) \/ FallbackReturnsNone(c)
               \/ FallbackFails(c) \/ Escalated(c)
    <3>1. /\ circuit' = circuit /\ probes' = probes /\ unreported' = unreported
          /\ \A d \in Calls \ {c} : pc'[d] = pc[d]
          /\ pc'[c] # "new"
          /\ pc[c] = "new" \/ (pc'[c] \in {"running", "backoff"} <=> pc[c] \in {"running", "backoff"})
          /\ circuit.state = "HALF_OPEN" => ~(c \in probes /\ pc[c] = "new")
          /\ pc'[c] \in {"running", "backoff"} => pc[c] # "new"
      BY <2>7, <1>0
         DEF StartRefused, Refuse, Retry, FallbackReturns, FallbackReturnsNone, FallbackFails,
             Escalated, GiveUp, SearchFrom, Goto, GotoEnd, PeriodInv
    <3>2. circuit.state = "HALF_OPEN" => Reported' = Reported
      BY <3>1, <1>0 DEF Reported, InFlight
    <3> QED BY <3>1, <3>2, <1>0 DEF PeriodInv
  <2> QED BY <1>1, <2>1, <2>2, <2>3, <2>4, <2>5, <2>6, <2>7 DEF CallStep
<1>2. CASE OperatorResets
  <2>1. circuit'.state = "CLOSED"
    BY <1>2, <1>f DEF OperatorResets, ResetCircuit
  <2> QED BY <2>1 DEF PeriodInv
<1>3. CASE TimePasses \/ UNCHANGED vars \/ \E h \in Handlers : HandlerRegistered(h)
  <2>1. UNCHANGED <<circuit, pc, probes, unreported>>
    BY <1>3 DEF TimePasses, Tick, HandlerRegistered, vars
  <2> QED BY <2>1, <1>0, PeriodUntouched DEF Reported, InFlight
<1> QED BY <1>1, <1>2, <1>3 DEF Next

LEMMA PeriodAlways == Spec => []PeriodInv
<1>1. Init => PeriodInv
  BY DEF Init, BreakerInit, NewCircuit, PeriodInv
<1> QED BY <1>1, PeriodStep, Typed, PTL DEF Spec

(***************************************************************************)
(* At most HalfOpenMaxCalls + 1 calls are let through in one HALF_OPEN     *)
(* period, whatever the number of concurrent callers.                      *)
(***************************************************************************)
THEOREM AtMostOneMore == Spec => []ProbesBounded
<1>1. TypedInv /\ PeriodInv => ProbesBounded
  BY BreakerConfig DEF TypedInv, TypeOK, BreakerTypeOK, PeriodInv, ProbesBounded
<1> QED BY <1>1, Typed, PeriodAlways, PTL

(***************************************************************************)
(* With a success threshold the probes can reach, a HALF_OPEN circuit      *)
(* whose probes have all reported lets another call through.               *)
(***************************************************************************)
THEOREM HalfOpenIsNeverStranded ==
  ASSUME SuccessThreshold <= HalfOpenMaxCalls + 1
  PROVE  Spec => []NeverStranded
<1>1. ASSUME TypedInv, PeriodInv PROVE NeverStranded
  <2> SUFFICES ASSUME circuit.state = "HALF_OPEN",
                      probes \cap (InFlight \cup unreported) = {}
               PROVE  circuit.half_open_calls < HalfOpenMaxCalls
    BY DEF NeverStranded
  <2>1. Reported = probes
    BY DEF Reported
  <2>2. Cardinality(probes) = circuit.half_open_calls + 1
        /\ Cardinality(probes) <= circuit.consecutive_successes
        /\ circuit.half_open_calls \in Nat /\ circuit.consecutive_successes \in Nat
    BY <1>1, <2>1, BreakerConfig DEF PeriodInv, TypedInv, TypeOK, BreakerTypeOK
  <2>3. Reported # {}
    BY <2>1, <2>2, FS_EmptySet
  <2>4. circuit.consecutive_successes < SuccessThreshold
    BY <1>1, <2>3 DEF PeriodInv
  <2> QED BY <2>2, <2>4, BreakerConfig
<1> QED BY <1>1, Typed, PeriodAlways, PTL
================================================================================
