----------------------------- MODULE RetryManager ------------------------------
(***************************************************************************)
(* src/recovery/retry_manager.py composed with the circuit breaker, the    *)
(* fallback manager and the escalation manager it owns.                    *)
(*                                                                         *)
(* Every member of Calls is one execute_with_retry of the same function,   *)
(* so all of them share one circuit and one list of fallback handlers.  A  *)
(* call suspends in four places: the function itself, the back-off sleep,  *)
(* a fallback handler, the sleep of the escalation policy.  What it does   *)
(* between two of them is one step.  pc names the place.                   *)
(***************************************************************************)
EXTENDS CircuitBreaker, FallbackManager, FiniteSets

CONSTANTS Calls,              \* the concurrent calls of the function
          MaxRetries          \* retries after the first attempt

ASSUME RetryConfig == MaxRetries \in Nat /\ IsFiniteSet(Calls)

VARIABLES pc,        \* where each call is
          attempt,   \* the attempt it is at, from 0
          cursor,    \* the position of the fallback list it is at, or at which
                     \* its search ended; 0 before the search or without a hit
          probes,    \* history: calls let through in the current HALF_OPEN period
          unreported,\* history: those of them that ended without a word to the
                     \* circuit
          unvisited  \* history: handlers registered when the call began its
                     \* search for a fallback and not reached by it

callVars == <<pc, attempt, cursor, unvisited>>
period == <<probes, unreported>>
vars == <<circuit, now, fallbacks, callVars, period>>

PCs == {"new", "running", "backoff", "fallback", "escalating", "returned", "raised"}

Init ==
  /\ BreakerInit /\ FallbackInit
  /\ pc = [c \in Calls |-> "new"]
  /\ attempt = [c \in Calls |-> 0]
  /\ cursor = [c \in Calls |-> 0]
  /\ unvisited = [c \in Calls |-> {}]
  /\ probes = {} /\ unreported = {}

\* Calls the circuit let through whose function may still be invoked.
InFlight == {c \in Calls : pc[c] \in {"running", "backoff"}}
--------------------------------------------------------------------------------
\* The call moves to place p; its local variables go out of scope at its end.
Goto(c, p) == pc' = [pc EXCEPT ![c] = p]
GotoEnd(c, p) ==
  /\ Goto(c, p)
  /\ attempt' = [attempt EXCEPT ![c] = 0]
  /\ cursor' = [cursor EXCEPT ![c] = 0]

\* The history of a HALF_OPEN period ends with it.
KeepPeriod == /\ probes' = IF circuit'.state = "HALF_OPEN" THEN probes ELSE {}
              /\ unreported' = IF circuit'.state = "HALF_OPEN" THEN unreported ELSE {}

\* get_fallback from position i of the live list: the handlers at i..j-1 do
\* not meet their conditions and the one at j is started; or none is left that
\* does, and execute_with_retry escalates in the same step.  before holds the
\* handlers the call has still to reach.
SearchFrom(c, i, before) ==
  \/ \E j \in i..Len(fallbacks) :
       /\ Goto(c, "fallback")
       /\ attempt' = [attempt EXCEPT ![c] = 0]
       /\ cursor' = [cursor EXCEPT ![c] = j]
       /\ unvisited' = [unvisited EXCEPT ![c] = before \ HandlersAt(i..j)]
  \/ /\ GotoEnd(c, "escalating")
     /\ unvisited' = [unvisited EXCEPT ![c] = before \ HandlersAt(i..Len(fallbacks))]

\* The call gives its function up and looks for a fallback.
GiveUp(c) == SearchFrom(c, 1, Registered) /\ UNCHANGED <<now, fallbacks>>

\* The first attempt starts in the step that asked can_execute.
BeginAttempts(c) ==
  /\ pc[c] = "new"
  /\ Goto(c, "running")
  /\ UNCHANGED <<attempt, cursor, unvisited, now, fallbacks>>

StartClosed(c) == AllowClosed /\ BeginAttempts(c) /\ UNCHANGED period

StartAfterTimeout(c) ==
  AllowAfterTimeout /\ BeginAttempts(c) /\ probes' = {c} /\ UNCHANGED unreported

StartProbe(c) ==
  AllowProbe /\ BeginAttempts(c) /\ probes' = probes \cup {c} /\ UNCHANGED unreported

StartRefused(c) ==
  /\ pc[c] = "new"
  /\ Refuse
  /\ GiveUp(c)
  /\ UNCHANGED period

\* The function returns.
Succeed(c) ==
  /\ pc[c] = "running"
  /\ RecordSuccess
  /\ GotoEnd(c, "returned")
  /\ KeepPeriod
  /\ UNCHANGED <<now, fallbacks, unvisited>>

\* The function raises an exception of a type retry_on lists, with retries left.
FailAndSleep(c) ==
  /\ pc[c] = "running"
  /\ attempt[c] < MaxRetries
  /\ RecordFailure
  /\ Goto(c, "backoff")
  /\ KeepPeriod
  /\ UNCHANGED <<attempt, cursor, unvisited, now, fallbacks>>

\* The same at the last attempt.
FailLast(c) ==
  /\ pc[c] = "running"
  /\ attempt[c] = MaxRetries
  /\ RecordFailure
  /\ GiveUp(c)
  /\ KeepPeriod

\* The function raises an exception of a type retry_on does not list: the loop
\* ends and nothing is recorded.
FailUnretried(c) ==
  /\ pc[c] = "running"
  /\ GiveUp(c)
  /\ unreported' = unreported \cup (probes \cap {c})
  /\ UNCHANGED <<circuit, probes>>

\* A mutant of Retry: the loop does not count its attempts.
RetryUncounted(c) ==
  /\ pc[c] = "backoff"
  /\ Goto(c, "running")
  /\ UNCHANGED <<attempt, cursor, unvisited, circuit, now, fallbacks, period>>

\* The back-off sleep ends; can_execute is not asked again.
Retry(c) ==
  /\ pc[c] = "backoff"
  /\ Goto(c, "running")
  /\ attempt' = [attempt EXCEPT ![c] = @ + 1]
  /\ UNCHANGED <<cursor, unvisited, circuit, now, fallbacks, period>>

\* A handler returns a result that is not None.
FallbackReturns(c) ==
  /\ pc[c] = "fallback"
  /\ GotoEnd(c, "returned")
  /\ unvisited' = [unvisited EXCEPT ![c] = {}]
  /\ UNCHANGED <<circuit, now, fallbacks, period>>

\* A handler returns None: get_fallback ends its search there, counts it a
\* success and leaves the handlers behind it untried; execute_with_retry reads
\* None as "no fallback".
FallbackReturnsNone(c) ==
  /\ pc[c] = "fallback"
  /\ Goto(c, "escalating")
  /\ UNCHANGED <<attempt, cursor, unvisited, circuit, now, fallbacks, period>>

\* A mutant of FallbackFails: the handler after the failed one is passed over.
FallbackFailsSkipsOne(c) ==
  /\ pc[c] = "fallback"
  /\ SearchFrom(c, cursor[c] + 2, unvisited[c])
  /\ UNCHANGED <<circuit, now, fallbacks, period>>

\* A handler raises: the search goes on at the next position of the list.
FallbackFails(c) ==
  /\ pc[c] = "fallback"
  /\ SearchFrom(c, cursor[c] + 1, unvisited[c])
  /\ UNCHANGED <<circuit, now, fallbacks, period>>

\* The sleep of the default escalation policy (300 or 600 seconds) ends.
\* escalate stores the escalation and then fails in its log line (the module
\* does not import logging), so the call ends with that NameError and never
\* reaches its own raise of last_exception.
Escalated(c) ==
  /\ pc[c] = "escalating"
  /\ GotoEnd(c, "raised")
  /\ unvisited' = [unvisited EXCEPT ![c] = {}]
  /\ UNCHANGED <<circuit, now, fallbacks, period>>
--------------------------------------------------------------------------------
CallStep(c) ==
  \/ StartClosed(c) \/ StartAfterTimeout(c) \/ StartProbe(c) \/ StartRefused(c)
  \/ Succeed(c) \/ FailAndSleep(c) \/ FailLast(c) \/ FailUnretried(c) \/ Retry(c)
  \/ FallbackReturns(c) \/ FallbackReturnsNone(c) \/ FallbackFails(c)
  \/ Escalated(c)

OperatorResets == ResetCircuit /\ KeepPeriod /\ UNCHANGED <<fallbacks, callVars>>

TimePasses == Tick /\ UNCHANGED <<fallbacks, callVars, period>>

HandlerRegistered(h) ==
  RegisterFallback(h) /\ UNCHANGED <<circuit, now, callVars, period>>

Next ==
  \/ \E c \in Calls : CallStep(c)
  \/ \E h \in Handlers : HandlerRegistered(h)
  \/ OperatorResets
  \/ TimePasses

\* A call that has started goes on: the function, the handlers and the sleeps
\* all end.  Nothing makes a call start.
Fairness == \A c \in Calls : WF_vars(pc[c] # "new" /\ CallStep(c))

Spec == Init /\ [][Next]_vars
FairSpec == Spec /\ Fairness
--------------------------------------------------------------------------------
TypeOK ==
  /\ BreakerTypeOK /\ FallbackTypeOK
  /\ pc \in [Calls -> PCs]
  /\ attempt \in [Calls -> 0..MaxRetries]
  /\ cursor \in [Calls -> Nat]
  /\ probes \subseteq Calls /\ unreported \subseteq Calls
  /\ unvisited \in [Calls -> SUBSET Handlers]

(***************************************************************************)
(* A closed circuit is below its threshold, however it came to be closed   *)
(* and whatever calls of an earlier period still report: record_failure    *)
(* never leaves behind a closed circuit that one more failure, counted     *)
(* from a burst already dealt with, would open out of turn.                *)
(***************************************************************************)
ClosedBelowThreshold ==
  circuit.state = "CLOSED" => circuit.consecutive_failures < FailureThreshold

(***************************************************************************)
(* can_execute lets at most one call more than half_open_max_calls through *)
(* in a HALF_OPEN period (the one that made the transition is not          *)
(* counted), and the counter agrees with the calls let through.            *)
(***************************************************************************)
ProbesBounded ==
  circuit.state = "HALF_OPEN" =>
    /\ Cardinality(probes) = circuit.half_open_calls + 1
    /\ Cardinality(probes) <= HalfOpenMaxCalls + 1

(***************************************************************************)
(* A HALF_OPEN circuit is never stuck: once every call let through has     *)
(* reported its result, either the circuit has left HALF_OPEN or it lets   *)
(* another call through.  Only a call that ended in an exception retry_on  *)
(* does not list can use a slot up without a result.                       *)
(***************************************************************************)
NeverStranded ==
  /\ circuit.state = "HALF_OPEN"
  /\ probes \cap (InFlight \cup unreported) = {}
  => circuit.half_open_calls < HalfOpenMaxCalls

(***************************************************************************)
(* "Tries fallbacks in priority order until one succeeds" (get_fallback),  *)
(* over a list that register_fallback re-sorts while handlers run: those   *)
(* registered when the search began and not reached by it lie behind the   *)
(* position it is at, or has ended at.  A call escalates with handlers     *)
(* untried only if they are behind one that returned None.                 *)
(***************************************************************************)
NoHandlerSkipped ==
  \A c \in Calls :
    /\ pc[c] \in {"fallback", "escalating"} =>
         unvisited[c] \subseteq HandlersAt((cursor[c] + 1)..Len(fallbacks))
    /\ pc[c] = "escalating" /\ cursor[c] = 0 => unvisited[c] = {}

(***************************************************************************)
(* execute_with_retry always ends: the retries, the fallback search and    *)
(* the escalation are bounded, even with handlers registered meanwhile.    *)
(***************************************************************************)
CallsEnd ==
  \A c \in Calls : (pc[c] = "running") ~> (pc[c] \in {"returned", "raised"})

Abstract == INSTANCE Breaker WITH
  MaxProbes <- HalfOpenMaxCalls + 1,
  state     <- circuit.state,
  probes    <- IF circuit.state = "HALF_OPEN" THEN circuit.half_open_calls + 1 ELSE 0

(***************************************************************************)
(* The circuit, driven by concurrent retried calls, late results and       *)
(* operator resets, is a Breaker.                                          *)
(***************************************************************************)
ImplementsBreaker == Abstract!Spec

(***************************************************************************)
(* "OPEN: Failing, requests fail fast" (circuit_breaker.py) with           *)
(* "recovery_timeout: Seconds in OPEN before HALF_OPEN": can_execute lets  *)
(* no new call through an OPEN circuit before that time is over.  The      *)
(* retries of a call it let through before are not asked again.            *)
(***************************************************************************)
OpenFailsFast ==
  [][\A c \in Calls :
       /\ circuit.state = "OPEN"
       /\ pc[c] = "new" /\ pc'[c] = "running"
       => now - circuit.last_state_change >= RecoveryTimeout]_vars
================================================================================
