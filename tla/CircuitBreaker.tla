---------------------------- MODULE CircuitBreaker -----------------------------
(***************************************************************************)
(* src/recovery/circuit_breaker.py: one circuit.  The code keeps one       *)
(* record per circuit name and every operation reads and writes the record *)
(* of its own name only, so one circuit is the whole component.            *)
(*                                                                         *)
(* No operation awaits anything that suspends: each one is a single step   *)
(* of the event loop.  The totals (failures, successes, timeouts) and the  *)
(* rolling window feed only the report of get_state and are left out.      *)
(***************************************************************************)
EXTENDS Integers

CONSTANTS FailureThreshold,   \* consecutive failures that open the circuit
          RecoveryTimeout,    \* seconds in OPEN before HALF_OPEN
          HalfOpenMaxCalls,   \* test calls counted in HALF_OPEN
          SuccessThreshold,   \* successes that close the circuit
          MaxTime             \* bound on the clock

ASSUME BreakerConfig ==
  /\ FailureThreshold \in Nat \ {0}
  /\ RecoveryTimeout \in Nat
  /\ HalfOpenMaxCalls \in Nat
  /\ SuccessThreshold \in Nat \ {0}
  /\ MaxTime \in Nat

VARIABLES circuit,            \* the record self.circuits[circuit_name]
          now                 \* the clock, in units of RecoveryTimeout

breakerVars == <<circuit, now>>

Never == -1                   \* None in a time field

\* The record _get_circuit creates.
NewCircuit == [state                 |-> "CLOSED",
               consecutive_failures  |-> 0,
               consecutive_successes |-> 0,
               half_open_calls       |-> 0,
               last_failure_time     |-> Never,
               last_state_change     |-> 0]

BreakerInit == circuit = NewCircuit /\ now = 0

BreakerTypeOK ==
  /\ circuit \in [state : {"CLOSED", "OPEN", "HALF_OPEN"},
                  consecutive_failures : Nat,
                  consecutive_successes : Nat,
                  half_open_calls : 0..HalfOpenMaxCalls,
                  last_failure_time : Nat \cup {Never},
                  last_state_change : Nat]
  /\ now \in Nat
--------------------------------------------------------------------------------
\* _open_circuit keeps both consecutive counters.
Opened(c) == [c EXCEPT !.state = "OPEN", !.last_state_change = now,
                       !.half_open_calls = 0]

\* _close_circuit keeps consecutive_successes.
Closed(c) == [c EXCEPT !.state = "CLOSED", !.last_state_change = now,
                       !.consecutive_failures = 0, !.half_open_calls = 0]

\* _transition_to_half_open.
HalfOpened(c) == [c EXCEPT !.state = "HALF_OPEN", !.last_state_change = now,
                           !.half_open_calls = 0]

\* _recovery_timeout_elapsed.  No operation ever assigns last_failure_time.
RecoveryTimeoutElapsed ==
  \/ circuit.last_failure_time = Never
  \/ now - circuit.last_failure_time >= RecoveryTimeout
--------------------------------------------------------------------------------
\* can_execute answers True because the circuit is closed.
AllowClosed == circuit.state = "CLOSED" /\ UNCHANGED circuit

\* can_execute answers True and moves the circuit to HALF_OPEN; this call is
\* not counted in half_open_calls.
AllowAfterTimeout ==
  /\ circuit.state = "OPEN"
  /\ RecoveryTimeoutElapsed
  /\ circuit' = HalfOpened(circuit)

\* A mutant of AllowProbe: the test of the limit is off by one.
AllowProbeOffByOne ==
  /\ circuit.state = "HALF_OPEN"
  /\ circuit.half_open_calls <= HalfOpenMaxCalls
  /\ circuit' = [circuit EXCEPT !.half_open_calls = @ + 1]

\* A mutant of AllowProbe: test calls are not counted.
AllowProbeUncounted ==
  /\ circuit.state = "HALF_OPEN"
  /\ circuit.half_open_calls < HalfOpenMaxCalls
  /\ UNCHANGED circuit

\* can_execute answers True to one more test call.
AllowProbe ==
  /\ circuit.state = "HALF_OPEN"
  /\ circuit.half_open_calls < HalfOpenMaxCalls
  /\ circuit' = [circuit EXCEPT !.half_open_calls = @ + 1]

\* can_execute answers False.
Refuse ==
  /\ \/ circuit.state = "OPEN" /\ ~RecoveryTimeoutElapsed
     \/ circuit.state = "HALF_OPEN" /\ circuit.half_open_calls >= HalfOpenMaxCalls
  /\ UNCHANGED circuit

\* record_success: the success is counted in every state, and closes a
\* HALF_OPEN circuit.
RecordSuccess ==
  LET counted == [circuit EXCEPT !.consecutive_successes = @ + 1,
                                 !.consecutive_failures = 0]
      enough == /\ circuit.state = "HALF_OPEN"
                /\ counted.consecutive_successes >= SuccessThreshold
  IN  circuit' = IF enough THEN Closed(counted) ELSE counted

\* A mutant of RecordFailure: a failure while testing does not reopen.
RecordFailureKeepsTesting ==
  LET counted == [circuit EXCEPT !.consecutive_failures = @ + 1,
                                 !.consecutive_successes = 0]
      trips == /\ circuit.state = "CLOSED"
               /\ counted.consecutive_failures >= FailureThreshold
  IN  circuit' = IF trips THEN Opened(counted) ELSE counted

\* record_failure, and record_timeout, which adds only to a total of the report.
RecordFailure ==
  LET counted == [circuit EXCEPT !.consecutive_failures = @ + 1,
                                 !.consecutive_successes = 0]
      trips == \/ /\ circuit.state = "CLOSED"
                  /\ counted.consecutive_failures >= FailureThreshold
               \/ circuit.state = "HALF_OPEN"
  IN  circuit' = IF trips THEN Opened(counted) ELSE counted

\* A mutant of ResetCircuit: the count of failures survives.
ResetCircuitKeepsFailures ==
  /\ circuit' = [circuit EXCEPT !.state = "CLOSED",
                                !.consecutive_successes = 0,
                                !.half_open_calls = 0,
                                !.last_state_change = now]
  /\ UNCHANGED now

\* reset_circuit, by an operator.  It keeps last_failure_time.
ResetCircuit ==
  /\ circuit' = [circuit EXCEPT !.state = "CLOSED",
                                !.consecutive_failures = 0,
                                !.consecutive_successes = 0,
                                !.half_open_calls = 0,
                                !.last_state_change = now]
  /\ UNCHANGED now

\* Time passes.
Tick == now < MaxTime /\ now' = now + 1 /\ UNCHANGED circuit
================================================================================
