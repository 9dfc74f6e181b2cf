-------------------------------- MODULE Breaker --------------------------------
(***************************************************************************)
(* What a circuit breaker promises its callers, with no counter of         *)
(* failures and no clock: three states, probes let through one at a time   *)
(* and only while HALF_OPEN, and at most MaxProbes of them in one          *)
(* HALF_OPEN period.  RetryManager implements this (see ImplementsBreaker  *)
(* there).                                                                 *)
(***************************************************************************)
EXTENDS Naturals

CONSTANT MaxProbes      \* calls let through in one HALF_OPEN period, at most

VARIABLES state,        \* "CLOSED", "OPEN" or "HALF_OPEN"
          probes        \* calls let through in the current HALF_OPEN period

breakerVars == <<state, probes>>

Init == state = "CLOSED" /\ probes = 0

\* Enough failures while closed.
Trip == state = "CLOSED" /\ state' = "OPEN" /\ probes' = 0

\* The first call let through after the circuit opened.
Probe == state = "OPEN" /\ state' = "HALF_OPEN" /\ probes' = 1

\* A further call let through to test the service.
ProbeAgain ==
  /\ state = "HALF_OPEN"
  /\ probes < MaxProbes
  /\ probes' = probes + 1
  /\ UNCHANGED state

\* A call failed during the test.
Reopen == state = "HALF_OPEN" /\ state' = "OPEN" /\ probes' = 0

\* Enough calls succeeded during the test.
Close == state = "HALF_OPEN" /\ state' = "CLOSED" /\ probes' = 0

\* An operator closes the circuit, whatever its state.
Reset == state' = "CLOSED" /\ probes' = 0

Next == Trip \/ Probe \/ ProbeAgain \/ Reopen \/ Close \/ Reset

Spec == Init /\ [][Next]_breakerVars
================================================================================
