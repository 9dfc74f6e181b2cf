--------------------------- MODULE ContainerManager ----------------------------
(***************************************************************************)
(* src/workers/container.py: the container of each worker and the commands *)
(* that run in it.  The Docker client is synchronous: finding, stopping and*)
(* removing a container suspends nothing.  Creating one suspends (image    *)
(* pull, a sleep of a second), and nobody sees the container before that is*)
(* over; executing a command suspends until it returns.  Every request may *)
(* raise, whether or not Docker has carried it out.                        *)
(***************************************************************************)
EXTENDS Naturals, FiniteSets

CONSTANTS Tasks,              \* calls of WorkerPool.execute
          MaxWorkers,         \* bound: workers ever created
          MaxFaults           \* bound: requests to Docker that raise

ASSUME MaxWorkersAssumption == MaxWorkers \in Nat \ {0}
ASSUME MaxFaultsAssumption == MaxFaults \in Nat

Workers == 1..MaxWorkers      \* numbered in the order of their creation

VARIABLES container,          \* state of the container of each worker
          commands,           \* calls whose command runs in it
          faults              \* requests that have raised without a reason in
                              \* the state of the container

containerVars == <<container, commands, faults>>

ContainerTypeOK ==
  /\ container \in [Workers -> {"none", "running", "stopped", "gone"}]
  /\ commands \in [Workers -> SUBSET Tasks]
  /\ faults \in Nat

\* n requests of a step raise.
Faults(n) == faults' = faults + n /\ faults' <= MaxFaults

\* check_health may say yes: the container exists and runs.  It may say no of
\* any container, as it does when Docker raises.
Healthy(w) == container[w] = "running"

\* The operations on the containers cs that a step finds, which are those of the
\* state before it or one more.

\* A mutant of Discarded: the container is not stopped.
DiscardKeepsRunning(w, cs) ==
  /\ container' = cs
  /\ commands' = [commands EXCEPT ![w] = {}]

\* stop_container, then remove_container; for a container that is gone already
\* the first raises, and nothing changes.
Discarded(w, cs) ==
  /\ container' = [cs EXCEPT ![w] = "gone"]
  /\ commands' = [commands EXCEPT ![w] = {}]

\* One of the two raises: the container runs on, with its commands, or is
\* stopped, or is gone all the same.
DiscardRaises(w, cs) ==
  \E left \in {cs[w], "stopped", "gone"} :
    /\ cs[w] # "gone"
    /\ container' = [cs EXCEPT ![w] = left]
    /\ commands' = [commands EXCEPT ![w] = IF left = "running" THEN @ ELSE {}]

\* execute_in_container starts a container that is stopped, then the command.
\* The timeout it is given is not used.
ExecuteIn(w, t, cs) ==
  /\ container' = [cs EXCEPT ![w] = "running"]
  /\ commands' = [commands EXCEPT ![w] = @ \cup {t}]
  /\ UNCHANGED faults

\* It raises at once, where the container does not run or by a fault.
ExecuteRaises(w, cs) ==
  /\ container' = cs /\ UNCHANGED commands
  /\ Faults(IF cs[w] = "running" THEN 1 ELSE 0)

\* The command of call t in worker w is over.
CommandOver(w, t) ==
  /\ commands' = [commands EXCEPT ![w] = @ \ {t}]
  /\ UNCHANGED <<container, faults>>

\* A container stops by itself and takes its commands along.
ContainerDies(w) ==
  /\ container[w] = "running"
  /\ container' = [container EXCEPT ![w] = "stopped"]
  /\ commands' = [commands EXCEPT ![w] = {}]
  /\ UNCHANGED faults
================================================================================
