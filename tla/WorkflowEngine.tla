---------------------------- MODULE WorkflowEngine -----------------------------
(***************************************************************************)
(* src/workflow/workflow_engine.py: one workflow instance, its steps and   *)
(* the coroutines of _execute_workflow that run it.  start_workflow makes  *)
(* the first one; resume_workflow makes another one each time, whether or  *)
(* not the earlier ones still run, and all of them share the step objects. *)
(* Instances share nothing, so one is enough.                              *)
(*                                                                         *)
(* A workflow with an SLA never starts: timedelta is not imported and      *)
(* start_workflow raises before it stores anything.  So complete_workflow  *)
(* finds no tracking entry and does nothing.                               *)
(***************************************************************************)
EXTENDS Naturals

CONSTANTS StepCount,          \* steps of the workflow
          Definitions,        \* what define_workflow was given
          MaxRunners          \* bound: coroutines ever made for the instance

Steps == 1..StepCount
Runners == 1..MaxRunners

\* What WorkflowStep says of a step: whether it has conditions, whether it
\* requires approval, whether it names approvers, whether it has a timeout, and
\* the retries it is allowed.
StepKinds == [conditions : BOOLEAN, approval : BOOLEAN, approvers : BOOLEAN,
              timeout : BOOLEAN, retries : Nat]

ASSUME WorkflowAssumption ==
  /\ StepCount \in Nat \ {0} /\ MaxRunners \in Nat \ {0}
  /\ Definitions \subseteq [Steps -> StepKinds]

VARIABLES steps,      \* the definition of the instance
          instance,   \* instance["status"], "none" before it is started
          stepStatus, \* step.status
          runner,     \* where each coroutine is, "none" before it is made
          at,         \* the step it is at
          attempt,    \* its attempt at that step
          request,    \* status of the approval request it made last
          decisions   \* decisions recorded in that request

approvals == <<request, decisions>>
vars == <<steps, instance, stepStatus, runner, at, attempt, approvals>>

Statuses == {"none", "pending", "running", "paused", "completed", "failed", "cancelled"}
StepStatuses == {"pending", "running", "completed", "skipped", "failed", "rejected"}
Waits == {"waiting", "calling", "sleeping"}

Active(r) == runner[r] \in {"new"} \cup Waits

Init ==
  /\ steps \in Definitions
  /\ instance = "none"
  /\ stepStatus = [s \in Steps |-> "pending"]
  /\ runner = [r \in Runners |-> "none"]
  /\ at = [r \in Runners |-> 1]
  /\ attempt = [r \in Runners |-> 0]
  /\ request = [r \in Runners |-> "none"]
  /\ decisions = [r \in Runners |-> {}]
--------------------------------------------------------------------------------
(***************************************************************************)
(* _execute_workflow between two suspensions.  `statuses` and `current` are*)
(* the statuses of the steps and of the instance as the step of the        *)
(* coroutine has left them so far.                                         *)
(***************************************************************************)
Goes(r, place, s) ==
  /\ runner' = [runner EXCEPT ![r] = place]
  /\ at' = [at EXCEPT ![r] = s]

Ends(r, statuses, outcome) ==
  /\ runner' = [runner EXCEPT ![r] = "ended"]
  /\ stepStatus' = statuses
  /\ instance' = outcome
  /\ UNCHANGED <<steps, at, attempt, approvals>>

\* A mutant of AllDone: steps that failed are looked for, not the ones done.
NoneFailed(statuses) == \A s \in Steps : statuses[s] # "failed"

AllDone(statuses) == \A s \in Steps : statuses[s] \in {"completed", "skipped"}

\* A step that names approvers gets no further: assign_task takes the list for
\* the name of a pool and raises.
Begins(r, s, statuses, current) ==
  \/ /\ steps[s].approvers
     /\ Ends(r, statuses, "failed")
  \/ /\ ~steps[s].approvers
     /\ Goes(r, "calling", s)
     /\ attempt' = [attempt EXCEPT ![r] = 0]
     /\ stepStatus' = [statuses EXCEPT ![s] = "running"]
     /\ instance' = current
     /\ UNCHANGED <<steps, approvals>>

AsksForApproval(r, s, statuses, current) ==
  /\ Goes(r, "waiting", s)
  /\ request' = [request EXCEPT ![r] = "pending"]
  /\ decisions' = [decisions EXCEPT ![r] = {}]
  /\ stepStatus' = statuses
  /\ instance' = current
  /\ UNCHANGED <<steps, attempt>>

\* From step i on.  The conditions of the steps before j do not hold and those of
\* j do, or raise (a value that is missing cannot be compared).  Handlers change
\* the context the conditions are about, so any outcome is possible.
GoesOn(r, i, statuses, current) ==
  \E j \in i..(StepCount + 1) :
    LET passed == [s \in Steps |-> IF s \in i..(j - 1) THEN "skipped" ELSE statuses[s]]
    IN  /\ \A s \in i..(j - 1) : steps[s].conditions
        /\ \/ /\ j = StepCount + 1
              /\ Ends(r, passed, IF AllDone(passed) THEN "completed" ELSE current)
           \/ /\ j \in Steps /\ steps[j].conditions
              /\ Ends(r, passed, "failed")
           \/ /\ j \in Steps /\ steps[j].approval
              /\ AsksForApproval(r, j, passed, current)
           \/ /\ j \in Steps /\ ~steps[j].approval
              /\ Begins(r, j, passed, current)

\* The coroutine starts, at the first step.
Executes(r) ==
  /\ runner[r] = "new"
  /\ GoesOn(r, 1, stepStatus, "running")
--------------------------------------------------------------------------------
\* _wait_for_approval, once a second.  A mutant of Approved: any decision will do.
Decided(r) == request[r] # "pending"

Approved(r) == request[r] = "approved"

SeesApproval(r) ==
  /\ runner[r] = "waiting"
  /\ Approved(r)
  /\ Begins(r, at[r], stepStatus, instance)

\* A mutant of NotApproved: the instance is left as it is.
NotApprovedSilently(r) ==
  Ends(r, [stepStatus EXCEPT ![at[r]] = "rejected"], instance)

NotApproved(r) ==
  Ends(r, [stepStatus EXCEPT ![at[r]] = "rejected"], "failed")

SeesRejection(r) ==
  /\ runner[r] = "waiting"
  /\ request[r] = "rejected"
  /\ NotApproved(r)

\* The timeout is looked at before the decision.
ApprovalTimesOut(r) ==
  /\ runner[r] = "waiting"
  /\ steps[at[r]].timeout
  /\ NotApproved(r)
--------------------------------------------------------------------------------
\* The handler of the step returns; it raises, or its timeout cancels it.
HandlerReturns(r) ==
  /\ runner[r] = "calling"
  /\ GoesOn(r, at[r] + 1, [stepStatus EXCEPT ![at[r]] = "completed"], instance)

\* A mutant of MayRetry: one attempt too many.
MayRetryOffByOne(r) == attempt[r] <= steps[at[r]].retries

MayRetry(r) == attempt[r] < steps[at[r]].retries

HandlerRaises(r) ==
  /\ runner[r] = "calling"
  /\ MayRetry(r)
  /\ Goes(r, "sleeping", at[r])
  /\ UNCHANGED <<steps, instance, stepStatus, attempt, approvals>>

HandlerFails(r) ==
  /\ runner[r] = "calling"
  /\ ~MayRetry(r)
  /\ Ends(r, [stepStatus EXCEPT ![at[r]] = "failed"], "failed")

\* A mutant of NextAttempt: the attempts are not counted.
SameAttempt(r) == attempt' = attempt

NextAttempt(r) == attempt' = [attempt EXCEPT ![r] = @ + 1]

Retries(r) ==
  /\ runner[r] = "sleeping"
  /\ Goes(r, "calling", at[r])
  /\ NextAttempt(r)
  /\ UNCHANGED <<steps, instance, stepStatus, approvals>>
--------------------------------------------------------------------------------
\* The operations of the engine.  approve_step and reject_step ask neither who
\* decides nor whether the request was decided or given up before.
Decide(r, status, decision) ==
  /\ request[r] # "none"
  /\ request' = [request EXCEPT ![r] = status]
  /\ decisions' = [decisions EXCEPT ![r] = @ \cup {decision}]
  /\ UNCHANGED <<steps, instance, stepStatus, runner, at, attempt>>

ApproveStep(r) == Decide(r, "approved", "approve")

RejectStep(r) == Decide(r, "rejected", "reject")

MakesRunner(r) ==
  /\ runner[r] = "none"
  /\ \A q \in Runners : q < r => runner[q] # "none"
  /\ runner' = [runner EXCEPT ![r] = "new"]

StartWorkflow(r) ==
  /\ instance = "none"
  /\ instance' = "pending"
  /\ MakesRunner(r)
  /\ UNCHANGED <<steps, stepStatus, at, attempt, approvals>>

ResumeWorkflow(r) ==
  /\ instance # "none"
  /\ instance' = "running"
  /\ MakesRunner(r)
  /\ UNCHANGED <<steps, stepStatus, at, attempt, approvals>>

PauseWorkflow ==
  /\ instance # "none"
  /\ instance' = "paused"
  /\ UNCHANGED <<steps, stepStatus, runner, at, attempt, approvals>>

CancelWorkflow ==
  /\ instance # "none"
  /\ instance' = "cancelled"
  /\ UNCHANGED <<steps, stepStatus, runner, at, attempt, approvals>>
--------------------------------------------------------------------------------
RunnerStep(r) ==
  \/ Executes(r)
  \/ SeesApproval(r) \/ SeesRejection(r) \/ ApprovalTimesOut(r)
  \/ HandlerReturns(r) \/ HandlerRaises(r) \/ HandlerFails(r) \/ Retries(r)

Next ==
  \/ \E r \in Runners :
       \/ RunnerStep(r)
       \/ ApproveStep(r) \/ RejectStep(r)
       \/ StartWorkflow(r) \/ ResumeWorkflow(r)
  \/ PauseWorkflow \/ CancelWorkflow

\* What has no timeout need not end: an approval nobody decides, a handler.
MustMove(r) ==
  /\ runner[r] \in {"waiting", "calling"} => steps[at[r]].timeout
  /\ RunnerStep(r)

Spec == Init /\ [][Next]_vars /\ \A r \in Runners : WF_vars(MustMove(r))
--------------------------------------------------------------------------------
TypeOK ==
  /\ steps \in Definitions
  /\ instance \in Statuses
  /\ stepStatus \in [Steps -> StepStatuses]
  /\ runner \in [Runners -> {"none", "new", "ended"} \cup Waits]
  /\ at \in [Runners -> Steps]
  /\ attempt \in [Runners -> Nat]
  /\ \A r \in Runners :
       /\ runner[r] = "calling" => attempt[r] <= steps[at[r]].retries
       /\ runner[r] = "sleeping" => attempt[r] < steps[at[r]].retries
  /\ request \in [Runners -> {"none", "pending", "approved", "rejected"}]
  /\ decisions \in [Runners -> SUBSET {"approve", "reject"}]

(***************************************************************************)
(* An instance that is reported running is being run: however coroutines   *)
(* of it overlap, fail or are resumed, the last one to end does not leave  *)
(* the status "running" behind.                                            *)
(***************************************************************************)
RunningIsRun == instance = "running" => \E r \in Runners : Active(r)

(***************************************************************************)
(* An instance is not reported completed over the failure or rejection of a*)
(* step, be it in another coroutine than the one that completed it.        *)
(***************************************************************************)
CompletedHasNoFailure ==
  instance = "completed" =>
    \A s \in Steps : stepStatus[s] \notin {"pending", "failed", "rejected"}

(***************************************************************************)
(* The handler of a step that requires approval runs only where somebody   *)
(* approved the request the same coroutine made for it.                    *)
(***************************************************************************)
NothingRunsUnapproved ==
  \A r \in Runners :
    runner[r] \in {"calling", "sleeping"} /\ steps[at[r]].approval =>
      "approve" \in decisions[r]

(***************************************************************************)
(* A coroutine ends, after all retries and timeouts, unless it gets to a   *)
(* step that has no timeout.                                               *)
(***************************************************************************)
EveryRunnerEnds ==
  \A r \in Runners :
    runner[r] = "new" ~>
      \/ runner[r] = "ended"
      \/ runner[r] \in {"waiting", "calling"} /\ ~steps[at[r]].timeout
--------------------------------------------------------------------------------
(* The instance for TLC: workflows of two steps of four kinds, each with one   *)
(* feature of the engine to itself or with another.                            *)
Kind(conditions, approval, approvers, timeout, retries) ==
  [conditions |-> conditions, approval |-> approval, approvers |-> approvers,
   timeout |-> timeout, retries |-> retries]

MCKinds == {Kind(FALSE, FALSE, FALSE, TRUE, 1),    \* retried, with a timeout
            Kind(FALSE, TRUE, FALSE, TRUE, 0),     \* approved, with a timeout
            Kind(FALSE, TRUE, TRUE, FALSE, 0),     \* approvers named, no timeout
            Kind(TRUE, FALSE, FALSE, FALSE, 0)}    \* conditional, no timeout

MCDefinitions == [1..2 -> MCKinds]
================================================================================
