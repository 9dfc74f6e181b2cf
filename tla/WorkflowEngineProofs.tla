------------------------ MODULE WorkflowEngineProofs ---------------------------
(***************************************************************************)
(* Theorems about WorkflowEngine, for any workflow and any number of       *)
(* coroutines that run one instance of it.                                 *)
(*                                                                         *)
(* That a running instance is being run is not inductive: a coroutine that *)
(* comes to the end without all steps done leaves the status as it is, and *)
(* somebody else must be there to change it.  RunInv says who: every step  *)
(* that is not done lies before a coroutine that has still to come to it.  *)
(***************************************************************************)
EXTENDS WorkflowEngine, TLAPS

Done == {"completed", "skipped"}

\* The first step the coroutine may still change.
From(r) == IF runner[r] = "new" THEN 1 ELSE at[r]

Reaches(r, s) == Active(r) /\ From(r) <= s

RunInv ==
  instance = "running" =>
    /\ \E r \in Runners : Active(r)
    /\ \A s \in Steps : stepStatus[s] \in Done \/ \E r \in Runners : Reaches(r, s)

ApprovalInv ==
  \A r \in Runners : request[r] = "approved" => "approve" \in decisions[r]

IInv == TypeOK /\ RunInv /\ CompletedHasNoFailure /\ ApprovalInv /\ NothingRunsUnapproved

\* What is left to do when r, about to deal with step i, has left the steps with
\* these statuses and the instance with this one.
Ready(r, i, statuses, current) ==
  /\ statuses \in [Steps -> StepStatuses] /\ current \in Statuses
  /\ current = "running" =>
       \A s \in Steps :
         \/ statuses[s] \in Done \/ i <= s
         \/ \E q \in Runners : q # r /\ Reaches(q, s)
  /\ current = "completed" =>
       \A s \in Steps : statuses[s] \notin {"pending", "failed", "rejected"}
--------------------------------------------------------------------------------
\* What a step of r leaves of the others.
Frame(r) ==
  /\ steps' = steps
  /\ runner' \in [Runners -> {"none", "new", "ended"} \cup Waits]
  /\ at' \in [Runners -> Steps]
  /\ \A q \in Runners : q # r => runner'[q] = runner[q] /\ at'[q] = at[q]

LEMMA OthersStay ==
  ASSUME NEW r \in Runners, Frame(r), NEW q \in Runners, q # r, NEW s \in Steps
  PROVE  /\ Active(q)' <=> Active(q)
         /\ Reaches(q, s)' <=> Reaches(q, s)
BY DEF Frame, Active, Reaches, From

\* A coroutine that ends with all steps done, with the instance failed, or with
\* another one still to come to what is not done.
LEMMA EndsKeeps ==
  ASSUME IInv, NEW r \in Runners,
         NEW statuses \in [Steps -> StepStatuses], NEW outcome \in Statuses,
         Ends(r, statuses, outcome),
         outcome = "running" =>
           /\ \E q \in Runners : q # r /\ Active(q)
           /\ \A s \in Steps :
                statuses[s] \in Done \/ \E q \in Runners : q # r /\ Reaches(q, s),
         outcome = "completed" =>
           \A s \in Steps : statuses[s] \notin {"pending", "failed", "rejected"}
  PROVE  IInv'
<1>1. TypeOK'
  BY DEF IInv, TypeOK, Ends, approvals
<1>2. Frame(r)
  BY DEF IInv, TypeOK, Ends, Frame
<1>3. RunInv'
  <2>1. stepStatus' = statuses /\ instance' = outcome
    BY DEF Ends
  <2>2. \A q \in Runners, s \in Steps :
          q # r => (Active(q)' <=> Active(q)) /\ (Reaches(q, s)' <=> Reaches(q, s))
    BY <1>2, OthersStay
  <2>3. \A q \in Runners : q # r => (Active(q)' <=> Active(q))
    BY <1>2 DEF Frame, Active
  <2> QED BY <2>1, <2>2, <2>3, Zenon DEF RunInv
<1>4. CompletedHasNoFailure'
  BY DEF Ends, CompletedHasNoFailure
<1>5. ApprovalInv'
  BY DEF IInv, ApprovalInv, Ends, approvals
<1>6. NothingRunsUnapproved'
  BY DEF IInv, TypeOK, NothingRunsUnapproved, Ends, approvals
<1> QED BY <1>1, <1>3, <1>4, <1>5, <1>6 DEF IInv

\* Ending with the instance failed is always right.
LEMMA FailsKeeps ==
  ASSUME IInv, NEW r \in Runners, NEW statuses \in [Steps -> StepStatuses],
         Ends(r, statuses, "failed")
  PROVE  IInv'
BY EndsKeeps DEF Statuses

\* A coroutine that goes on to step s and is active there.
LEMMA RunKept ==
  ASSUME NEW r \in Runners, NEW s \in Steps, NEW statuses, NEW current,
         Ready(r, s, statuses, current), Frame(r), Active(r)', From(r)' = s,
         \A t \in Steps : stepStatus'[t] = statuses[t] \/ t = s,
         instance' = current
  PROVE  RunInv'
<1> SUFFICES ASSUME current = "running"
             PROVE  /\ \E q \in Runners : Active(q)'
                    /\ \A t \in Steps :
                         stepStatus'[t] \in Done \/ \E q \in Runners : Reaches(q, t)'
  BY DEF RunInv
<1>1. ASSUME NEW t \in Steps
      PROVE  stepStatus'[t] \in Done \/ \E q \in Runners : Reaches(q, t)'
  <2>1. CASE s <= t
    BY <2>1 DEF Reaches
  <2>2. CASE \E q \in Runners : q # r /\ Reaches(q, t)
    BY <2>2, OthersStay
  <2>3. CASE ~(s <= t) /\ statuses[t] \in Done
    BY <2>3 DEF Steps
  <2> QED BY <2>1, <2>2, <2>3 DEF Ready
<1> QED BY <1>1
--------------------------------------------------------------------------------
\* The handler of a step is called, where its approval was given if it needs one.
LEMMA BeginsKeeps ==
  ASSUME IInv, WorkflowAssumption, NEW r \in Runners, NEW s \in Steps,
         NEW statuses, NEW current, Ready(r, s, statuses, current),
         Begins(r, s, statuses, current),
         steps[s].approval => "approve" \in decisions[r]
  PROVE  IInv'
<1>1. CASE steps[s].approvers
  BY <1>1, FailsKeeps DEF Begins, Ready
<1>2. CASE ~steps[s].approvers
  <2>1. /\ Goes(r, "calling", s)
        /\ attempt' = [attempt EXCEPT ![r] = 0]
        /\ stepStatus' = [statuses EXCEPT ![s] = "running"]
        /\ instance' = current
        /\ UNCHANGED <<steps, approvals>>
    BY <1>2 DEF Begins
  <2>2. TypeOK /\ steps[s].retries \in Nat /\ statuses \in [Steps -> StepStatuses]
        /\ current \in Statuses
    BY DEF IInv, TypeOK, WorkflowAssumption, StepKinds, Ready
  <2>3. Frame(r)
    BY <2>1, <2>2 DEF TypeOK, Frame, Goes, Waits
  <2>4. TypeOK'
    <3>1. runner'[r] = "calling" /\ at'[r] = s /\ attempt'[r] = 0
      BY <2>1, <2>2 DEF TypeOK, Goes
    <3>2. \A q \in Runners :
            /\ runner'[q] = "calling" => attempt'[q] <= steps'[at'[q]].retries
            /\ runner'[q] = "sleeping" => attempt'[q] < steps'[at'[q]].retries
      BY <2>1, <2>2, <2>3, <3>1 DEF TypeOK, Frame
    <3>3. stepStatus' \in [Steps -> StepStatuses]
      BY <2>1, <2>2 DEF StepStatuses
    <3>4. attempt' \in [Runners -> Nat]
      BY <2>1, <2>2 DEF TypeOK
    <3> QED BY <2>1, <2>2, <2>3, <3>2, <3>3, <3>4 DEF TypeOK, Frame, approvals
  <2>5. RunInv'
    <3>1. Active(r)' /\ From(r)' = s
      BY <2>1, <2>2 DEF Goes, Active, From, TypeOK, Waits
    <3>2. \A t \in Steps : stepStatus'[t] = statuses[t] \/ t = s
      BY <2>1, <2>2
    <3> QED BY <2>1, <2>3, <3>1, <3>2, RunKept
  <2>6. CompletedHasNoFailure'
    BY <2>1, <2>2 DEF CompletedHasNoFailure, Ready
  <2>7. ApprovalInv'
    BY <2>1 DEF IInv, ApprovalInv, approvals
  <2>8. NothingRunsUnapproved'
    BY <2>1, <2>2 DEF IInv, TypeOK, NothingRunsUnapproved, Goes, approvals
  <2> QED BY <2>4, <2>5, <2>6, <2>7, <2>8 DEF IInv
<1> QED BY <1>1, <1>2

\* Approval is requested for a step.
LEMMA AsksKeeps ==
  ASSUME IInv, NEW r \in Runners, NEW s \in Steps,
         NEW statuses, NEW current, Ready(r, s, statuses, current),
         AsksForApproval(r, s, statuses, current)
  PROVE  IInv'
<1>1. /\ Goes(r, "waiting", s)
      /\ request' = [request EXCEPT ![r] = "pending"]
      /\ decisions' = [decisions EXCEPT ![r] = {}]
      /\ stepStatus' = statuses /\ instance' = current
      /\ UNCHANGED <<steps, attempt>>
  BY DEF AsksForApproval
<1>2. TypeOK /\ statuses \in [Steps -> StepStatuses] /\ current \in Statuses
  BY DEF IInv, Ready
<1>3. Frame(r)
  BY <1>1, <1>2 DEF TypeOK, Frame, Goes, Waits
<1>4. runner'[r] = "waiting" /\ at'[r] = s
  BY <1>1, <1>2 DEF TypeOK, Goes
<1>5. TypeOK'
  BY <1>1, <1>2, <1>3, <1>4 DEF TypeOK, Frame
<1>6. RunInv'
  <2>1. Active(r)' /\ From(r)' = s
    BY <1>4 DEF Active, From, Waits
  <2> QED BY <1>1, <1>3, <2>1, RunKept
<1>7. CompletedHasNoFailure'
  BY <1>1 DEF CompletedHasNoFailure, Ready
<1>8. ApprovalInv'
  BY <1>1, <1>2 DEF IInv, TypeOK, ApprovalInv
<1>9. NothingRunsUnapproved'
  BY <1>1, <1>2, <1>3, <1>4 DEF IInv, TypeOK, NothingRunsUnapproved, Frame
<1> QED BY <1>5, <1>6, <1>7, <1>8, <1>9 DEF IInv

\* The coroutine goes on from step i, over the steps whose conditions do not hold.
LEMMA GoesOnKeeps ==
  ASSUME IInv, WorkflowAssumption, NEW r \in Runners, NEW i \in 1..(StepCount + 1),
         NEW statuses, NEW current, Ready(r, i, statuses, current),
         GoesOn(r, i, statuses, current)
  PROVE  IInv'
<1> DEFINE Passed(j) == [s \in Steps |-> IF s \in i..(j - 1) THEN "skipped" ELSE statuses[s]]
<1>1. PICK j \in i..(StepCount + 1) :
        \/ /\ j = StepCount + 1
           /\ Ends(r, Passed(j), IF AllDone(Passed(j)) THEN "completed" ELSE current)
        \/ j \in Steps /\ Ends(r, Passed(j), "failed")
        \/ j \in Steps /\ AsksForApproval(r, j, Passed(j), current)
        \/ j \in Steps /\ ~steps[j].approval /\ Begins(r, j, Passed(j), current)
  BY DEF GoesOn
<1>2. i \in Nat /\ j \in Nat /\ i <= j
  BY DEF WorkflowAssumption
<1>3. Ready(r, j, Passed(j), current)
  <2>1. Passed(j) \in [Steps -> StepStatuses] /\ current \in Statuses
    BY DEF Ready, StepStatuses
  <2>2. ASSUME current = "running", NEW s \in Steps
        PROVE  \/ Passed(j)[s] \in Done \/ j <= s
               \/ \E q \in Runners : q # r /\ Reaches(q, s)
    <3>1. CASE i <= s
      BY <1>2, <3>1 DEF Done, Steps
    <3>2. CASE ~(i <= s)
      BY <1>2, <2>2, <3>2 DEF Ready, Steps
    <3> QED BY <3>1, <3>2
  <2>3. ASSUME current = "completed", NEW s \in Steps
        PROVE  Passed(j)[s] \notin {"pending", "failed", "rejected"}
    BY <2>3 DEF Ready
  <2> QED BY <2>1, <2>2, <2>3 DEF Ready
<1> HIDE DEF Passed
<1>4. CASE /\ j = StepCount + 1
           /\ Ends(r, Passed(j), IF AllDone(Passed(j)) THEN "completed" ELSE current)
  <2>1. \A s \in Steps : ~(j <= s)
    BY <1>4 DEF Steps, WorkflowAssumption
  <2>2. CASE AllDone(Passed(j))
    <3>1. Ends(r, Passed(j), "completed")
      BY <1>4, <2>2
    <3> QED BY <1>3, <2>2, <3>1, EndsKeeps DEF AllDone, Ready, Statuses
  <2>3. CASE ~AllDone(Passed(j))
    <3>1. PICK s \in Steps : Passed(j)[s] \notin Done
      BY <2>3 DEF AllDone, Done
    <3>2. Ends(r, Passed(j), current)
      BY <1>4, <2>3
    <3>3. current = "running" =>
            /\ \E q \in Runners : q # r /\ Active(q)
            /\ \A t \in Steps :
                 Passed(j)[t] \in Done \/ \E q \in Runners : q # r /\ Reaches(q, t)
      BY <1>3, <2>1, <3>1 DEF Ready, Reaches
    <3> QED BY <1>3, <3>2, <3>3, EndsKeeps DEF Ready
  <2> QED BY <2>2, <2>3
<1>5. CASE j \in Steps /\ Ends(r, Passed(j), "failed")
  BY <1>3, <1>5, FailsKeeps DEF Ready
<1>6. CASE j \in Steps /\ AsksForApproval(r, j, Passed(j), current)
  BY <1>3, <1>6, AsksKeeps
<1>7. CASE j \in Steps /\ ~steps[j].approval /\ Begins(r, j, Passed(j), current)
  BY <1>3, <1>7, BeginsKeeps
<1> QED BY <1>1, <1>4, <1>5, <1>6, <1>7
--------------------------------------------------------------------------------
\* The steps of a coroutine.
LEMMA RunnerKeeps ==
  ASSUME IInv, WorkflowAssumption, NEW r \in Runners, RunnerStep(r)
  PROVE  IInv'
<1>1. TypeOK /\ at[r] \in Steps /\ stepStatus \in [Steps -> StepStatuses] /\ instance \in Statuses
  BY DEF IInv, TypeOK
<1>2. StepCount \in Nat /\ Steps = 1..StepCount
  BY DEF WorkflowAssumption, Steps
\* A coroutine at a step covers that step and those behind it.
<1>3. ASSUME runner[r] \in Waits, NEW s \in Steps, Reaches(r, s)
      PROVE  at[r] <= s
  BY <1>3 DEF Reaches, From, Waits
<1>4. runner[r] \in Waits => Ready(r, at[r], stepStatus, instance)
  BY <1>1, <1>3 DEF IInv, RunInv, CompletedHasNoFailure, Ready
<1>5. CASE Executes(r)
  <2>1. Ready(r, 1, stepStatus, "running")
    BY <1>1, <1>2 DEF Ready, Statuses
  <2>2. 1 \in 1..(StepCount + 1)
    BY <1>2
  <2> QED BY <1>5, <2>1, <2>2, GoesOnKeeps DEF Executes
<1>6. CASE SeesApproval(r)
  <2>1. "approve" \in decisions[r] /\ runner[r] \in Waits
    BY <1>6 DEF SeesApproval, Approved, IInv, ApprovalInv, Waits
  <2> QED BY <1>1, <1>4, <1>6, <2>1, BeginsKeeps DEF SeesApproval
<1>7. CASE SeesRejection(r) \/ ApprovalTimesOut(r) \/ HandlerFails(r)
  <2>1. \A c \in StepStatuses : [stepStatus EXCEPT ![at[r]] = c] \in [Steps -> StepStatuses]
    BY <1>1
  <2>2. /\ [stepStatus EXCEPT ![at[r]] = "rejected"] \in [Steps -> StepStatuses]
        /\ [stepStatus EXCEPT ![at[r]] = "failed"] \in [Steps -> StepStatuses]
    BY <2>1 DEF StepStatuses
  <2> QED BY <1>7, <2>2, FailsKeeps DEF SeesRejection, ApprovalTimesOut, HandlerFails, NotApproved
<1>8. CASE HandlerReturns(r)
  <2> DEFINE after == [stepStatus EXCEPT ![at[r]] = "completed"]
  <2>1. after \in [Steps -> StepStatuses]
    BY <1>1 DEF StepStatuses
  <2>2. runner[r] \in Waits
    BY <1>8 DEF HandlerReturns, Waits
  <2>3. \A s \in Steps : after[s] = IF s = at[r] THEN "completed" ELSE stepStatus[s]
    BY <1>1
  <2>4. ASSUME instance = "running", NEW s \in Steps
        PROVE  \/ after[s] \in Done \/ at[r] + 1 <= s
               \/ \E q \in Runners : q # r /\ Reaches(q, s)
    <3>1. \/ stepStatus[s] \in Done \/ at[r] <= s
          \/ \E q \in Runners : q # r /\ Reaches(q, s)
      BY <1>4, <2>2, <2>4 DEF Ready
    <3>2. CASE stepStatus[s] \in Done
      BY <2>3, <3>2 DEF Done
    <3>3. CASE at[r] <= s
      BY <1>1, <1>2, <2>3, <3>3 DEF Done
    <3> QED BY <3>1, <3>2, <3>3
  <2>5. instance = "completed" =>
          \A s \in Steps : after[s] \notin {"pending", "failed", "rejected"}
    BY <1>4, <2>2, <2>3 DEF Ready
  <2>6. Ready(r, at[r] + 1, after, instance)
    BY <1>1, <2>1, <2>4, <2>5 DEF Ready
  <2>7. at[r] + 1 \in 1..(StepCount + 1)
    BY <1>1, <1>2
  <2>8. GoesOn(r, at[r] + 1, after, instance)
    BY <1>8 DEF HandlerReturns
  <2> HIDE DEF after
  <2> QED BY <2>6, <2>7, <2>8, GoesOnKeeps
<1>9. CASE HandlerRaises(r) \/ Retries(r)
  <2>1. UNCHANGED <<steps, instance, stepStatus, approvals>> /\ at' = at
    BY <1>1, <1>9 DEF HandlerRaises, Retries, Goes, TypeOK
  <2>2. /\ runner[r] \in {"calling", "sleeping"} /\ runner'[r] \in {"calling", "sleeping"}
        /\ runner' \in [Runners -> {"none", "new", "ended"} \cup Waits]
        /\ \A q \in Runners : q # r => runner'[q] = runner[q]
    BY <1>1, <1>9 DEF HandlerRaises, Retries, Goes, TypeOK, Waits
  <2>3. /\ attempt' \in [Runners -> Nat]
        /\ \A q \in Runners :
             /\ runner'[q] = "calling" => attempt'[q] <= steps[at[q]].retries
             /\ runner'[q] = "sleeping" => attempt'[q] < steps[at[q]].retries
    <3>1. CASE HandlerRaises(r)
      <4>1. runner'[r] = "sleeping" /\ attempt' = attempt /\ attempt[r] < steps[at[r]].retries
        BY <1>1, <3>1 DEF HandlerRaises, MayRetry, Goes, TypeOK
      <4> QED BY <1>1, <2>2, <4>1 DEF TypeOK
    <3>2. CASE Retries(r)
      <4>1. /\ attempt' = [attempt EXCEPT ![r] = @ + 1]
            /\ runner[r] = "sleeping" /\ runner'[r] = "calling"
        BY <1>1, <3>2 DEF Retries, NextAttempt, Goes, TypeOK
      <4>2. steps[at[r]].retries \in Nat
        BY <1>1 DEF TypeOK, WorkflowAssumption, StepKinds
      <4>3. attempt[r] < steps[at[r]].retries
        BY <1>1, <4>1 DEF TypeOK
      <4>4. attempt'[r] <= steps[at[r]].retries
        BY <1>1, <4>1, <4>2, <4>3 DEF TypeOK
      <4> QED BY <1>1, <2>2, <4>1, <4>4 DEF TypeOK
    <3> QED BY <1>9, <3>1, <3>2
  <2>4. TypeOK'
    BY <1>1, <2>1, <2>2, <2>3 DEF TypeOK, approvals
  <2>5. \A q \in Runners : Active(q) => Active(q)'
    BY <2>2 DEF Active, Waits
  <2>6. \A q \in Runners : \A s \in Steps : Reaches(q, s) => Reaches(q, s)'
    BY <2>1, <2>2, <2>5 DEF Reaches, From
  <2>7. RunInv'
    BY <2>1, <2>5, <2>6 DEF IInv, RunInv
  <2>8. CompletedHasNoFailure' /\ ApprovalInv'
    BY <2>1 DEF IInv, CompletedHasNoFailure, ApprovalInv, approvals
  <2>9. NothingRunsUnapproved'
    BY <2>1, <2>2 DEF IInv, NothingRunsUnapproved, approvals
  <2> QED BY <2>4, <2>7, <2>8, <2>9 DEF IInv
<1> QED BY <1>5, <1>6, <1>7, <1>8, <1>9 DEF RunnerStep

\* An operation that makes a coroutine or none, and then says how the instance is.
LEMMA OperationKeeps ==
  ASSUME IInv, WorkflowAssumption, NEW r \in Runners,
         UNCHANGED <<steps, stepStatus, at, attempt, approvals>>,
         \/ MakesRunner(r) /\ instance' \in {"pending", "running"}
         \/ runner' = runner /\ instance' \in {"paused", "cancelled"}
  PROVE  IInv'
<1>1. TypeOK /\ \A q \in Runners : runner'[q] = runner[q] \/ runner'[q] = "new"
  BY DEF IInv, TypeOK, MakesRunner
<1>2. TypeOK'
  <2>1. runner' \in [Runners -> {"none", "new", "ended"} \cup Waits]
    BY <1>1 DEF TypeOK, MakesRunner
  <2>2. instance' \in Statuses
    BY DEF Statuses
  <2> QED BY <1>1, <2>1, <2>2 DEF TypeOK, approvals
<1>3. RunInv'
  <2>1. CASE instance' = "running"
    <3>1. runner'[r] = "new"
      BY <1>1, <2>1 DEF MakesRunner, TypeOK
    <3>2. Active(r)' /\ \A s \in Steps : Reaches(r, s)'
      BY <3>1 DEF Active, Reaches, From, Steps
    <3> QED BY <3>2 DEF RunInv
  <2>2. CASE instance' # "running"
    BY <2>2 DEF RunInv
  <2> QED BY <2>1, <2>2
<1>4. CompletedHasNoFailure'
  BY DEF CompletedHasNoFailure
<1>5. ApprovalInv'
  BY DEF IInv, ApprovalInv, approvals
<1>6. NothingRunsUnapproved'
  BY <1>1 DEF IInv, NothingRunsUnapproved, approvals
<1> QED BY <1>2, <1>3, <1>4, <1>5, <1>6 DEF IInv

LEMMA DecideKeeps ==
  ASSUME IInv, NEW r \in Runners, ApproveStep(r) \/ RejectStep(r)
  PROVE  IInv'
<1>1. TypeOK /\ UNCHANGED <<steps, instance, stepStatus, runner, at, attempt>>
  BY DEF IInv, ApproveStep, RejectStep, Decide
<1>2. /\ request' \in [Runners -> {"none", "pending", "approved", "rejected"}]
      /\ decisions' \in [Runners -> SUBSET {"approve", "reject"}]
  BY <1>1 DEF TypeOK, ApproveStep, RejectStep, Decide
<1>3. TypeOK'
  BY <1>1, <1>2 DEF TypeOK
<1>4. RunInv'
  BY <1>1 DEF IInv, RunInv, Active, Reaches, From
<1>5. CompletedHasNoFailure'
  BY <1>1 DEF IInv, CompletedHasNoFailure
<1>6. \A q \in Runners : decisions[q] \subseteq decisions'[q]
  BY <1>1 DEF TypeOK, ApproveStep, RejectStep, Decide
<1>7. ApprovalInv'
  BY <1>1 DEF IInv, TypeOK, ApprovalInv, ApproveStep, RejectStep, Decide
<1>8. NothingRunsUnapproved'
  BY <1>1, <1>6 DEF IInv, NothingRunsUnapproved
<1> QED BY <1>3, <1>4, <1>5, <1>7, <1>8 DEF IInv
--------------------------------------------------------------------------------
\* The invariant of all the coroutines and operations of one instance together.
LEMMA Invariance == Spec => []IInv
<1>1. Init => IInv
  <2> SUFFICES ASSUME Init PROVE IInv
    OBVIOUS
  <2>1. 1 \in Steps
    BY WorkflowAssumption DEF Steps
  <2>2. TypeOK
    BY <2>1 DEF Init, TypeOK, Statuses, StepStatuses, approvals
  <2> QED BY <2>2 DEF Init, IInv, RunInv, CompletedHasNoFailure, ApprovalInv,
                        NothingRunsUnapproved, approvals
<1>2. IInv /\ [Next]_vars => IInv'
  <2> SUFFICES ASSUME IInv, [Next]_vars PROVE IInv'
    OBVIOUS
  <2>1. ASSUME NEW r \in Runners, RunnerStep(r) PROVE IInv'
    BY <2>1, RunnerKeeps, WorkflowAssumption
  <2>2. ASSUME NEW r \in Runners, ApproveStep(r) \/ RejectStep(r) PROVE IInv'
    BY <2>2, DecideKeeps
  <2>3. ASSUME NEW r \in Runners, StartWorkflow(r) \/ ResumeWorkflow(r) PROVE IInv'
    BY <2>3, OperationKeeps, WorkflowAssumption DEF StartWorkflow, ResumeWorkflow
  <2>4. ASSUME PauseWorkflow \/ CancelWorkflow PROVE IInv'
    <3>1. 1 \in Runners
      BY WorkflowAssumption DEF Runners
    <3> QED BY <2>4, <3>1, OperationKeeps, WorkflowAssumption
            DEF PauseWorkflow, CancelWorkflow
  <2>5. CASE UNCHANGED vars
    BY <2>5 DEF vars, approvals, IInv, TypeOK, RunInv, CompletedHasNoFailure, ApprovalInv,
                NothingRunsUnapproved, Active, Reaches, From
  <2> QED BY <2>1, <2>2, <2>3, <2>4, <2>5 DEF Next
<1> QED BY <1>1, <1>2, PTL DEF Spec

\* Instances, steps, coroutines and approvals keep their types, and no coroutine
\* makes more attempts at a step than its retry_config allows.
THEOREM WorkflowTypeCorrect == Spec => []TypeOK
<1>1. IInv => TypeOK
  BY DEF IInv
<1> QED BY <1>1, Invariance, PTL

\* However often a workflow is resumed beside the coroutines that still run it,
\* _execute_workflow never leaves it "running" with nobody there to run it.
THEOREM RunningIsBeingRun == Spec => []RunningIsRun
<1>1. IInv => RunningIsRun
  BY DEF IInv, RunInv, RunningIsRun
<1> QED BY <1>1, Invariance, PTL

\* _execute_workflow reports completion over no failed or rejected step, whichever
\* coroutine failed it.
THEOREM CompletionHidesNothing == Spec => []CompletedHasNoFailure
<1>1. IInv => CompletedHasNoFailure
  BY DEF IInv
<1> QED BY <1>1, Invariance, PTL

\* The handler of a step that requires approval is called after approve_step for
\* the request of the same coroutine.
THEOREM ApprovalComesFirst == Spec => []NothingRunsUnapproved
<1>1. IInv => NothingRunsUnapproved
  BY DEF IInv
<1> QED BY <1>1, Invariance, PTL
================================================================================
