---------------------------- MODULE HybridScheduler ----------------------------
(***************************************************************************)
(* src/scheduler/hybrid_scheduler.py composed with the planner's cache,    *)
(* the budgets and the agents.  An execution is one coroutine that         *)
(* suspends while the language model plans and while an agent runs a task, *)
(* and starts anew between planning and execution (create_task).  pc says  *)
(* where it is; what it does from there to the next suspension is one      *)
(* step.  cancel_execution may come between any two steps.                 *)
(*                                                                         *)
(* The quota manager has no part in this: no code configures a quota or    *)
(* counts an execution, so check_quota lets everything through.            *)
(***************************************************************************)
EXTENDS BudgetTracker, PlannerAgent, AgentOrchestrator

VARIABLES status,     \* active_executions[p]["status"], "none" before schedule
          pc,         \* where the coroutine of p is
          dag,        \* the DAG object p executes
          stage,      \* the level of that DAG p is at
          failed,     \* whether the task of that level raised
          continues,  \* parameters["continue_on_error"]
          stored,     \* the result stored for p in memory, "none" if none
          results     \* history: task results p has been given

runVars == <<dag, stage, failed, continues, results>>
vars == <<budgets, planVars, routeVars, status, pc, stored, runVars>>

PCs == {"new", "scheduled", "llm", "ready", "task", "gathered", "ended"}

Statuses == {"none", "pending", "planning", "ready", "executing",
             "completed", "failed", "cancelled"}

Init ==
  /\ BudgetInit /\ PlanInit /\ RouteInit
  /\ status = [p \in Executions |-> "none"]
  /\ pc = [p \in Executions |-> "new"]
  /\ dag = [p \in Executions |-> NoDag]
  /\ stage = [p \in Executions |-> 0]
  /\ failed = [p \in Executions |-> FALSE]
  /\ continues = [p \in Executions |-> FALSE]
  /\ stored = [p \in Executions |-> "none"]
  /\ results = [p \in Executions |-> 0]

EstimatedCost(d) == 10 * Len(dags'[d])
ActualCost == 9               \* of one task: 0.9 of its estimate
--------------------------------------------------------------------------------
\* The coroutine goes to place l and reports status s.
Goto(p, l, s) ==
  /\ pc' = [pc EXCEPT ![p] = l]
  /\ status' = [status EXCEPT ![p] = s]

\* _complete_execution ("completed") and _handle_execution_error ("failed").
End(p, s) == Goto(p, "ended", s) /\ stored' = [stored EXCEPT ![p] = s]

\* schedule_execution.
Schedule(p) ==
  /\ pc[p] = "new"
  /\ \E limit \in Limits : InitializeBudget(p, limit)
  /\ \E c \in BOOLEAN : continues' = [continues EXCEPT ![p] = c]
  /\ Goto(p, "scheduled", "pending")
  /\ UNCHANGED <<planVars, routeVars, dag, stage, failed, stored, results>>

\* From the plan d to the end of the planning phase, in the step that got the
\* plan: the verifier accepts it or not, the estimate fits the budget or not.
Verify(p, d) ==
  \/ /\ CheckBudget(p, EstimatedCost(d))
     /\ dag' = [dag EXCEPT ![p] = d]
     /\ Goto(p, "ready", "ready")
     /\ UNCHANGED stored
  \/ End(p, "failed") /\ UNCHANGED dag

PlanFromCache(p) ==
  /\ pc[p] = "scheduled"
  /\ Cached(p) # NoDag
  /\ UNCHANGED planVars
  /\ Verify(p, Cached(p))
  /\ UNCHANGED <<budgets, routeVars, stage, failed, continues, results>>

\* The goal is not in the cache, or what the cache holds counts as expired.
\* (The age test reads timedelta.seconds, which starts again every 24 hours: an
\* entry of any age may be found fresh.)
AskModel(p) ==
  /\ pc[p] = "scheduled"
  /\ Goto(p, "llm", "planning")
  /\ UNCHANGED <<budgets, planVars, routeVars, stored, runVars>>

PlanWithModel(p) ==
  /\ pc[p] = "llm"
  /\ \E n \in 1..MaxTasks : NewDag(p, n)
  /\ Verify(p, p)
  /\ UNCHANGED <<budgets, routeVars, stage, failed, continues, results>>

\* A mutant of ModelFails: the exception ends the coroutine unhandled.
ModelFailsUnhandled(p) ==
  /\ pc[p] = "llm"
  /\ Goto(p, "ended", "planning")
  /\ UNCHANGED <<budgets, planVars, routeVars, stored, runVars>>

\* The language model raises.
ModelFails(p) ==
  /\ pc[p] = "llm"
  /\ End(p, "failed")
  /\ UNCHANGED <<budgets, planVars, routeVars, runVars>>
--------------------------------------------------------------------------------
\* The task of level k starts, in the DAG statuses ds.
StartTask(p, ds, k) ==
  /\ dags' = [ds EXCEPT ![dag[p]][k] = "running"]
  /\ stage' = [stage EXCEPT ![p] = k]
  /\ Route(p)
  /\ Goto(p, "task", "executing")

\* _execute_execution_phase up to its first task.
Execute(p) ==
  /\ pc[p] = "ready"
  /\ StartTask(p, dags, 1)
  /\ UNCHANGED <<budgets, plan_cache, stored, dag, failed, continues, results>>

\* The agent returns: _execute_task ends, the task has its cost.
TaskReturns(p) ==
  /\ pc[p] = "task"
  /\ agent[p] # Tools
  /\ pc' = [pc EXCEPT ![p] = "gathered"]
  /\ failed' = [failed EXCEPT ![p] = FALSE]
  /\ Unroute(p)
  /\ UNCHANGED <<budgets, planVars, status, stored, dag, stage, continues, results>>

\* The agent raises and the orchestrator tries the next one.
AgentFails(p) ==
  /\ pc[p] = "task"
  /\ agent[p] # Tools
  /\ TryNext(p)
  /\ UNCHANGED <<budgets, planVars, status, pc, stored, runVars>>

\* Every agent and the tools have failed: _execute_task raises.
TaskRaises(p) ==
  /\ pc[p] = "task"
  /\ agent[p] = Tools
  /\ SetStatus(dag[p], stage[p], "failed")
  /\ pc' = [pc EXCEPT ![p] = "gathered"]
  /\ failed' = [failed EXCEPT ![p] = TRUE]
  /\ Unroute(p)
  /\ UNCHANGED <<budgets, plan_cache, status, stored, dag, stage, continues, results>>

\* gather hands the result over: the statuses with the result recorded ...
Recorded(p) ==
  [dags EXCEPT ![dag[p]][stage[p]] = IF failed[p] THEN "failed text" ELSE "completed"]

\* ... and the cost of a task that did not fail added to the budget.
Charge(p) ==
  \/ failed[p] /\ UNCHANGED <<budgets, results>>
  \/ ~failed[p] /\ AddCost(p, ActualCost) /\ results' = [results EXCEPT ![p] = @ + 1]

\* A mutant of LevelRaises: a failure stops the execution only where the
\* caller did not ask to continue.
LevelRaisesUnlessContinued(p) == failed[p] /\ ~continues[p]

\* The exceptions raised between the result of a level and the next level:
\* the failed task's own, the budget's, that of update_dag.
LevelRaises(p) ==
  \/ failed[p] /\ ~continues[p]
  \/ ~failed[p] /\ OverBudget(p, ActualCost)
  \/ UpdateDagRaises(Recorded(p)[dag[p]])

LevelFails(p) ==
  /\ pc[p] = "gathered"
  /\ LevelRaises(p)
  /\ dags' = Recorded(p)
  /\ Charge(p)
  /\ End(p, "failed")
  /\ UNCHANGED <<plan_cache, routeVars, dag, stage, failed, continues>>

\* A mutant of NextLevel: one level too many.
NextLevelOffByOne(p) ==
  /\ pc[p] = "gathered"
  /\ ~LevelRaises(p)
  /\ stage[p] <= Len(dags[dag[p]])
  /\ Charge(p)
  /\ StartTask(p, Recorded(p), stage[p] + 1)
  /\ UNCHANGED <<plan_cache, stored, dag, failed, continues>>

NextLevel(p) ==
  /\ pc[p] = "gathered"
  /\ ~LevelRaises(p)
  /\ stage[p] < Len(dags[dag[p]])
  /\ Charge(p)
  /\ StartTask(p, Recorded(p), stage[p] + 1)
  /\ UNCHANGED <<plan_cache, stored, dag, failed, continues>>

LastLevel(p) ==
  /\ pc[p] = "gathered"
  /\ ~LevelRaises(p)
  /\ stage[p] = Len(dags[dag[p]])
  /\ dags' = Recorded(p)
  /\ Charge(p)
  /\ End(p, "completed")
  /\ UNCHANGED <<plan_cache, routeVars, dag, stage, failed, continues>>

\* A mutant of Cancel: only a cancelled execution is left alone.
CancelEnded(p) ==
  /\ status[p] \notin {"none", "cancelled"}
  /\ status' = [status EXCEPT ![p] = "cancelled"]
  /\ UNCHANGED <<budgets, planVars, routeVars, pc, stored, runVars>>

\* cancel_execution changes the status and nothing else.
Cancel(p) ==
  /\ status[p] \notin {"none", "completed", "failed", "cancelled"}
  /\ status' = [status EXCEPT ![p] = "cancelled"]
  /\ UNCHANGED <<budgets, planVars, routeVars, pc, stored, runVars>>
--------------------------------------------------------------------------------
\* The steps of the coroutine itself.
Run(p) ==
  \/ PlanFromCache(p) \/ AskModel(p) \/ PlanWithModel(p) \/ ModelFails(p)
  \/ Execute(p) \/ TaskReturns(p) \/ AgentFails(p) \/ TaskRaises(p)
  \/ LevelFails(p) \/ NextLevel(p) \/ LastLevel(p)

Next == \E p \in Executions : Schedule(p) \/ Run(p) \/ Cancel(p)

\* The event loop runs a scheduled coroutine; the model and the agents answer.
Fairness == \A p \in Executions : WF_vars(Run(p))

Spec == Init /\ [][Next]_vars
FairSpec == Spec /\ Fairness
--------------------------------------------------------------------------------
TypeOK ==
  /\ BudgetTypeOK /\ PlanTypeOK /\ RouteTypeOK
  /\ status \in [Executions -> Statuses]
  /\ pc \in [Executions -> PCs]
  /\ dag \in [Executions -> Executions \cup {NoDag}]
  /\ stage \in [Executions -> 0..MaxTasks]
  /\ failed \in [Executions -> BOOLEAN]
  /\ continues \in [Executions -> BOOLEAN]
  /\ stored \in [Executions -> {"none", "completed", "failed"}]
  /\ results \in [Executions -> 0..MaxTasks]

(***************************************************************************)
(* An execution is "completed" only when each task of its plan has been    *)
(* run for it and returned, whatever continue_on_error asked for and       *)
(* whatever the executions that share the plan made of its statuses; and   *)
(* it starts a task only with the results of all the earlier ones.         *)
(***************************************************************************)
CompletedHasAllResults ==
  \A p \in Executions :
    /\ status[p] = "completed" => results[p] = Len(dags[dag[p]])
    /\ pc[p] \in {"task", "gathered"} => results[p] = stage[p] - 1

(***************************************************************************)
(* No execution spends more than its limit: the check of the estimate in   *)
(* the planning phase is enough, though the plan is shared, the cost is    *)
(* added a level at a time and nothing is checked again in between.        *)
(***************************************************************************)
BudgetKept ==
  \A p \in Executions : Tracked(p) => budgets[p].spent <= budgets[p].limit

(***************************************************************************)
(* What get_execution_status answers agrees with the result in memory: an  *)
(* execution whose result is stored reports it, and no later cancel,       *)
(* and no other execution of the plan, takes it back.                      *)
(***************************************************************************)
ReportsStoredResult ==
  \A p \in Executions : stored[p] # "none" => status[p] = stored[p]

(***************************************************************************)
(* The tools are the last resort of route_task_to_agent: when a task       *)
(* reaches them every registered agent has failed it, and no agent that    *)
(* has failed a task is given it again.                                    *)
(***************************************************************************)
EveryAgentTried ==
  \A p \in Executions :
    /\ agent[p] = Tools => tried[p] = 1..NumAgents
    /\ agent[p] \notin tried[p]

(***************************************************************************)
(* Every scheduled execution ends with a stored result, with its plan's    *)
(* statuses corrupted by others or not.                                    *)
(***************************************************************************)
EveryExecutionEnds ==
  \A p \in Executions : (pc[p] = "scheduled") ~> (stored[p] # "none")

(***************************************************************************)
(* "Cancel a running execution" (cancel_execution, and the API operation): *)
(* an execution that was cancelled stays cancelled.                        *)
(***************************************************************************)
CancelledStaysCancelled ==
  [][\A p \in Executions : status[p] = "cancelled" => status'[p] = "cancelled"]_vars

--------------------------------------------------------------------------------
(***************************************************************************)
(* The instance for TLC: all executions pursue one goal, so they share     *)
(* plans whenever the cache lets them.                                     *)
(***************************************************************************)
MCGoalOf == [p \in Executions |-> CHOOSE g \in Goals : TRUE]
================================================================================
