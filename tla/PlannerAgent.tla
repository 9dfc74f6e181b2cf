----------------------------- MODULE PlannerAgent ------------------------------
(***************************************************************************)
(* src/agents/planner/planner_agent.py and the DAG objects it hands out.   *)
(*                                                                         *)
(* create_plan answers a goal it has planned within the hour with the DAG  *)
(* object it made then: executions of one goal share the object, and the   *)
(* statuses of its tasks with it.  A DAG object is known here by the       *)
(* execution whose planning made it.                                       *)
(*                                                                         *)
(* Every DAG is a chain.  An answer of the language model with dependencies*)
(* names tasks by their names while the DAG knows them by generated ids, so*)
(* add_edge raises and _create_fallback_dag plans two tasks in a row; an   *)
(* answer of several tasks and no dependencies does not pass the verifier  *)
(* (isolated tasks).  What is left is the single task.                     *)
(***************************************************************************)
EXTENDS Naturals, Sequences, ExecutionIds

CONSTANTS Goals,              \* values of goal:target, the cache key
          GoalOf              \* the goal of each execution

ASSUME GoalAssumption == GoalOf \in [Executions -> Goals]

VARIABLES dags,               \* the statuses of the tasks of each DAG object
          plan_cache          \* self.plan_cache: goal -> DAG object

planVars == <<dags, plan_cache>>

NoDag == NoExecution

MaxTasks == 2                 \* reconnaissance and scan of the fallback plan

\* TaskStatus, of which the scheduler uses four; "failed text" is the string
\* "failed" the scheduler stores in place of TaskStatus.FAILED.
TaskStatuses == {"pending", "running", "completed", "failed", "failed text"}

PlanInit ==
  /\ dags = [d \in Executions |-> <<>>]
  /\ plan_cache = [g \in Goals |-> NoDag]

PlanTypeOK ==
  /\ dags \in [Executions -> Seq(TaskStatuses)]
  /\ \A d \in Executions : Len(dags[d]) <= MaxTasks
  /\ plan_cache \in [Goals -> Executions \cup {NoDag}]

\* The DAG the cache holds for the goal of p.
Cached(p) == plan_cache[GoalOf[p]]

\* The DAG object of n tasks made by the planning of p, in the cache and in use.
NewDag(p, n) ==
  /\ dags' = [dags EXCEPT ![p] = [k \in 1..n |-> "pending"]]
  /\ plan_cache' = [plan_cache EXCEPT ![GoalOf[p]] = p]

SetStatus(d, k, s) == dags' = [dags EXCEPT ![d][k] = s]

\* MemoryService.update_dag reads task.status.value of every task: a status
\* that is a plain string has no value and makes it raise.
UpdateDagRaises(tasks) == \E k \in DOMAIN tasks : tasks[k] = "failed text"
================================================================================
