------------------------------ MODULE DAGExecution ------------------------------
(***************************************************************************)
(* src/orchestrator/agent_orchestrator.py: execute_dag, which runs the     *)
(* levels of a plan one after the other, the tasks of a level side by side *)
(* up to a limit, and its cancellation and status.  The executions of the  *)
(* model share one DAG object, as callers with a cached plan do.  The      *)
(* agents of a task are module DomainAgents; here a task answers or raises.*)
(***************************************************************************)
EXTENDS Naturals, Sequences, SequencesExt, FiniteSets

CONSTANTS
  Levels,                     \* dag.get_execution_order(): see DAGModel
  Calls,                      \* calls of execute_dag
  MaxParallel                 \* tasks of a level at a time (5 in the code)

DagTasks == UNION {ToSet(Levels[l]) : l \in DOMAIN Levels}

\* No level is empty and no task is in a level twice or in two levels; of a
\* plan without levels execute_dag returns at once, which is left out.
ASSUME LevelsAssumption ==
  /\ Levels \in Seq(Seq(DagTasks)) /\ Levels # <<>>
  /\ \A l \in DOMAIN Levels : Levels[l] # <<>> /\ IsInjective(Levels[l])
  /\ \A l, k \in DOMAIN Levels : l # k => ToSet(Levels[l]) \cap ToSet(Levels[k]) = {}
  /\ MaxParallel \in Nat \ {0}

VARIABLES dag,                \* node.status of the shared DAG
          exec,               \* the record of each call in active_executions
          coroutine,          \* the tasks of the level each call is in
          failedAt            \* history: the task whose exception ended a call

dagExecutionVars == <<dag, exec, coroutine, failedAt>>

LevelOf(c) == Levels[exec[c].level]
LevelTasks(c) == ToSet(LevelOf(c))

TaskStatuses == {"pending", "running", "completed", "failed"}

DAGExecutionInit ==
  /\ dag = [t \in DagTasks |-> "pending"]
  /\ exec = [c \in Calls |-> [pc |-> "none", level |-> 0, goesOn |-> FALSE,
                              status |-> "none", results |-> {}]]
  /\ coroutine = [c \in Calls |-> [t \in DagTasks |-> "none"]]
  /\ failedAt = [c \in Calls |-> "none"]

DAGExecutionTypeOK ==
  /\ dag \in [DagTasks -> TaskStatuses]
  /\ exec \in [Calls -> [pc: {"none", "active", "returned", "raised"},
                         level: 0..Len(Levels), goesOn: BOOLEAN,
                         status: {"none", "running", "cancelled"},
                         results: SUBSET DagTasks]]
  /\ coroutine \in [Calls -> [DagTasks ->
       {"none", "waiting", "running", "answered", "raised"}]]
  /\ failedAt \in [Calls -> DagTasks \cup {"none"}]

\* The tasks of a level are running, says the DAG, before one of them runs.
Running(statuses, l) ==
  [t \in DagTasks |-> IF t \in ToSet(Levels[l]) THEN "running" ELSE statuses[t]]

Gathered(l) ==
  [t \in DagTasks |-> IF t \in ToSet(Levels[l]) THEN "waiting" ELSE "none"]

\* execute_dag as far as the gather of the first level.
ExecuteDag(c) ==
  /\ exec[c].pc = "none"
  /\ \E goesOn \in BOOLEAN :
       exec' = [exec EXCEPT ![c] = [pc |-> "active", level |-> 1, goesOn |-> goesOn,
                                    status |-> "running", results |-> {}]]
  /\ dag' = Running(dag, 1)
  /\ coroutine' = [coroutine EXCEPT ![c] = Gathered(1)]
  /\ UNCHANGED failedAt

InState(c, state) == {t \in DagTasks : coroutine[c][t] = state}

\* execute_with_semaphore: the first one waiting enters.
EnterSemaphore(c) ==
  /\ exec[c].pc = "active" /\ Cardinality(InState(c, "running")) < MaxParallel
  /\ \E i \in DOMAIN LevelOf(c) :
       /\ coroutine[c][LevelOf(c)[i]] = "waiting"
       /\ \A j \in 1..i - 1 : coroutine[c][LevelOf(c)[j]] # "waiting"
       /\ coroutine' = [coroutine EXCEPT ![c][LevelOf(c)[i]] = "running"]
  /\ UNCHANGED <<dag, exec, failedAt>>

\* route_task_to_agent returns or raises.
TaskEnds(c, t) ==
  /\ coroutine[c][t] = "running"
  /\ \E how \in {"answered", "raised"} :
       coroutine' = [coroutine EXCEPT ![c][t] = how]
  /\ UNCHANGED <<dag, exec, failedAt>>

\* What the results of a level make of the statuses, up to the place `last'.
Settled(c, last) ==
  [t \in DagTasks |->
     IF \A i \in 1..last : LevelOf(c)[i] # t
     THEN dag[t]
     ELSE IF coroutine[c][t] = "raised" THEN "failed" ELSE "completed"]

LevelEnded(c) ==
  /\ exec[c].pc = "active"
  /\ \A t \in LevelTasks(c) : coroutine[c][t] \in {"answered", "raised"}

\* A mutant of Failures: every call goes on after an error.
FailuresIgnored(c) == {}

\* The places of tasks that may end the call: it goes on after an error if asked
\* to.
Failures(c) ==
  IF exec[c].goesOn THEN {}
  ELSE {i \in DOMAIN LevelOf(c) : coroutine[c][LevelOf(c)[i]] = "raised"}

\* The first exception ends the call: the results behind it are not recorded,
\* update_dag is not called, and _cleanup_execution forgets the call.
LevelFails(c) ==
  /\ LevelEnded(c)
  /\ \E first \in Failures(c) :
       /\ \A i \in Failures(c) : first <= i
       /\ dag' = Settled(c, first)
       /\ failedAt' = [failedAt EXCEPT ![c] = LevelOf(c)[first]]
  /\ exec' = [exec EXCEPT ![c].pc = "raised"]
  /\ coroutine' = [coroutine EXCEPT ![c] = [t \in DagTasks |-> "none"]]

\* The next level, or the answer; update_dag, in between, does not suspend.
LevelSucceeds(c) ==
  /\ LevelEnded(c)
  /\ Failures(c) = {}
  /\ LET last == exec[c].level = Len(Levels)
         settled == Settled(c, Len(LevelOf(c)))
         next == exec[c].level + 1
     IN  /\ dag' = IF last THEN settled ELSE Running(settled, next)
         /\ coroutine' = [coroutine EXCEPT ![c] =
              IF last THEN [t \in DagTasks |-> "none"] ELSE Gathered(next)]
         /\ exec' = [exec EXCEPT
              ![c].results = @ \cup (InState(c, "answered") \cap LevelTasks(c)),
              ![c].pc = IF last THEN "returned" ELSE @,
              ![c].level = IF last THEN @ ELSE next]
  /\ UNCHANGED failedAt

\* cancel_execution writes a status that execute_dag never reads.
CancelDagExecution(c) ==
  /\ exec[c].pc = "active"
  /\ exec' = [exec EXCEPT ![c].status = "cancelled"]
  /\ UNCHANGED <<dag, coroutine, failedAt>>

DAGExecutionNext ==
  \E c \in Calls :
    \/ ExecuteDag(c) \/ EnterSemaphore(c) \/ CancelDagExecution(c)
    \/ \E t \in DagTasks : TaskEnds(c, t)
    \/ LevelFails(c) \/ LevelSucceeds(c)

--------------------------------------------------------------------------------
\* Task t stands, in its level, behind the task u.
Behind(t, u) ==
  \E l \in DOMAIN Levels : \E i, j \in DOMAIN Levels[l] :
    i > j /\ Levels[l][i] = t /\ Levels[l][j] = u

\* RunningBehindFailure: once no call is active, a task of the shared DAG that
\* still says it is running stands, in its level, behind the task whose
\* exception ended a call; and a call that returned without continue_on_error
\* has the results of all tasks, whatever the other calls made of the statuses.
RunningBehindFailure ==
  /\ (\A c \in Calls : exec[c].pc # "active") =>
       \A t \in DagTasks : dag[t] = "running" =>
         \E c \in Calls : Behind(t, failedAt[c])
  /\ \A c \in Calls :
       exec[c].pc = "returned" /\ ~exec[c].goesOn => exec[c].results = DagTasks
================================================================================
