----------------------------- MODULE TaskAssignment ----------------------------
(***************************************************************************)
(* src/workflow/task_assignment.py: human tasks assigned to the agents of  *)
(* pools.  No method suspends.  Agents are numbered in the order of their  *)
(* pools' lists.  The strategies that choose at random are one.            *)
(***************************************************************************)
EXTENDS Integers, FiniteSets

CONSTANTS
  Workers,                    \* ids of the agents, numbers
  Pools,                      \* pool names
  PoolAgents,                 \* the agents of each pool
  Strategy,                   \* "round_robin", "least_loaded" or "random"
  Skilled,                    \* the agents with the skill a task may require
  MaxAssigned                 \* bound on the assignments of one agent

ASSUME PoolsAssumption ==
  /\ Workers \subseteq Nat /\ Skilled \subseteq Workers /\ MaxAssigned \in Nat
  /\ PoolAgents \in [Pools -> SUBSET Workers]
  /\ Strategy \in [Pools -> {"round_robin", "least_loaded", "random"}]

VARIABLES registered,         \* agent_pools
          workload,           \* current_tasks of agent_workloads
          assigned,           \* assignment_history: how often each agent is in it
          passedOver          \* history: agents once not eligible for a task

assignmentVars == <<registered, workload, assigned, passedOver>>

AssignmentInit ==
  /\ registered = {}
  /\ workload = [a \in Workers |-> 0]
  /\ assigned = [a \in Workers |-> 0]
  /\ passedOver = {}

AssignmentTypeOK ==
  /\ registered \subseteq Pools
  /\ workload \in [Workers -> Int]
  /\ assigned \in [Workers -> 0..MaxAssigned]
  /\ passedOver \subseteq Workers

\* register_agent_pool starts the workloads of its agents anew.
RegisterPool(pool) ==
  /\ registered' = registered \cup {pool}
  /\ workload' = [a \in Workers |-> IF a \in PoolAgents[pool] THEN 0 ELSE workload[a]]
  /\ UNCHANGED <<assigned, passedOver>>

\* _filter_agents: the skill, and max_concurrent_tasks unless it is 0.
Eligible(pool, needsSkill, limit) ==
  {a \in PoolAgents[pool] :
     /\ needsSkill => a \in Skilled
     /\ limit # 0 => workload[a] < limit}

FewestOf(count, agents) ==
  {a \in agents : \A b \in agents : count[a] < count[b]
                                    \/ (count[a] = count[b] /\ a <= b)}

\* A mutant of Selectable: round robin looks at the tasks in hand.
SelectableByLoad(pool, agents) ==
  IF Strategy[pool] = "random" THEN agents ELSE FewestOf(workload, agents)

\* _select_agent.
Selectable(pool, agents) ==
  CASE Strategy[pool] = "round_robin" -> FewestOf(assigned, agents)
    [] Strategy[pool] = "least_loaded" -> FewestOf(workload, agents)
    [] OTHER -> agents

\* assign_task.
AssignTask(pool, needsSkill, limit) ==
  /\ pool \in registered
  /\ \E a \in Selectable(pool, Eligible(pool, needsSkill, limit)) :
       /\ assigned[a] < MaxAssigned
       /\ workload' = [workload EXCEPT ![a] = @ + 1]
       /\ assigned' = [assigned EXCEPT ![a] = @ + 1]
  /\ passedOver' = passedOver \cup
       (PoolAgents[pool] \ Eligible(pool, needsSkill, limit))
  /\ UNCHANGED registered

\* complete_task, which may follow a registration that has set the count to 0.
CompleteTask(a) ==
  /\ workload[a] > -MaxAssigned
  /\ workload' = [workload EXCEPT ![a] = @ - 1]
  /\ UNCHANGED <<registered, assigned, passedOver>>

AssignmentNext ==
  \/ \E pool \in Pools :
       \/ RegisterPool(pool)
       \/ \E needsSkill \in BOOLEAN, limit \in {0, 1} :
            AssignTask(pool, needsSkill, limit)
  \/ \E a \in Workers : CompleteTask(a)

--------------------------------------------------------------------------------
OnlyIn(pool, a) == \A q \in Pools \ {pool} : a \notin PoolAgents[q]

\* NeverFarBehind: an agent of a round-robin pool who could have taken every
\* task is at most one assignment behind the others of the pool, however the
\* requirements passed over those, whenever tasks are completed, and though a
\* registration resets the workloads.
NeverFarBehind ==
  \A pool \in Pools : Strategy[pool] = "round_robin" =>
    \A a, b \in PoolAgents[pool] :
      a \notin passedOver /\ OnlyIn(pool, b) => assigned[b] <= assigned[a] + 1
================================================================================
