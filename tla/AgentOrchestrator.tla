--------------------------- MODULE AgentOrchestrator ---------------------------
(***************************************************************************)
(* src/orchestrator/agent_orchestrator.py, route_task_to_agent: the best   *)
(* agent for a task first, then every other agent in the order of their    *)
(* registration, then the tools themselves.  The score of an agent is not  *)
(* modelled: any registered agent may be the best.  Calling the tools      *)
(* directly always fails: execute_with_retry takes the argument named task *)
(* for itself, so the tool router is called without it.                    *)
(***************************************************************************)
EXTENDS Naturals, ExecutionIds

CONSTANT NumAgents            \* registered agents, numbered as registered

ASSUME NumAgentsAssumption == NumAgents \in Nat \ {0}

VARIABLES best,               \* best_agent, 0 before routing
          agent,              \* the agent running the task, 0 for none
          tried               \* history: agents that failed the task

routeVars == <<best, agent, tried>>

Tools == NumAgents + 1        \* direct tool execution

RouteInit ==
  /\ best = [p \in Executions |-> 0]
  /\ agent = [p \in Executions |-> 0]
  /\ tried = [p \in Executions |-> {}]

RouteTypeOK ==
  /\ best \in [Executions -> 0..NumAgents]
  /\ agent \in [Executions -> 0..Tools]
  /\ tried \in [Executions -> SUBSET (1..NumAgents)]

\* route_task_to_agent chooses the best agent and starts it.
Route(p) ==
  \E b \in 1..NumAgents :
    /\ best' = [best EXCEPT ![p] = b]
    /\ agent' = [agent EXCEPT ![p] = b]
    /\ tried' = [tried EXCEPT ![p] = {}]

\* The agents _fallback_execution still has to try, the tools last.
StillToTry(p) ==
  LET after == IF agent[p] = best[p] THEN 0 ELSE agent[p]
  IN  {a \in after + 1 .. Tools : a # best[p]}

\* A mutant of TryNext: the search goes on behind the best agent, not at the
\* first one.
TryNextBehindBest(p) ==
  \E next \in agent[p] + 1 .. Tools :
    /\ \A a \in agent[p] + 1 .. Tools : next <= a
    /\ agent' = [agent EXCEPT ![p] = next]
    /\ tried' = [tried EXCEPT ![p] = @ \cup {agent[p]}]
    /\ UNCHANGED best

\* An agent fails and the next one is tried.
TryNext(p) ==
  \E next \in StillToTry(p) :
    /\ \A a \in StillToTry(p) : next <= a
    /\ agent' = [agent EXCEPT ![p] = next]
    /\ tried' = [tried EXCEPT ![p] = @ \cup {agent[p]}]
    /\ UNCHANGED best

\* The task is over.
Unroute(p) ==
  /\ best' = [best EXCEPT ![p] = 0]
  /\ agent' = [agent EXCEPT ![p] = 0]
  /\ tried' = [tried EXCEPT ![p] = {}]
================================================================================
