------------------------------ MODULE DomainAgents -----------------------------
(***************************************************************************)
(* src/domain_agents: what happens when a task is routed to the agents     *)
(* that agents/discovery.py found and app.py registered.  ReconAgent and   *)
(* ScannerAgent bring an execute of their own; every other agent keeps the *)
(* execute of BaseDomainAgent, which thinks, designs, acts, verifies,      *)
(* reflects, adapts and raises before it has a result, and heals itself by *)
(* executing all of it again.                                              *)
(*                                                                         *)
(* A tool answers or raises.  The confidence in a tool, the score of a     *)
(* verification and the lessons of a reflection are not modelled: nothing  *)
(* but the order of the tools depends on them.                             *)
(***************************************************************************)
EXTENDS AgentOrchestrator, Integers, FiniteSetsExt

CONSTANTS
  Scripted,                   \* agent types that override execute
  Inheriting,                 \* agent types that keep BaseDomainAgent.execute
  AssessesRisk,               \* the inheriting ones that supply _assess_risk
  WithBus,                    \* types whose __init__ takes a memory_bus
  MaxRetries,                 \* config["max_retries"]
  Recommended                 \* how many tools may be recommended

ASSUME AgentsAssumption ==
  /\ Scripted \cap Inheriting = {}
  /\ AssessesRisk \subseteq Inheriting
  /\ WithBus \subseteq Scripted \cup Inheriting
  /\ MaxRetries \in Nat
  /\ Recommended \subseteq Nat /\ Recommended # {}

VARIABLES type,               \* the agent types in the order of registration
          place,              \* where the coroutine of a task is
          tools,              \* tools recommended in this round
          at,                 \* the tool and the fallback being called
          retryCount,         \* context["retry_count"] of the context in use
          rounds,             \* history: times an agent has begun the task
          perf                \* agent_performance: total and successful tasks

agentVars == <<place, tools, at, retryCount, rounds, perf, type, routeVars>>

Agents == 1..NumAgents
Types == Scripted \cup Inheriting

\* execution_plan: the primary tools, and the fallbacks of each.
Least(m, n) == IF m < n THEN m ELSE n
Primary(k) == Least(k, 3)
Fallbacks(k) == Least(k, 4) - 1

\* ReconAgent.think and ScannerAgent.think always recommend two tools.
OwnTools == 2

AgentsTypeOK ==
  /\ RouteTypeOK
  /\ type \in [Agents -> Types]
  /\ place \in [Executions -> {"queued", "think", "act", "store", "tools",
                            "returned", "raised"}]
  /\ tools \in [Executions -> Recommended \cup {0, OwnTools}]
  /\ at \in [Executions -> (0..3) \X (0..3)]
  /\ retryCount \in [Executions -> 0..MaxRetries]
  /\ rounds \in [Executions -> [Agents -> Nat]]
  /\ perf \in [Agents -> [total: Nat, ok: Nat]]

\* Discovery reads the package in the order of the directory and skips what
\* does not load, so any types may be there, in any order, each once.
Discovered ==
  {f \in [Agents -> Types] : \A a, b \in Agents : f[a] = f[b] => a = b}

\* init_orchestrator_components registers what was discovered.
AgentsInit ==
  /\ RouteInit
  /\ type \in Discovered
  /\ place = [t \in Executions |-> "queued"]
  /\ tools = [t \in Executions |-> 0]
  /\ at = [t \in Executions |-> <<0, 0>>]
  /\ retryCount = [t \in Executions |-> 0]
  /\ rounds = [t \in Executions |-> [a \in Agents |-> 0]]
  /\ perf = [a \in Agents |-> [total |-> 0, ok |-> 0]]

AgentType(t) == type[agent[t]]

\* _score_agent_for_task: the match of the capabilities, the success rate (a
\* half before the first task) and no load, as no execution is ever active.
Score(match, a) ==
  match[a] + 20 + IF perf[a].total = 0 THEN 15
                  ELSE (30 * perf[a].ok) \div perf[a].total

\* route_task_to_agent: the first agent of the highest score begins, with a
\* context of its own.
RouteTask(t) ==
  /\ place[t] = "queued"
  /\ Route(t)
  /\ \E match \in [Agents -> {20, 50}] :
       \A a \in Agents :
         /\ Score(match, a) <= Score(match, best'[t])
         /\ a < best'[t] => Score(match, a) < Score(match, best'[t])
  /\ place' = [place EXCEPT ![t] = "think"]
  /\ rounds' = [rounds EXCEPT ![t][best'[t]] = 1]
  /\ UNCHANGED <<type, tools, at, retryCount, perf>>

\* A mutant of NextContext: every fallback agent gets a context of its own.
FreshContext(t) == 0

\* The retry count the next agent finds: the best agent had a context of its
\* own, the others share the one of the task.
NextContext(t) == IF agent[t] = best[t] THEN 0 ELSE retryCount[t]

\* An agent has raised: _fallback_execution goes on with the next one, or with
\* the tools.
AgentRaised(t) ==
  /\ TryNext(t)
  /\ retryCount' = [retryCount EXCEPT ![t] = NextContext(t)]
  /\ IF agent'[t] = Tools
     THEN /\ place' = [place EXCEPT ![t] = "tools"]
          /\ UNCHANGED rounds
     ELSE /\ place' = [place EXCEPT ![t] = "think"]
          /\ rounds' = [rounds EXCEPT ![t][agent'[t]] = @ + 1]

\* A mutant of Heals: the healed context keeps its retry count.
HealsForEver(t) ==
  /\ retryCount[t] < MaxRetries
  /\ place' = [place EXCEPT ![t] = "think"]
  /\ UNCHANGED <<rounds, retryCount, routeVars>>

\* A mutant of Heals: one retry more than allowed.
HealsOnceMore(t) ==
  /\ retryCount[t] <= MaxRetries
  /\ retryCount' = [retryCount EXCEPT ![t] = @ + 1]
  /\ place' = [place EXCEPT ![t] = "think"]
  /\ rounds' = [rounds EXCEPT ![t][agent[t]] = @ + 1]
  /\ UNCHANGED routeVars

\* _self_heal: the whole execute once more.
Heals(t) ==
  /\ retryCount[t] < MaxRetries
  /\ retryCount' = [retryCount EXCEPT ![t] = @ + 1]
  /\ place' = [place EXCEPT ![t] = "think"]
  /\ rounds' = [rounds EXCEPT ![t][agent[t]] = @ + 1]
  /\ UNCHANGED routeVars

\* An exception inside BaseDomainAgent.execute.
ExecuteRaises(t) ==
  /\ \/ Heals(t)
     \/ retryCount[t] >= MaxRetries /\ AgentRaised(t)
  /\ at' = [at EXCEPT ![t] = <<0, 0>>]
  /\ tools' = [tools EXCEPT ![t] = 0]
  /\ UNCHANGED <<type, perf>>

\* The best agent has returned: _track_agent_performance looks for a status,
\* which only the inherited execute puts into its result; as that one never
\* returns, no task counts as a success.
Track(t) ==
  perf' = IF agent[t] # best[t] THEN perf
          ELSE [perf EXCEPT ![agent[t]].total = @ + 1,
                            ![agent[t]].ok =
                               IF AgentType(t) \in Inheriting THEN @ + 1 ELSE @]

Returned(t) ==
  /\ place' = [place EXCEPT ![t] = "returned"]
  /\ at' = [at EXCEPT ![t] = <<0, 0>>]
  /\ tools' = [tools EXCEPT ![t] = 0]
  /\ Track(t)
  /\ UNCHANGED <<type, retryCount, rounds, routeVars>>

--------------------------------------------------------------------------------
(* BaseDomainAgent.execute                                                 *)

Lifecycle(t, phase) ==
  place[t] = phase /\ agent[t] \in Agents /\ AgentType(t) \in Inheriting

\* _think_phase raises: a memory query fails, or there is no _assess_risk,
\* which the base class calls and does not define.
ThinkRaises(t) == Lifecycle(t, "think") /\ ExecuteRaises(t)

\* _perform_safety_check refuses the target of a task of high risk.
SafetyRefuses(t) ==
  /\ Lifecycle(t, "think")
  /\ AgentType(t) \in AssessesRisk
  /\ ExecuteRaises(t)

\* How many tools the plan may name.  The complexity of the task, the
\* recommendations and the strategy are data: a task of high complexity is
\* decomposed and gets none.
ToolCounts == Recommended \cup {0}

\* _design_phase: a task of high complexity is decomposed into steps of types
\* _act_phase does not know, so no tool runs; any other becomes one step.
Designs(t) ==
  /\ Lifecycle(t, "think")
  /\ AgentType(t) \in AssessesRisk
  /\ \E k \in ToolCounts :
       /\ tools' = [tools EXCEPT ![t] = k]
       /\ IF k = 0
          THEN place' = [place EXCEPT ![t] = "store"] /\ UNCHANGED at
          ELSE /\ place' = [place EXCEPT ![t] = "act"]
               /\ at' = [at EXCEPT ![t] = <<1, 0>>]
  /\ UNCHANGED <<type, retryCount, rounds, perf, routeVars>>

\* The next call of _act_phase: another fallback of the tool that failed, or
\* the next primary tool, which runs even when a fallback has succeeded.
Calls(t, next) ==
  /\ IF next[1] > Primary(tools[t])
     THEN /\ place' = [place EXCEPT ![t] = "store"]
          /\ at' = [at EXCEPT ![t] = <<0, 0>>]
     ELSE at' = [at EXCEPT ![t] = next] /\ UNCHANGED place
  /\ UNCHANGED <<type, tools, retryCount, rounds, perf, routeVars>>

NextPrimary(t) == <<at[t][1] + 1, 0>>

PrimarySucceeds(t) ==
  /\ Lifecycle(t, "act") /\ at[t][2] = 0
  /\ Calls(t, <<4, 0>>)

FallbackSucceeds(t) ==
  /\ Lifecycle(t, "act") /\ at[t][2] > 0
  /\ Calls(t, NextPrimary(t))

ToolFails(t) ==
  /\ Lifecycle(t, "act")
  /\ Calls(t, IF at[t][2] < Fallbacks(tools[t])
              THEN <<at[t][1], at[t][2] + 1>> ELSE NextPrimary(t))

\* _verify_phase, _reflect_phase and _adapt_phase only score, record and learn:
\* they refuse nothing, so execute goes on even when every tool has failed.
Verified(t) == Lifecycle(t, "store")

\* With a bus, _share_learnings passes an argument publish does not take;
\* without one, building the result asks the task for to_dict, which TaskNode
\* has not.  So execute never gets to store or to return a result.
ResultRaises(t) == Verified(t) /\ ExecuteRaises(t)

--------------------------------------------------------------------------------
(* ReconAgent.execute and ScannerAgent.execute                             *)

OwnExecute(t, phase) ==
  place[t] = phase /\ agent[t] \in Agents /\ AgentType(t) \in Scripted

Thinks(t) ==
  /\ OwnExecute(t, "think")
  /\ tools' = [tools EXCEPT ![t] = OwnTools]
  /\ at' = [at EXCEPT ![t] = <<1, 0>>]
  /\ place' = [place EXCEPT ![t] = "act"]
  /\ UNCHANGED <<type, retryCount, rounds, perf, routeVars>>

\* What act may bring back: the tools that raise are skipped, the others may
\* have found something or not.
ActResults == {0, 1}

Acts(t) ==
  /\ OwnExecute(t, "act") /\ at[t][1] = 1
  /\ \E found \in ActResults : at' = [at EXCEPT ![t] = <<2, found>>]
  /\ UNCHANGED <<type, place, tools, retryCount, rounds, perf, routeVars>>

\* reflect, when there is nothing to share.
ReflectsNothing(t) ==
  /\ OwnExecute(t, "act") /\ at[t][1] = 2
  /\ at[t][2] = 0 \/ AgentType(t) \notin WithBus
  /\ Returned(t)

\* reflect shares findings: the call of publish raises.
ReflectRaises(t) ==
  /\ OwnExecute(t, "act") /\ at[t] = <<2, 1>>
  /\ AgentType(t) \in WithBus
  /\ AgentRaised(t)
  /\ at' = [at EXCEPT ![t] = <<0, 0>>]
  /\ tools' = [tools EXCEPT ![t] = 0]
  /\ UNCHANGED <<type, perf>>

--------------------------------------------------------------------------------
\* _execute_with_tools: execute_with_retry takes the task for itself, so the
\* call of the tool router lacks it.
DirectToolsRaise(t) ==
  /\ place[t] = "tools"
  /\ place' = [place EXCEPT ![t] = "raised"]
  /\ UNCHANGED <<type, tools, at, retryCount, rounds, perf, routeVars>>

AgentStep(t) ==
  \/ ThinkRaises(t) \/ SafetyRefuses(t) \/ Designs(t)
  \/ PrimarySucceeds(t) \/ FallbackSucceeds(t) \/ ToolFails(t)
  \/ ResultRaises(t)
  \/ Thinks(t) \/ Acts(t) \/ ReflectsNothing(t) \/ ReflectRaises(t)
  \/ DirectToolsRaise(t)

\* Every task is over: the scheduler has nothing more to route.
AllOver ==
  /\ \A t \in Executions : place[t] \in {"returned", "raised"}
  /\ UNCHANGED agentVars

AgentsNext == AllOver \/ \E t \in Executions : RouteTask(t) \/ AgentStep(t)

AgentsSpec == AgentsInit /\ [][AgentsNext]_agentVars
AgentsFairSpec == AgentsSpec /\ \A t \in Executions : WF_agentVars(AgentStep(t))

--------------------------------------------------------------------------------
\* RoundsBounded: the best agent begins a task at most MaxRetries + 1 times;
\* the others share one budget of retries, because _fallback_execution hands
\* all of them the context of the task, in which _self_heal counts.
RoundsBounded ==
  \A t \in Executions :
    LET others == {a \in Agents : a # best[t]}
    IN  best[t] # 0 =>
          /\ rounds[t][best[t]] <= MaxRetries + 1
          /\ MapThenSumSet(LAMBDA a : rounds[t][a], others)
               <= Cardinality(others) + MaxRetries

\* EveryTaskEnds: a task that has been routed returns or raises, whatever its
\* tools, its memory queries and its safety checks do.
EveryTaskEnds ==
  \A t \in Executions : (place[t] = "think") ~> (place[t] \in {"returned", "raised"})
================================================================================
