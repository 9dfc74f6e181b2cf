------------------------- MODULE OrchestrationProofs ---------------------------
(***************************************************************************)
(* Theorems about the two systems that route tasks with AgentOrchestrator: *)
(* HybridScheduler, for any executions, goals, budget limits and number of *)
(* agents, and DomainAgents, for any agents of any types and any limit of  *)
(* retries.  They share the variables of AgentOrchestrator and nothing     *)
(* else, and each has an inductive invariant of its own.                   *)
(*                                                                         *)
(* HybridScheduler.  Safety is inductive only together with what holds of  *)
(* one execution at each place of its coroutine (Good), and with the fact  *)
(* that a plan in use, or in the cache, is never made again: its length is *)
(* fixed though its statuses are not.                                      *)
(***************************************************************************)
EXTENDS HybridScheduler, DomainAgents, SequenceLemmas

\* The planning that made the DAG object d is over.
Planned(d) ==
  /\ pc[d] \notin {"new", "scheduled", "llm"}
  /\ Len(dags[d]) >= 1

PlansFixed ==
  /\ \A p \in Executions : dag[p] \in Executions => Planned(dag[p])
  /\ \A g \in Goals : plan_cache[g] \in Executions => Planned(plan_cache[g])

\* The estimate a running execution was admitted with, and what it has spent.
GoodBudget(p) ==
  /\ budgets[p].spent = IF Tracked(p) THEN 9 * results[p] ELSE 0
  /\ Tracked(p) /\ pc[p] \in {"ready", "task", "gathered"} =>
       10 * Len(dags[dag[p]]) <= budgets[p].limit
  /\ Tracked(p) => budgets[p].spent <= budgets[p].limit

\* What the coroutine has to show at each place.
GoodRun(p) ==
  /\ pc[p] \in {"new", "scheduled", "llm", "ready"} => results[p] = 0
  /\ pc[p] \in {"ready", "task", "gathered"} => dag[p] \in Executions
  /\ pc[p] \in {"task", "gathered"} =>
       stage[p] \in 1..Len(dags[dag[p]]) /\ results[p] = stage[p] - 1
  /\ status[p] = "completed" =>
       dag[p] \in Executions /\ results[p] = Len(dags[dag[p]])

\* Memory and the reported status.
GoodReport(p) ==
  /\ pc[p] = "ended" => status[p] = stored[p] /\ stored[p] # "none"
  /\ pc[p] # "ended" => stored[p] = "none" /\ status[p] \notin {"completed", "failed"}

\* The agents tried: all those before the present one, the best one first.
GoodRoute(p) ==
  /\ pc[p] = "task" =>
       /\ best[p] \in 1..NumAgents /\ agent[p] \in 1..Tools
       /\ tried[p] = IF agent[p] = best[p] THEN {}
                     ELSE {best[p]} \cup {a \in 1..NumAgents : a < agent[p]}
  /\ pc[p] # "task" => best[p] = 0 /\ agent[p] = 0 /\ tried[p] = {}

Good(p) == GoodBudget(p) /\ GoodRun(p) /\ GoodReport(p) /\ GoodRoute(p)

IInv == TypeOK /\ PlansFixed /\ \A p \in Executions : Good(p)
--------------------------------------------------------------------------------
\* What a step of p leaves to the other executions.
Frame(p) ==
  \A q \in Executions : q # p =>
    /\ budgets'[q] = budgets[q] /\ status'[q] = status[q] /\ pc'[q] = pc[q]
    /\ dag'[q] = dag[q] /\ stage'[q] = stage[q] /\ stored'[q] = stored[q]
    /\ results'[q] = results[q] /\ best'[q] = best[q] /\ agent'[q] = agent[q]
    /\ tried'[q] = tried[q]

\* What it does to the plans: none that is planned changes its length, and p
\* and the cache go over to plans that are planned.
PlansKept(p) ==
  /\ \A d \in Executions : Planned(d) => Len(dags'[d]) = Len(dags[d])
  /\ Planned(p) => pc'[p] \notin {"new", "scheduled", "llm"}
  /\ dag'[p] \in Executions => dag'[p] = dag[p] \/ Planned(dag[p])'
  /\ \A g \in Goals : plan_cache'[g] = plan_cache[g] \/ Planned(plan_cache[g])'

\* It is enough to look at the execution that makes the step.
LEMMA OneIsEnough ==
  ASSUME IInv, TypeOK', NEW p \in Executions, Frame(p), PlansKept(p), Good(p)'
  PROVE  IInv'
<1>1. ASSUME NEW d \in Executions, Planned(d)
      PROVE  Planned(d)'
  <2>1. Len(dags'[d]) = Len(dags[d])
    BY <1>1 DEF PlansKept
  <2>2. pc'[d] \notin {"new", "scheduled", "llm"}
    BY <1>1 DEF PlansKept, Frame, Planned
  <2> QED BY <1>1, <2>1, <2>2 DEF Planned
<1>2. PlansFixed'
  <2>1. ASSUME NEW q \in Executions, dag'[q] \in Executions
        PROVE  Planned(dag[q])'
    <3>1. CASE q = p
      BY <1>1, <2>1, <3>1 DEF PlansKept, IInv, PlansFixed
    <3>2. CASE q # p
      BY <1>1, <2>1, <3>2 DEF Frame, IInv, PlansFixed
    <3> QED BY <3>1, <3>2
  <2>2. ASSUME NEW g \in Goals, plan_cache'[g] \in Executions
        PROVE  Planned(plan_cache[g])'
    BY <1>1, <2>2 DEF PlansKept, IInv, PlansFixed
  <2> QED BY <2>1, <2>2 DEF PlansFixed
<1>3. ASSUME NEW q \in Executions, q # p
      PROVE  Good(q)'
  <2>1. Good(q)
    BY DEF IInv
  <2>2. dag[q] \in Executions => Len(dags'[dag[q]]) = Len(dags[dag[q]])
    BY DEF IInv, PlansFixed, PlansKept
  <2>3. /\ budgets'[q] = budgets[q] /\ status'[q] = status[q] /\ pc'[q] = pc[q]
        /\ dag'[q] = dag[q] /\ stage'[q] = stage[q] /\ stored'[q] = stored[q]
        /\ results'[q] = results[q] /\ best'[q] = best[q] /\ agent'[q] = agent[q]
        /\ tried'[q] = tried[q]
    BY <1>3 DEF Frame
  <2>4. GoodBudget(q)'
    BY <2>1, <2>2, <2>3 DEF Good, GoodBudget, GoodRun, Tracked
  <2>5. GoodRun(q)'
    BY <2>1, <2>2, <2>3 DEF Good, GoodRun
  <2>6. GoodReport(q)'
    BY <2>1, <2>3 DEF Good, GoodReport
  <2>7. GoodRoute(q)'
    BY <2>1, <2>3 DEF Good, GoodRoute
  <2> QED BY <2>4, <2>5, <2>6, <2>7 DEF Good
<1> QED BY <1>2, <1>3 DEF IInv
--------------------------------------------------------------------------------
\* Recording a status of a task keeps the plans plans of the same lengths.
LEMMA StatusRecorded ==
  ASSUME NEW D \in [Executions -> Seq(TaskStatuses)], NEW d \in Executions,
         NEW k \in 1..Len(D[d]), NEW s \in TaskStatuses,
         NEW E, E = [D EXCEPT ![d][k] = s]
  PROVE  /\ E \in [Executions -> Seq(TaskStatuses)]
         /\ \A e \in Executions : Len(E[e]) = Len(D[e])
         /\ k \in DOMAIN E[d] /\ E[d][k] = s
<1> DEFINE new == [D[d] EXCEPT ![k] = s]
<1>1. new \in Seq(TaskStatuses) /\ Len(new) = Len(D[d]) /\ k \in DOMAIN new /\ new[k] = s
  <2>1. D[d] \in Seq(TaskStatuses)
    OBVIOUS
  <2> QED BY <2>1
<1>2. E = [D EXCEPT ![d] = new]
  OBVIOUS
<1> HIDE DEF new
<1> QED BY <1>1, <1>2

\* add_cost.
LEMMA CostAdded ==
  ASSUME BudgetTypeOK, NEW p \in Executions, NEW cost \in Nat, AddCost(p, cost)
  PROVE  /\ BudgetTypeOK'
         /\ \A q \in Executions : q # p => budgets'[q] = budgets[q]
         /\ budgets'[p].limit = budgets[p].limit
         /\ budgets'[p].spent = IF Tracked(p) THEN budgets[p].spent + cost
                                ELSE budgets[p].spent
<1>1. /\ budgets \in [Executions -> [limit : Nat, spent : Nat]]
      /\ budgets[p] \in [limit : Nat, spent : Nat]
  BY DEF BudgetTypeOK
<1> DEFINE n == IF Tracked(p) THEN budgets[p].spent + cost ELSE budgets[p].spent
           new == [budgets[p] EXCEPT !.spent = n]
<1>2. n \in Nat
  BY <1>1
<1>3. budgets' = [budgets EXCEPT ![p] = new]
  BY DEF AddCost
<1> HIDE DEF n
<1>4. new \in [limit : Nat, spent : Nat] /\ new.limit = budgets[p].limit /\ new.spent = n
  BY <1>1, <1>2
<1> HIDE DEF new
<1>5. /\ budgets' \in [Executions -> [limit : Nat, spent : Nat]]
      /\ budgets'[p] = new
      /\ \A q \in Executions : q # p => budgets'[q] = budgets[q]
  BY <1>1, <1>3, <1>4
<1> QED BY <1>4, <1>5 DEF BudgetTypeOK, n
--------------------------------------------------------------------------------
\* Steps that change where the execution is and what it reports.
LEMMA ScheduleKeeps ==
  ASSUME IInv, NEW p \in Executions, Schedule(p)
  PROVE  IInv'
<1>1. PICK limit \in Limits : InitializeBudget(p, limit)
  BY DEF Schedule
<1>2. budgets' \in [Executions -> [limit : Nat, spent : Nat]]
      /\ budgets'[p].limit = limit /\ budgets'[p].spent = 0
      /\ \A q \in Executions : q # p => budgets'[q] = budgets[q]
  BY <1>1, LimitsAssumption DEF IInv, TypeOK, BudgetTypeOK, InitializeBudget
<1>3. pc[p] = "new" /\ pc' = [pc EXCEPT ![p] = "scheduled"]
      /\ status' = [status EXCEPT ![p] = "pending"]
      /\ continues' \in [Executions -> BOOLEAN]
      /\ UNCHANGED <<planVars, routeVars, dag, stage, failed, stored, results>>
  BY DEF Schedule, Goto, IInv, TypeOK
<1>4. TypeOK'
  BY <1>2, <1>3 DEF IInv, TypeOK, BudgetTypeOK, PlanTypeOK, RouteTypeOK, planVars,
     routeVars, PCs, Statuses
<1>5. Frame(p)
  BY <1>2, <1>3 DEF Frame, IInv, TypeOK, routeVars
<1>6. PlansKept(p)
  BY <1>3 DEF PlansKept, Planned, IInv, TypeOK, planVars
<1>7. pc'[p] = "scheduled" /\ status'[p] = "pending" /\ Good(p)
  BY <1>3 DEF IInv, TypeOK
<1>8. Good(p)'
  BY <1>2, <1>3, <1>7 DEF Good, GoodBudget, GoodRun, GoodReport, GoodRoute, Tracked,
     routeVars
<1> QED BY <1>4, <1>5, <1>6, <1>8, OneIsEnough

LEMMA AskModelKeeps ==
  ASSUME IInv, NEW p \in Executions, AskModel(p)
  PROVE  IInv'
<1>1. pc[p] = "scheduled" /\ pc' = [pc EXCEPT ![p] = "llm"]
      /\ status' = [status EXCEPT ![p] = "planning"]
      /\ UNCHANGED <<budgets, planVars, routeVars, stored, runVars>>
  BY DEF AskModel, Goto
<1>2. TypeOK'
  BY <1>1 DEF IInv, TypeOK, BudgetTypeOK, PlanTypeOK, RouteTypeOK, planVars,
     routeVars, runVars, PCs, Statuses
<1>3. Frame(p)
  BY <1>1 DEF Frame, IInv, TypeOK, routeVars, runVars
<1>4. PlansKept(p)
  BY <1>1 DEF PlansKept, Planned, planVars, runVars
<1>5. pc'[p] = "llm" /\ status'[p] = "planning" /\ Good(p)
  BY <1>1 DEF IInv, TypeOK
<1>6. Good(p)'
  BY <1>1, <1>5 DEF Good, GoodBudget, GoodRun, GoodReport, GoodRoute, Tracked,
     routeVars, runVars, planVars
<1> QED BY <1>2, <1>3, <1>4, <1>6, OneIsEnough

LEMMA ModelFailsKeeps ==
  ASSUME IInv, NEW p \in Executions, ModelFails(p)
  PROVE  IInv'
<1>1. pc[p] = "llm" /\ pc' = [pc EXCEPT ![p] = "ended"]
      /\ status' = [status EXCEPT ![p] = "failed"]
      /\ stored' = [stored EXCEPT ![p] = "failed"]
      /\ UNCHANGED <<budgets, planVars, routeVars, runVars>>
  BY DEF ModelFails, End, Goto
<1>2. TypeOK'
  BY <1>1 DEF IInv, TypeOK, BudgetTypeOK, PlanTypeOK, RouteTypeOK, planVars,
     routeVars, runVars, PCs, Statuses
<1>3. Frame(p)
  BY <1>1 DEF Frame, IInv, TypeOK, routeVars, runVars
<1>4. PlansKept(p)
  BY <1>1 DEF PlansKept, Planned, planVars, runVars, IInv, TypeOK
<1>5. pc'[p] = "ended" /\ status'[p] = "failed" /\ stored'[p] = "failed" /\ Good(p)
  BY <1>1 DEF IInv, TypeOK
<1>6. Good(p)'
  BY <1>1, <1>5 DEF Good, GoodBudget, GoodRun, GoodReport, GoodRoute, Tracked,
     routeVars, runVars, planVars
<1> QED BY <1>2, <1>3, <1>4, <1>6, OneIsEnough

LEMMA CancelKeeps ==
  ASSUME IInv, NEW p \in Executions, Cancel(p)
  PROVE  IInv'
<1>1. status[p] \notin {"completed", "failed"}
      /\ status' = [status EXCEPT ![p] = "cancelled"]
      /\ UNCHANGED <<budgets, planVars, routeVars, pc, stored, runVars>>
  BY DEF Cancel
<1>2. TypeOK'
  BY <1>1 DEF IInv, TypeOK, BudgetTypeOK, PlanTypeOK, RouteTypeOK, planVars,
     routeVars, runVars, PCs, Statuses
<1>3. Frame(p)
  BY <1>1 DEF Frame, IInv, TypeOK, routeVars, runVars
<1>4. PlansKept(p)
  BY <1>1 DEF PlansKept, Planned, planVars, runVars
<1>5. status'[p] = "cancelled" /\ Good(p) /\ pc[p] # "ended"
  <2>1. Good(p) /\ stored[p] \in {"none", "completed", "failed"}
    BY DEF IInv, TypeOK
  <2> QED BY <1>1, <2>1 DEF IInv, TypeOK, Good, GoodReport
<1>6. Good(p)'
  BY <1>1, <1>5 DEF Good, GoodBudget, GoodRun, GoodReport, GoodRoute, Tracked,
     routeVars, runVars, planVars
<1> QED BY <1>2, <1>3, <1>4, <1>6, OneIsEnough
--------------------------------------------------------------------------------
\* The planning phase ends with plan d, from the cache or made by p itself.
LEMMA VerifyKeeps ==
  ASSUME IInv, NEW p \in Executions, pc[p] \in {"scheduled", "llm"},
         NEW d \in Executions, d = p \/ Planned(d),
         PlanTypeOK', Len(dags'[d]) >= 1,
         \A e \in Executions : Planned(e) => Len(dags'[e]) = Len(dags[e]),
         \A g \in Goals : plan_cache'[g] = plan_cache[g] \/ plan_cache'[g] = d,
         Verify(p, d),
         UNCHANGED <<budgets, routeVars, stage, failed, continues, results>>
  PROVE  IInv'
<1>1. Good(p) /\ pc[p] \notin {"ended", "task", "gathered"} /\ results[p] = 0
  BY DEF IInv, Good, GoodRun
<1>2. \/ /\ CheckBudget(p, EstimatedCost(d))
         /\ dag' = [dag EXCEPT ![p] = d] /\ UNCHANGED stored
         /\ pc' = [pc EXCEPT ![p] = "ready"]
         /\ status' = [status EXCEPT ![p] = "ready"]
      \/ /\ UNCHANGED dag /\ stored' = [stored EXCEPT ![p] = "failed"]
         /\ pc' = [pc EXCEPT ![p] = "ended"]
         /\ status' = [status EXCEPT ![p] = "failed"]
  BY DEF Verify, End, Goto
<1>3. TypeOK'
  <2>1. TypeOK
    BY DEF IInv
  <2>2. (BudgetTypeOK /\ RouteTypeOK)' /\ stage' \in [Executions -> 0..MaxTasks]
        /\ failed' \in [Executions -> BOOLEAN] /\ continues' \in [Executions -> BOOLEAN]
        /\ results' \in [Executions -> 0..MaxTasks]
    BY <2>1 DEF TypeOK, BudgetTypeOK, RouteTypeOK, routeVars
  <2>3. status' \in [Executions -> Statuses] /\ pc' \in [Executions -> PCs]
    BY <1>2, <2>1 DEF TypeOK, PCs, Statuses
  <2>4. dag' \in [Executions -> Executions \cup {NoDag}]
        /\ stored' \in [Executions -> {"none", "completed", "failed"}]
    BY <1>2, <2>1, ZenonT(60) DEF TypeOK
  <2> QED BY <2>2, <2>3, <2>4 DEF TypeOK
<1>4. Frame(p)
  BY <1>2 DEF Frame, IInv, TypeOK, routeVars
<1>5. pc'[p] \notin {"new", "scheduled", "llm"}
  BY <1>2 DEF IInv, TypeOK
<1>6. Planned(d)'
  BY <1>4, <1>5 DEF Planned, Frame
<1>7. PlansKept(p)
  BY <1>2, <1>5, <1>6 DEF PlansKept, IInv, TypeOK
<1>8. budgets[p].spent = 0 /\ budgets[p].limit \in Nat /\ Len(dags'[d]) \in Nat
  BY <1>1 DEF Good, GoodBudget, IInv, TypeOK, BudgetTypeOK, PlanTypeOK
<1>9. CASE /\ CheckBudget(p, EstimatedCost(d))
           /\ dag' = [dag EXCEPT ![p] = d] /\ UNCHANGED stored
           /\ pc' = [pc EXCEPT ![p] = "ready"]
           /\ status' = [status EXCEPT ![p] = "ready"]
  <2>1. pc'[p] = "ready" /\ status'[p] = "ready" /\ dag'[p] = d
    BY <1>9 DEF IInv, TypeOK
  <2>2. Tracked(p) => 10 * Len(dags'[d]) <= budgets[p].limit
    BY <1>8, <1>9 DEF CheckBudget, EstimatedCost
  <2>3. GoodBudget(p)'
    BY <1>1, <1>8, <2>1, <2>2 DEF Good, GoodBudget, Tracked
  <2>4. (GoodRun(p) /\ GoodReport(p) /\ GoodRoute(p))'
    BY <1>1, <1>9, <2>1 DEF Good, GoodRun, GoodReport, GoodRoute, routeVars
  <2> QED BY <1>3, <1>4, <1>7, <2>3, <2>4, OneIsEnough DEF Good
<1>10. CASE /\ UNCHANGED dag /\ stored' = [stored EXCEPT ![p] = "failed"]
            /\ pc' = [pc EXCEPT ![p] = "ended"]
            /\ status' = [status EXCEPT ![p] = "failed"]
  <2>1. pc'[p] = "ended" /\ status'[p] = "failed" /\ stored'[p] = "failed"
    BY <1>10 DEF IInv, TypeOK
  <2>2. Good(p)'
    BY <1>1, <2>1 DEF Good, GoodBudget, GoodRun, GoodReport, GoodRoute, Tracked, routeVars
  <2> QED BY <1>3, <1>4, <1>7, <2>2, OneIsEnough
<1> QED BY <1>2, <1>9, <1>10

LEMMA PlanFromCacheKeeps ==
  ASSUME IInv, NEW p \in Executions, PlanFromCache(p)
  PROVE  IInv'
<1> DEFINE d == Cached(p)
<1>1. pc[p] = "scheduled" /\ d # NoDag /\ Verify(p, d)
      /\ UNCHANGED planVars
      /\ UNCHANGED <<budgets, routeVars, stage, failed, continues, results>>
  BY DEF PlanFromCache
<1>2. GoalOf[p] \in Goals
  BY GoalAssumption
<1>3. d \in Executions /\ Planned(d)
  BY <1>1, <1>2 DEF Cached, IInv, TypeOK, PlanTypeOK, PlansFixed
<1>4. Len(dags'[d]) >= 1 /\ PlanTypeOK' /\ UNCHANGED <<dags, plan_cache>>
  BY <1>1, <1>3 DEF planVars, Planned, IInv, TypeOK, PlanTypeOK
<1> HIDE DEF d
<1> QED BY <1>1, <1>3, <1>4, VerifyKeeps

LEMMA PlanWithModelKeeps ==
  ASSUME IInv, NEW p \in Executions, PlanWithModel(p)
  PROVE  IInv'
<1>1. pc[p] = "llm" /\ Verify(p, p)
      /\ UNCHANGED <<budgets, routeVars, stage, failed, continues, results>>
  BY DEF PlanWithModel
<1>2. PICK n \in 1..MaxTasks : NewDag(p, n)
  BY DEF PlanWithModel
<1> DEFINE tasks == [k \in 1..n |-> "pending"]
<1>3. tasks \in Seq(TaskStatuses) /\ Len(tasks) = n /\ n \in 1..2
  BY DEF TaskStatuses, MaxTasks
<1>4. dags' = [dags EXCEPT ![p] = tasks]
      /\ plan_cache' = [plan_cache EXCEPT ![GoalOf[p]] = p]
  BY <1>2 DEF NewDag
<1> HIDE DEF tasks
<1>5. PlanTypeOK'
  <2>1. PlanTypeOK /\ GoalOf[p] \in Goals
    BY GoalAssumption DEF IInv, TypeOK
  <2>2. dags' \in [Executions -> Seq(TaskStatuses)]
    BY <1>3, <1>4, <2>1 DEF PlanTypeOK
  <2>3. \A e \in Executions : Len(dags'[e]) <= MaxTasks
    BY <1>3, <1>4, <2>1 DEF PlanTypeOK, MaxTasks
  <2>4. plan_cache' \in [Goals -> Executions \cup {NoDag}]
    BY <1>4, <2>1 DEF PlanTypeOK
  <2> QED BY <2>2, <2>3, <2>4 DEF PlanTypeOK
<1>6. Len(dags'[p]) >= 1
  BY <1>3, <1>4 DEF IInv, TypeOK, PlanTypeOK
<1>7. \A e \in Executions : Planned(e) => Len(dags'[e]) = Len(dags[e])
  BY <1>1, <1>4 DEF Planned, IInv, TypeOK, PlanTypeOK
<1>8. \A g \in Goals : plan_cache'[g] = plan_cache[g] \/ plan_cache'[g] = p
  BY <1>4 DEF IInv, TypeOK, PlanTypeOK
<1> QED BY <1>1, <1>5, <1>6, <1>7, <1>8, VerifyKeeps
--------------------------------------------------------------------------------
\* What is known of an execution that is past its planning.
LEMMA RunningFacts ==
  ASSUME IInv, NEW p \in Executions, pc[p] \in {"ready", "task", "gathered"}
  PROVE  /\ Good(p) /\ TypeOK
         /\ dag[p] \in Executions
         /\ dags[dag[p]] \in Seq(TaskStatuses)
         /\ Len(dags[dag[p]]) \in 1..MaxTasks
         /\ pc[p] # "ready" =>
              stage[p] \in 1..Len(dags[dag[p]]) /\ results[p] = stage[p] - 1
<1>1. Good(p) /\ TypeOK /\ dag[p] \in Executions
  BY DEF IInv, Good, GoodRun
<1>2. Planned(dag[p])
  BY <1>1 DEF IInv, PlansFixed
<1>3. dags[dag[p]] \in Seq(TaskStatuses) /\ Len(dags[dag[p]]) <= MaxTasks
  BY <1>1 DEF TypeOK, PlanTypeOK
<1>4. Len(dags[dag[p]]) \in 1..MaxTasks
  <2>1. Len(dags[dag[p]]) \in Nat
    BY <1>3
  <2>2. Len(dags[dag[p]]) >= 1
    BY <1>2 DEF Planned
  <2>3. \A n \in Nat : n >= 1 /\ n <= MaxTasks => n \in 1..MaxTasks
    BY DEF MaxTasks
  <2> QED BY <1>3, <2>1, <2>2, <2>3, Zenon
<1> QED BY <1>1, <1>3, <1>4 DEF Good, GoodRun

\* The execution takes its task to an agent or from one; the plan may change
\* its statuses.
LEMMA TaskMovesKeeps ==
  ASSUME IInv, NEW p \in Executions, pc[p] \in {"task", "gathered"},
         TypeOK', Frame(p),
         UNCHANGED <<budgets, plan_cache, status, stored, dag, stage, results>>,
         pc'[p] \in {"task", "gathered"}, GoodRoute(p)',
         \A e \in Executions : Len(dags'[e]) = Len(dags[e])
  PROVE  IInv'
<1>1. Good(p) /\ dag[p] \in Executions
  BY RunningFacts
<1>2. Len(dags'[dag[p]]) = Len(dags[dag[p]])
  BY <1>1
<1>3. PlansKept(p)
  BY DEF PlansKept
<1>4. GoodBudget(p)'
  BY <1>1, <1>2 DEF Good, GoodBudget, Tracked
<1>5. (GoodRun(p) /\ GoodReport(p))'
  BY <1>1, <1>2 DEF Good, GoodRun, GoodReport
<1> QED BY <1>3, <1>4, <1>5, OneIsEnough DEF Good

\* A task of p is over.
LEMMA UnrouteKeeps ==
  ASSUME IInv, NEW p \in Executions, Unroute(p), pc'[p] # "task"
  PROVE  /\ RouteTypeOK' /\ GoodRoute(p)'
         /\ \A q \in Executions : q # p =>
              best'[q] = best[q] /\ agent'[q] = agent[q] /\ tried'[q] = tried[q]
<1>1. RouteTypeOK
  BY DEF IInv, TypeOK
<1>2. RouteTypeOK' /\ best'[p] = 0 /\ agent'[p] = 0 /\ tried'[p] = {}
  BY <1>1, NumAgentsAssumption DEF Unroute, RouteTypeOK, Tools
<1>3. \A q \in Executions : q # p =>
        best'[q] = best[q] /\ agent'[q] = agent[q] /\ tried'[q] = tried[q]
  BY <1>1 DEF Unroute, RouteTypeOK
<1> QED BY <1>2, <1>3 DEF GoodRoute

LEMMA TaskReturnsKeeps ==
  ASSUME IInv, NEW p \in Executions, TaskReturns(p)
  PROVE  IInv'
<1>1. pc[p] = "task" /\ Unroute(p)
      /\ pc' = [pc EXCEPT ![p] = "gathered"] /\ failed' = [failed EXCEPT ![p] = FALSE]
      /\ UNCHANGED <<budgets, planVars, status, stored, dag, stage, continues, results>>
  BY DEF TaskReturns
<1>2. TypeOK /\ pc'[p] = "gathered"
  BY <1>1 DEF IInv, TypeOK
<1>3. /\ RouteTypeOK' /\ GoodRoute(p)'
      /\ \A q \in Executions : q # p =>
           best'[q] = best[q] /\ agent'[q] = agent[q] /\ tried'[q] = tried[q]
  BY <1>1, <1>2, UnrouteKeeps
<1>4. TypeOK'
  BY <1>1, <1>2, <1>3 DEF TypeOK, BudgetTypeOK, PlanTypeOK, planVars, PCs
<1>5. Frame(p)
  BY <1>1, <1>2, <1>3 DEF Frame, TypeOK
<1> QED BY <1>1, <1>2, <1>3, <1>4, <1>5, TaskMovesKeeps DEF planVars

LEMMA TaskRaisesKeeps ==
  ASSUME IInv, NEW p \in Executions, TaskRaises(p)
  PROVE  IInv'
<1>1. pc[p] = "task" /\ Unroute(p) /\ SetStatus(dag[p], stage[p], "failed")
      /\ pc' = [pc EXCEPT ![p] = "gathered"] /\ failed' = [failed EXCEPT ![p] = TRUE]
      /\ UNCHANGED <<budgets, plan_cache, status, stored, dag, stage, continues, results>>
  BY DEF TaskRaises
<1>2. TypeOK /\ pc'[p] = "gathered"
  BY <1>1 DEF IInv, TypeOK
<1>3. /\ RouteTypeOK' /\ GoodRoute(p)'
      /\ \A q \in Executions : q # p =>
           best'[q] = best[q] /\ agent'[q] = agent[q] /\ tried'[q] = tried[q]
  BY <1>1, <1>2, UnrouteKeeps
<1>4. /\ dags' \in [Executions -> Seq(TaskStatuses)]
      /\ \A e \in Executions : Len(dags'[e]) = Len(dags[e])
  <2>1. /\ dags \in [Executions -> Seq(TaskStatuses)] /\ dag[p] \in Executions
        /\ stage[p] \in 1..Len(dags[dag[p]]) /\ "failed" \in TaskStatuses
    BY <1>1, <1>2, RunningFacts DEF TypeOK, PlanTypeOK, TaskStatuses
  <2>2. dags' = [dags EXCEPT ![dag[p]][stage[p]] = "failed"]
    BY <1>1 DEF SetStatus
  <2> QED BY <2>1, <2>2, StatusRecorded
<1>5. PlanTypeOK'
  BY <1>1, <1>2, <1>4 DEF TypeOK, PlanTypeOK
<1>6. TypeOK'
  BY <1>1, <1>2, <1>3, <1>5 DEF TypeOK, BudgetTypeOK, PCs
<1>7. Frame(p)
  BY <1>1, <1>2, <1>3 DEF Frame, TypeOK
<1> QED BY <1>1, <1>2, <1>3, <1>4, <1>6, <1>7, TaskMovesKeeps

LEMMA AgentFailsKeeps ==
  ASSUME IInv, NEW p \in Executions, AgentFails(p)
  PROVE  IInv'
<1>1. pc[p] = "task" /\ agent[p] # Tools /\ TryNext(p)
      /\ UNCHANGED <<budgets, planVars, status, pc, stored, runVars>>
  BY DEF AgentFails
<1>2. PICK next \in StillToTry(p) :
        /\ \A a \in StillToTry(p) : next <= a
        /\ agent' = [agent EXCEPT ![p] = next]
        /\ tried' = [tried EXCEPT ![p] = @ \cup {agent[p]}]
        /\ UNCHANGED best
  BY <1>1 DEF TryNext
<1>3. /\ TypeOK /\ RouteTypeOK /\ NumAgents \in Nat \ {0}
      /\ best[p] \in 1..NumAgents /\ agent[p] \in 1..NumAgents
      /\ tried[p] = IF agent[p] = best[p] THEN {}
                    ELSE {best[p]} \cup {a \in 1..NumAgents : a < agent[p]}
  <2>1. TypeOK /\ RouteTypeOK /\ GoodRoute(p)
    BY DEF IInv, TypeOK, Good
  <2> QED BY <1>1, <2>1, NumAgentsAssumption DEF GoodRoute, Tools
<1>4. next \in 1..Tools /\ next # best[p]
  BY <1>2, <1>3 DEF StillToTry, Tools
<1>5. {a \in 1..NumAgents : a < next} =
        (IF agent[p] = best[p] THEN {} ELSE {a \in 1..NumAgents : a <= agent[p]})
          \cup ({a \in 1..NumAgents : a < next} \cap {best[p]})
  <2>1. CASE agent[p] = best[p]
    <3>1. \A a \in 1..NumAgents : a # best[p] => next <= a
      BY <1>2, <1>3, <2>1 DEF StillToTry, Tools
    <3> QED BY <1>3, <1>4, <2>1, <3>1 DEF Tools
  <2>2. CASE agent[p] # best[p]
    <3>1. \A a \in 1..NumAgents : a > agent[p] /\ a # best[p] => next <= a
      BY <1>2, <1>3, <2>2 DEF StillToTry, Tools
    <3>2. next > agent[p]
      BY <1>2, <1>3, <2>2 DEF StillToTry, Tools
    <3> QED BY <1>3, <1>4, <2>2, <3>1, <3>2 DEF Tools
  <2> QED BY <2>1, <2>2
<1>6. tried'[p] = {best[p]} \cup {a \in 1..NumAgents : a < next}
  <2>1. tried'[p] = tried[p] \cup {agent[p]}
    BY <1>2, <1>3 DEF RouteTypeOK
  <2> QED BY <1>3, <1>5, <2>1
<1>7. RouteTypeOK' /\ agent'[p] = next
  BY <1>2, <1>3, <1>4 DEF RouteTypeOK, Tools
<1>8. GoodRoute(p)'
  BY <1>1, <1>2, <1>3, <1>4, <1>6, <1>7 DEF GoodRoute
<1>9. TypeOK'
  BY <1>1, <1>3, <1>7 DEF TypeOK, BudgetTypeOK, PlanTypeOK, planVars, runVars
<1>10. Frame(p)
  BY <1>1, <1>2, <1>3 DEF Frame, TypeOK, RouteTypeOK, runVars
<1> QED BY <1>1, <1>8, <1>9, <1>10, TaskMovesKeeps DEF planVars, runVars
--------------------------------------------------------------------------------
\* gather hands over a result: the plan keeps its lengths, and a failure shows
\* in it as the text update_dag stumbles over.
LEMMA ResultRecorded ==
  ASSUME IInv, NEW p \in Executions, pc[p] = "gathered"
  PROVE  /\ Recorded(p) \in [Executions -> Seq(TaskStatuses)]
         /\ \A e \in Executions : Len(Recorded(p)[e]) = Len(dags[e])
         /\ failed[p] => UpdateDagRaises(Recorded(p)[dag[p]])
<1> DEFINE s == IF failed[p] THEN "failed text" ELSE "completed"
<1>1. /\ dags \in [Executions -> Seq(TaskStatuses)] /\ dag[p] \in Executions
      /\ stage[p] \in 1..Len(dags[dag[p]]) /\ s \in TaskStatuses
  BY RunningFacts DEF TypeOK, PlanTypeOK, TaskStatuses
<1>2. Recorded(p) = [dags EXCEPT ![dag[p]][stage[p]] = s]
  BY DEF Recorded
<1>3. failed[p] => s = "failed text"
  OBVIOUS
<1> HIDE DEF s
<1>4. /\ Recorded(p) \in [Executions -> Seq(TaskStatuses)]
      /\ \A e \in Executions : Len(Recorded(p)[e]) = Len(dags[e])
      /\ stage[p] \in DOMAIN Recorded(p)[dag[p]] /\ Recorded(p)[dag[p]][stage[p]] = s
  BY <1>1, <1>2, StatusRecorded
<1> QED BY <1>3, <1>4 DEF UpdateDagRaises

\* A failure is never passed over, and the cost of a level stays within the
\* estimate.
LEMMA CostCharged ==
  ASSUME IInv, NEW p \in Executions, pc[p] = "gathered", Charge(p)
  PROVE  /\ BudgetTypeOK' /\ results' \in [Executions -> 0..MaxTasks]
         /\ \A q \in Executions : q # p =>
              budgets'[q] = budgets[q] /\ results'[q] = results[q]
         /\ budgets'[p].limit = budgets[p].limit
         /\ budgets'[p].spent = IF Tracked(p) THEN 9 * results'[p] ELSE 0
         /\ Tracked(p) => budgets'[p].spent <= budgets[p].limit
         /\ ~failed[p] => results'[p] = stage[p]
<1> DEFINE len == Len(dags[dag[p]])
<1>1. /\ BudgetTypeOK /\ results \in [Executions -> 0..MaxTasks]
      /\ len \in 1..MaxTasks /\ stage[p] \in 1..len /\ results[p] = stage[p] - 1
      /\ budgets[p].spent = IF Tracked(p) THEN 9 * results[p] ELSE 0
      /\ Tracked(p) => 10 * len <= budgets[p].limit
      /\ budgets[p].limit \in Nat
  BY RunningFacts DEF TypeOK, Good, GoodBudget, BudgetTypeOK
<1> HIDE DEF len
<1>2. CASE failed[p] /\ UNCHANGED <<budgets, results>>
  BY <1>1, <1>2 DEF BudgetTypeOK, MaxTasks
<1>3. CASE ~failed[p] /\ AddCost(p, ActualCost) /\ results' = [results EXCEPT ![p] = @ + 1]
  <2>1. ActualCost = 9 /\ ActualCost \in Nat
    BY DEF ActualCost
  <2>2. /\ BudgetTypeOK'
        /\ \A q \in Executions : q # p => budgets'[q] = budgets[q]
        /\ budgets'[p].limit = budgets[p].limit
        /\ budgets'[p].spent = IF Tracked(p) THEN budgets[p].spent + ActualCost
                               ELSE budgets[p].spent
    BY <1>1, <1>3, <2>1, CostAdded
  <2>3. /\ results' \in [Executions -> 0..MaxTasks] /\ results'[p] = stage[p]
        /\ \A q \in Executions : q # p => results'[q] = results[q]
    BY <1>1, <1>3 DEF MaxTasks
  <2> QED BY <1>1, <1>3, <2>1, <2>2, <2>3
<1> QED BY <1>2, <1>3 DEF Charge

\* The execution ends with its level, as s.
LEMMA LevelEnds ==
  ASSUME IInv, NEW p \in Executions, pc[p] = "gathered", Charge(p),
         dags' = Recorded(p), NEW s \in {"completed", "failed"}, End(p, s),
         UNCHANGED <<plan_cache, routeVars, dag, stage, failed, continues>>,
         s = "completed" => ~failed[p] /\ stage[p] = Len(dags[dag[p]])
  PROVE  IInv'
<1>1. Good(p) /\ TypeOK /\ dag[p] \in Executions
  BY RunningFacts
<1>2. pc' = [pc EXCEPT ![p] = "ended"] /\ status' = [status EXCEPT ![p] = s]
      /\ stored' = [stored EXCEPT ![p] = s]
  BY DEF End, Goto
<1>3. pc'[p] = "ended" /\ status'[p] = s /\ stored'[p] = s
  BY <1>1, <1>2 DEF TypeOK
<1>4. /\ dags' \in [Executions -> Seq(TaskStatuses)]
      /\ \A e \in Executions : Len(dags'[e]) = Len(dags[e])
  BY ResultRecorded
<1>5. TypeOK'
  <2>1. PlanTypeOK'
    BY <1>1, <1>4 DEF TypeOK, PlanTypeOK
  <2>2. status' \in [Executions -> Statuses] /\ pc' \in [Executions -> PCs]
        /\ stored' \in [Executions -> {"none", "completed", "failed"}]
    BY <1>1, <1>2 DEF TypeOK, Statuses, PCs
  <2>3. BudgetTypeOK' /\ results' \in [Executions -> 0..MaxTasks]
    BY CostCharged
  <2> QED BY <1>1, <2>1, <2>2, <2>3 DEF TypeOK, RouteTypeOK, routeVars
<1>6. Frame(p)
  BY <1>1, <1>2, CostCharged DEF Frame, TypeOK, routeVars
<1>7. PlansKept(p)
  BY <1>3, <1>4 DEF PlansKept
<1>8. GoodBudget(p)'
  <2>1. /\ budgets'[p].limit = budgets[p].limit
        /\ budgets'[p].spent = IF Tracked(p) THEN 9 * results'[p] ELSE 0
        /\ Tracked(p) => budgets'[p].spent <= budgets[p].limit
    BY CostCharged
  <2> QED BY <1>3, <2>1 DEF GoodBudget, Tracked
<1>9. GoodRun(p)'
  <2>1. ~failed[p] => results'[p] = stage[p]
    BY CostCharged
  <2>2. Len(dags'[dag[p]]) = Len(dags[dag[p]])
    BY <1>1, <1>4
  <2> QED BY <1>1, <1>3, <2>1, <2>2 DEF GoodRun
<1>10. (GoodReport(p) /\ GoodRoute(p))'
  BY <1>1, <1>3 DEF Good, GoodReport, GoodRoute, routeVars
<1> QED BY <1>5, <1>6, <1>7, <1>8, <1>9, <1>10, OneIsEnough DEF Good

LEMMA LevelFailsKeeps ==
  ASSUME IInv, NEW p \in Executions, LevelFails(p)
  PROVE  IInv'
BY LevelEnds DEF LevelFails

\* A level that raises nothing did not fail.
LEMMA NoFailurePassed ==
  ASSUME IInv, NEW p \in Executions, pc[p] = "gathered", ~LevelRaises(p)
  PROVE  ~failed[p]
BY ResultRecorded DEF LevelRaises

LEMMA LastLevelKeeps ==
  ASSUME IInv, NEW p \in Executions, LastLevel(p)
  PROVE  IInv'
BY LevelEnds, NoFailurePassed DEF LastLevel
--------------------------------------------------------------------------------
\* The task of level k starts, with the k - 1 results of the earlier ones.
LEMMA TaskStarts ==
  ASSUME IInv, NEW p \in Executions, pc[p] \in {"ready", "gathered"},
         NEW ds \in [Executions -> Seq(TaskStatuses)],
         \A e \in Executions : Len(ds[e]) = Len(dags[e]),
         NEW k \in 1..Len(dags[dag[p]]), StartTask(p, ds, k),
         UNCHANGED <<plan_cache, stored, dag, failed, continues>>,
         BudgetTypeOK', results' \in [Executions -> 0..MaxTasks],
         \A q \in Executions : q # p =>
           budgets'[q] = budgets[q] /\ results'[q] = results[q],
         GoodBudget(p)', results'[p] = k - 1
  PROVE  IInv'
<1>1. /\ Good(p) /\ TypeOK /\ dag[p] \in Executions
      /\ Len(dags[dag[p]]) \in 1..MaxTasks /\ NumAgents \in Nat \ {0}
  BY RunningFacts, NumAgentsAssumption
<1>2. /\ dags' = [ds EXCEPT ![dag[p]][k] = "running"]
      /\ stage' = [stage EXCEPT ![p] = k]
      /\ pc' = [pc EXCEPT ![p] = "task"] /\ status' = [status EXCEPT ![p] = "executing"]
  BY DEF StartTask, Goto
<1>3. pc'[p] = "task" /\ status'[p] = "executing" /\ stage'[p] = k
  BY <1>1, <1>2 DEF TypeOK
<1>4. /\ dags' \in [Executions -> Seq(TaskStatuses)]
      /\ \A e \in Executions : Len(dags'[e]) = Len(dags[e])
  <2>1. k \in 1..Len(ds[dag[p]]) /\ "running" \in TaskStatuses
    BY <1>1 DEF TaskStatuses
  <2> QED BY <1>1, <1>2, <2>1, StatusRecorded
<1>5. PICK b \in 1..NumAgents :
        /\ best' = [best EXCEPT ![p] = b]
        /\ agent' = [agent EXCEPT ![p] = b]
        /\ tried' = [tried EXCEPT ![p] = {}]
  BY DEF StartTask, Route
<1>6. /\ RouteTypeOK' /\ best'[p] = b /\ agent'[p] = b /\ tried'[p] = {}
      /\ \A q \in Executions : q # p =>
           best'[q] = best[q] /\ agent'[q] = agent[q] /\ tried'[q] = tried[q]
  BY <1>1, <1>5, SMTT(30) DEF TypeOK, RouteTypeOK, Tools
<1>7. TypeOK'
  <2>1. PlanTypeOK'
    BY <1>1, <1>4 DEF TypeOK, PlanTypeOK
  <2>2. status' \in [Executions -> Statuses] /\ pc' \in [Executions -> PCs]
    BY <1>1, <1>2 DEF TypeOK, Statuses, PCs
  <2>3. stage' \in [Executions -> 0..MaxTasks]
    BY <1>1, <1>2 DEF TypeOK, MaxTasks
  <2> QED BY <1>1, <1>6, <2>1, <2>2, <2>3 DEF TypeOK
<1>8. Frame(p)
  BY <1>1, <1>2, <1>6 DEF Frame, TypeOK
<1>9. PlansKept(p)
  BY <1>3, <1>4 DEF PlansKept
<1>10. GoodRun(p)'
  <2>1. Len(dags'[dag[p]]) = Len(dags[dag[p]])
    BY <1>1, <1>4
  <2> QED BY <1>1, <1>3, <2>1 DEF GoodRun
<1>11. (GoodReport(p) /\ GoodRoute(p))'
  BY <1>1, <1>3, <1>6 DEF Good, GoodReport, GoodRoute, Tools
<1> QED BY <1>7, <1>8, <1>9, <1>10, <1>11, OneIsEnough DEF Good

LEMMA ExecuteKeeps ==
  ASSUME IInv, NEW p \in Executions, Execute(p)
  PROVE  IInv'
<1>1. pc[p] = "ready" /\ StartTask(p, dags, 1)
      /\ UNCHANGED <<budgets, plan_cache, stored, dag, failed, continues, results>>
  BY DEF Execute
<1>2. /\ Good(p) /\ TypeOK /\ dag[p] \in Executions
      /\ Len(dags[dag[p]]) \in 1..MaxTasks /\ results[p] = 0
  BY <1>1, RunningFacts DEF Good, GoodRun
<1>3. 1 \in 1..Len(dags[dag[p]]) /\ results'[p] = 1 - 1
  <2>1. \A n \in 1..MaxTasks : 1 \in 1..n
    BY DEF MaxTasks
  <2>2. results'[p] = 0 /\ 1 - 1 = 0
    BY <1>1, <1>2
  <2> QED BY <1>2, <2>1, <2>2
<1>4. pc'[p] = "task" /\ Len(dags'[dag[p]]) = Len(dags[dag[p]])
  <2>1. pc'[p] = "task"
    BY <1>1, <1>2 DEF StartTask, Goto, TypeOK
  <2>2. dags' = [dags EXCEPT ![dag[p]][1] = "running"] /\ "running" \in TaskStatuses
        /\ dags \in [Executions -> Seq(TaskStatuses)]
    BY <1>1, <1>2 DEF StartTask, TypeOK, PlanTypeOK, TaskStatuses
  <2> QED BY <1>2, <1>3, <2>1, <2>2, StatusRecorded
<1>5. GoodBudget(p)'
  BY <1>1, <1>2, <1>4 DEF Good, GoodBudget, Tracked
<1> QED BY <1>1, <1>2, <1>3, <1>5, TaskStarts DEF TypeOK, PlanTypeOK, BudgetTypeOK

LEMMA NextLevelKeeps ==
  ASSUME IInv, NEW p \in Executions, NextLevel(p)
  PROVE  IInv'
<1>1. /\ pc[p] = "gathered" /\ ~LevelRaises(p) /\ Charge(p)
      /\ stage[p] < Len(dags[dag[p]])
      /\ StartTask(p, Recorded(p), stage[p] + 1)
      /\ UNCHANGED <<plan_cache, stored, dag, failed, continues>>
  BY DEF NextLevel
<1>2. /\ Good(p) /\ TypeOK /\ dag[p] \in Executions
      /\ Len(dags[dag[p]]) \in 1..MaxTasks /\ stage[p] \in 1..Len(dags[dag[p]])
  BY <1>1, RunningFacts
<1>3. stage[p] + 1 \in 1..Len(dags[dag[p]])
  <2>1. \A n \in 1..MaxTasks : \A k \in 1..n : k < n => k + 1 \in 1..n
    BY DEF MaxTasks
  <2> QED BY <1>1, <1>2, <2>1
<1>4. /\ Recorded(p) \in [Executions -> Seq(TaskStatuses)]
      /\ \A e \in Executions : Len(Recorded(p)[e]) = Len(dags[e])
  BY <1>1, ResultRecorded
<1>5. /\ BudgetTypeOK' /\ results' \in [Executions -> 0..MaxTasks]
      /\ \A q \in Executions : q # p =>
           budgets'[q] = budgets[q] /\ results'[q] = results[q]
      /\ budgets'[p].limit = budgets[p].limit
      /\ budgets'[p].spent = IF Tracked(p) THEN 9 * results'[p] ELSE 0
      /\ Tracked(p) => budgets'[p].spent <= budgets[p].limit
      /\ results'[p] = (stage[p] + 1) - 1
  <2>1. ~failed[p]
    BY <1>1, NoFailurePassed
  <2>2. (stage[p] + 1) - 1 = stage[p]
    BY <1>2
  <2> QED BY <1>1, <2>1, <2>2, CostCharged
<1>6. pc'[p] = "task" /\ Len(dags'[dag[p]]) = Len(dags[dag[p]])
  <2>1. pc'[p] = "task"
    BY <1>1, <1>2 DEF StartTask, Goto, TypeOK
  <2>2. dags' = [Recorded(p) EXCEPT ![dag[p]][stage[p] + 1] = "running"]
        /\ "running" \in TaskStatuses /\ stage[p] + 1 \in 1..Len(Recorded(p)[dag[p]])
    BY <1>1, <1>2, <1>3, <1>4 DEF StartTask, TaskStatuses
  <2> QED BY <1>2, <1>4, <2>1, <2>2, StatusRecorded
<1>7. GoodBudget(p)'
  BY <1>1, <1>2, <1>5, <1>6 DEF Good, GoodBudget, Tracked
<1> QED BY <1>1, <1>3, <1>4, <1>5, <1>7, TaskStarts
--------------------------------------------------------------------------------
LEMMA InvInit == Init => IInv
<1> SUFFICES ASSUME Init PROVE IInv
  OBVIOUS
<1> USE DEF Init, BudgetInit, PlanInit, RouteInit
<1>1. BudgetTypeOK
  <2>1. Untracked \in [limit : Nat, spent : Nat]
    BY DEF Untracked
  <2> QED BY <2>1 DEF BudgetTypeOK
<1>2. PlanTypeOK
  <2>1. <<>> \in Seq(TaskStatuses) /\ Len(<<>>) <= MaxTasks
    BY DEF MaxTasks
  <2> QED BY <2>1 DEF PlanTypeOK
<1>3. TypeOK
  BY <1>1, <1>2, NumAgentsAssumption DEF TypeOK, RouteTypeOK, Tools, Statuses, PCs, MaxTasks
<1>4. PlansFixed
  BY NoExecutionAssumption DEF PlansFixed, NoDag
<1>5. ASSUME NEW p \in Executions PROVE Good(p)
  <2>1. budgets[p].limit = 0 /\ budgets[p].spent = 0
    BY DEF Untracked
  <2> QED BY <2>1 DEF Good, GoodBudget, GoodRun, GoodReport, GoodRoute, Tracked
<1> QED BY <1>3, <1>4, <1>5 DEF IInv

LEMMA InvStep == IInv /\ [Next]_vars => IInv'
<1> SUFFICES ASSUME IInv, [Next]_vars PROVE IInv'
  OBVIOUS
<1>1. ASSUME NEW p \in Executions, Run(p)
      PROVE  IInv'
  BY <1>1, PlanFromCacheKeeps, AskModelKeeps, PlanWithModelKeeps, ModelFailsKeeps,
     ExecuteKeeps, TaskReturnsKeeps, AgentFailsKeeps, TaskRaisesKeeps,
     LevelFailsKeeps, NextLevelKeeps, LastLevelKeeps DEF Run
<1>2. CASE UNCHANGED vars
  <2>1. TypeOK'
    BY <1>2 DEF vars, planVars, routeVars, runVars, IInv, TypeOK, BudgetTypeOK,
       PlanTypeOK, RouteTypeOK
  <2>2. PlansFixed'
    BY <1>2 DEF vars, planVars, runVars, IInv, PlansFixed, Planned
  <2>3. ASSUME NEW p \in Executions PROVE Good(p)'
    <3>1. Good(p)
      BY DEF IInv
    <3> QED BY <1>2, <3>1 DEF vars, planVars, routeVars, runVars, Good, GoodBudget,
          GoodRun, GoodReport, GoodRoute, Tracked
  <2> QED BY <2>1, <2>2, <2>3 DEF IInv
<1> QED BY <1>1, <1>2, ScheduleKeeps, CancelKeeps DEF Next

\* The invariant holds for any number of executions, goals and agents.
THEOREM Inductive == Spec => []IInv
BY InvInit, InvStep, PTL DEF Spec

(***************************************************************************)
(* TypeOK, which bounds the level and the results of an execution by the   *)
(* length a plan can have, however executions share plans.                 *)
(***************************************************************************)
THEOREM SchedulerTypeCorrect == Spec => []TypeOK
<1>1. IInv => TypeOK
  BY DEF IInv
<1> QED BY <1>1, Inductive, PTL

(***************************************************************************)
(* CompletedHasAllResults: a status "completed" always stands for a result *)
(* of each task of the plan.                                               *)
(***************************************************************************)
THEOREM CompletionIsHonest == Spec => []CompletedHasAllResults
<1>1. IInv => CompletedHasAllResults
  BY DEF IInv, Good, GoodRun, CompletedHasAllResults
<1> QED BY <1>1, Inductive, PTL

(***************************************************************************)
(* BudgetKept: checking the estimate once, when the plan is made, keeps    *)
(* every execution within its limit.                                       *)
(***************************************************************************)
THEOREM BudgetIsKept == Spec => []BudgetKept
<1>1. IInv => BudgetKept
  BY DEF IInv, Good, GoodBudget, BudgetKept
<1> QED BY <1>1, Inductive, PTL

(***************************************************************************)
(* ReportsStoredResult: the status reported agrees with the stored result. *)
(***************************************************************************)
THEOREM ReportsAgree == Spec => []ReportsStoredResult
<1>1. IInv => ReportsStoredResult
  BY DEF IInv, Good, GoodReport, ReportsStoredResult
<1> QED BY <1>1, Inductive, PTL

(***************************************************************************)
(* EveryAgentTried: the tools are tried after every agent, and no agent    *)
(* that failed a task is tried again.                                      *)
(***************************************************************************)
THEOREM ToolsAreLast == Spec => []EveryAgentTried
<1>1. ASSUME IInv, NEW p \in Executions
      PROVE  /\ agent[p] = Tools => tried[p] = 1..NumAgents
             /\ agent[p] \notin tried[p]
  <2>1. GoodRoute(p) /\ NumAgents \in Nat \ {0}
    BY <1>1, NumAgentsAssumption DEF IInv, Good
  <2>2. CASE pc[p] = "task"
    <3>1. /\ best[p] \in 1..NumAgents /\ agent[p] \in 1..Tools
          /\ tried[p] = IF agent[p] = best[p] THEN {}
                        ELSE {best[p]} \cup {a \in 1..NumAgents : a < agent[p]}
      BY <2>1, <2>2 DEF GoodRoute
    <3>2. agent[p] = Tools => agent[p] # best[p] /\ \A a \in 1..NumAgents : a < agent[p]
      BY <2>1, <3>1 DEF Tools
    <3>3. agent[p] \notin {a \in 1..NumAgents : a < agent[p]}
      BY <2>1, <3>1 DEF Tools
    <3> QED BY <3>1, <3>2, <3>3
  <2>3. CASE pc[p] # "task"
    BY <2>1, <2>3 DEF GoodRoute, Tools
  <2> QED BY <2>2, <2>3
<1>2. IInv => EveryAgentTried
  BY <1>1 DEF EveryAgentTried
<1> QED BY <1>2, Inductive, PTL
--------------------------------------------------------------------------------
(***************************************************************************)
(* DomainAgents.  That the rounds of a task are bounded is inductive only  *)
(* together with how many agents have begun so far: the bound of the best  *)
(* agent counts its own retries, that of the others the agents up to the   *)
(* present one and the retries they share.                                 *)
(***************************************************************************)
\* What a routed task has run: the best agent has begun once more than the retries
\* it has used; once it has raised, the others up to the present one have begun once
\* each and once for each retry the task has used since.
OtherAgents(t) == {a \in Agents : a # best[t]}
OthersUpTo(t, last) == {a \in OtherAgents(t) : a <= last}
OthersBegun(t) == SumOver(rounds[t], OtherAgents(t))

RoundsKept(t) ==
  /\ best[t] = 0 => retryCount[t] = 0 /\ \A a \in Agents : rounds[t][a] = 0
  /\ best[t] # 0 =>
       /\ agent[t] # 0
       /\ rounds[t][best[t]] <= MaxRetries + 1
       /\ agent[t] = best[t] =>
            /\ rounds[t][best[t]] = retryCount[t] + 1
            /\ \A a \in OtherAgents(t) : rounds[t][a] = 0
       /\ agent[t] # best[t] =>
            /\ \A a \in OtherAgents(t) : a > agent[t] => rounds[t][a] = 0
            /\ OthersBegun(t) <= Cardinality(OthersUpTo(t, agent[t])) + retryCount[t]

PlaceKept(t) == place[t] = "queued" <=> best[t] = 0

AgentsInv == AgentsTypeOK /\ \A t \in Executions : PlaceKept(t) /\ RoundsKept(t)
--------------------------------------------------------------------------------
\* A step of task t leaves what the others have begun alone.
OthersStay(t) ==
  \A u \in Executions \ {t} :
    /\ place'[u] = place[u] /\ retryCount'[u] = retryCount[u]
    /\ rounds'[u] = rounds[u] /\ best'[u] = best[u] /\ agent'[u] = agent[u]

\* So a step keeps the invariant that keeps it for its own task.
LEMMA OneTaskIsEnough ==
  ASSUME AgentsInv, NEW t \in Executions, AgentsTypeOK', OthersStay(t),
         PlaceKept(t)', RoundsKept(t)'
  PROVE  AgentsInv'
<1>1. ASSUME NEW u \in Executions, u # t
      PROVE  PlaceKept(u)' /\ RoundsKept(u)'
  <2>1. PlaceKept(u) /\ RoundsKept(u)
    BY DEF AgentsInv
  <2>2. /\ place'[u] = place[u] /\ retryCount'[u] = retryCount[u]
        /\ rounds'[u] = rounds[u] /\ best'[u] = best[u] /\ agent'[u] = agent[u]
    BY <1>1 DEF OthersStay
  <2>3. OtherAgents(u)' = OtherAgents(u)
    BY <2>2 DEF OtherAgents
  <2>4. OthersUpTo(u, agent[u])' = OthersUpTo(u, agent[u])
    BY <2>2, <2>3 DEF OthersUpTo
  <2>5. OthersBegun(u)' = OthersBegun(u)
    BY <2>2, <2>3 DEF OthersBegun
  <2> QED BY <2>1, <2>2, <2>3, <2>4, <2>5 DEF PlaceKept, RoundsKept
<1> QED BY <1>1 DEF AgentsInv

\* The agents are finitely many, and what they have begun are numbers.
LEMMA AgentsAreFinite ==
  ASSUME AgentsTypeOK, NEW t \in Executions
  PROVE  /\ IsFiniteSet(OtherAgents(t)) /\ OtherAgents(t) \subseteq Agents
         /\ \A n : IsFiniteSet(OthersUpTo(t, n)) /\ Cardinality(OthersUpTo(t, n)) \in Nat
         /\ \A a \in Agents : rounds[t][a] \in Nat
         /\ OthersBegun(t) \in Nat
         /\ retryCount[t] \in Nat /\ NumAgents \in Nat /\ MaxRetries \in Nat
<1>1. NumAgents \in Nat /\ MaxRetries \in Nat
  BY NumAgentsAssumption, AgentsAssumption
<1>2. IsFiniteSet(Agents)
  BY <1>1, FS_Interval DEF Agents
<1>3. OtherAgents(t) \subseteq Agents
  BY DEF OtherAgents
<1>4. IsFiniteSet(OtherAgents(t))
  BY <1>2, <1>3, FS_Subset
<1>5. \A n : IsFiniteSet(OthersUpTo(t, n)) /\ Cardinality(OthersUpTo(t, n)) \in Nat
  BY <1>4, FS_Subset, FS_CardinalityType DEF OthersUpTo
<1>6. \A a \in Agents : rounds[t][a] \in Nat
  BY DEF AgentsTypeOK
<1>7. OthersBegun(t) \in Nat
  BY <1>3, <1>4, <1>6, SumIsNat DEF OthersBegun
<1>8. retryCount[t] \in Nat
  BY <1>1 DEF AgentsTypeOK
<1> QED BY <1>1, <1>3, <1>4, <1>5, <1>6, <1>7, <1>8

\* What the tools and the statistics are.
RestTypes ==
  /\ type \in [Agents -> Types]
  /\ tools \in [Executions -> Recommended \cup {0, OwnTools}]
  /\ at \in [Executions -> (0..3) \X (0..3)]
  /\ perf \in [Agents -> [total: Nat, ok: Nat]]

\* A step inside a round, or at its end.
GoesOn(t) ==
  /\ place[t] # "queued"
  /\ \E p \in {"think", "act", "store", "tools", "returned", "raised"} :
       place' = [place EXCEPT ![t] = p]
  /\ UNCHANGED <<retryCount, rounds, routeVars>>

LEMMA GoesOnKeeps ==
  ASSUME AgentsInv, NEW t \in Executions, GoesOn(t), RestTypes'
  PROVE  AgentsInv'
<1>1. AgentsTypeOK'
  <2>1. AgentsTypeOK /\ UNCHANGED <<retryCount, rounds, best, agent, tried>>
    BY DEF AgentsInv, GoesOn, routeVars
  <2>2. RouteTypeOK'
    BY <2>1 DEF AgentsTypeOK, RouteTypeOK
  <2>3. PICK p \in {"think", "act", "store", "tools", "returned", "raised"} :
          place' = [place EXCEPT ![t] = p]
    BY DEF GoesOn
  <2> QED BY <2>1, <2>2, <2>3 DEF AgentsTypeOK, RestTypes
<1>2. OthersStay(t)
  BY DEF AgentsInv, AgentsTypeOK, GoesOn, routeVars, OthersStay
<1>3. PlaceKept(t)'
  <2>1. place'[t] # "queued"
    BY DEF AgentsInv, AgentsTypeOK, GoesOn
  <2> QED BY <2>1 DEF AgentsInv, GoesOn, PlaceKept, routeVars
<1>4. RoundsKept(t)'
  <2>1. RoundsKept(t)
    BY DEF AgentsInv
  <2> QED BY <2>1 DEF GoesOn, routeVars, RoundsKept, OtherAgents, OthersUpTo, OthersBegun
<1> QED BY <1>1, <1>2, <1>3, <1>4, OneTaskIsEnough

\* The best agent begins: nobody has begun the task before.
LEMMA RouteTaskKeeps ==
  ASSUME AgentsInv, NEW t \in Executions, RouteTask(t)
  PROVE  AgentsInv'
<1>0. AgentsTypeOK /\ PlaceKept(t) /\ RoundsKept(t)
  BY DEF AgentsInv
<1>1. PICK b \in Agents :
        /\ best' = [best EXCEPT ![t] = b] /\ agent' = [agent EXCEPT ![t] = b]
        /\ tried' = [tried EXCEPT ![t] = {}]
  BY DEF RouteTask, Route, Agents
<1>2. b \in Nat /\ b # 0 /\ b \in 0..NumAgents /\ b \in 0..Tools
  BY NumAgentsAssumption DEF Agents, Tools
<1>3. best'[t] = b /\ agent'[t] = b
  BY <1>0, <1>1 DEF AgentsTypeOK, RouteTypeOK
<1>4. /\ place' = [place EXCEPT ![t] = "think"] /\ place[t] = "queued"
      /\ rounds' = [rounds EXCEPT ![t] = [rounds[t] EXCEPT ![b] = 1]]
      /\ UNCHANGED <<type, tools, at, retryCount, perf>>
  BY <1>0, <1>3 DEF RouteTask, AgentsTypeOK
<1>5. PICK r \in [Agents -> Nat] : r = [rounds[t] EXCEPT ![b] = 1]
  BY <1>0 DEF AgentsTypeOK
<1>6. rounds' = [rounds EXCEPT ![t] = r]
  BY <1>4, <1>5
<1>7. AgentsTypeOK'
  BY <1>0, <1>1, <1>2, <1>4, <1>6 DEF AgentsTypeOK, RouteTypeOK
<1>8. OthersStay(t)
  BY <1>0, <1>1, <1>4, <1>6 DEF AgentsTypeOK, RouteTypeOK, OthersStay
<1>9. PlaceKept(t)'
  BY <1>0, <1>2, <1>3, <1>4 DEF PlaceKept, AgentsTypeOK
<1>10. RoundsKept(t)'
  <2>1. \A a \in Agents : rounds[t][a] = 0
    BY <1>0, <1>4 DEF PlaceKept, RoundsKept
  <2>2. rounds'[t] = r /\ r[b] = 1 /\ \A a \in Agents : a # b => r[a] = 0
    BY <1>0, <1>5, <1>6, <2>1 DEF AgentsTypeOK
  <2>3. retryCount'[t] = 0
    BY <1>0, <1>4 DEF PlaceKept, RoundsKept
  <2>4. OtherAgents(t)' = Agents \ {b}
    BY <1>3 DEF OtherAgents
  <2>5. \A a \in OtherAgents(t)' : rounds'[t][a] = 0
    BY <2>2, <2>4
  <2>6. /\ best'[t] # 0 /\ agent'[t] # 0 /\ agent'[t] = best'[t]
        /\ rounds'[t][best'[t]] = retryCount'[t] + 1
        /\ rounds'[t][best'[t]] <= MaxRetries + 1
    BY <1>2, <1>3, <2>2, <2>3, AgentsAssumption
  <2> QED BY <2>5, <2>6 DEF RoundsKept
<1> QED BY <1>7, <1>8, <1>9, <1>10, OneTaskIsEnough

\* The agents up to the next one are those up to the last one, and the next one.
LEMMA OneMoreAgent ==
  ASSUME AgentsTypeOK, NEW t \in Executions, NEW last \in Nat, NEW next \in Nat,
         last < next
  PROVE  /\ Cardinality(OthersUpTo(t, last)) <= Cardinality(OthersUpTo(t, next))
         /\ next \in OtherAgents(t) =>
              Cardinality(OthersUpTo(t, last)) + 1 <= Cardinality(OthersUpTo(t, next))
<1>1. /\ \A n : IsFiniteSet(OthersUpTo(t, n)) /\ Cardinality(OthersUpTo(t, n)) \in Nat
      /\ OtherAgents(t) \subseteq Nat
  BY AgentsAreFinite DEF Agents
<1>2. OthersUpTo(t, last) \subseteq OthersUpTo(t, next)
  BY <1>1 DEF OthersUpTo
<1>3. Cardinality(OthersUpTo(t, last)) <= Cardinality(OthersUpTo(t, next))
  BY <1>1, <1>2, FS_Subset
<1>4. ASSUME next \in OtherAgents(t)
      PROVE  Cardinality(OthersUpTo(t, last)) + 1 <= Cardinality(OthersUpTo(t, next))
  <2>1. next \notin OthersUpTo(t, last) /\ next \in OthersUpTo(t, next)
    BY <1>4 DEF OthersUpTo
  <2>2. /\ IsFiniteSet(OthersUpTo(t, last) \cup {next})
        /\ Cardinality(OthersUpTo(t, last) \cup {next}) = Cardinality(OthersUpTo(t, last)) + 1
    BY <1>1, <2>1, FS_AddElement
  <2>3. OthersUpTo(t, last) \cup {next} \subseteq OthersUpTo(t, next)
    BY <1>2, <2>1
  <2>4. Cardinality(OthersUpTo(t, last) \cup {next}) <= Cardinality(OthersUpTo(t, next))
    BY <1>1, <2>3, FS_Subset
  <2> QED BY <2>2, <2>4
<1> QED BY <1>3, <1>4

\* The next agent is another than the best, and behind the last one tried; the retries
\* it finds are those the others have used.
LEMMA NextAgent ==
  ASSUME AgentsInv, NEW t \in Executions, agent[t] \in Agents, place[t] # "queued",
         TryNext(t)
  PROVE  \E next \in Nat \ {0}, last \in Nat :
           /\ last < next /\ next <= Tools /\ next # best[t]
           /\ agent' = [agent EXCEPT ![t] = next]
           /\ tried' = [tried EXCEPT ![t] = tried[t] \cup {agent[t]}]
           /\ best' = best
           /\ OthersBegun(t) <= Cardinality(OthersUpTo(t, last)) + NextContext(t)
           /\ \A a \in OtherAgents(t) : a > last => rounds[t][a] = 0
           /\ NextContext(t) \in 0..MaxRetries
<1>1. AgentsTypeOK /\ RoundsKept(t) /\ best[t] # 0
  BY DEF AgentsInv, PlaceKept
<1>2. PICK next \in StillToTry(t) :
        /\ agent' = [agent EXCEPT ![t] = next]
        /\ tried' = [tried EXCEPT ![t] = tried[t] \cup {agent[t]}]
        /\ best' = best
  BY DEF TryNext
<1>3. /\ IsFiniteSet(OtherAgents(t)) /\ OtherAgents(t) \subseteq Agents
      /\ \A n : Cardinality(OthersUpTo(t, n)) \in Nat
      /\ \A a \in Agents : rounds[t][a] \in Nat
      /\ retryCount[t] \in Nat /\ MaxRetries \in Nat /\ NumAgents \in Nat
  BY <1>1, AgentsAreFinite
<1>4. retryCount[t] \in 0..MaxRetries
  BY <1>1 DEF AgentsTypeOK
<1>5. CASE agent[t] = best[t]
  <2>1. next \in Nat \ {0} /\ 0 < next /\ next <= Tools /\ next # best[t]
    BY <1>3, <1>5 DEF StillToTry, Tools
  <2>2. \A a \in OtherAgents(t) : rounds[t][a] = 0
    BY <1>1, <1>5 DEF RoundsKept
  <2>3. SumOver(rounds[t], OtherAgents(t)) <= Cardinality(OtherAgents(t)) * 0
    BY <1>3, <2>2, SumOfBounded
  <2>4. OthersBegun(t) <= 0
    <3>1. Cardinality(OtherAgents(t)) \in Nat
      BY <1>3, FS_CardinalityType
    <3>2. Cardinality(OtherAgents(t)) * 0 = 0
      BY <3>1
    <3> QED BY <2>3, <3>2 DEF OthersBegun
  <2>5. NextContext(t) = 0
    BY <1>5 DEF NextContext
  <2>6. OthersBegun(t) \in Nat
    BY <1>1, AgentsAreFinite
  <2>7. OthersBegun(t) <= Cardinality(OthersUpTo(t, 0)) + NextContext(t)
    BY <1>3, <2>4, <2>5, <2>6
  <2>8. NextContext(t) \in 0..MaxRetries
    BY <1>3, <2>5
  <2>9. \A a \in OtherAgents(t) : a > 0 => rounds[t][a] = 0
    BY <2>2
  <2> QED BY <1>2, <2>1, <2>7, <2>8, <2>9
<1>6. CASE agent[t] # best[t]
  <2>1. /\ next \in Nat \ {0} /\ agent[t] \in Nat
        /\ agent[t] < next /\ next <= Tools /\ next # best[t]
    BY <1>3, <1>6 DEF StillToTry, Tools, Agents
  <2>2. NextContext(t) = retryCount[t]
    BY <1>6 DEF NextContext
  <2>3. OthersBegun(t) <= Cardinality(OthersUpTo(t, agent[t])) + NextContext(t)
    BY <1>1, <1>6, <2>2 DEF RoundsKept
  <2>4. \A a \in OtherAgents(t) : a > agent[t] => rounds[t][a] = 0
    BY <1>1, <1>6 DEF RoundsKept
  <2> QED BY <1>2, <1>4, <2>1, <2>2, <2>3, <2>4
<1> QED BY <1>5, <1>6

\* Another begin of one of the others is one more begin of the others.
LEMMA OneMoreBegun ==
  ASSUME AgentsTypeOK, NEW t \in Executions, NEW a \in OtherAgents(t),
         NEW r, r[a] = rounds[t][a] + 1, \A x \in OtherAgents(t) \ {a} : r[x] = rounds[t][x]
  PROVE  SumOver(r, OtherAgents(t)) = OthersBegun(t) + 1
<1>1. /\ IsFiniteSet(OtherAgents(t)) /\ OtherAgents(t) \subseteq Agents
      /\ \A x \in Agents : rounds[t][x] \in Nat
      /\ OthersBegun(t) \in Nat
  BY AgentsAreFinite
<1>4. \A x \in OtherAgents(t) : rounds[t][x] \in Int /\ r[x] \in Int
  BY <1>1
<1>5. SumOver(r, OtherAgents(t)) =
        SumOver(rounds[t], OtherAgents(t)) - rounds[t][a] + r[a]
  <2>1. PICK f, others : f = rounds[t] /\ others = OtherAgents(t)
    OBVIOUS
  <2>2. SumOver(r, others) = SumOver(f, others) - f[a] + r[a]
    <3>1. /\ IsFiniteSet(others) /\ a \in others
          /\ \A x \in others : f[x] \in Int /\ r[x] \in Int
          /\ \A x \in others \ {a} : r[x] = f[x]
      BY <1>1, <1>4, <2>1
    <3> QED BY <3>1, SumOfChanged
  <2> QED BY <2>1, <2>2
<1>6. SumOver(rounds[t], OtherAgents(t)) \in Nat /\ rounds[t][a] \in Nat
  BY <1>1 DEF OthersBegun
<1> QED BY <1>5, <1>6 DEF OthersBegun

\* What is left to show once the next agent, or the tools, have taken over.
LEMMA OtherBegins ==
  ASSUME AgentsInv, NEW t \in Executions, NEW next \in Nat \ {0}, NEW last \in Nat,
         NEW c \in Nat, place[t] # "queued",
         last < next, next # best[t],
         best'[t] = best[t], agent'[t] = next, retryCount'[t] = c,
         rounds'[t][best[t]] = rounds[t][best[t]],
         OthersBegun(t) <= Cardinality(OthersUpTo(t, last)) + c,
         \A a \in OtherAgents(t) : a > next => rounds'[t][a] = 0,
         \/ next \in OtherAgents(t) /\ OthersBegun(t)' = OthersBegun(t) + 1
         \/ OthersBegun(t)' = OthersBegun(t)
  PROVE  RoundsKept(t)'
<1>1. AgentsTypeOK /\ RoundsKept(t) /\ best[t] # 0
  BY DEF AgentsInv, PlaceKept
<1>2. OtherAgents(t)' = OtherAgents(t)
  BY DEF OtherAgents
<1>3. OthersUpTo(t, agent[t])' = OthersUpTo(t, next)
  BY <1>2 DEF OthersUpTo
<1>4. /\ OthersBegun(t) \in Nat
      /\ \A n : Cardinality(OthersUpTo(t, n)) \in Nat
  BY <1>1, AgentsAreFinite
<1>5. /\ Cardinality(OthersUpTo(t, last)) <= Cardinality(OthersUpTo(t, next))
      /\ next \in OtherAgents(t) =>
           Cardinality(OthersUpTo(t, last)) + 1 <= Cardinality(OthersUpTo(t, next))
  BY <1>1, OneMoreAgent
<1>6. OthersBegun(t)' <= Cardinality(OthersUpTo(t, next)) + c
  <2>1. Cardinality(OthersUpTo(t, last)) \in Nat /\ Cardinality(OthersUpTo(t, next)) \in Nat
    BY <1>4
  <2> QED BY <1>4, <1>5, <2>1
<1>7. OthersBegun(t)' <= Cardinality(OthersUpTo(t, agent[t])') + retryCount'[t]
  BY <1>3, <1>6
<1>8. \A a \in OtherAgents(t)' : a > agent'[t] => rounds'[t][a] = 0
  BY <1>2
<1>9. /\ best'[t] # 0 /\ agent'[t] # 0 /\ agent'[t] # best'[t]
      /\ rounds'[t][best'[t]] <= MaxRetries + 1
  BY <1>1 DEF RoundsKept
<1> QED BY <1>7, <1>8, <1>9 DEF RoundsKept

\* A task that is no longer queued has a best agent.
LEMMA RoutedTask ==
  ASSUME AgentsInv, NEW t \in Executions, place[t] # "queued"
  PROVE  AgentsTypeOK /\ RoundsKept(t) /\ best[t] # 0 /\ best[t] \in Agents
<1>1. AgentsTypeOK /\ RoundsKept(t) /\ best[t] # 0
  BY DEF AgentsInv, PlaceKept
<1>2. best[t] \in 0..NumAgents /\ NumAgents \in Nat
  BY <1>1, NumAgentsAssumption DEF AgentsTypeOK, RouteTypeOK
<1> QED BY <1>1, <1>2 DEF Agents

\* One begin more is still a number.
LEMMA OneMoreRound ==
  ASSUME AgentsTypeOK, NEW t \in Executions, NEW a \in Agents
  PROVE  \E r \in [Agents -> Nat] : r = [rounds[t] EXCEPT ![a] = rounds[t][a] + 1]
<1>1. rounds[t] \in [Agents -> Nat]
  BY DEF AgentsTypeOK
<1>2. rounds[t][a] + 1 \in Nat
  BY <1>1
<1>3. [rounds[t] EXCEPT ![a] = rounds[t][a] + 1] \in [Agents -> Nat]
  BY <1>1, <1>2
<1> QED BY <1>3

\* The next agent begins, or the tools take over.
LEMMA AgentRaisedKeeps ==
  ASSUME AgentsInv, NEW t \in Executions, agent[t] \in Agents, place[t] # "queued",
         AgentRaised(t), RestTypes'
  PROVE  AgentsInv'
<1>0. AgentsTypeOK /\ RoundsKept(t) /\ best[t] # 0 /\ best[t] \in Agents
  BY RoutedTask
<1>1. TryNext(t)
  BY DEF AgentRaised
<1>2. PICK next \in Nat \ {0}, last \in Nat :
        /\ last < next /\ next <= Tools /\ next # best[t]
        /\ agent' = [agent EXCEPT ![t] = next]
        /\ tried' = [tried EXCEPT ![t] = tried[t] \cup {agent[t]}]
        /\ best' = best
        /\ OthersBegun(t) <= Cardinality(OthersUpTo(t, last)) + NextContext(t)
        /\ \A a \in OtherAgents(t) : a > last => rounds[t][a] = 0
        /\ NextContext(t) \in 0..MaxRetries
  BY <1>1, NextAgent
<1>3. /\ agent'[t] = next /\ best'[t] = best[t]
      /\ OtherAgents(t)' = OtherAgents(t)
  BY <1>0, <1>2 DEF AgentsTypeOK, RouteTypeOK, OtherAgents
<1>4. retryCount' = [retryCount EXCEPT ![t] = NextContext(t)]
  BY DEF AgentRaised
<1>5. PICK c \in 0..MaxRetries : c = NextContext(t)
  BY <1>2
<1>6. retryCount' = [retryCount EXCEPT ![t] = c] /\ retryCount'[t] = c /\ c \in Nat
  BY <1>0, <1>4, <1>5, AgentsAssumption DEF AgentsTypeOK
<1>7. RouteTypeOK'
  <2>1. next \in 0..Tools
    BY <1>2, NumAgentsAssumption DEF Tools
  <2>2. agent[t] \in 1..NumAgents
    BY DEF Agents
  <2> QED BY <1>0, <1>2, <2>1, <2>2 DEF AgentsTypeOK, RouteTypeOK
<1>8. ASSUME NEW p \in {"think", "tools"}, NEW r \in [Agents -> Nat],
             place' = [place EXCEPT ![t] = p], rounds' = [rounds EXCEPT ![t] = r],
             RoundsKept(t)'
      PROVE  AgentsInv'
  <2>1. AgentsTypeOK'
    BY <1>0, <1>6, <1>7, <1>8 DEF AgentsTypeOK, RestTypes
  <2>2. OthersStay(t)
    BY <1>0, <1>2, <1>6, <1>8 DEF AgentsTypeOK, RouteTypeOK, OthersStay
  <2>3. PlaceKept(t)'
    BY <1>0, <1>3, <1>8 DEF AgentsTypeOK, PlaceKept
  <2> QED BY <1>8, <2>1, <2>2, <2>3, OneTaskIsEnough
<1>9. CASE next = Tools
  <2>1. place' = [place EXCEPT ![t] = "tools"] /\ rounds' = rounds
    BY <1>3, <1>9 DEF AgentRaised
  <2>2. rounds[t] \in [Agents -> Nat] /\ rounds' = [rounds EXCEPT ![t] = rounds[t]]
    BY <1>0, <2>1 DEF AgentsTypeOK
  <2>3. OthersBegun(t)' = OthersBegun(t)
    BY <1>3, <2>1 DEF OthersBegun
  <2>4. \A a \in OtherAgents(t) : ~(a > next)
    BY <1>9, NumAgentsAssumption DEF OtherAgents, Agents, Tools
  <2>5. RoundsKept(t)'
    BY <1>0, <1>2, <1>3, <1>5, <1>6, <2>1, <2>3, <2>4, OtherBegins
  <2> QED BY <1>8, <2>1, <2>2, <2>5
<1>10. CASE next # Tools
  <2>1. next \in Agents /\ next \in OtherAgents(t)
    BY <1>2, <1>10, NumAgentsAssumption DEF OtherAgents, Agents, Tools
  <2>2. /\ place' = [place EXCEPT ![t] = "think"]
        /\ rounds' = [rounds EXCEPT ![t][next] = @ + 1]
    BY <1>3, <1>10 DEF AgentRaised
  <2>3. rounds' = [rounds EXCEPT ![t] = [rounds[t] EXCEPT ![next] = rounds[t][next] + 1]]
    BY <1>0, <2>2 DEF AgentsTypeOK
  <2>4. PICK r \in [Agents -> Nat] : r = [rounds[t] EXCEPT ![next] = rounds[t][next] + 1]
    BY <1>0, <2>1, OneMoreRound
  <2>5. rounds' = [rounds EXCEPT ![t] = r] /\ rounds'[t] = r
    BY <1>0, <2>3, <2>4 DEF AgentsTypeOK
  <2>6. r[next] = rounds[t][next] + 1 /\ \A a \in Agents \ {next} : r[a] = rounds[t][a]
    BY <1>0, <2>1, <2>4 DEF AgentsTypeOK
  <2>7. OthersBegun(t)' = OthersBegun(t) + 1
    <3>1. \A a \in OtherAgents(t) \ {next} : r[a] = rounds[t][a]
      BY <2>6 DEF OtherAgents
    <3>2. SumOver(r, OtherAgents(t)) = OthersBegun(t) + 1
      BY <1>0, <2>1, <2>6, <3>1, OneMoreBegun
    <3> QED BY <1>3, <2>5, <3>2 DEF OthersBegun
  <2>8. rounds'[t][best[t]] = rounds[t][best[t]]
    BY <1>0, <1>2, <2>5, <2>6
  <2>9. \A a \in OtherAgents(t) : a > next => rounds'[t][a] = 0
    BY <1>2, <2>5, <2>6 DEF OtherAgents, Agents
  <2>10. RoundsKept(t)'
    BY <1>2, <1>3, <1>5, <1>6, <2>1, <2>7, <2>8, <2>9, OtherBegins
  <2> QED BY <1>8, <2>2, <2>5, <2>10
<1> QED BY <1>9, <1>10

\* An agent heals itself: one begin more, and one retry more.
LEMMA HealsKeeps ==
  ASSUME AgentsInv, NEW t \in Executions, agent[t] \in Agents, place[t] # "queued",
         Heals(t), RestTypes'
  PROVE  AgentsInv'
<1>0. /\ AgentsTypeOK /\ RoundsKept(t) /\ best[t] # 0 /\ best[t] \in Agents
      /\ retryCount[t] \in Nat /\ MaxRetries \in Nat /\ retryCount[t] < MaxRetries
  BY RoutedTask, AgentsAreFinite DEF Heals
<1>1. /\ place' = [place EXCEPT ![t] = "think"]
      /\ best' = best /\ agent' = agent /\ tried' = tried
      /\ retryCount' = [retryCount EXCEPT ![t] = retryCount[t] + 1]
      /\ rounds' = [rounds EXCEPT ![t][agent[t]] = @ + 1]
  BY DEF Heals, routeVars
<1>2. rounds' = [rounds EXCEPT ![t] = [rounds[t] EXCEPT ![agent[t]] = rounds[t][agent[t]] + 1]]
  BY <1>0, <1>1 DEF AgentsTypeOK
<1>3. PICK r \in [Agents -> Nat] :
        r = [rounds[t] EXCEPT ![agent[t]] = rounds[t][agent[t]] + 1]
  BY <1>0, OneMoreRound
<1>4. rounds' = [rounds EXCEPT ![t] = r] /\ rounds'[t] = r
  BY <1>0, <1>2, <1>3 DEF AgentsTypeOK
<1>5. /\ r[agent[t]] = rounds[t][agent[t]] + 1
      /\ \A a \in Agents \ {agent[t]} : r[a] = rounds[t][a]
  BY <1>0, <1>3 DEF AgentsTypeOK
<1>6. retryCount[t] + 1 \in 0..MaxRetries /\ retryCount'[t] = retryCount[t] + 1
  BY <1>0, <1>1 DEF AgentsTypeOK
<1>7. AgentsTypeOK'
  BY <1>0, <1>1, <1>4, <1>6 DEF AgentsTypeOK, RouteTypeOK, RestTypes
<1>8. OthersStay(t)
  BY <1>0, <1>1, <1>4 DEF AgentsTypeOK, OthersStay
<1>9. PlaceKept(t)'
  BY <1>0, <1>1 DEF AgentsTypeOK, PlaceKept
<1>10. OtherAgents(t)' = OtherAgents(t) /\ OthersUpTo(t, agent[t])' = OthersUpTo(t, agent[t])
  BY <1>1 DEF OtherAgents, OthersUpTo
<1>11. RoundsKept(t)'
  <2>1. CASE agent[t] = best[t]
    <3>1. \A a \in OtherAgents(t)' : rounds'[t][a] = 0
      BY <1>0, <1>4, <1>5, <1>10, <2>1 DEF OtherAgents, RoundsKept
    <3>2. rounds[t][best[t]] = retryCount[t] + 1
      BY <1>0, <2>1 DEF RoundsKept
    <3>3. rounds'[t][best[t]] = retryCount'[t] + 1 /\ rounds'[t][best[t]] <= MaxRetries + 1
      BY <1>0, <1>4, <1>5, <1>6, <2>1, <3>2
    <3> QED BY <1>0, <1>1, <2>1, <3>1, <3>3 DEF RoundsKept
  <2>2. CASE agent[t] # best[t]
    <3>1. agent[t] \in OtherAgents(t) /\ \A a \in OtherAgents(t) \ {agent[t]} : r[a] = rounds[t][a]
      BY <1>5, <2>2 DEF OtherAgents
    <3>2. OthersBegun(t)' = OthersBegun(t) + 1
      <4>1. SumOver(r, OtherAgents(t)) = OthersBegun(t) + 1
        BY <1>0, <1>5, <3>1, OneMoreBegun
      <4> QED BY <1>4, <1>10, <4>1 DEF OthersBegun
    <3>3. OthersBegun(t) <= Cardinality(OthersUpTo(t, agent[t])) + retryCount[t]
      BY <1>0, <2>2 DEF RoundsKept
    <3>4. OthersBegun(t) \in Nat /\ Cardinality(OthersUpTo(t, agent[t])) \in Nat
      BY <1>0, AgentsAreFinite
    <3>5. OthersBegun(t)' <= Cardinality(OthersUpTo(t, agent[t])') + retryCount'[t]
      BY <1>0, <1>6, <1>10, <3>2, <3>3, <3>4
    <3>6. \A a \in OtherAgents(t) : a > agent[t] => rounds[t][a] = 0
      BY <1>0, <2>2 DEF RoundsKept
    <3>7. \A a \in OtherAgents(t)' : a > agent'[t] => rounds'[t][a] = 0
      BY <1>1, <1>4, <1>10, <3>1, <3>6 DEF OtherAgents, Agents
    <3>8. rounds'[t][best'[t]] <= MaxRetries + 1
      BY <1>0, <1>1, <1>4, <1>5, <2>2 DEF RoundsKept
    <3>9. best'[t] # 0 /\ agent'[t] # 0 /\ agent'[t] # best'[t]
      BY <1>0, <1>1, <2>2 DEF RoundsKept
    <3> QED BY <3>5, <3>7, <3>8, <3>9 DEF RoundsKept
  <2> QED BY <2>1, <2>2
<1> QED BY <1>7, <1>8, <1>9, <1>11, OneTaskIsEnough

\* A task whose agent is at work, and what the plan of its tools is made of.
AtWork(t) == agent[t] \in Agents /\ place[t] # "queued"

LEMMA PlanTypes ==
  ASSUME AgentsInv, NEW t \in Executions
  PROVE  /\ AgentsTypeOK /\ RestTypes /\ at[t] \in (0..3) \X (0..3)
         /\ Primary(tools[t]) \in Int /\ Primary(tools[t]) <= 3
         /\ Fallbacks(tools[t]) \in Int /\ Fallbacks(tools[t]) <= 3
<1>1. AgentsTypeOK
  BY DEF AgentsInv
<1>2. tools[t] \in Recommended \cup {0, OwnTools} /\ at[t] \in (0..3) \X (0..3)
  BY <1>1 DEF AgentsTypeOK
<1>3. tools[t] \in Nat
  <2>1. Recommended \subseteq Nat /\ OwnTools \in Nat
    BY AgentsAssumption DEF OwnTools
  <2>2. CASE tools[t] \in Recommended
    BY <2>1, <2>2
  <2>3. CASE tools[t] \in {0, OwnTools}
    BY <2>1, <2>3
  <2> QED BY <1>2, <2>2, <2>3
<1>4. /\ Primary(tools[t]) \in Int /\ Primary(tools[t]) <= 3
      /\ Fallbacks(tools[t]) \in Int /\ Fallbacks(tools[t]) <= 3
  BY <1>3 DEF Primary, Fallbacks, Least
<1> QED BY <1>1, <1>2, <1>4 DEF AgentsTypeOK, RestTypes

LEMMA ExecuteRaisesKeeps ==
  ASSUME AgentsInv, NEW t \in Executions, AtWork(t), ExecuteRaises(t)
  PROVE  AgentsInv'
<1>1. AgentsTypeOK
  BY DEF AgentsInv
<1>2. RestTypes'
  <2>1. <<0, 0>> \in (0..3) \X (0..3)
    OBVIOUS
  <2> QED BY <1>1, <2>1 DEF AgentsTypeOK, RestTypes, ExecuteRaises
<1>3. CASE Heals(t)
  BY <1>2, <1>3, HealsKeeps DEF AtWork
<1>4. CASE AgentRaised(t)
  BY <1>2, <1>4, AgentRaisedKeeps DEF AtWork
<1> QED BY <1>3, <1>4 DEF ExecuteRaises

\* Counting a task, won or not, leaves the statistics of the agents what they are.
LEMMA TaskCounted ==
  ASSUME NEW f \in [Agents -> [total: Nat, ok: Nat]], NEW a \in Agents,
         NEW won \in BOOLEAN, NEW g,
         g = [f EXCEPT ![a].total = @ + 1, ![a].ok = IF won THEN @ + 1 ELSE @]
  PROVE  g \in [Agents -> [total: Nat, ok: Nat]]
<1>1. f[a] \in [total: Nat, ok: Nat]
  OBVIOUS
<1>2. f[a].total + 1 \in Nat /\ f[a].ok \in Nat /\ f[a].ok + 1 \in Nat
  BY <1>1
<1>3. PICK ok \in Nat : ok = IF won THEN f[a].ok + 1 ELSE f[a].ok
  BY <1>2
<1>4. g[a] = [total |-> f[a].total + 1, ok |-> ok]
  <2>1. CASE won
    BY <1>1, <1>3, <2>1
  <2>2. CASE ~won
    BY <1>1, <1>3, <2>2
  <2> QED BY <2>1, <2>2
<1>5. g[a] \in [total: Nat, ok: Nat]
  BY <1>2, <1>4
<1> QED BY <1>4, <1>5

LEMMA ReturnedKeeps ==
  ASSUME AgentsInv, NEW t \in Executions, AtWork(t), Returned(t)
  PROVE  AgentsInv'
<1>1. AgentsTypeOK /\ RestTypes
  BY PlanTypes
<1>2. perf' \in [Agents -> [total: Nat, ok: Nat]]
  <2>1. CASE agent[t] # best[t]
    BY <1>1, <2>1 DEF AgentsTypeOK, Returned, Track
  <2>2. CASE agent[t] = best[t]
    <3>1. PICK a \in Agents : a = agent[t]
      BY DEF AtWork
    <3>2. PICK won \in BOOLEAN : won <=> AgentType(t) \in Inheriting
      OBVIOUS
    <3>4. perf' = [perf EXCEPT ![a].total = @ + 1, ![a].ok = IF won THEN @ + 1 ELSE @]
      BY <2>2, <3>1, <3>2 DEF Returned, Track
    <3> QED BY <1>1, <3>1, <3>4, TaskCounted DEF RestTypes
  <2> QED BY <2>1, <2>2
<1>3. RestTypes'
  <2>1. <<0, 0>> \in (0..3) \X (0..3)
    OBVIOUS
  <2> QED BY <1>1, <1>2, <2>1 DEF RestTypes, Returned
<1>4. GoesOn(t)
  BY DEF GoesOn, Returned, AtWork
<1> QED BY <1>3, <1>4, GoesOnKeeps

LEMMA CallsKeeps ==
  ASSUME AgentsInv, NEW t \in Executions, place[t] = "act", NEW next,
         next[1] <= Primary(tools[t]) => next \in (0..3) \X (0..3), next[1] \in Int,
         Calls(t, next)
  PROVE  AgentsInv'
<1>1. AgentsTypeOK /\ RestTypes /\ Primary(tools[t]) \in Int
  BY PlanTypes
<1>2. CASE next[1] > Primary(tools[t])
  <2>1. /\ place' = [place EXCEPT ![t] = "store"] /\ at' = [at EXCEPT ![t] = <<0, 0>>]
        /\ UNCHANGED <<type, tools, perf>>
    BY <1>2 DEF Calls
  <2>2. <<0, 0>> \in (0..3) \X (0..3)
    OBVIOUS
  <2>3. RestTypes'
    BY <1>1, <2>1, <2>2 DEF RestTypes
  <2>4. GoesOn(t)
    BY <2>1 DEF GoesOn, Calls
  <2> QED BY <2>3, <2>4, GoesOnKeeps
<1>3. CASE ~(next[1] > Primary(tools[t]))
  <2>1. at' = [at EXCEPT ![t] = next] /\ place' = place /\ UNCHANGED <<type, tools, perf>>
    BY <1>3 DEF Calls
  <2>2. next \in (0..3) \X (0..3)
    BY <1>1, <1>3
  <2>3. RestTypes'
    BY <1>1, <2>1, <2>2 DEF RestTypes
  <2>4. place' = [place EXCEPT ![t] = "act"]
    BY <1>1, <2>1 DEF AgentsTypeOK
  <2>5. GoesOn(t)
    BY <2>4 DEF GoesOn, Calls
  <2> QED BY <2>3, <2>5, GoesOnKeeps
<1> QED BY <1>2, <1>3

\* The plan of BaseDomainAgent, and what _act_phase does with the outcome of a tool.
LEMMA DesignsKeep ==
  ASSUME AgentsInv, NEW t \in Executions, Designs(t)
  PROVE  AgentsInv'
<1>1. AgentsTypeOK /\ RestTypes /\ place[t] = "think"
  BY PlanTypes DEF Designs, Lifecycle
<1>2. PICK k \in ToolCounts :
        /\ tools' = [tools EXCEPT ![t] = k]
        /\ IF k = 0
           THEN place' = [place EXCEPT ![t] = "store"] /\ UNCHANGED at
           ELSE /\ place' = [place EXCEPT ![t] = "act"]
                /\ at' = [at EXCEPT ![t] = <<1, 0>>]
  BY DEF Designs
<1>3. <<1, 0>> \in (0..3) \X (0..3) /\ k \in Recommended \cup {0, OwnTools}
  BY DEF ToolCounts
<1>4. RestTypes'
  BY <1>1, <1>2, <1>3 DEF RestTypes, Designs
<1>5. GoesOn(t)
  BY <1>1, <1>2 DEF GoesOn, Designs
<1> QED BY <1>4, <1>5, GoesOnKeeps

LEMMA ToolsKeep ==
  ASSUME AgentsInv, NEW t \in Executions,
         PrimarySucceeds(t) \/ FallbackSucceeds(t) \/ ToolFails(t)
  PROVE  AgentsInv'
<1>1. /\ at[t] \in (0..3) \X (0..3)
      /\ Primary(tools[t]) \in Int /\ Primary(tools[t]) <= 3
      /\ Fallbacks(tools[t]) \in Int /\ Fallbacks(tools[t]) <= 3
  BY PlanTypes
<1>2. place[t] = "act"
  BY DEF PrimarySucceeds, FallbackSucceeds, ToolFails, Lifecycle
<1>3. at[t][1] \in 0..3 /\ at[t][2] \in 0..3
  BY <1>1
<1>4. CASE Calls(t, <<4, 0>>)
  BY <1>1, <1>2, <1>4, CallsKeeps
<1>5. CASE Calls(t, NextPrimary(t))
  <2>1. PICK next : next = <<at[t][1] + 1, 0>>
    OBVIOUS
  <2>2. /\ next[1] \in Int
        /\ next[1] <= Primary(tools[t]) => next \in (0..3) \X (0..3)
    BY <1>1, <1>3, <2>1
  <2>3. Calls(t, next)
    BY <1>5, <2>1 DEF NextPrimary
  <2> QED BY <1>2, <2>2, <2>3, CallsKeeps
<1>6. CASE at[t][2] < Fallbacks(tools[t]) /\ Calls(t, <<at[t][1], at[t][2] + 1>>)
  <2>1. PICK next : next = <<at[t][1], at[t][2] + 1>>
    OBVIOUS
  <2>2. at[t][2] + 1 \in 0..3
    BY <1>1, <1>3, <1>6
  <2>3. next \in (0..3) \X (0..3) /\ next[1] \in Int
    BY <1>3, <2>1, <2>2
  <2>4. Calls(t, next)
    BY <1>6, <2>1
  <2> QED BY <1>2, <2>3, <2>4, CallsKeeps
<1> QED BY <1>4, <1>5, <1>6 DEF PrimarySucceeds, FallbackSucceeds, ToolFails

\* The execute of ReconAgent and ScannerAgent.
LEMMA OwnExecuteKeeps ==
  ASSUME AgentsInv, NEW t \in Executions, Thinks(t) \/ Acts(t)
  PROVE  AgentsInv'
<1>1. AgentsTypeOK /\ RestTypes /\ at[t] \in (0..3) \X (0..3)
  BY PlanTypes
<1>2. CASE Thinks(t)
  <2>1. <<1, 0>> \in (0..3) \X (0..3)
    OBVIOUS
  <2>2. RestTypes'
    BY <1>1, <1>2, <2>1 DEF RestTypes, Thinks
  <2>3. GoesOn(t)
    BY <1>2 DEF GoesOn, Thinks, OwnExecute
  <2> QED BY <2>2, <2>3, GoesOnKeeps
<1>3. CASE Acts(t)
  <2>1. PICK found \in ActResults : at' = [at EXCEPT ![t] = <<2, found>>]
    BY <1>3 DEF Acts
  <2>2. <<2, found>> \in (0..3) \X (0..3)
    BY DEF ActResults
  <2>3. RestTypes'
    BY <1>1, <1>3, <2>1, <2>2 DEF RestTypes, Acts
  <2>4. place' = [place EXCEPT ![t] = "act"]
    BY <1>1, <1>3 DEF AgentsTypeOK, Acts, OwnExecute
  <2>5. GoesOn(t)
    BY <1>3, <2>4 DEF GoesOn, Acts, OwnExecute
  <2> QED BY <2>3, <2>5, GoesOnKeeps
<1> QED BY <1>2, <1>3

LEMMA ReflectRaisesKeeps ==
  ASSUME AgentsInv, NEW t \in Executions, ReflectRaises(t)
  PROVE  AgentsInv'
<1>1. AgentsTypeOK /\ RestTypes
  BY PlanTypes
<1>2. RestTypes'
  <2>1. <<0, 0>> \in (0..3) \X (0..3)
    OBVIOUS
  <2> QED BY <1>1, <2>1 DEF RestTypes, ReflectRaises
<1>3. agent[t] \in Agents /\ place[t] # "queued" /\ AgentRaised(t)
  BY DEF ReflectRaises, OwnExecute
<1> QED BY <1>2, <1>3, AgentRaisedKeeps

LEMMA DirectToolsKeep ==
  ASSUME AgentsInv, NEW t \in Executions, DirectToolsRaise(t)
  PROVE  AgentsInv'
<1>1. RestTypes'
  BY PlanTypes DEF RestTypes, DirectToolsRaise
<1>2. GoesOn(t)
  BY DEF GoesOn, DirectToolsRaise
<1> QED BY <1>1, <1>2, GoesOnKeeps

LEMMA AgentStepKeeps ==
  ASSUME AgentsInv, NEW t \in Executions, AgentStep(t)
  PROVE  AgentsInv'
<1>1. CASE ThinkRaises(t) \/ SafetyRefuses(t) \/ ResultRaises(t)
  <2>1. AtWork(t) /\ ExecuteRaises(t)
    BY <1>1 DEF AtWork, ThinkRaises, SafetyRefuses, ResultRaises, Verified, Lifecycle
  <2> QED BY <2>1, ExecuteRaisesKeeps
<1>2. CASE ReflectsNothing(t)
  <2>1. AtWork(t) /\ Returned(t)
    BY <1>2 DEF AtWork, ReflectsNothing, OwnExecute
  <2> QED BY <2>1, ReturnedKeeps
<1>3. CASE Designs(t)
  BY <1>3, DesignsKeep
<1>4. CASE PrimarySucceeds(t) \/ FallbackSucceeds(t) \/ ToolFails(t)
  BY <1>4, ToolsKeep
<1>5. CASE Thinks(t) \/ Acts(t)
  BY <1>5, OwnExecuteKeeps
<1>6. CASE ReflectRaises(t)
  BY <1>6, ReflectRaisesKeeps
<1>7. CASE DirectToolsRaise(t)
  BY <1>7, DirectToolsKeep
<1> QED BY <1>1, <1>2, <1>3, <1>4, <1>5, <1>6, <1>7 DEF AgentStep

\* Nothing changes: the invariant only looks at the variables.
LEMMA AgentsStutter ==
  ASSUME AgentsInv, UNCHANGED agentVars
  PROVE  AgentsInv'
<1>1. /\ place' = place /\ tools' = tools /\ at' = at /\ retryCount' = retryCount
      /\ rounds' = rounds /\ perf' = perf /\ type' = type
      /\ best' = best /\ agent' = agent /\ tried' = tried
  BY DEF agentVars, routeVars
<1>2. AgentsTypeOK'
  BY <1>1 DEF AgentsInv, AgentsTypeOK, RouteTypeOK
<1>3. ASSUME NEW t \in Executions PROVE PlaceKept(t)' /\ RoundsKept(t)'
  <2>1. PlaceKept(t) /\ RoundsKept(t)
    BY DEF AgentsInv
  <2> QED BY <1>1, <2>1 DEF PlaceKept, RoundsKept, OtherAgents, OthersUpTo, OthersBegun
<1> QED BY <1>2, <1>3 DEF AgentsInv

LEMMA AgentsInitially == AgentsInit => AgentsInv
<1> SUFFICES ASSUME AgentsInit PROVE AgentsInv
  OBVIOUS
<1>1. RouteTypeOK
  BY NumAgentsAssumption DEF AgentsInit, RouteInit, RouteTypeOK, Tools
<1>2. AgentsTypeOK
  <2>1. 0 \in 0..MaxRetries /\ <<0, 0>> \in (0..3) \X (0..3)
    BY AgentsAssumption
  <2>2. rounds \in [Executions -> [Agents -> Nat]] /\ perf \in [Agents -> [total: Nat, ok: Nat]]
    BY DEF AgentsInit
  <2> QED BY <1>1, <2>1, <2>2 DEF AgentsInit, AgentsTypeOK, Discovered
<1>3. ASSUME NEW t \in Executions PROVE PlaceKept(t) /\ RoundsKept(t)
  <2>1. place[t] = "queued" /\ best[t] = 0 /\ retryCount[t] = 0
    BY DEF AgentsInit, RouteInit
  <2>2. \A a \in Agents : rounds[t][a] = 0
    BY DEF AgentsInit
  <2> QED BY <2>1, <2>2 DEF PlaceKept, RoundsKept
<1> QED BY <1>2, <1>3 DEF AgentsInv

THEOREM AgentsInductive == AgentsSpec => []AgentsInv
<1>1. AgentsInv /\ [AgentsNext]_agentVars => AgentsInv'
  <2> SUFFICES ASSUME AgentsInv, [AgentsNext]_agentVars PROVE AgentsInv'
    OBVIOUS
  <2>1. CASE UNCHANGED agentVars
    BY <2>1, AgentsStutter
  <2>2. CASE AllOver
    BY <2>2, AgentsStutter DEF AllOver
  <2>3. ASSUME NEW t \in Executions, RouteTask(t) \/ AgentStep(t) PROVE AgentsInv'
    BY <2>3, RouteTaskKeeps, AgentStepKeeps
  <2> QED BY <2>1, <2>2, <2>3 DEF AgentsNext
<1> QED BY <1>1, AgentsInitially, PTL DEF AgentsSpec

(***************************************************************************)
(* AgentsTypeOK, for any agents, types, tools and limit of retries.        *)
(***************************************************************************)
THEOREM AgentsTypeCorrect == AgentsSpec => []AgentsTypeOK
<1>1. AgentsInv => AgentsTypeOK
  BY DEF AgentsInv
<1> QED BY <1>1, AgentsInductive, PTL

(***************************************************************************)
(* RoundsBounded: the best agent begins a task at most MaxRetries + 1      *)
(* times, and all the others together at most once each and MaxRetries     *)
(* times more, because they share the context in which retries are counted.*)
(***************************************************************************)
THEOREM RoundsBoundedAlways == AgentsSpec => []RoundsBounded
<1>1. ASSUME AgentsInv, NEW t \in Executions, best[t] # 0
      PROVE  /\ rounds[t][best[t]] <= MaxRetries + 1
             /\ OthersBegun(t) <= Cardinality(OtherAgents(t)) + MaxRetries
  <2>1. AgentsTypeOK /\ RoundsKept(t)
    BY <1>1 DEF AgentsInv
  <2>2. /\ IsFiniteSet(OtherAgents(t)) /\ OtherAgents(t) \subseteq Agents
        /\ \A n : Cardinality(OthersUpTo(t, n)) \in Nat
        /\ \A a \in Agents : rounds[t][a] \in Nat
        /\ OthersBegun(t) \in Nat /\ retryCount[t] \in Nat /\ MaxRetries \in Nat
    BY <2>1, AgentsAreFinite
  <2>3. Cardinality(OtherAgents(t)) \in Nat
    BY <2>2, FS_CardinalityType
  <2>4. CASE agent[t] = best[t]
    <3>1. \A a \in OtherAgents(t) : rounds[t][a] = 0
      BY <1>1, <2>1, <2>4 DEF RoundsKept
    <3>2. SumOver(rounds[t], OtherAgents(t)) <= Cardinality(OtherAgents(t)) * 0
      BY <2>2, <3>1, SumOfBounded
    <3>3. OthersBegun(t) <= 0
      BY <2>3, <3>2 DEF OthersBegun
    <3> QED BY <1>1, <2>1, <2>2, <2>3, <3>3 DEF RoundsKept
  <2>5. CASE agent[t] # best[t]
    <3>1. OthersBegun(t) <= Cardinality(OthersUpTo(t, agent[t])) + retryCount[t]
      BY <1>1, <2>1, <2>5 DEF RoundsKept
    <3>2. Cardinality(OthersUpTo(t, agent[t])) <= Cardinality(OtherAgents(t))
      BY <2>2, FS_Subset DEF OthersUpTo
    <3>3. retryCount[t] <= MaxRetries
      BY <2>1, <2>2 DEF AgentsTypeOK
    <3>4. OthersBegun(t) <= Cardinality(OtherAgents(t)) + MaxRetries
      <4>1. Cardinality(OthersUpTo(t, agent[t])) \in Nat
        BY <2>2
      <4> QED BY <2>2, <2>3, <3>1, <3>2, <3>3, <4>1
    <3> QED BY <1>1, <2>1, <3>4 DEF RoundsKept
  <2> QED BY <2>4, <2>5
<1>2. AgentsInv => RoundsBounded
  <2> SUFFICES ASSUME AgentsInv, NEW t \in Executions, best[t] # 0
               PROVE  LET others == {a \in Agents : a # best[t]}
                      IN  /\ rounds[t][best[t]] <= MaxRetries + 1
                          /\ MapThenSumSet(LAMBDA a : rounds[t][a], others)
                               <= Cardinality(others) + MaxRetries
    BY DEF RoundsBounded
  <2> QED BY <1>1 DEF OthersBegun, OtherAgents, SumOver
<1> QED BY <1>2, AgentsInductive, PTL
================================================================================
