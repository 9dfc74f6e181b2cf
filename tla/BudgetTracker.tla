---------------------------- MODULE BudgetTracker ------------------------------
(***************************************************************************)
(* src/scheduler/budget_tracker.py: the budget of each execution.  Money   *)
(* is counted in tenths of the estimated price of a task.  An execution    *)
(* scheduled without a limit (or with limit 0) is not tracked; its limit   *)
(* here is 0.  The alerts below 100 % only log and are left out, and so is *)
(* close_budget, which nothing calls.                                      *)
(***************************************************************************)
EXTENDS Naturals, ExecutionIds

CONSTANT Limits               \* the budget limits executions may be given

ASSUME LimitsAssumption == Limits \subseteq Nat

VARIABLE budgets              \* self.active_budgets, limit and spent

Untracked == [limit |-> 0, spent |-> 0]

BudgetInit == budgets = [p \in Executions |-> Untracked]

BudgetTypeOK == budgets \in [Executions -> [limit : Nat, spent : Nat]]

Tracked(p) == budgets[p].limit > 0

\* initialize_budget.
InitializeBudget(p, limit) ==
  budgets' = [budgets EXCEPT ![p] = [limit |-> limit, spent |-> 0]]

\* A mutant of CheckBudget: what was spent is compared, not what will be.
CheckBudgetSpentOnly(p, estimated) ==
  Tracked(p) => budgets[p].spent <= budgets[p].limit

\* check_budget.
CheckBudget(p, estimated) ==
  Tracked(p) => budgets[p].spent + estimated <= budgets[p].limit

\* The step add_cost makes, without its exception.
AddCost(p, cost) ==
  budgets' = [budgets EXCEPT ![p].spent = IF Tracked(p) THEN @ + cost ELSE @]

\* add_cost raises BudgetExceededError when it crosses the threshold of 100 %.
OverBudget(p, cost) ==
  /\ Tracked(p)
  /\ budgets[p].spent < budgets[p].limit
  /\ budgets[p].spent + cost >= budgets[p].limit
================================================================================
