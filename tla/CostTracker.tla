------------------------------ MODULE CostTracker ------------------------------
(***************************************************************************)
(* src/tools/cost_tracker.py: what users and tenants have spent this month *)
(* and their budgets, which are set beforehand (set_budget is for whoever  *)
(* operates the platform: no other code calls it).  The usage of a user or *)
(* tenant is the sum over its records; identifiers are taken to be ones of *)
(* which none occurs within another.  The alerts only log.                 *)
(***************************************************************************)
EXTENDS Naturals

CONSTANTS Payers,             \* users and tenants with a budget
          Limits,             \* the limit of each
          Estimate,           \* estimated cost of a run
          MaxCost             \* bound: what a run may turn out to cost

ASSUME CostAssumption ==
  /\ Limits \in [Payers -> Nat] /\ Estimate \in Nat /\ MaxCost \in Nat

VARIABLE usage                \* tracked cost of each payer since the month began

CostInit == usage = [e \in Payers |-> 0]

CostTypeOK == usage \in [Payers -> Nat]

\* A mutant of CheckBudget: the usage is not added to the estimate.
CheckBudgetEstimateOnly(es) == \A e \in es : Estimate <= Limits[e]

\* check_budget, for the user and the tenant of a call.
CheckBudget(es) == \A e \in es : usage[e] + Estimate <= Limits[e]

\* track_usage.
TrackUsage(es, cost) ==
  usage' = [e \in Payers |-> IF e \in es THEN usage[e] + cost ELSE usage[e]]

\* Records from before the month are no longer counted.
NewMonth == usage' = [e \in Payers |-> 0]
================================================================================
