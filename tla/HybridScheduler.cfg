SPECIFICATION FairSpec
CONSTANTS
  Executions = {e1, e2}
  Goals = {g}
  GoalOf <- MCGoalOf
  Limits = {0, 10, 20}
  NumAgents = 2
INVARIANTS
  TypeOK
  CompletedHasAllResults
  BudgetKept
  ReportsStoredResult
  EveryAgentTried
PROPERTIES
  EveryExecutionEnds
CHECK_DEADLOCK FALSE
