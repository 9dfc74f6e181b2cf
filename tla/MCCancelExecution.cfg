SPECIFICATION Spec
CONSTANTS
  Executions = {e1, e2}
  Goals = {g}
  GoalOf <- MCGoalOf
  Limits = {0, 10, 20}
  NumAgents = 2
PROPERTY
  CancelledStaysCancelled
CHECK_DEADLOCK FALSE
