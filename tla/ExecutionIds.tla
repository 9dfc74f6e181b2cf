----------------------------- MODULE ExecutionIds ------------------------------
\* The executions (process ids) the scheduler and its parts are indexed by.
CONSTANT Executions

NoExecution == "no execution"
ASSUME NoExecutionAssumption == NoExecution \notin Executions
================================================================================
