SPECIFICATION Spec
CONSTANTS
  StepCount = 2
  MaxRunners = 2
  Definitions <- MCDefinitions
INVARIANTS
  TypeOK
  RunningIsRun
  CompletedHasNoFailure
  NothingRunsUnapproved
PROPERTIES
  EveryRunnerEnds
