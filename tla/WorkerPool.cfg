SPECIFICATION Spec
CONSTANTS
  Tasks = {t1, t2}
  MaxWorkers = 3
  MaxFaults = 2
  MaxPerTool = 2
SYMMETRY Symmetry
INVARIANTS
  TypeOK
  OneCommandPerContainer
  NoContainerLeaks
  RecoveredIsOutOfUse
PROPERTIES
  NoCommandKilled
CHECK_DEADLOCK FALSE
