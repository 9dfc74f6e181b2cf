SPECIFICATION Spec
CONSTANTS
  Tasks = {t1, t2}
  MaxWorkers = 3
  MaxFaults = 0
  MaxPerTool = 2
SYMMETRY Symmetry
PROPERTIES
  RemovedIsNotOffered
CHECK_DEADLOCK FALSE
