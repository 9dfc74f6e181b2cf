SPECIFICATION Spec
CONSTANTS
  c1 = c1
  c2 = c2
  c3 = c3
  c4 = c4
  h1 = h1
  h2 = h2
  Calls = {c1, c2, c3, c4}
  Handlers = {h1, h2}
  Priority <- MCPriority
  MaxRetries = 1
  FailureThreshold = 2
  RecoveryTimeout = 1
  HalfOpenMaxCalls = 1
  SuccessThreshold = 2
  MaxTime = 1
SYMMETRY Symmetry
INVARIANTS
  TypeOK
  ClosedBelowThreshold
  ProbesBounded
  NeverStranded
  NoHandlerSkipped
PROPERTIES
  ImplementsBreaker
