SPECIFICATION Spec
CONSTANTS
  Requests = {r1, r2}
  Tracks = {k1, k2}
  Warning = 1
  Target = 2
  Horizon = 3
  Workers = {1, 2, 3}
  Pools = {"p", "q"}
  PoolAgents <- MCPoolAgents
  Strategy <- MCStrategy
  Skilled = {1, 2}
  MaxAssigned = 2
  Arrivals = {a1, a2, a3}
  Limits <- MCLimits
  MaxRequests = 1
  Period = 3
  LastTime = 8
  Checks = {q1, q2, q3}
  Scopes <- MCScopes
  Rate = 1
  Capacities = {1, 2}
  EndOfTime = 2
  Clients = {s1, s2, s3}
  NoValue = NoValue
  Callbacks = {b1, b2}
  Publications = {n1, n2}
  MaxKeys = 3
  RateLimit = 1
  KeyPeriod = 2
  Calendar = 3
  MaxNodes = 4
  MaxEdges = 4
  Duration <- MCDuration
  Scalers = {"a", "b"}
  MaxPool = 8
  ScalePolicies <- MCScalePolicies
  Executes = 3
  Every = 2
  Nap = 1
  LastMinute = 6
  Connections = {r1}
  MaxJobs = 1
  MaxAttempts = 2
  Tenants = {t1}
  Amounts = {1, 2}
  History = 2
  Included = 1
  MonthLength = 2
  EndOfYear = 3
  MaxTracked = 4
  Periods = {1, 2}
  QuotaLimits = {1, 2}
  CapLimits = {1}
  MaxAmount = 2
  Owners = {"tenant", "user"}
  MaxRunning = 1
  LastHour = 2
  Levels <- MCLevels
  Calls = {c1, c2}
  MaxParallel = 1
  Models = {m1}
  Labels = {"v1", "v2"}
  MaxSaves = 3
  Processes = {p1}
  Updaters = {u1, u2}
  MaxListeners = 1
  ContextTasks = {k1, k2}
  MaxContexts = 2
INVARIANTS
  TypeOK
  BoundsHold
  RecordsHold
  MetIsNotBreached
  NeverFarBehind
  RefusedStaysOut
  MissedOnlyByUnsubscribe
  OneActivePerFamily
  ValidatedRunsInOrder
  RunAgainOnlyAfterOverlap
PROPERTIES
  ImplementsDecision
CHECK_DEADLOCK FALSE
