SPECIFICATION AgentsFairSpec
CONSTANTS
  Executions = {t1, t2}
  NumAgents = 3
  Scripted = {"recon"}
  Inheriting = {"plain", "assessing", "sharing"}
  AssessesRisk = {"assessing", "sharing"}
  WithBus = {"recon", "sharing"}
  MaxRetries = 1
  Recommended = {2}
INVARIANTS
  AgentsTypeOK
  RoundsBounded
PROPERTIES
  EveryTaskEnds
