CONSTANTS
  p1 = p1
  p2 = p2
  Processes = {p1, p2}
  Repeatables = {"r"}
  NonTransactional = {"b"}
  NoDown = {"a"}
  Deploys <- TwoDeploys
  LegacySets <- NoLegacy
  Engines <- LockEngines
  Commands <- MCCommands
  MaxRuns = 2
  MaxFaults = 2
  None = None
SPECIFICATION Spec
PROPERTIES RunsEnd
CHECK_DEADLOCK FALSE
