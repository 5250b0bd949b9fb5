CONSTANTS
  p1 = p1
  p2 = p2
  Processes = {p1, p2}
  Repeatables = {"r"}
  NonTransactional = {"b"}
  NoDown = {}
  Deploys <- MCDeploys
  LegacySets <- MCLegacySets
  Engines <- MCEngines
  Commands <- MCCommands
  MaxRuns = 3
  MaxFaults = 1
  None = None
SPECIFICATION Spec
INVARIANTS RowsMatchSchema HistoryIsOrdered
PROPERTIES FailedAttemptNotRerun RevertsTheHistory
SYMMETRY Symmetry
CHECK_DEADLOCK FALSE
