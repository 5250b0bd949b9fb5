SPECIFICATION Spec
CONSTANTS
  a = a
  p = p
  q = q
  x = x
  Names = {a, p, q, x}
  Live = {a, p, q}
  LivePartitioned = {p}
  LiveParent <- MCLiveParent
  NoTable = NoTable
  NoLink = NoLink
  New = New
  Unknown = Unknown
  MaxStatements = 4
  MaxMigrations = 2
  NamesReused = FALSE
  c = c
  d = d
  k = k
  l = l
  m = m
  Columns = {c, d}
  Constraints = {k, l, m}
  SchemaColumns = {c}
  SchemaChecks <- MCSchemaChecks
  AutoName <- MCAutoName
  NoName = NoName
  MaxAlters = 4
  UnnamedChecks = FALSE
  GoneNamesReused = FALSE
  NotSet = NotSet
  MaxSettings = 6
  LocalOff = FALSE
  TableNames = {a, p, x}
  Present = {a, p}
  Absent = Absent
  DATABASE = DATABASE
  Works = {0, 1, 2}
  MaxScript = 3
  Parts = {"tables", "checks", "timeouts", "windows"}
INVARIANTS
  FactsFollowTables
  ProvedColumnsAreChecked
  CoveredIsInForce
  WindowsAreTheLocks
CHECK_DEADLOCK FALSE
