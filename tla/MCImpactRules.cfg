SPECIFICATION Spec
CONSTANTS
  t = t
  q = q
  r = r
  d = d
  m = m
  x = x
  u = u
  c = c
  k = k
  i = i
  l = l
  held = held
  proof = proof
  NoFact = NoFact
  NoTable = NoTable
  NoStatement = NoStatement
  Database = Database
  Limit = 5
  CollationUnread = FALSE
  FulltextUnread = FALSE
  RemedyOnPartitions = FALSE
  RemedyOnDomains = FALSE
  LockedInstant = FALSE
  RemedyAfterWith = FALSE
  ClusteredUnread = FALSE
  Families = {"partitions", "versions", "types", "columns", "keys", "storage", "clauses", "modifies", "tsql", "file"}
INVARIANTS
  KnownStays
  GuardsErrOnBlocking
  RemediesAreSafer
CHECK_DEADLOCK FALSE
