\* Two tasks, a pool of one and a DuckDB connection of one of them, or one
\* adapter that both use.
\* The tasks stop when the bounds on blocks and writes are used up.
SPECIFICATION FairSpec
CONSTANTS
    t1 = t1  t2 = t2  p = p  a1 = a1  a2 = a2
    Tasks <- TwoTasks
    Adapters <- TwoAdapters
    Pools <- OnePool
    PoolAdapters <- PoolOfOne
    Control <- DriverAndCursor
    Uses <- PooledOwnOrShared
    MaxBlocks = 2
    MaxWrites = 2
    MaxCancels = 2
INVARIANTS
    AtomicBlocks
    FinishedIsDurable
    OneThreadPerConnection
PROPERTIES
    CallsEnd
CHECK_DEADLOCK FALSE
