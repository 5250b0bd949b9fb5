\* Nested blocks of two threads on a pool of one and on a connection of one
\* of them, or of both on one connection.
\* The threads stop when the bounds on blocks and writes are used up.
SPECIFICATION Spec
CONSTANTS
    t1 = t1  t2 = t2  p = p  q = q  c1 = c1  c2 = c2  d = d
    Threads <- TwoThreads
    Connections <- OneConnectionEach
    Pools <- OnePool
    PoolConnections <- PoolOfOne
    Uses <- OwnOrShared
    WithSavepoints <- PoolDialect
    MaxBlocks = 3
    MaxWrites = 2
INVARIANTS
    AtomicBlocks
    FinishedBlocksKept
    OpenBlocksAreKnown
    PoolConnectionsAtRest
CHECK_DEADLOCK FALSE
