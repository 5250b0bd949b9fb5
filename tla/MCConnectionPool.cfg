\* Two threads over a pool of two that can each hold one connection and wait
\* for a second, with one connection more than the pool may count: the third
\* is opened while a discarded one is still closing.  No symmetry, since two
\* of the properties are liveness properties.
SPECIFICATION FairSpec
CONSTANTS
    t1 = t1  t2 = t2
    c1 = c1  c2 = c2  c3 = c3
    Threads <- TwoThreads
    Connections <- ThreeConnections
    MaxSize = 2
INVARIANTS
    ExclusiveCustody
    NoLeak
    NoLostWakeup
PROPERTIES
    ImplementsCustody
    AcquireEnds
    ClosedPoolDrains
