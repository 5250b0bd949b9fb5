\* Two tasks over a pool of one.  A release whose caller was cancelled goes on
\* without it, so both tasks can wait while the slot is in a reset, and a
\* second adapter can be opened while a discarded one closes.
SPECIFICATION Spec
CONSTANTS
    t1 = t1  t2 = t2  a1 = a1  a2 = a2
    Tasks <- TwoTasks
    Adapters <- TwoAdapters
    MaxSize = 1
    Drivers <- AnyDriver
INVARIANTS
    NothingIsLost
PROPERTIES
    ImplementsCustody
    AcquireEnds
