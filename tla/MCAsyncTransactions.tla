------------------------ MODULE MCAsyncTransactions ------------------------
(* AsyncTransactions on small instances. *)
EXTENDS AsyncTransactions, TLC

CONSTANTS t1, t2, p, a1, a2

TwoTasks == {t1, t2}
TwoAdapters == {a1, a2}
OnePool == {p}
PoolOfOne == p :> {a1}

\* Both tasks take adapters from a pool of one; or one task has that pool and
\* a DuckDB connection to itself; or one task runs writes on an adapter the
\* other opens blocks on, whatever the docs say.
DriverAndCursor == a1 :> "driver" @@ a2 :> "cursor"
On1(opens, runs) == [opens |-> opens, runs |-> runs]
PoolUses == t1 :> On1({p}, {p}) @@ t2 :> On1({p}, {p})
OwnUses == t1 :> On1({p, a2}, {p, a2}) @@ t2 :> On1({}, {})
SharedUses == t1 :> On1({a1}, {}) @@ t2 :> On1({}, {a1})
PooledOwnOrShared == {PoolUses, OwnUses, SharedUses}

\* Two tasks run writes on the adapter a model is bound to.
BoundUses == {t1 :> On1({}, {a1}) @@ t2 :> On1({}, {a1})}
\* A task has a connection in autocommit to itself.
AutocommitUses == {t1 :> On1({a1}, {a1}) @@ t2 :> On1({}, {})}
DriverOnly == a1 :> "driver" @@ a2 :> "driver"
AutocommitOnly == a1 :> "statements" @@ a2 :> "statements"
=============================================================================
