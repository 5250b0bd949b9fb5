--------------------------- MODULE MCTransactions ---------------------------
(* Transactions on small instances. *)
EXTENDS Transactions, TLC

CONSTANTS t1, t2, p, q, c1, c2, d

TwoThreads == {t1, t2}
OneThread == {t1}

\* Two threads share a pool of one connection, so the second caller times
\* out, and t1 also has a connection of its own, with no savepoints; or both
\* threads name that connection, whatever the docs say.
OneConnectionEach == {c1, d}
OnePool == {p}
PoolOfOne == p :> {c1}
OwnUses == t1 :> {p, d} @@ t2 :> {p}
SharedUses == t1 :> {d} @@ t2 :> {d}
OwnOrShared == {OwnUses, SharedUses}
OnlyShared == {SharedUses}
PoolDialect == {c1}

\* One thread and two pools.
ThreeConnections == {c1, c2, d}
TwoPools == {p, q}
TwoPoolConnections == p :> {c1, c2} @@ q :> {d}
TwoPoolUses == {t1 :> {p, q}}

=============================================================================
