-------------------------- MODULE MCConnectionPool --------------------------
(* ConnectionPool on a small instance. *)
EXTENDS ConnectionPool

CONSTANTS t1, t2, c1, c2, c3

TwoThreads == {t1, t2}
ThreeConnections == {c1, c2, c3}

=============================================================================
