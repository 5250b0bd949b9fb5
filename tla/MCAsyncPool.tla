----------------------------- MODULE MCAsyncPool -----------------------------
(* AsyncPool on small instances. *)
EXTENDS AsyncPool

CONSTANTS t1, t2, a1, a2

TwoTasks == {t1, t2}
OneTask == {t1}
TwoAdapters == {a1, a2}
AnyDriver == {TRUE, FALSE}
Asyncpg == {FALSE}

=============================================================================
