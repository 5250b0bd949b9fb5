------------------------ MODULE MCTrackingUpgrade ------------------------
(* The columns of tracking.py, on the drivers a migrator meets.            *)
EXTENDS TrackingUpgrade

MCColumns == <<"seq", "checksum", "execution_ms", "success", "generated", "steps">>

Psycopg == [opens |-> TRUE, ddl |-> TRUE]     \* PostgreSQL, autocommit off
PyMySQL == [opens |-> TRUE, ddl |-> FALSE]
Autocommit == [opens |-> FALSE, ddl |-> TRUE] \* sqlite3 for DDL, asyncpg

MCDrivers == {Psycopg, PyMySQL, Autocommit}
MCEarlier == {{}}
=============================================================================
