----------------------------- MODULE MCMigrator -----------------------------
(* Small instances of Migrator: two processes, two versioned migrations    *)
(* and one repeatable, in three deploys of different age.                  *)
EXTENDS Migrator, TLC

CONSTANTS p1, p2

Symmetry == Permutations(Processes)

M(id, edition) == [id |-> id, edition |-> edition]

(* The first deploy, a later one that orders its new migration b before    *)
(* the applied a and changes the view r, and one that edited a and lost r. *)
MCDeploys == {<<M("a", 1), M("r", 1)>>,
              <<M("b", 1), M("a", 1), M("r", 2)>>,
              <<M("a", 2), M("b", 1)>>}
(* One deploy of two versioned migrations, for the questions that need no  *)
(* disagreement between the processes.                                     *)
OneDeploy == {<<M("a", 1), M("b", 1), M("c", 1)>>}
TwoDeploys == {<<M("a", 1), M("r", 1)>>, <<M("a", 1), M("b", 1), M("r", 2)>>}
NoLegacy == {{}}
MCLegacySets == {{}, {"a", "r"}}

Postgres == [lock |-> TRUE, ddl |-> TRUE, frozen |-> FALSE]
MySQL == [lock |-> TRUE, ddl |-> FALSE, frozen |-> FALSE]
MySQLByDefault == [lock |-> TRUE, ddl |-> FALSE, frozen |-> TRUE]
SQLite == [lock |-> FALSE, ddl |-> TRUE, frozen |-> FALSE]

MCEngines == {Postgres, MySQL, SQLite}
LockEngines == {Postgres, MySQL}
FrozenEngines == {MySQLByDefault}
MCCommands == {"up", "down", "down_to", "repair", "baseline"}
UpAndDownTo == {"up", "down_to"}
=============================================================================
