------------------------------ MODULE DuckDBRules ------------------------------
(***************************************************************************)
(* The rules of DuckDB, which takes no locks: a name stands for the        *)
(* conflict an uncommitted change opens on a table, where a transaction    *)
(* aborts and none waits.                                                  *)
(***************************************************************************)
EXTENDS ImpactRules

NO_CONFLICT == -1
CATALOG_ENTRY == 0
CHANGED_ROWS == 1
ALTERED_TABLE == 2
DROPPED_TABLE == 3

blocks(conflict) ==
    CASE conflict = NO_CONFLICT -> NOTHING
      [] conflict = CATALOG_ENTRY -> DDL
      [] OTHER -> WRITES

context(server, read) ==
    [read   |-> read,
     rows   |-> IF "sizes" \in read THEN server.rows ELSE <<>>,
     schema |-> IF "schema" \in read THEN server.schema ELSE NoFact]

Conflict(table, conflict, work) ==
    [Effect(table, conflict, blocks(conflict), work) EXCEPT !.waits = FALSE]

On(names, conflict, work) == Outcome({Conflict(t, conflict, work) : t \in names})

orDatabase(table) == {IF table = NoFact THEN Database ELSE table}

-----------------------------------------------------------------------------
(* The column constraints ADD COLUMN refuses, and a generated column, are  *)
(* not understood.                                                         *)
add_column(f, a) ==
    LET refused == \/ a.fills \in {"stored", "virtual"} \/ a.not_null \/ a.check
                   \/ a.references # NoFact \/ a.unique \/ a.primary_key
    IN CASE refused -> unknown
         [] ~refused /\ a.fills \in {"volatile", "unread"} ->
                Sure(On({f.stmt.table}, ALTERED_TABLE, REWRITE),
                     IF a.fills = "unread" THEN LIKELY ELSE KNOWN)
         [] OTHER -> On({f.stmt.table}, ALTERED_TABLE, ROWS)

action(f, a) ==
    CASE a.kind = "add_column" -> add_column(f, a)
      [] a.kind = "drop_column" -> On({f.stmt.table}, ALTERED_TABLE, CATALOG)
      [] a.kind = "alter_column_type" -> On({f.stmt.table}, ALTERED_TABLE, REWRITE)
      [] a.kind = "set_not_null" -> On({f.stmt.table}, ALTERED_TABLE, SCAN)
      [] a.kind \in {"drop_not_null", "set_default", "drop_default", "rename_column", "rename_to"} ->
            On({f.stmt.table}, CATALOG_ENTRY, CATALOG)
      [] OTHER -> unknown

alter_table(f) ==
    each_action({action(f, f.stmt.actions[n]) : n \in DOMAIN f.stmt.actions})

-----------------------------------------------------------------------------
drop_index(f) ==
    On({index_label(n, dropped_index_table(f, n)) : n \in f.stmt.names}, CATALOG_ENTRY, CATALOG)

(* No other transaction sees a table before its commit.                    *)
create_table(f) ==
    Outcome({Conflict(f.stmt.table, NO_CONFLICT, CATALOG)}
            \cup {Conflict(t, CATALOG_ENTRY, CATALOG) : t \in f.stmt.references})

write_rows(f) ==
    IF f.stmt.kind = "insert" THEN On({f.stmt.table}, NO_CONFLICT, ROWS)
    ELSE On(tables(f), CHANGED_ROWS, ROWS)

effects(f) ==
    LET kind == f.stmt.kind
    IN CASE kind = "alter_table" -> alter_table(f)
         [] kind = "create_index" -> On({f.stmt.table}, NO_CONFLICT, INDEX_BUILD)
         [] kind = "drop_index" -> drop_index(f)
         [] kind = "comment_on" -> On(orDatabase(f.stmt.table), CATALOG_ENTRY, CATALOG)
         [] kind = "create_table" -> create_table(f)
         [] kind \in {"create_view", "drop_view", "create_object", "drop_object"} ->
                On(orDatabase(f.stmt.table), NO_CONFLICT, CATALOG)
         [] kind = "drop_table" -> On(tables(f), DROPPED_TABLE, CATALOG)
         [] kind \in {"insert", "update", "delete", "truncate"} -> write_rows(f)
         [] kind = "analyze" ->
                On(IF tables(f) = {} THEN {Database} ELSE tables(f), NO_CONFLICT, SCAN)
         [] kind = "set" -> Outcome({})
         [] OTHER -> unknown
=============================================================================
