------------------------------ MODULE SQLiteRules ------------------------------
(***************************************************************************)
(* The rules of SQLite, which has one lock: whoever writes holds the write *)
(* lock of the database, and blocks reads too unless the journal is a WAL. *)
(*                                                                         *)
(* An INSERT of the diff's table rebuild names the table it rebuilds in    *)
(* intent; reads is the set of tables a query reads, or NoFact.            *)
(***************************************************************************)
EXTENDS ImpactRules

WRITE_LOCK == 0

blocked(f) == IF f.ctx.wal = TRUE THEN WRITES ELSE READS_AND_WRITES

context(server, read) ==
    [read   |-> read,
     wal    |-> IF "settings" \in read THEN server.wal ELSE NoFact,
     rows   |-> IF "sizes" \in read THEN server.rows ELSE <<>>,
     schema |-> IF "schema" \in read THEN server.schema ELSE NoFact]

Locked(f, table, work) == Effect(table, WRITE_LOCK, blocked(f), work)

Alone(f, table, work) == Outcome({Locked(f, table, work)})

-----------------------------------------------------------------------------
(* ADD COLUMN is refused for some columns, and for others where the table  *)
(* has rows: without a default, or with one that is not constant.  Says    *)
(* how sure the refusal is, or NoFact.                                     *)
refused_column(f, a) ==
    LET table    == f.stmt.table
        size     == IF table \in DOMAIN f.ctx.rows THEN f.ctx.rows[table] ELSE NoFact
        any_rows == (a.not_null /\ ~a.default) \/ a.fills \in {"expression", "stored"}
    IN CASE a.unique \/ a.primary_key -> KNOWN
         [] ~(a.unique \/ a.primary_key) /\ any_rows /\ ~is_new(f, table) /\ size # 0 ->
                IF size = NoFact THEN LIKELY ELSE KNOWN
         [] OTHER -> NoFact

(* A check, and NOT NULL on a generated column, are tested on every row.   *)
add_column(f, a) ==
    LET tested  == a.check \/ (a.not_null /\ a.fills \in {"stored", "virtual"})
        added   == Alone(f, f.stmt.table, IF tested THEN SCAN ELSE CATALOG)
        refusal == refused_column(f, a)
    IN IF refusal = NoFact THEN added ELSE [Sure(added, refusal) EXCEPT !.refused = TRUE]

action(f, a) ==
    CASE a.kind = "add_column" -> add_column(f, a)
      [] a.kind = "drop_column" -> Alone(f, f.stmt.table, REWRITE)
      [] a.kind \in {"rename_column", "rename_to"} -> Alone(f, f.stmt.table, CATALOG)
      [] OTHER -> unknown

alter_table(f) ==
    each_action({action(f, f.stmt.actions[n]) : n \in DOMAIN f.stmt.actions})

-----------------------------------------------------------------------------
(* Rows copied into a table the run created are reported on the tables     *)
(* they come from.                                                         *)

copies(f) ==
    f.stmt.source = "select" /\ f.stmt.reads # {} /\
        (f.stmt.kind = "insert" => is_new(f, f.stmt.table))

copy(f) ==
    IF f.stmt.reads = NoFact THEN Sure(Alone(f, Database, REWRITE), LIKELY)
    ELSE Outcome({Locked(f, t, REWRITE) : t \in f.stmt.reads})

insert(f) ==
    CASE f.stmt.intent \notin {NoFact, f.stmt.table} -> Alone(f, f.stmt.intent, REWRITE)
      [] f.stmt.intent \in {NoFact, f.stmt.table} /\ copies(f) -> copy(f)
      [] OTHER -> Alone(f, f.stmt.table, ROWS)

-----------------------------------------------------------------------------
(* The other statements.                                                   *)

drop_index(f) ==
    Outcome({Locked(f, index_label(n, dropped_index_table(f, n)), SCAN) : n \in f.stmt.names})

(* A name that is no index and no table may be a collation, whose indexes  *)
(* span tables.                                                            *)
reindex(f) ==
    LET name  == f.stmt.name
        found == index_table(f, name)
        known == \/ f.ctx.schema # NoFact /\ \E c \in f.ctx.schema.columns : c.table = name
                 \/ is_new(f, name)
    IN CASE name = NoFact -> Alone(f, Database, INDEX_BUILD)
         [] name # NoFact /\ found # NoFact -> Alone(f, found, INDEX_BUILD)
         [] OTHER -> Sure(Alone(f, name, INDEX_BUILD), IF known THEN KNOWN ELSE LIKELY)

schema_change(f) ==
    Alone(f, IF f.stmt.table = NoFact THEN Database ELSE f.stmt.table, CATALOG)

analyze(f) ==
    Outcome({Locked(f, t, SCAN) : t \in IF tables(f) = {} THEN {Database} ELSE tables(f)})

vacuum(f) == [Alone(f, Database, REWRITE) EXCEPT !.refused = f.transactional]

effects(f) ==
    LET kind == f.stmt.kind
    IN CASE kind = "alter_table" -> alter_table(f)
         [] kind = "create_index" -> Alone(f, f.stmt.table, INDEX_BUILD)
         [] kind = "drop_index" -> drop_index(f)
         [] kind = "reindex" -> reindex(f)
         [] kind = "create_table" -> IF copies(f) THEN copy(f) ELSE schema_change(f)
         [] kind \in {"create_view", "drop_view", "create_trigger", "drop_trigger"} ->
                schema_change(f)
         [] kind = "drop_table" -> Outcome({Locked(f, t, SCAN) : t \in tables(f)})
         [] kind = "insert" -> insert(f)
         [] kind \in {"update", "delete"} -> Alone(f, f.stmt.table, ROWS)
         [] kind = "analyze" -> analyze(f)
         [] kind = "vacuum" -> vacuum(f)
         [] kind = "set" -> Outcome({})
         [] OTHER -> unknown
=============================================================================
