------------------------------ MODULE MSSQLRules ------------------------------
(***************************************************************************)
(* The rules of SQL Server: each ALTER TABLE takes Sch-M, which blocks     *)
(* reads and writes, whatever it does, and what differs is the work under  *)
(* it.  ONLINE = ON, where the edition has it, keeps the strong lock for   *)
(* the end.                                                                *)
(*                                                                         *)
(* A statement or an action spells its WITH clause in online, resumable,   *)
(* which only keys and indexes take, low_priority, the ABORT_AFTER_WAIT of *)
(* a WAIT_AT_LOW_PRIORITY, and fillfactor, which stands for any other      *)
(* option.  A type is [base, length], length -1 being max.                 *)
(***************************************************************************)
EXTENDS ImpactRules

SCH_S == 0
IS == 1
IX == 2
S == 3
SIX == 4
X == 5
SCH_M == 6

blocks(lock) ==
    CASE lock <= IX -> DDL [] lock \in S..SIX -> WRITES [] OTHER -> READS_AND_WRITES

FLOOR == 11

(* Bound: stands for the 5,000 locks that escalate.                        *)
ESCALATION_LOCKS == 3

HEAP == "heap"

(* The settings are the version, the edition and the lock timeout.         *)
context(server, read) ==
    [read         |-> read,
     version      |-> IF "settings" \in read THEN server.version ELSE FLOOR,
     enterprise   |-> IF "settings" \in read THEN server.enterprise ELSE NoFact,
     row_versions |-> IF "snapshot" \in read THEN server.row_versions ELSE NoFact,
     rows         |-> IF "sizes" \in read THEN server.rows ELSE <<>>,
     clustered    |-> IF "sizes" \in read THEN server.clustered ELSE <<>>,
     schema       |-> IF "schema" \in read THEN server.schema ELSE NoFact]

Locked(table, lock, work) == Effect(table, lock, blocks(lock), work)

Alone(table, work) == Outcome({Locked(table, SCH_M, work)})

(* The name of the table's clustered index, HEAP, or NoFact.               *)
clustered(f, table) ==
    IF table \in DOMAIN f.ctx.clustered THEN f.ctx.clustered[table] ELSE NoFact

exclusive_blocks(f) == IF f.ctx.row_versions = TRUE THEN WRITES ELSE READS_AND_WRITES

(* A write to every row escalates to X on the table once it has so many    *)
(* locks.                                                                  *)
escalation(f, table) ==
    LET size == IF table \in DOMAIN f.ctx.rows THEN f.ctx.rows[table] ELSE NoFact
    IN CASE size = NoFact -> [lock |-> X, sure |-> LIKELY]
         [] OTHER -> [lock |-> IF size >= ESCALATION_LOCKS THEN X ELSE NoFact, sure |-> KNOWN]

(* A foreign key takes Sch-M on the table it points at too.                *)
with_target(f, name, outcome) ==
    LET target == foreign_key_target(f.ctx, f.stmt.table, name)
    IN [outcome EXCEPT !.effects =
            @ \cup IF target = NoFact THEN {} ELSE {Locked(target, SCH_M, CATALOG)}]

-----------------------------------------------------------------------------
(* ONLINE = ON.                                                            *)

(* An option that is added goes to the last action of the statement.       *)
with(f, clause) ==
    IF f.stmt.kind # "alter_table" THEN clause @@ f.stmt
    ELSE [f.stmt EXCEPT !.actions[Len(f.stmt.actions)] = clause @@ @]

(* A WITH clause is appended whether or not the statement has one; the     *)
(* server reads one.                                                       *)
has_clause(f) ==
    \E o \in {f.stmt} \cup {f.stmt.actions[n] : n \in DOMAIN f.stmt.actions} :
        o.fillfactor \/ (o.resumable /\ ~o.online)

appended(f, o, clause) ==
    IF o.fillfactor \/ o.resumable THEN Stmt("two_clauses", [table |-> f.stmt.table])
    ELSE with(f, clause)

Online == [online |-> TRUE]

Resumable == [online |-> TRUE, resumable |-> TRUE]

LowPriority == [low_priority |-> "self"]

(* WAIT_AT_LOW_PRIORITY waits beside the queue, and with NONE joins it at  *)
(* last.                                                                   *)
queues(o) == o.low_priority \notin {"self", "blockers"}

online_refused(f, o) == o.online /\ f.ctx.enterprise = FALSE

(* Error 574 inside a transaction, error 11438 without ONLINE = ON.        *)
resumable_refused(f, o) == o.resumable /\ (f.transactional \/ ~o.online)

(* The strong lock is taken when the work is done; inside a transaction it *)
(* is then held until the migration commits.  offers says whether the      *)
(* server takes WAIT_AT_LOW_PRIORITY with the statement.                   *)
online_effect(f, o, final, work, offers) ==
    IF f.transactional
    THEN [Locked(f.stmt.table, final, work) EXCEPT !.waits = queues(o), !.at_end = TRUE]
    ELSE [Effect(f.stmt.table, final, DDL, work) EXCEPT
            !.waits = queues(o),
            !.remedy = IF o.low_priority = NoFact /\ offers THEN <<with(f, LowPriority)>> ELSE @]

online_outcome(f, o, final, work, offers) ==
    [Outcome({online_effect(f, o, final, work, offers)}) EXCEPT
        !.refused = online_refused(f, o) \/ resumable_refused(f, o)]

(* The remedy that spells a WITH clause, on an edition that may have it.   *)
unless_edition(f, o, clause) ==
    IF f.ctx.enterprise = FALSE THEN <<>> ELSE <<appended(f, o, clause)>>

blocking_outcome(f, o, lock, work, clause) ==
    [Outcome({[Locked(f.stmt.table, lock, work) EXCEPT !.remedy = unless_edition(f, o, clause)]})
     EXCEPT !.refused = resumable_refused(f, o)]

-----------------------------------------------------------------------------
(* Columns.                                                                *)

VARIABLE_TYPES == {"varchar", "nvarchar", "varbinary"}

WRITTEN == {"xml", "json", "text"}

ROWVERSION == {"rowversion", "timestamp"}

SYSTEM == {"int", "bigint", "decimal", "char"} \cup VARIABLE_TYPES \cup WRITTEN \cup ROWVERSION

MAX == -1

(* How sure it is that a default of the type is written into every row, or *)
(* NoFact where it can change only the catalog.                            *)
written(type) ==
    CASE type = NoFact -> LIKELY
      [] type # NoFact /\ \/ type.base \in WRITTEN
                          \/ type.base \in VARIABLE_TYPES /\ type.length = MAX -> KNOWN
      [] type # NoFact /\ type.base \notin SYSTEM -> LIKELY
      [] OTHER -> NoFact

(* a.fills says what gives each row its value: identity, stored, virtual,  *)
(* volatile, or unread for a default that counts as volatile.              *)
filled_column(f, a) ==
    CASE written(a.type) # NoFact -> Sure(Alone(f.stmt.table, REWRITE), written(a.type))
      [] written(a.type) = NoFact /\ a.fills = "volatile" -> Alone(f.stmt.table, REWRITE)
      [] written(a.type) = NoFact /\ a.fills = "unread" -> Sure(Alone(f.stmt.table, REWRITE), LIKELY)
      [] OTHER ->
            CASE f.ctx.enterprise = TRUE -> Alone(f.stmt.table, CATALOG)
              [] f.ctx.enterprise = FALSE -> Alone(f.stmt.table, REWRITE)
              [] OTHER -> Sure(Alone(f.stmt.table, REWRITE), LIKELY)

add_column(f, a) ==
    LET each == \/ a.fills \in {"identity", "stored"}
                \/ a.fills # "virtual" /\ a.type # NoFact /\ a.type.base \in ROWVERSION
    IN CASE each -> Alone(f.stmt.table, REWRITE)
         [] ~each /\ a.fills # "virtual" /\ a.default /\ (a.not_null \/ a.with_values) ->
                filled_column(f, a)
         [] OTHER -> Alone(f.stmt.table, CATALOG)

(* What the intent of the diff, or the schema read, says of the column.    *)
current(f, a) ==
    LET found == IF f.ctx.schema = NoFact THEN {}
                 ELSE {c \in f.ctx.schema.columns : c.table = f.stmt.table /\ c.column = a.column}
        read  == IF found = {} THEN [type |-> NoFact, nullable |-> NoFact]
                 ELSE CHOOSE c \in found : TRUE
    IN [type     |-> IF a.from_type = NoFact THEN read.type ELSE a.from_type,
        nullable |-> CASE a.intent = "set_not_null" -> TRUE
                       [] a.intent = "drop_not_null" -> FALSE
                       [] OTHER -> read.nullable]

widened(old, new) ==
    /\ old.base = new.base /\ old.base \in VARIABLE_TYPES
    /\ \/ old = new
       \/ /\ {NoFact, MAX} \cap {old.length, new.length} = {}
          /\ new.length >= old.length

column_change(column, a) ==
    LET old == column.type
    IN CASE old = NoFact -> [work |-> REWRITE, sure |-> LIKELY]
         [] old # NoFact /\ old # a.type /\ ~widened(old, a.type) ->
                [work |-> REWRITE, sure |-> IF old.base = a.type.base THEN LIKELY ELSE KNOWN]
         [] OTHER ->
                IF ~a.not_null \/ column.nullable = FALSE THEN [work |-> CATALOG, sure |-> KNOWN]
                ELSE [work |-> IF a.type.base \in VARIABLE_TYPES THEN REWRITE ELSE SCAN,
                      sure |-> IF column.nullable = NoFact THEN LIKELY ELSE KNOWN]

(* The online form builds the table again beside the old one.              *)
online_column(f, a, change) ==
    LET work == IF change.work > CATALOG THEN REWRITE ELSE CATALOG
    IN [Sure(online_outcome(f, a, SCH_M, work, FALSE), change.sure) EXCEPT
            !.refused = @ \/ f.ctx.version < 13]

changed_column(f, a, change) ==
    IF a.online THEN online_column(f, a, change)
    ELSE Sure(Outcome({[Locked(f.stmt.table, SCH_M, change.work) EXCEPT
                            !.remedy = IF change.work = REWRITE /\ f.ctx.version >= 13
                                       THEN unless_edition(f, a, Online) ELSE <<>>]}),
              change.sure)

alter_column(f, a) == changed_column(f, a, column_change(current(f, a), a))

-----------------------------------------------------------------------------
(* Constraints.                                                            *)

add_checked(f, a) ==
    IF f.stmt.nocheck = TRUE THEN Alone(f.stmt.table, CATALOG)
    ELSE Outcome({[Locked(f.stmt.table, SCH_M, SCAN) EXCEPT
                    !.remedy = <<[f.stmt EXCEPT !.nocheck = TRUE]>>]})

(* A primary key is clustered unless the table already has a clustered     *)
(* index, or it says otherwise, and copies the table into its index.       *)
add_key(f, a) ==
    LET index  == clustered(f, f.stmt.table)
        chosen == a.clustered = NoFact /\ a.constraint = "primary_key"
        copies == IF chosen THEN index \in {NoFact, HEAP} ELSE a.clustered = TRUE
        work   == IF copies THEN REWRITE ELSE INDEX_BUILD
    IN Sure(IF a.online THEN online_outcome(f, a, SCH_M, work, FALSE)
            ELSE blocking_outcome(f, a, SCH_M, work, Online),
            IF chosen /\ index = NoFact THEN LIKELY ELSE KNOWN)

add_constraint(f, a) ==
    CASE a.constraint = "check" -> add_checked(f, a)
      [] a.constraint = "foreign_key" ->
            [add_checked(f, a) EXCEPT !.effects =
                @ \cup {Locked(t, SCH_M, CATALOG) : t \in {a.references} \ {NoFact}}]
      [] a.constraint \in {"primary_key", "unique"} -> add_key(f, a)
      [] OTHER -> unknown

(* Without the key behind it the clustered index is a heap again.          *)
drop_constraint(f, a) ==
    with_target(f, a.name,
        Alone(f.stmt.table,
              IF a.name # NoFact /\ clustered(f, f.stmt.table) = a.name THEN REWRITE ELSE CATALOG))

(* WITH CHECK CHECK CONSTRAINT reads every row.                            *)
check_constraint(f, a) ==
    with_target(f, a.name,
        Alone(f.stmt.table,
              IF a.kind = "enable_constraint" /\ f.stmt.nocheck = FALSE THEN SCAN ELSE CATALOG))

-----------------------------------------------------------------------------
(* The other actions.                                                      *)

rebuild(f, a) ==
    IF a.online THEN online_outcome(f, a, SCH_M, REWRITE, f.ctx.version >= 12)
    ELSE blocking_outcome(f, NoActionOptions, SCH_M, REWRITE, Online)

switch(f, a) ==
    LET remedy == IF a.low_priority = NoFact /\ f.ctx.version >= 12
                  THEN <<with(f, LowPriority)>> ELSE <<>>
        table(t, safer) ==
            [Locked(t, SCH_M, CATALOG) EXCEPT !.waits = queues(a), !.remedy = safer]
    IN Outcome({table(f.stmt.table, remedy), table(a.partition, <<>>)})

ALTER_CATALOG ==
    {"drop_column", "set_default", "drop_default", "rename_column", "rename_index",
     "enable_trigger", "disable_trigger"}

action(f, a) ==
    CASE a.kind = "add_column" -> add_column(f, a)
      [] a.kind = "alter_column" -> alter_column(f, a)
      [] a.kind = "add_constraint" -> add_constraint(f, a)
      [] a.kind = "drop_constraint" -> drop_constraint(f, a)
      [] a.kind \in {"enable_constraint", "disable_constraint"} -> check_constraint(f, a)
      [] a.kind = "rebuild" -> rebuild(f, a)
      [] a.kind = "switch" -> switch(f, a)
      [] a.kind \in ALTER_CATALOG -> Alone(f.stmt.table, CATALOG)
      [] OTHER -> unknown

alter_table(f) ==
    each_action({action(f, f.stmt.actions[n]) : n \in DOMAIN f.stmt.actions})

-----------------------------------------------------------------------------
(* The other statements.                                                   *)

create_index(f) ==
    LET lock == IF f.stmt.clustered THEN SCH_M ELSE S
        work == IF f.stmt.clustered THEN REWRITE ELSE INDEX_BUILD
    IN IF f.stmt.online THEN online_outcome(f, f.stmt, lock, work, f.ctx.version >= 16)
       ELSE blocking_outcome(f, f.stmt, lock, work,
                             IF ~f.transactional /\ f.ctx.version >= 15 THEN Resumable ELSE Online)

(* A statement may name the table of the index it drops.                   *)
drop_index(f) ==
    LET table(n) == index_label(n, IF f.stmt.table # NoFact THEN f.stmt.table
                                   ELSE IF index_table(f, n) # NoFact THEN index_table(f, n)
                                   ELSE f.stmt.intent)
    IN Outcome({Locked(table(n), SCH_M, IF clustered(f, table(n)) = n THEN REWRITE ELSE CATALOG) :
                    n \in f.stmt.names})

(* name = NoFact is ALL.                                                   *)
holds_rows(f) == f.stmt.name = NoFact \/ clustered(f, f.stmt.table) = f.stmt.name

rebuild_index(f) ==
    LET work == IF holds_rows(f) /\ clustered(f, f.stmt.table) # HEAP THEN REWRITE ELSE INDEX_BUILD
        clause == (IF f.ctx.version >= 12 THEN LowPriority ELSE <<>>)
                  @@ (IF ~f.transactional /\ f.ctx.version >= 14 THEN Resumable ELSE Online)
    IN CASE f.stmt.online -> online_outcome(f, f.stmt, SCH_M, work, f.ctx.version >= 12)
         [] ~f.stmt.online /\ (f.stmt.resumable \/ f.stmt.fillfactor) ->
                [Alone(f.stmt.table, work) EXCEPT !.refused = f.stmt.resumable]
         [] OTHER -> blocking_outcome(f, f.stmt, SCH_M, work, clause)

(* Inside a transaction the locks add up to X on the table.                *)
reorganize(f) ==
    LET work == IF holds_rows(f) THEN REWRITE ELSE SCAN
        sure == IF holds_rows(f) THEN LIKELY ELSE KNOWN
    IN IF f.transactional
       THEN Sure(Outcome({Effect(f.stmt.table, X, exclusive_blocks(f), work)}), sure)
       ELSE Sure(Outcome({Locked(f.stmt.table, IX, work)}), LIKELY)

alter_index(f) ==
    CASE f.stmt.mode = "rebuild" -> rebuild_index(f)
      [] f.stmt.mode = "reorganize" -> reorganize(f)
      [] f.stmt.mode = "disable" -> Alone(f.stmt.table, CATALOG)
      [] OTHER -> unknown

drop_table(f) ==
    Outcome({Locked(t, SCH_M, CATALOG) :
                t \in tables(f) \cup UNION {references(f.ctx, n, AnyColumn(f.ctx, n)) : n \in tables(f)}})

(* Nobody waits for the lock on a table that did not exist.                *)
create_table(f) ==
    Outcome({[Locked(f.stmt.table, SCH_M, CATALOG) EXCEPT !.waits = FALSE]}
            \cup {Locked(t, SCH_M, CATALOG) : t \in f.stmt.references})

trigger(f) ==
    LET found == IF f.ctx.schema = NoFact THEN {}
                 ELSE {g \in f.ctx.schema.triggers : g.name = f.stmt.name}
    IN CASE f.stmt.table # NoFact -> Alone(f.stmt.table, CATALOG)
         [] f.stmt.table = NoFact /\ found # {} -> Alone((CHOOSE g \in found : TRUE).table, CATALOG)
         [] OTHER -> unknown

(* whole says that an UPDATE or DELETE has no WHERE and no limit.          *)
write_rows(f) ==
    LET grown == escalation(f, f.stmt.table)
    IN IF f.stmt.whole /\ grown.lock # NoFact
       THEN Sure(Outcome({Effect(f.stmt.table, X, exclusive_blocks(f), ROWS)}), grown.sure)
       ELSE Outcome({Effect(f.stmt.table, IX, exclusive_blocks(f), ROWS)})

effects(f) ==
    LET kind == f.stmt.kind
    IN CASE kind = "alter_table" -> alter_table(f)
         [] kind = "create_index" -> create_index(f)
         [] kind = "drop_index" -> drop_index(f)
         [] kind = "alter_index" -> alter_index(f)
         [] kind = "drop_table" -> drop_table(f)
         [] kind = "create_table" -> create_table(f)
         [] kind \in {"create_trigger", "drop_trigger"} -> trigger(f)
         [] kind \in {"update", "delete", "insert"} -> write_rows(f)
         [] kind \in {"rename_table", "truncate"} ->
                Outcome({Locked(t, SCH_M, CATALOG) : t \in tables(f)})
         [] kind = "update_statistics" -> Outcome({Locked(f.stmt.table, SCH_S, SCAN)})
         [] kind \in {"create_view", "drop_view", "create_object", "drop_object", "set"} -> Outcome({})
         [] OTHER -> unknown
=============================================================================
