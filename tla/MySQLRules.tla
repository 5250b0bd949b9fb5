------------------------------ MODULE MySQLRules ------------------------------
(***************************************************************************)
(* The MySQL and MariaDB rule profiles (impact/rules/mysql).  InnoDB runs  *)
(* an ALTER TABLE with an algorithm and a LOCK level; the level of INSTANT,*)
(* which has none, is NONE here.  A type is [base, length, members], a     *)
(* collation [charset, name], a version a number (8.0.29 is 80029), and a  *)
(* column of the schema read has its type, its collation, and whether it   *)
(* takes NULL and is AUTO_INCREMENT.                                       *)
(***************************************************************************)
EXTENDS ImpactRules

INSTANT == 0
NOCOPY == 1
INPLACE == 2
COPY == 3

NONE == 0
SHARED == 1
EXCLUSIVE == 2

Online(algorithm, level) == [algorithm |-> algorithm, level |-> level]

(* Lock ranks: the row locks, the labels by level and then algorithm, the  *)
(* exclusive metadata lock; -1 is no lock.                                 *)
ROW_LOCKS == 0
MDL_EXCLUSIVE == 14

lock_rank(online) == 1 + 4 * online.level + online.algorithm

blocks(online) ==
    IF online.algorithm = INSTANT THEN READS_AND_WRITES
    ELSE CASE online.level = NONE -> DDL
           [] online.level = SHARED -> WRITES
           [] OTHER -> READS_AND_WRITES

(* Every lock but those of a DML statement needs the metadata lock.        *)
Labelled(table, online, work) ==
    [Effect(table, lock_rank(online), blocks(online), work) EXCEPT !.waits = TRUE]

Metadata(table) == Effect(table, MDL_EXCLUSIVE, READS_AND_WRITES, CATALOG)

-----------------------------------------------------------------------------
(* The read of the server.                                                 *)

FLOOR == 80019

(* The storage facts are asked for once the sizes named the tables, the    *)
(* instant row versions on the servers that count them.                    *)
asks(server, fact, read) ==
    CASE fact = "fulltext" -> "sizes" \in read
      [] fact = "row_versions" ->
            {"sizes", "settings"} \subseteq read /\ server.profile = "mysql"
            /\ server.version >= 80029
      [] OTHER -> TRUE

UnreadStorage == [format |-> NoFact, collation |-> NoFact, fulltext |-> NoFact, versions |-> NoFact]

context(server, read) ==
    LET named    == "settings" \in read
        stored(t) ==
            [server.storage[t] EXCEPT
                !.fulltext = IF "fulltext" \in read THEN @ ELSE NoFact,
                !.versions = IF "row_versions" \in read THEN @ ELSE NoFact]
    IN [read    |-> read,
        profile |-> IF named THEN server.profile ELSE "mysql",
        version |-> IF named THEN server.version ELSE FLOOR,
        checks  |-> named => server.checks,
        rows    |-> IF "sizes" \in read THEN server.rows ELSE <<>>,
        storage |-> IF "sizes" \in read THEN [t \in DOMAIN server.storage |-> stored(t)] ELSE <<>>,
        schema  |-> IF "schema" \in read THEN server.schema ELSE NoFact]

is_mariadb(f) == f.ctx.profile = "mariadb"

copy_algorithm(f) ==
    Online(COPY, IF is_mariadb(f) /\ f.ctx.version >= 110200 /\ ~f.stmt.ignore THEN NONE ELSE SHARED)

nocopy_algorithm(f) == Online(IF is_mariadb(f) THEN NOCOPY ELSE INPLACE, NONE)

instant_on_mariadb(f) == Online(IF is_mariadb(f) THEN INSTANT ELSE INPLACE, NONE)

row_version_limit(version) == IF version >= 90100 THEN 255 ELSE 64

foreign_key_checks_off(f) ==
    IF "foreign_key_checks" \in DOMAIN f.run.settings
    THEN f.run.settings["foreign_key_checks"] = "off" ELSE ~f.ctx.checks

(* The table's storage as the run has left it.                             *)
table_stats(f, table) ==
    (IF table \in DOMAIN f.run.storage THEN f.run.storage[table] ELSE <<>>) @@
    (IF is_new(f, table)
     THEN [format |-> "DYNAMIC", collation |-> NoFact, fulltext |-> FALSE, versions |-> 0]
     ELSE IF table \in DOMAIN f.ctx.storage THEN f.ctx.storage[table] ELSE UnreadStorage)

-----------------------------------------------------------------------------
(* Changes: what the server does for one action.  rebuilds is set on an    *)
(* instant change that rebuilds the table when it runs in place.           *)

Change(online, work, sure) ==
    [online |-> online, work |-> work, sure |-> sure, rebuilds |-> FALSE]

Known(online, work) == Change(online, work, KNOWN)

Instantly == Known(Online(INSTANT, NONE), CATALOG)

Rebuilt(level) == Known(Online(INPLACE, level), REWRITE)

Copied(f) == Known(copy_algorithm(f), REWRITE)

NotRead == Change(Online(COPY, EXCLUSIVE), REWRITE, UNKNOWN)

Combined(onlines) ==
    Online(Max({o.algorithm : o \in onlines}), Max({o.level : o \in onlines}))

(* The changes of one statement as the server runs them together.          *)
heaviest(changes) ==
    LET online  == Combined({c.online : c \in changes})
        rebuilt == online.algorithm # INSTANT /\ \E c \in changes : c.rebuilds
    IN [online   |-> IF rebuilt /\ online.algorithm = NOCOPY
                     THEN Online(INPLACE, online.level) ELSE online,
        work     |-> IF rebuilt THEN REWRITE ELSE Max({c.work : c \in changes}),
        sure     |-> Min({c.sure : c \in changes}),
        rebuilds |-> ~rebuilt /\ \E c \in changes : c.rebuilds]

-----------------------------------------------------------------------------
(* ADD COLUMN and DROP COLUMN.                                             *)

(* Why an instant change would not be instant: fulltext, stored, or        *)
(* nothing, with how sure the answer is.                                   *)
storage_limits(f, table) ==
    LET s       == table_stats(f, table)
        counted == ~is_mariadb(f) /\ f.ctx.version >= 80029
        used_up == counted /\ s.versions # NoFact /\ s.versions >= row_version_limit(f.ctx.version)
        unread  == \/ s.fulltext = NoFact \/ s.format = NoFact
                   \/ counted /\ s.versions = NoFact
    IN CASE s.fulltext = TRUE -> [why |-> "fulltext", sure |-> KNOWN]
         [] s.fulltext # TRUE /\ (s.format = "COMPRESSED" \/ used_up) ->
                [why |-> "stored", sure |-> KNOWN]
         [] OTHER -> [why |-> "nothing", sure |-> IF unread THEN LIKELY ELSE KNOWN]

(* A column change that is instant unless the table's storage rules it out.*)
InstantUnless(f, limits) ==
    CASE limits.why = "fulltext" -> IF is_mariadb(f) THEN Rebuilt(SHARED) ELSE Copied(f)
      [] limits.why = "stored" -> Rebuilt(NONE)
      [] OTHER -> [Instantly EXCEPT !.sure = limits.sure, !.rebuilds = TRUE]

(* a.fills says what gives each row its value: stored, expression,         *)
(* volatile, identity or no.                                               *)
add_column(f, a) ==
    LET mariadb == is_mariadb(f)
        limits  == storage_limits(f, f.stmt.table)
        copies  == \/ a.fills \in {"stored", "volatile"} \/ a.check
                   \/ a.references # NoFact /\ ~foreign_key_checks_off(f)
                   \/ a.fills = "expression" /\ ~mariadb
        early   == a.position /\ ~mariadb /\ f.ctx.version < 80029
    IN CASE copies -> Copied(f)
         [] ~copies /\ a.fills = "identity" -> Rebuilt(SHARED)
         [] ~copies /\ a.fills # "identity" /\ (a.primary_key \/ a.unique) -> Rebuilt(NONE)
         [] OTHER -> IF limits.why = "nothing" /\ early THEN Rebuilt(NONE)
                     ELSE InstantUnless(f, limits)

(* TRUE, FALSE, or NoFact without the schema read.                         *)
indexed(f, table, column) ==
    IF f.ctx.schema = NoFact THEN NoFact
    ELSE \E i \in f.ctx.schema.pk \cup f.ctx.schema.indexes :
            i.table = table /\ column \in i.columns

drop_column(f, a) ==
    LET used   == indexed(f, f.stmt.table, a.column)
        limits == storage_limits(f, f.stmt.table)
    IN CASE used = TRUE -> IF is_mariadb(f) THEN Known(nocopy_algorithm(f), CATALOG) ELSE Rebuilt(NONE)
         [] used # TRUE /\ ~is_mariadb(f) /\ f.ctx.version < 80029 -> Rebuilt(NONE)
         [] OTHER -> InstantUnless(f, IF limits.why = "nothing" /\ used = NoFact
                                      THEN [limits EXCEPT !.sure = LIKELY] ELSE limits)

-----------------------------------------------------------------------------
(* MODIFY and CHANGE.                                                      *)

CharsetBytes(collation) ==
    IF collation = NoFact THEN NoFact
    ELSE CASE collation.charset = "latin1" -> 1
           [] collation.charset = "utf8mb3" -> 3
           [] collation.charset = "utf8mb4" -> 4
           [] OTHER -> NoFact

(* Whether a VARCHAR keeps its length prefix.                              *)
length_bytes(old, new, collation) ==
    LET width == CharsetBytes(collation)
        keeps(w) == (old * w > 255) <=> (new * w > 255)
    IN IF width # NoFact THEN [same |-> keeps(width), sure |-> KNOWN]
       ELSE [same |-> keeps(4), sure |-> IF keeps(1) <=> keeps(4) THEN KNOWN ELSE LIKELY]

mariadb_widens_instantly(old, new, width, format) ==
    LET widths  == IF width = NoFact THEN {1, 4} ELSE {width}
        crosses == {w \in widths : 128 <= old * w /\ old * w <= 255 /\ 255 < new * w}
    IN CASE crosses = {} -> [same |-> TRUE, sure |-> KNOWN]
         [] crosses # {} /\ format = NoFact -> [same |-> FALSE, sure |-> LIKELY]
         [] OTHER -> [same |-> format = "REDUNDANT",
                      sure |-> IF crosses = widths THEN KNOWN ELSE LIKELY]

(* The change a new type makes: none, or one.                              *)
type_change(f, old, new, collation, format) ==
    LET widened == old.base = new.base /\ old.base \in {"varchar", "varbinary"}
                   /\ new.length >= old.length
        instant == mariadb_widens_instantly(old.length, new.length,
                        IF old.base = "varbinary" THEN 1 ELSE CharsetBytes(collation), format)
        prefix  == length_bytes(old.length, new.length, collation)
        before  == old.members
        after   == new.members
        appended == /\ old.base = new.base /\ old.base \in {"enum", "set"}
                    /\ Len(after) >= Len(before) /\ SubSeq(after, 1, Len(before)) = before
                    /\ IF old.base = "enum" THEN (Len(before) > 255) <=> (Len(after) > 255)
                       ELSE (Len(before) + 7) \div 8 = (Len(after) + 7) \div 8
    IN CASE old = new -> {}
         [] old # new /\ widened /\ is_mariadb(f) ->
                {[(IF instant.same THEN Instantly ELSE Copied(f)) EXCEPT !.sure = instant.sure]}
         [] old # new /\ widened /\ ~is_mariadb(f) ->
                {Change(IF prefix.same THEN Online(INPLACE, NONE) ELSE copy_algorithm(f),
                        IF prefix.same THEN CATALOG ELSE REWRITE, prefix.sure)}
         [] OTHER -> {IF appended THEN Instantly ELSE Copied(f)}

(* The collation a character set gives, where every version gives the same.*)
default_collation(f, charset) ==
    CASE charset = "latin1" -> "swedish"
      [] charset \in {"utf8mb3", "utf8mb4"} /\ ~is_mariadb(f) ->
            IF charset = "utf8mb3" THEN "general" ELSE "0900"
      [] OTHER -> NoFact

collated(f, used, widened) ==
    IF used = FALSE
    THEN IF is_mariadb(f) THEN Instantly ELSE Known(Online(INPLACE, NONE), CATALOG)
    ELSE IF is_mariadb(f)
    THEN Change(Online(NOCOPY, NONE), INDEX_BUILD, IF widened THEN LIKELY ELSE KNOWN)
    ELSE Copied(f)

(* The change a restated column makes to its collation: none, or one.      *)
collation_change(f, a, spec, table_collation) ==
    LET old == spec.collation
        new == CASE a.collate # NoFact -> a.collate
                 [] a.collate = NoFact /\ a.charset # NoFact ->
                        [charset |-> a.charset, name |-> default_collation(f, a.charset)]
                 [] OTHER -> table_collation
        widened == old # NoFact /\ new # NoFact /\ old.charset = "utf8mb3" /\ new.charset = "utf8mb4"
        used    == indexed(f, f.stmt.table, a.column)
        longer  == /\ widened /\ spec.type.base = "varchar"
                   /\ spec.type.length * 3 <= 255 /\ 255 < spec.type.length * 4
        change  == collated(f, used, widened)
        unsure  == \/ used = NoFact
                   \/ widened /\ spec.type.base # "varchar"
                   \/ new.name = NoFact /\ change.online.algorithm # INSTANT
    IN CASE old = NoFact \/ old = new -> {}
         [] old # NoFact /\ old # new /\ new = NoFact -> {[Copied(f) EXCEPT !.sure = LIKELY]}
         [] old # NoFact /\ old # new /\ new # NoFact
            /\ (longer \/ (new.charset # old.charset /\ ~widened)) -> {Copied(f)}
         [] OTHER -> {IF unsure THEN [change EXCEPT !.sure = LIKELY] ELSE change}

rename_column(f) ==
    IF ~is_mariadb(f) /\ f.ctx.version < 80028 THEN Known(Online(INPLACE, NONE), CATALOG)
    ELSE Instantly

(* a.intent is what the diff says a generated statement does:              *)
(* [kind, from_type, to_type].                                             *)
modify_column(f, a) ==
    LET table == f.stmt.table
        stats == table_stats(f, table)
        specs == {c \in IF f.ctx.schema = NoFact THEN {} ELSE f.ctx.schema.columns :
                     c.table = table /\ c.column = a.column}
        moved == IF is_mariadb(f) THEN [Instantly EXCEPT !.rebuilds = TRUE] ELSE Rebuilt(NONE)
        kind  == IF a.intent = NoFact THEN NoFact ELSE a.intent.kind
        named == IF specs = {} THEN NoFact ELSE (CHOOSE c \in specs : TRUE).collation
        retyped(spec) == type_change(f, spec.type, a.type, spec.collation, stats.format)
        restated ==
            CASE kind = "alter_column_type" ->
                    type_change(f, a.intent.from_type, a.intent.to_type, named, stats.format)
              [] kind \in {"set_not_null", "drop_not_null"} -> {Rebuilt(NONE)}
              [] kind = "set_column_comment" -> {}
              [] OTHER ->
                    IF specs = {} THEN {[Copied(f) EXCEPT !.sure = LIKELY]}
                    ELSE UNION {retyped(s) \cup
                                (IF s.nullable # (~a.not_null /\ ~a.primary_key)
                                 THEN {Rebuilt(NONE)} ELSE {}) \cup
                                (IF s.identity # (a.fills = "identity") THEN {Copied(f)} ELSE {}) :
                                    s \in specs}
        changes == (IF a.new \in {NoFact, a.column} THEN {} ELSE {rename_column(f)}) \cup
                   (IF a.position THEN {moved} ELSE {}) \cup
                   UNION {collation_change(f, a, s, stats.collation) : s \in specs} \cup
                   restated \cup
                   (IF a.fills = "stored" THEN {[Copied(f) EXCEPT !.sure = LIKELY]} ELSE {})
    IN IF changes = {} THEN Instantly ELSE heaviest(changes)

-----------------------------------------------------------------------------
(* The other actions.                                                      *)

index_change(f, o) ==
    LET fulltext == table_stats(f, f.stmt.table).fulltext
        built == Known(Online(nocopy_algorithm(f).algorithm, SHARED), INDEX_BUILD)
    IN CASE o.hashed /\ is_mariadb(f) -> Copied(f)
         [] ~(o.hashed /\ is_mariadb(f)) /\ (o.spatial \/ (o.fulltext /\ fulltext = TRUE)) -> built
         [] ~(o.hashed /\ is_mariadb(f)) /\ ~o.spatial /\ o.fulltext /\ fulltext # TRUE ->
                [Rebuilt(SHARED) EXCEPT !.sure = IF fulltext = NoFact THEN LIKELY ELSE KNOWN]
         [] OTHER -> Known(nocopy_algorithm(f), INDEX_BUILD)

add_constraint(f, a) ==
    CASE a.constraint = "primary_key" -> Rebuilt(NONE)
      [] a.constraint = "unique" -> index_change(f, [a EXCEPT !.fulltext = FALSE, !.spatial = FALSE])
      [] a.constraint = "foreign_key" ->
            IF foreign_key_checks_off(f) THEN Known(instant_on_mariadb(f), CATALOG) ELSE Copied(f)
      [] a.constraint = "check" -> Copied(f)
      [] OTHER -> NotRead

constraint_kind(f, table, name) ==
    CASE f.ctx.schema = NoFact -> NoFact
      [] f.ctx.schema # NoFact /\ foreign_key_target(f.ctx, table, name) # NoFact -> "foreign_key"
      [] is_check(f.ctx, table, name) /\ foreign_key_target(f.ctx, table, name) = NoFact -> "check"
      [] OTHER -> IF \E i \in f.ctx.schema.indexes : i.table = table /\ i.name = name
                  THEN "unique" ELSE NoFact

PRIMARY == "PRIMARY"

drop_constraint(f, a) ==
    LET kind == IF a.constraint = NoFact /\ a.name # NoFact
                THEN constraint_kind(f, f.stmt.table, a.name) ELSE a.constraint
    IN CASE kind = "primary_key" \/ a.name = PRIMARY -> Copied(f)
         [] kind = "foreign_key" -> Known(instant_on_mariadb(f), CATALOG)
         [] kind = "check" -> Instantly
         [] OTHER -> Change(nocopy_algorithm(f), CATALOG, IF kind = "unique" THEN KNOWN ELSE LIKELY)

(* a.name is "row_format" or "key_block_size", an engine, or another.      *)
action(f, a) ==
    CASE a.kind = "add_column" -> add_column(f, a)
      [] a.kind = "drop_column" -> drop_column(f, a)
      [] a.kind \in {"modify_column", "change_column"} -> modify_column(f, a)
      [] a.kind \in {"set_default", "drop_default", "set_storage", "rename_to"} -> Instantly
      [] a.kind = "rename_column" -> rename_column(f)
      [] a.kind = "add_index" -> index_change(f, [a EXCEPT !.hashed = FALSE])
      [] a.kind = "drop_index" ->
            IF a.name = PRIMARY THEN Copied(f) ELSE Known(nocopy_algorithm(f), CATALOG)
      [] a.kind = "add_constraint" -> add_constraint(f, a)
      [] a.kind = "drop_constraint" -> drop_constraint(f, a)
      [] a.kind = "convert_charset" -> Copied(f)
      [] a.kind = "engine" -> IF a.option = "INNODB" THEN Rebuilt(NONE) ELSE Copied(f)
      [] a.kind = "force" -> Rebuilt(NONE)
      [] a.kind = "table_option" /\ a.option \in {"row_format", "key_block_size"} -> Rebuilt(NONE)
      [] a.kind = "rename_index" \/ (a.kind = "table_option" /\ a.option = "comment")
         \/ (a.kind = "index_visibility" /\ (is_mariadb(f) <=> a.option = "IGNORED")) ->
            Known(instant_on_mariadb(f), CATALOG)
      [] OTHER -> NotRead

-----------------------------------------------------------------------------
(* The clause the statement spells, and the outcome.                       *)

requested_lock(f) == IF f.stmt.lock = NoFact /\ f.stmt.online THEN NONE ELSE f.stmt.lock

copied_level(f, online) == Max({copy_algorithm(f).level, online.level})

refusal(f, online) ==
    LET algorithm == f.stmt.algorithm
        lock      == requested_lock(f)
    IN \/ /\ algorithm # NoFact
          /\ \/ algorithm = NOCOPY /\ ~is_mariadb(f)
             \/ algorithm < online.algorithm
             \/ algorithm = INSTANT /\ lock # NoFact /\ ~is_mariadb(f)
             \/ algorithm = COPY /\ lock # NoFact /\ lock < copied_level(f, online)
       \/ lock # NoFact /\ online.algorithm # INSTANT /\ lock < online.level

parent_effects(f) ==
    LET table == f.stmt.table
        of(a) ==
            CASE a.kind \in {"add_constraint", "add_column"} -> a.references
              [] a.kind = "drop_constraint" -> foreign_key_target(f.ctx, table, a.name)
              [] OTHER -> NoFact
        parents == {of(f.stmt.actions[i]) : i \in DOMAIN f.stmt.actions} \ {NoFact, table}
    IN IF is_mariadb(f) THEN {} ELSE {Metadata(p) : p \in parents}

(* The statement with the clause that asserts how the server runs it.      *)
assertion(f, online) ==
    LET clause == [algorithm |-> online.algorithm,
                   lock |-> IF online.algorithm = INSTANT THEN NoFact ELSE online.level]
    IN IF f.stmt.kind = "drop_index" /\ is_mariadb(f)
       THEN clause @@ Alter(f.stmt.table, <<Action("drop_index", [name |-> f.stmt.name])>>)
       ELSE clause @@ f.stmt

(* A slower algorithm than the change needs, when the statement asks.      *)
with_algorithm(f, change) ==
    LET algorithm == f.stmt.algorithm
    IN CASE algorithm = NoFact \/ algorithm <= change.online.algorithm -> change
         [] algorithm = COPY /\ algorithm > change.online.algorithm ->
                [change EXCEPT !.online = Online(COPY, copied_level(f, @)), !.work = REWRITE]
         [] OTHER ->
                IF is_mariadb(f) THEN change
                ELSE [change EXCEPT
                        !.online.algorithm = algorithm,
                        !.work = IF change.rebuilds THEN REWRITE ELSE @,
                        !.sure = IF change.rebuilds THEN @ ELSE Least(@, LIKELY)]

(* A lock the statement asks for: no instant change of MySQL takes one.    *)
with_lock(f, change) ==
    LET lock == requested_lock(f)
    IN CASE lock # NoFact /\ change.online.algorithm # INSTANT ->
                [change EXCEPT !.online.level = Max({@, lock})]
         [] lock # NoFact /\ change.online.algorithm = INSTANT /\ ~is_mariadb(f) ->
                [change EXCEPT !.online = Online(INPLACE, lock), !.sure = Least(@, LIKELY)]
         [] OTHER -> change

carried_out(f, change) ==
    LET asserted == /\ f.stmt.algorithm = NoFact /\ ~is_new(f, f.stmt.table)
                    /\ \/ change.online.algorithm = INSTANT
                       \/ change.online \in {Online(NOCOPY, NONE), Online(INPLACE, NONE)}
        effect   == [Labelled(f.stmt.table, change.online, change.work) EXCEPT
                        !.sure = change.sure,
                        !.waits = ~(f.stmt.wait /\ is_mariadb(f)),
                        !.remedy = IF asserted THEN <<assertion(f, change.online)>> ELSE <<>>]
    IN [Outcome({effect} \cup parent_effects(f)) EXCEPT !.sure = change.sure]

online_outcome(f, change) ==
    CASE change.sure = UNKNOWN -> unknown
      [] change.sure # UNKNOWN /\ refusal(f, change.online) ->
            [Outcome({[Effect(f.stmt.table, -1, NOTHING, CATALOG) EXCEPT !.sure = change.sure]})
             EXCEPT !.refused = TRUE, !.sure = change.sure]
      [] OTHER -> carried_out(f, with_lock(f, with_algorithm(f, change)))

-----------------------------------------------------------------------------
(* The statements.                                                         *)

(* MySQL does not take MariaDB's ONLINE, IGNORE, WAIT and NOWAIT.          *)
mariadb_syntax(f) == ~is_mariadb(f) /\ (f.stmt.online \/ f.stmt.ignore \/ f.stmt.wait)

(* ALTER IGNORE TABLE drops the rows that repeat a new key.                *)
ignored(f, a, change) ==
    LET unique == a.kind = "add_constraint" /\ a.constraint = "unique"
        keyed  == \/ a.kind = "add_constraint" /\ a.constraint \in {"unique", "primary_key"}
                  \/ a.kind = "add_column" /\ (a.unique \/ a.primary_key)
    IN IF f.stmt.ignore /\ is_mariadb(f) /\ keyed
       THEN [Copied(f) EXCEPT !.sure = IF unique THEN KNOWN ELSE LIKELY] ELSE change

together(f) ==
    LET actions == {f.stmt.actions[i] : i \in DOMAIN f.stmt.actions}
        keyed(kind) == \E a \in actions : a.kind = kind /\ a.constraint = "primary_key"
        swaps   == keyed("add_constraint") /\ keyed("drop_constraint")
    IN heaviest({ignored(f, a, action(f, a)) :
                    a \in {b \in actions : ~(swaps /\ b.kind = "drop_constraint")}})

(* Whether the change is instant without the clauses the statement spells. *)
instant(f) == f.stmt.kind = "alter_table" /\ together(f).online.algorithm = INSTANT

alter_table(f) == IF mariadb_syntax(f) THEN unknown ELSE online_outcome(f, together(f))

create_index(f) == IF mariadb_syntax(f) THEN unknown ELSE online_outcome(f, index_change(f, f.stmt))

drop_index(f) ==
    IF mariadb_syntax(f) THEN unknown
    ELSE online_outcome(f, IF f.stmt.name = PRIMARY THEN Copied(f)
                           ELSE Known(nocopy_algorithm(f), CATALOG))

drop_table(f) ==
    LET parents == UNION {references(f.ctx, t, AnyColumn(f.ctx, t)) : t \in tables(f)}
    IN Outcome({Metadata(t) : t \in tables(f) \cup
                   IF is_mariadb(f) \/ f.stmt.kind # "drop_table" THEN {} ELSE parents})

create_table(f) ==
    Outcome(IF is_mariadb(f) THEN {} ELSE {Metadata(p) : p \in f.stmt.references \ {f.stmt.table}})

optimize(f) ==
    Outcome({Labelled(t, IF table_stats(f, t).fulltext = TRUE THEN copy_algorithm(f)
                         ELSE Online(INPLACE, NONE), REWRITE) : t \in tables(f)})

RowLocks(f, blocked) ==
    Outcome({[Effect(f.stmt.table, ROW_LOCKS, blocked, ROWS) EXCEPT !.waits = FALSE]})

statement(f) ==
    LET kind == f.stmt.kind
    IN CASE kind = "alter_table" -> alter_table(f)
         [] kind = "create_index" -> create_index(f)
         [] kind = "drop_index" -> drop_index(f)
         [] kind = "create_table" -> create_table(f)
         [] kind \in {"drop_table", "truncate"} -> drop_table(f)
         [] kind \in {"drop_view", "rename_table"} -> Outcome({Metadata(t) : t \in tables(f)})
         [] kind = "optimize_table" -> optimize(f)
         [] kind \in {"update", "delete"} -> RowLocks(f, WRITES)
         [] kind = "insert" -> RowLocks(f, DDL)
         [] kind \in {"create_trigger", "drop_trigger"} ->
                IF f.stmt.table = NoFact THEN [Outcome({}) EXCEPT !.sure = LIKELY]
                ELSE Outcome({Metadata(f.stmt.table)})
         [] kind \in {"create_view", "create_object", "drop_object", "set"} -> Outcome({})
         [] OTHER -> unknown

-----------------------------------------------------------------------------
(* What a statement changes about how its table is stored, for the         *)
(* statements after it.                                                    *)

Kept(run, table, facts) ==
    [run EXCEPT !.storage =
        Put(@, table, facts @@ (IF table \in DOMAIN @ THEN @[table] ELSE <<>>))]

record_storage(f, outcome) ==
    LET table   == f.stmt.table
        actions == {f.stmt.actions[i] : i \in DOMAIN f.stmt.actions}
        effect  == CHOOSE e \in outcome.effects : e.table = table
        used    == table_stats(f, table).versions
        first(o) == o.fulltext /\ ~o.spatial
        indexes == \/ f.stmt.kind = "create_index" /\ first(f.stmt)
                   \/ \E a \in actions : a.kind = "add_index" /\ first(a)
        formats == {a.value : a \in {b \in actions : b.kind = "table_option" /\
                                                     b.option = "row_format"}}
        versions ==
            CASE effect.work = REWRITE -> [versions |-> 0]
              [] effect.work # REWRITE /\ effect.lock = lock_rank(Online(INSTANT, NONE))
                 /\ used # NoFact /\ \E a \in actions : a.kind \in {"add_column", "drop_column"} ->
                    [versions |-> used + 1]
              [] OTHER -> <<>>
    IN IF outcome.refused \/ ~\E e \in outcome.effects : e.table = table THEN f.run
       ELSE Kept(f.run, table,
                 versions @@ (IF indexes THEN [fulltext |-> TRUE] ELSE <<>>) @@
                 (IF formats = {} THEN <<>> ELSE [format |-> CHOOSE v \in formats : TRUE]))

Recorded(f) ==
    CASE f.stmt.kind \in {"alter_table", "create_index", "drop_index"} ->
            record_storage(f, statement(f))
      [] f.stmt.kind = "optimize_table" ->
            FoldSet(LAMBDA t, run : Kept(run, t, [versions |-> 0]), f.run, tables(f))
      [] OTHER -> f.run

effects(f) == statement(f)
=============================================================================
