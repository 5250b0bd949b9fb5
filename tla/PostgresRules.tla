---------------------------- MODULE PostgresRules ----------------------------
(***************************************************************************)
(* The PostgreSQL rule profile (impact/rules/postgres): the locks and the  *)
(* work of each statement, one operator per handler.  Locks are their      *)
(* place in the lock order.  A type is [base, args, array]; args is NoFact *)
(* when an argument is not a number.                                       *)
(***************************************************************************)
EXTENDS ImpactRules

CONSTANT NoTable    \* no table

ACCESS_SHARE == 0
ROW_SHARE == 1
ROW_EXCLUSIVE == 2
SHARE_UPDATE_EXCLUSIVE == 3
SHARE == 4
SHARE_ROW_EXCLUSIVE == 5
EXCLUSIVE == 6
ACCESS_EXCLUSIVE == 7

Locked(table, lock, work) ==
    Effect(table, lock,
           CASE lock <= SHARE_UPDATE_EXCLUSIVE -> DDL
             [] lock \in SHARE..EXCLUSIVE -> WRITES
             [] OTHER -> READS_AND_WRITES,
           work)

One(table, lock, work) == Outcome({Locked(table, lock, work)})

-----------------------------------------------------------------------------
(* The read of the server: a statement that fails leaves its facts out.    *)

Facts == {"settings", "sizes", "partitions", "indexes", "arrays", "types"}

FLOOR == 12

Unpartitioned ==
    [partitioned |-> FALSE, parent |-> NoTable, default |-> NoTable, partitions |-> {}]

context(server, read) ==
    [read    |-> read,
     version |-> IF "settings" \in read THEN server.version ELSE FLOOR,
     zone    |-> IF "settings" \in read THEN server.zone ELSE NoFact,
     rows    |-> IF "sizes" \in read THEN server.rows ELSE <<>>,
     relations |-> IF "partitions" \in read THEN server.relations ELSE <<>>,
     indexed |-> IF "indexes" \in read THEN server.indexed ELSE {},
     arrays  |-> IF "arrays" \in read THEN server.arrays ELSE <<>>,
     types   |-> IF "types" \in read THEN server.types ELSE <<>>,
     schema  |-> IF "schema" \in read THEN server.schema ELSE NoFact]

-----------------------------------------------------------------------------
(* Partitioned tables.                                                     *)

(* Whether the context's catalog facts still stand for the table.          *)
Stands(f, table) == table \notin f.run.born \cup f.run.gone

relation(f, table) ==
    LET read   == IF Stands(f, table) /\ table \in DOMAIN f.ctx.relations
                  THEN f.ctx.relations[table] ELSE Unpartitioned
        linked == DOMAIN f.run.link
        below  == {c \in linked : f.run.link[c] = table}
        moved  == linked \cup f.run.gone
        added  == below \cap f.run.default
    IN [partitioned |-> read.partitioned \/ table \in f.run.partitioned,
        parent |-> IF table \in linked
                   THEN IF f.run.link[table] = NoFact THEN NoTable ELSE f.run.link[table]
                   ELSE IF read.parent \in f.run.gone THEN NoTable ELSE read.parent,
        default |-> IF added # {} THEN CHOOSE c \in added : TRUE
                    ELSE IF read.default \in moved THEN NoTable ELSE read.default,
        partitions |-> (read.partitions \ moved) \cup below]

partitioned(f, table) == relation(f, table).partitioned

default_partition(f, table) == relation(f, table).default

parent_of(f, table) == relation(f, table).parent

(* Every partition below a table: Depth levels are as deep as names go.    *)
Depth == 3

descendants(f, table) ==
    LET upTo[i \in 0..Depth] ==
            IF i = 0 THEN {table}
            ELSE upTo[i - 1] \cup UNION {relation(f, t).partitions : t \in upTo[i - 1]}
    IN upTo[Depth] \ {table}

is_unread(f, table) == "partitions" \notin f.ctx.read /\ ~created_in_run(f, table)

unread(f, table) == is_unread(f, table)

cascade(f, table, lock, work) ==
    {[Locked(t, lock, work) EXCEPT !.sure = IF is_unread(f, t) THEN LIKELY ELSE @] :
        t \in descendants(f, table)}

(* Mutant: the finding about unread partitions leaves the confidence.      *)
UnreadIsANote(outcome) == outcome

merge_unread(outcome) ==
    IF outcome.unread THEN [outcome EXCEPT !.sure = Least(@, LIKELY)] ELSE outcome

refused_in_transaction(f) == f.transactional

-----------------------------------------------------------------------------
(* Column types.                                                           *)

BUILTIN_TYPES ==
    {"smallint", "integer", "bigint", "numeric", "text", "varchar", "char", "timestamp",
     "timestamptz", "jsonb"}

SYSTEM_TYPES == BUILTIN_TYPES \cup {"inet", "interval"}

COLLATABLE_TYPES == {"text", "varchar", "char"}

coercible(old, new, zone) ==
    LET widened == [work |-> CATALOG, sure |-> KNOWN]
        sameScale == Len(old.args) = Len(new.args) /\ old.args # <<>>
                     /\ Tail(old.args) = Tail(new.args) /\ new.args[1] >= old.args[1]
    IN CASE old.base \in {"varchar", "text"} /\ new.base = "text" -> widened
         [] old.base \in {"varchar", "text"} /\ new.base = "varchar" /\ new.args = <<>> -> widened
         [] old.base = "varchar" /\ new.base = "varchar" /\ old.args # <<>>
            /\ new.args[1] >= old.args[1] -> widened
         [] old.base = "numeric" /\ new.base = "numeric" /\ old.args # <<>>
            /\ (new.args = <<>> \/ sameScale) -> widened
         [] {old.base, new.base} = {"timestamp", "timestamptz"} /\ old.args = new.args
            /\ zone \in {NoFact, "UTC"} ->
                IF zone = NoFact THEN [work |-> REWRITE, sure |-> LIKELY] ELSE widened
         [] OTHER -> NoFact

type_change(old, new, zone) ==
    LET readable == NoFact \notin {old.args, new.args}
        known == readable /\ {old.base, new.base} \subseteq BUILTIN_TYPES
        rewrite == [work |-> REWRITE, sure |-> IF known THEN KNOWN ELSE LIKELY]
        verdict == IF readable THEN coercible(old, new, zone) ELSE NoFact
    IN CASE old = new -> [work |-> CATALOG, sure |-> KNOWN]
         [] old # new /\ (old.array \/ new.array) ->
                IF old.array /\ new.array /\ old.base = new.base /\ new.args \in {<<>>, NoFact}
                THEN [work |-> CATALOG, sure |-> KNOWN] ELSE rewrite
         [] OTHER -> IF verdict = NoFact THEN rewrite ELSE verdict

(* How sure it is that a column of the type rewrites the table, or NoFact  *)
(* when the type checks nothing.  A domain the run created is over a type  *)
(* that may be another: Cardinality of the run's domains bounds the chain. *)
domain_check(f, type) ==
    LET names == DOMAIN f.run.domains
        read(base) ==
            CASE base \in names -> LIKELY
              [] base \notin names /\ "types" \notin f.ctx.read -> LIKELY
              [] base \notin names /\ "types" \in f.ctx.read /\ base \notin DOMAIN f.ctx.types ->
                    LIKELY
              [] OTHER -> IF f.ctx.types[base] THEN KNOWN ELSE NoFact
        bases == {type.base} \cup {f.run.domains[n].over.base :
                                      n \in {m \in names : f.run.domains[m] # NoFact}}
        checked[left \in 0..Cardinality(names), base \in bases] ==
            CASE base \in SYSTEM_TYPES -> NoFact
              [] base \notin SYSTEM_TYPES /\ base \in names /\ f.run.domains[base] # NoFact
                 /\ left > 0 ->
                    IF f.run.domains[base].own THEN KNOWN
                    ELSE IF f.run.domains[base].over.array THEN NoFact
                    ELSE checked[left - 1, f.run.domains[base].over.base]
              [] OTHER -> read(base)
    IN IF type = NoFact THEN NoFact
       ELSE IF type.array THEN NoFact
       ELSE checked[Cardinality(names), type.base]

ARRAY == [base |-> "ARRAY", args |-> <<>>, array |-> FALSE]

(* The schema read reports every array column as ARRAY.                    *)
current_type(f, table, column) ==
    LET types == {c.type : c \in {k \in (IF f.ctx.schema = NoFact THEN {}
                                         ELSE f.ctx.schema.columns) :
                                     k.table = table /\ k.column = column}}
    IN CASE types = {} -> NoFact
         [] types = {ARRAY} ->
                IF Stands(f, table) /\ <<table, column>> \in DOMAIN f.ctx.arrays
                THEN f.ctx.arrays[<<table, column>>] ELSE NoFact
         [] OTHER -> CHOOSE t \in types : TRUE

(* The collations of the column's indexes: none, or one.                   *)
IndexedWith(f, table, column) ==
    IF Stands(f, table)
    THEN {i.collation : i \in {j \in f.ctx.indexed : j.table = table /\ j.column = column}}
    ELSE {}

(* Why a change that leaves the rows as they are rebuilds the indexes on   *)
(* the column: NoFact when it does not, or how sure the answer is.         *)
index_rebuild(f, a, old, new) ==
    LET to == IF a.collate # NoFact THEN a.collate
              ELSE IF new.base \in COLLATABLE_TYPES THEN "default" ELSE NoFact
        with == IndexedWith(f, f.stmt.table, a.column)
    IN IF ~old.array /\ {old.base, new.base} = {"timestamp", "timestamptz"} THEN KNOWN
       ELSE IF "indexes" \in f.ctx.read
       THEN IF to # NoFact /\ \E c \in with : c # NoFact /\ c # to THEN KNOWN ELSE NoFact
       ELSE IF a.collate # NoFact THEN LIKELY ELSE NoFact

(* TRUE, FALSE, or NoFact when no read says whether an index uses it.      *)
indexed(f, table, column) ==
    IF "indexes" \in f.ctx.read THEN IndexedWith(f, table, column) # {}
    ELSE IF f.ctx.schema = NoFact THEN NoFact
    ELSE IF \/ \E k \in f.ctx.schema.pk : k.table = table /\ column \in k.columns
            \/ \E i \in f.ctx.schema.indexes : i.table = table /\ column \in i.columns
    THEN TRUE ELSE NoFact

type_rewrite(table, sure) ==
    Sure(One(table, ACCESS_EXCLUSIVE, REWRITE), sure)

(* a.using is whether a USING clause computes a value.                     *)
column_type(f, a) ==
    LET table   == f.stmt.table
        old     == IF a.from_type # NoFact THEN a.from_type
                   ELSE current_type(f, table, a.column)
        change  == type_change(old, a.type, f.ctx.zone)
        rebuild == index_rebuild(f, a, old, a.type)
        used    == indexed(f, table, a.column)
    IN CASE a.using -> type_rewrite(table, KNOWN)
         [] ~a.using /\ old = NoFact -> type_rewrite(table, LIKELY)
         [] ~a.using /\ old # NoFact /\ change.work # CATALOG -> type_rewrite(table, change.sure)
         [] OTHER ->
                IF rebuild = NoFact \/ used = FALSE
                THEN One(table, ACCESS_EXCLUSIVE, CATALOG)
                ELSE Sure(One(table, ACCESS_EXCLUSIVE, INDEX_BUILD),
                          IF used = NoFact THEN LIKELY ELSE rebuild)

foreign_key_effect(table) == Locked(table, ACCESS_EXCLUSIVE, CATALOG)

type_keys(f, a) ==
    {foreign_key_effect(t) : t \in references(f.ctx, f.stmt.table, {a.column})} \cup
    {[Locked(t, ACCESS_EXCLUSIVE, SCAN) EXCEPT !.sure = LIKELY] :
        t \in referenced_by(f.ctx, f.stmt.table, {a.column})}

alter_column_type(f, a) == [column_type(f, a) EXCEPT !.effects = @ \cup type_keys(f, a)]

-----------------------------------------------------------------------------
(* The actions of ALTER TABLE.                                             *)

(* a.fills says why each row gets a value of its own: serial, identity,    *)
(* stored, volatile, perhaps (a function no rule knows), unread, or no.    *)
add_column(f, a) ==
    LET table    == f.stmt.table
        computes == a.fills \in {"serial", "identity", "stored", "volatile"}
        rewrite  == IF computes THEN KNOWN
                    ELSE IF a.fills \in {"perhaps", "unread"} THEN LIKELY
                    ELSE domain_check(f, a.type)
        plain    == Action("add_column", [column |-> a.column, type |-> a.type])
        default  == Action("set_default", [column |-> a.column])
        remedy   == IF a.fills \in {"volatile", "perhaps"} /\ a.type # NoFact
                    THEN <<Alter(table, <<plain>>), Alter(table, <<default>>)>> ELSE <<>>
        work     == CASE rewrite # NoFact -> REWRITE
                      [] rewrite = NoFact /\ (a.primary_key \/ a.unique) -> INDEX_BUILD
                      [] rewrite = NoFact /\ ~a.primary_key /\ ~a.unique
                         /\ ((a.not_null /\ ~a.default) \/ a.check \/ a.references # NoFact) -> SCAN
                      [] OTHER -> CATALOG
        sure     == IF rewrite = NoFact THEN KNOWN ELSE rewrite
    IN [Outcome({[Locked(table, ACCESS_EXCLUSIVE, work) EXCEPT
                    !.sure = sure, !.remedy = remedy]} \cup
                (IF a.references = NoFact THEN {}
                 ELSE {Locked(a.references, SHARE_ROW_EXCLUSIVE, CATALOG)}))
        EXCEPT !.sure = sure]

drop_column(f, a) ==
    Outcome({Locked(f.stmt.table, ACCESS_EXCLUSIVE, CATALOG)} \cup
            {foreign_key_effect(t) :
                t \in references(f.ctx, f.stmt.table, {a.column}) \cup
                      (IF a.cascade THEN referenced_by(f.ctx, f.stmt.table, {a.column})
                       ELSE {})})

constraint_columns(ctx, table, name) ==
    IF ctx.schema = NoFact THEN {}
    ELSE LET named == {i \in ctx.schema.indexes : i.table = table /\ i.name = name}
         IN IF named # {} THEN UNION {i.columns : i \in {j \in named : j.constraint}}
            ELSE IF is_check(ctx, table, name) THEN {}
            ELSE UNION {k.columns : k \in {p \in ctx.schema.pk : p.table = table}}

drop_constraint(f, a) ==
    LET table  == f.stmt.table
        target == foreign_key_target(f.ctx, table, a.name)
        others == CASE a.name = NoFact -> {}
                    [] a.name # NoFact /\ target # NoFact -> {target} \ {table}
                    [] OTHER ->
                        IF a.cascade
                        THEN referenced_by(f.ctx, table, constraint_columns(f.ctx, table, a.name))
                        ELSE {}
    IN Outcome({Locked(table, ACCESS_EXCLUSIVE, CATALOG)} \cup
               {foreign_key_effect(t) : t \in others})

proven_not_null(f, table, column) ==
    \/ \E k \in f.run.checks : k.table = table /\ k.column = column /\ k.valid
    \/ /\ ~created_in_run(f, table)
       /\ f.ctx.schema # NoFact
       /\ \E k \in f.ctx.schema.checks :
             /\ k.table = table /\ k.column = column /\ k.valid
             /\ <<table, k.name>> \notin f.run.dropped_checks

set_not_null(f, a) ==
    LET table  == f.stmt.table
        check  == <<a.column, "not_null">>
        remedy ==
            <<Alter(table, <<Action("add_constraint",
                    [constraint |-> "check", name |-> check, proves |-> a.column,
                     not_valid |-> TRUE])>>),
              Alter(table, <<Action("validate_constraint", [name |-> check])>>),
              Alter(table, <<Action("set_not_null", [column |-> a.column])>>),
              Alter(table, <<Action("drop_constraint", [name |-> check])>>)>>
    IN IF proven_not_null(f, table, a.column) THEN One(table, ACCESS_EXCLUSIVE, CATALOG)
       ELSE Sure(Outcome({[Locked(table, ACCESS_EXCLUSIVE, SCAN) EXCEPT !.remedy = remedy]}),
                 LIKELY)

(* Mutant: the constraint is not added NOT VALID.                          *)
ValidateAtOnce(f, a) ==
    IF a.name = NoFact THEN <<>>
    ELSE <<Alter(f.stmt.table, <<a>>),
           Alter(f.stmt.table, <<Action("validate_constraint", [name |-> a.name])>>)>>

validate_later(f, a) ==
    IF a.name = NoFact THEN <<>>
    ELSE <<Alter(f.stmt.table, <<[a EXCEPT !.not_valid = TRUE]>>),
           Alter(f.stmt.table, <<Action("validate_constraint", [name |-> a.name])>>)>>

add_check(f, a) ==
    IF a.not_valid THEN One(f.stmt.table, ACCESS_EXCLUSIVE, CATALOG)
    ELSE Outcome({[Locked(f.stmt.table, ACCESS_EXCLUSIVE, SCAN) EXCEPT
                    !.remedy = validate_later(f, a)]})

add_foreign_key(f, a) ==
    LET table == f.stmt.table
        other == Locked(a.references, SHARE_ROW_EXCLUSIVE, CATALOG)
    IN IF a.not_valid
       THEN [Outcome({Locked(table, SHARE_ROW_EXCLUSIVE, CATALOG), other}) EXCEPT
                !.refused = partitioned(f, table) /\ f.ctx.version < 18,
                !.unread = ~partitioned(f, table) /\ f.ctx.version < 18 /\ unread(f, table)]
       ELSE Outcome({[Locked(table, SHARE_ROW_EXCLUSIVE, SCAN) EXCEPT
                        !.remedy = validate_later(f, a)], other})

add_key(f, a) ==
    LET table == f.stmt.table
        index == <<a.constraint, "idx">>
        remedy ==
            <<Stmt("create_index", [table |-> table, name |-> index, concurrently |-> TRUE,
                                    unique |-> TRUE]),
              Alter(table, <<[a EXCEPT !.using_index = TRUE]>>)>>
    IN IF a.using_index THEN One(table, ACCESS_EXCLUSIVE, CATALOG)
       ELSE Outcome({[Locked(table, ACCESS_EXCLUSIVE, INDEX_BUILD) EXCEPT !.remedy = remedy]})

add_exclusion(f) ==
    LET table == f.stmt.table
    IN [One(table, ACCESS_EXCLUSIVE, INDEX_BUILD) EXCEPT
            !.refused = partitioned(f, table) /\ f.ctx.version < 17,
            !.unread = ~partitioned(f, table) /\ f.ctx.version < 17 /\ unread(f, table)]

add_constraint(f, a) ==
    CASE a.constraint = "check" -> add_check(f, a)
      [] a.constraint = "foreign_key" -> add_foreign_key(f, a)
      [] a.constraint \in {"primary_key", "unique"} -> add_key(f, a)
      [] OTHER -> add_exclusion(f)

validate(f, a) ==
    LET table  == f.stmt.table
        scan   == One(table, SHARE_UPDATE_EXCLUSIVE, SCAN)
        target == foreign_key_target(f.ctx, table, a.name)
    IN IF target # NoFact
       THEN [scan EXCEPT !.effects = @ \cup {Locked(t, ROW_SHARE, CATALOG) :
                                                t \in {target} \ {table}}]
       ELSE Sure(scan, IF is_check(f.ctx, table, a.name) THEN KNOWN ELSE LIKELY)

(* TRUE, FALSE or NoFact.                                                  *)
has_indexes(f, table) ==
    IF "indexes" \in f.ctx.read
    THEN Stands(f, table) /\ \E i \in f.ctx.indexed : i.table = table
    ELSE IF f.ctx.schema # NoFact
            /\ \E i \in f.ctx.schema.pk \cup f.ctx.schema.indexes : i.table = table
    THEN TRUE ELSE NoFact

default_scan(default) == [Locked(default, ACCESS_EXCLUSIVE, SCAN) EXCEPT !.sure = LIKELY]

attach_partition(f, a) ==
    LET table   == f.stmt.table
        default == default_partition(f, table)
        likely(effects) == {[e EXCEPT !.sure = LIKELY] : e \in effects}
    IN [effects |->
            {Locked(table, SHARE_UPDATE_EXCLUSIVE, CATALOG)} \cup
            likely({Locked(a.partition, ACCESS_EXCLUSIVE, SCAN)} \cup
                   cascade(f, a.partition, ACCESS_EXCLUSIVE, SCAN)) \cup
            {default_scan(d) : d \in {default} \ {NoTable, a.partition}} \cup
            (IF has_indexes(f, table) = FALSE THEN {}
             ELSE likely({Locked(a.partition, ACCESS_EXCLUSIVE, INDEX_BUILD)})),
        sure    |-> LIKELY,
        refused |-> FALSE,
        unread  |-> unread(f, a.partition) \/ unread(f, table),
        unnamed |-> IF is_unread(f, table) THEN {Locked(table, ACCESS_EXCLUSIVE, SCAN)} ELSE {}]

(* A server before 14 has no CONCURRENTLY here, which draws a warning.     *)
detach_partition(f, a) ==
    LET table   == f.stmt.table
        default == default_partition(f, table)
        locked  == descendants(f, a.partition) \cup ({default} \ {NoTable, a.partition})
    IN IF a.concurrently
       THEN [Outcome({Locked(t, SHARE_UPDATE_EXCLUSIVE, CATALOG) : t \in {table, a.partition}})
             EXCEPT !.refused = refused_in_transaction(f) \/ default # NoTable,
                    !.unread = unread(f, table)]
       ELSE [Outcome({Locked(t, ACCESS_EXCLUSIVE, CATALOG) :
                        t \in {table, a.partition} \cup locked})
             EXCEPT !.unread = unread(f, a.partition) \/ unread(f, table)]

PARENT_ONLY ==
    {"rename_to", "set_schema", "owner_to", "set_tablespace", "set_logged",
     "set_parameters", "attach_partition", "detach_partition"}

NO_FILE == {"set_tablespace", "set_logged"}

ALTER_CATALOG ==
    {"drop_not_null", "set_default", "drop_default", "set_storage", "set_schema", "owner_to",
     "rename_column", "rename_to", "rename_constraint"}

action(f, a) ==
    LET table == f.stmt.table
    IN CASE a.kind = "add_column" -> add_column(f, a)
         [] a.kind = "drop_column" -> drop_column(f, a)
         [] a.kind = "alter_column_type" -> alter_column_type(f, a)
         [] a.kind = "set_not_null" -> set_not_null(f, a)
         [] a.kind = "add_constraint" -> add_constraint(f, a)
         [] a.kind = "drop_constraint" -> drop_constraint(f, a)
         [] a.kind = "validate_constraint" -> validate(f, a)
         [] a.kind = "attach_partition" -> attach_partition(f, a)
         [] a.kind = "detach_partition" -> detach_partition(f, a)
         [] a.kind \in ALTER_CATALOG -> One(table, ACCESS_EXCLUSIVE, CATALOG)
         [] a.kind \in NO_FILE -> One(table, ACCESS_EXCLUSIVE, REWRITE)
         [] a.kind = "set_statistics" -> One(table, SHARE_UPDATE_EXCLUSIVE, CATALOG)
         [] a.kind = "enable_trigger" -> One(table, SHARE_ROW_EXCLUSIVE, CATALOG)
         [] a.kind = "set_parameters" ->
                One(table, IF a.light THEN SHARE_UPDATE_EXCLUSIVE ELSE ACCESS_EXCLUSIVE, CATALOG)
         [] OTHER -> unknown

reaches(f, a) == ~f.stmt.only /\ a.kind \notin PARENT_ONLY

(* An action's effects, with those on the partitioned table on each        *)
(* partition below.                                                        *)
with_partitions(f, a, own) ==
    LET key  == a.kind = "add_constraint" /\ a.constraint \in {"unique", "exclude"}
        lock == IF f.ctx.version < 18 THEN SHARE ELSE ACCESS_EXCLUSIVE
    IN own \cup {[Locked(t, IF key THEN lock ELSE e.lock, e.work) EXCEPT !.sure = e.sure] :
                    t \in descendants(f, f.stmt.table),
                    e \in {o \in own : o.table = f.stmt.table}}

adjusted(f, a, outcome) ==
    LET parent == partitioned(f, f.stmt.table)
        own(e) == IF parent /\ a.kind \in NO_FILE /\ e.table = f.stmt.table
                  THEN [e EXCEPT !.work = CATALOG] ELSE e
    IN [outcome EXCEPT !.effects =
            IF parent /\ reaches(f, a) THEN with_partitions(f, a, {own(e) : e \in @})
            ELSE {own(e) : e \in @}]

(* A note says that no read shows whether partitions are reached, and the  *)
(* remedy of one action does not stand for several.                        *)
altered(f, actions, outcome) ==
    IF outcome.sure = UNKNOWN THEN outcome
    ELSE [outcome EXCEPT
            !.unread = \/ @
                       \/ /\ \E a \in actions : reaches(f, a)
                          /\ \E e \in outcome.effects : e.table = f.stmt.table
                          /\ unread(f, f.stmt.table),
            !.effects = IF Cardinality(actions) > 1
                        THEN {[e EXCEPT !.remedy = <<>>] : e \in @} ELSE @]

alter_table(f) ==
    LET actions == {f.stmt.actions[i] : i \in DOMAIN f.stmt.actions}
    IN altered(f, actions, each_action({adjusted(f, a, action(f, a)) : a \in actions}))

-----------------------------------------------------------------------------
(* The other statements.                                                   *)

(* The remedy that runs the statement CONCURRENTLY.                        *)
concurrently_remedy(f) == <<[f.stmt EXCEPT !.concurrently = TRUE]>>

create_index(f) ==
    LET table  == f.stmt.table
        parent == partitioned(f, table)
    IN CASE f.stmt.concurrently ->
                [One(table, SHARE_UPDATE_EXCLUSIVE, INDEX_BUILD) EXCEPT
                    !.refused = refused_in_transaction(f) \/ parent,
                    !.unread = unread(f, table)]
         [] ~f.stmt.concurrently /\ parent ->
                IF f.stmt.only THEN One(table, SHARE, CATALOG)
                ELSE Outcome({Locked(table, SHARE, INDEX_BUILD)} \cup
                             cascade(f, table, SHARE, INDEX_BUILD))
         [] OTHER ->
                [Outcome({[Locked(table, SHARE, INDEX_BUILD) EXCEPT
                            !.remedy = concurrently_remedy(f)]})
                 EXCEPT !.unread = ~f.stmt.only /\ unread(f, table)]

(* ALTER INDEX name ATTACH PARTITION partition.  The partition's index is  *)
(* locked ACCESS EXCLUSIVE, which every query on the partition waits for.  *)
attach_index(f) ==
    LET parent == index_table(f, f.stmt.name)
        child  == index_table(f, f.stmt.partition)
        found  == IF parent = NoFact THEN f.stmt.intent ELSE parent
    IN [Outcome({Locked(index_label(f.stmt.name, found), ACCESS_SHARE, CATALOG),
                 [Locked(index_label(f.stmt.partition, child), ACCESS_SHARE, CATALOG) EXCEPT
                    !.blocks = READS_AND_WRITES]})
        EXCEPT !.sure = IF NoFact \in {found, child} THEN LIKELY ELSE KNOWN]

drop_index(f) ==
    LET table(n)  == dropped_index_table(f, n)
        label(n)  == index_label(n, table(n))
        parent(n) == table(n) # NoFact /\ partitioned(f, table(n))
        alone     == Cardinality(f.stmt.names) = 1
    IN IF f.stmt.concurrently
       THEN [Outcome({Locked(label(n), SHARE_UPDATE_EXCLUSIVE, CATALOG) : n \in f.stmt.names})
             EXCEPT !.refused = \/ refused_in_transaction(f)
                                \/ \E n \in f.stmt.names : parent(n),
                    !.unread = \E n \in f.stmt.names : unread(f, label(n))]
       ELSE [Outcome({[Locked(label(n), ACCESS_EXCLUSIVE, CATALOG) EXCEPT
                        !.remedy = IF alone /\ ~parent(n) THEN concurrently_remedy(f) ELSE <<>>] :
                        n \in f.stmt.names} \cup
                     UNION {cascade(f, label(n), ACCESS_EXCLUSIVE, CATALOG) :
                                n \in {m \in f.stmt.names : parent(m)}})
             EXCEPT !.unread = \E n \in f.stmt.names : ~parent(n) /\ unread(f, label(n))]

create_table(f) ==
    LET parent  == f.stmt.partition_of
        default == default_partition(f, parent)
        keys    == {Locked(t, SHARE_ROW_EXCLUSIVE, CATALOG) : t \in f.stmt.references}
    IN IF parent = NoFact THEN Outcome(keys)
       ELSE [Outcome(keys \cup {Locked(parent, ACCESS_EXCLUSIVE, CATALOG)} \cup
                     {default_scan(d) : d \in {default} \ {NoTable}})
             EXCEPT !.unread = unread(f, parent)]

parent_locks(f, table) ==
    LET parent == parent_of(f, table)
    IN IF parent = NoTable THEN {} ELSE {parent, default_partition(f, parent)} \ {NoTable}

(* DROP TABLE and TRUNCATE.  TRUNCATE ... CASCADE also empties the tables  *)
(* that point at the tables it empties.                                    *)
drop_table(f) ==
    LET named == tables(f)
        below == UNION {descendants(f, t) : t \in named}
        all(t) == referenced_by(f.ctx, t, AnyColumn(f.ctx, t))
        emptied[i \in 0..Depth] ==
            IF i = 0 THEN named ELSE emptied[i - 1] \cup UNION {all(t) : t \in emptied[i - 1]}
        keys(t) == references(f.ctx, t, AnyColumn(f.ctx, t)) \cup
                   (IF f.stmt.cascade THEN all(t) ELSE {})
        truncate == f.stmt.kind = "truncate"
        others == IF truncate THEN IF f.stmt.cascade THEN emptied[Depth] ELSE {}
                  ELSE UNION {parent_locks(f, t) \cup keys(t) : t \in named}
        missed == {t \in named : is_unread(f, t)}
    IN [Outcome({Locked(t, ACCESS_EXCLUSIVE, CATALOG) : t \in named \cup below \cup others})
        EXCEPT !.unread = missed # {},
               !.unnamed = IF truncate THEN {}
                           ELSE {Locked(t, ACCESS_EXCLUSIVE, CATALOG) : t \in missed}]

write_rows(f) ==
    Outcome({[Locked(f.stmt.table, ROW_EXCLUSIVE, ROWS) EXCEPT !.blocks = WRITES]})

(* target is table, index, or a schema or database.                        *)
reindex(f) ==
    LET named  == IF f.stmt.target = "index" THEN index_table(f, f.stmt.name) ELSE f.stmt.name
        label  == CASE f.stmt.target = "table" -> f.stmt.name
                    [] f.stmt.target = "index" -> index_label(f.stmt.name, named)
                    [] OTHER -> <<"every table in", f.stmt.name>>
        every  == f.stmt.target \notin {"table", "index"}
        parent == ~every /\ named # NoFact /\ partitioned(f, named)
        lock   == IF f.stmt.concurrently THEN SHARE_UPDATE_EXCLUSIVE ELSE SHARE
        own    == IF f.stmt.concurrently THEN Locked(label, lock, INDEX_BUILD)
                  ELSE [Locked(label, lock, INDEX_BUILD) EXCEPT
                            !.blocks = READS_AND_WRITES, !.remedy = concurrently_remedy(f)]
    IN [Outcome({own} \cup IF parent THEN cascade(f, label, lock, INDEX_BUILD) ELSE {})
        EXCEPT !.refused = refused_in_transaction(f) /\ (every \/ f.stmt.concurrently \/ parent),
               !.unread = ~every /\ unread(f, label)]

(* VACUUM and ANALYZE, and CLUSTER with no table.                          *)
vacuum(f) ==
    LET named == tables(f)
        lock  == IF f.stmt.full THEN ACCESS_EXCLUSIVE ELSE SHARE_UPDATE_EXCLUSIVE
        work  == IF f.stmt.full THEN REWRITE ELSE SCAN
        refused == f.stmt.kind \in {"vacuum", "cluster"} /\ refused_in_transaction(f)
    IN IF named = {} THEN [Outcome({}) EXCEPT !.refused = refused, !.sure = LIKELY]
       ELSE [Outcome({Locked(t, lock, work) : t \in named} \cup
                     UNION {cascade(f, t, lock, work) : t \in named})
             EXCEPT !.refused = refused, !.unread = \E t \in named : unread(f, t)]

cluster(f) ==
    IF f.stmt.table = NoFact THEN vacuum(f) ELSE One(f.stmt.table, ACCESS_EXCLUSIVE, REWRITE)

refresh(f) ==
    IF f.stmt.concurrently THEN One(f.stmt.table, EXCLUSIVE, ROWS)
    ELSE Outcome({[Locked(f.stmt.table, ACCESS_EXCLUSIVE,
                          IF f.stmt.with_data THEN REWRITE ELSE CATALOG) EXCEPT
                    !.remedy = concurrently_remedy(f)]})

trigger(f) ==
    LET lock == IF f.stmt.kind = "create_trigger" THEN SHARE_ROW_EXCLUSIVE
                ELSE ACCESS_EXCLUSIVE
    IN [Outcome({Locked(f.stmt.table, lock, CATALOG)} \cup
                cascade(f, f.stmt.table, lock, CATALOG))
        EXCEPT !.unread = unread(f, f.stmt.table)]

comment(f) ==
    IF f.stmt.object \in {"table", "column"}
    THEN One(f.stmt.table, SHARE_UPDATE_EXCLUSIVE, CATALOG) ELSE Outcome({})

lock_table(f) ==
    LET named == tables(f)
        locked == {Locked(t, f.stmt.mode, CATALOG) : t \in named} \cup
                  IF f.stmt.only THEN {}
                  ELSE UNION {cascade(f, t, f.stmt.mode, CATALOG) : t \in named}
    IN [Outcome({[e EXCEPT !.waits = @ /\ ~f.stmt.wait] : e \in locked})
        EXCEPT !.unread = ~f.stmt.only /\ \E t \in named : unread(f, t)]

drop_object(f) ==
    IF f.stmt.object = "schema" THEN [Outcome({}) EXCEPT !.sure = LIKELY] ELSE Outcome({})

STATEMENTS_WITHOUT_LOCKS == {"create_object", "create_type", "create_view", "set"}

statement(f) ==
    LET kind == f.stmt.kind
    IN CASE kind = "alter_table" -> alter_table(f)
         [] kind = "attach_index" -> attach_index(f)
         [] kind = "create_index" -> create_index(f)
         [] kind = "drop_index" -> drop_index(f)
         [] kind = "create_table" -> create_table(f)
         [] kind \in {"drop_table", "truncate"} -> drop_table(f)
         [] kind = "drop_view" ->
                Outcome({Locked(t, ACCESS_EXCLUSIVE, CATALOG) : t \in tables(f)})
         [] kind \in {"update", "delete"} -> write_rows(f)
         [] kind = "insert" -> One(f.stmt.table, ROW_EXCLUSIVE, ROWS)
         [] kind = "reindex" -> reindex(f)
         [] kind \in {"vacuum", "analyze"} -> vacuum(f)
         [] kind = "cluster" -> cluster(f)
         [] kind = "refresh_materialized_view" -> refresh(f)
         [] kind \in {"create_trigger", "drop_trigger"} -> trigger(f)
         [] kind = "comment_on" -> comment(f)
         [] kind = "lock_table" -> lock_table(f)
         [] kind = "drop_object" -> drop_object(f)
         [] kind \in STATEMENTS_WITHOUT_LOCKS -> Outcome({})
         [] OTHER -> unknown

effects(f) == merge_unread(statement(f))
=============================================================================
