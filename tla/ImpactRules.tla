----------------------------- MODULE ImpactRules -----------------------------
(***************************************************************************)
(* What the rule profiles of every engine share.  A rule reads the facts f *)
(* around one statement:                                                   *)
(*   f.stmt           the statement, a record with a kind and its options, *)
(*   f.ctx            what was read from the server before the run,        *)
(*   f.run            what the statements before it did,                   *)
(*   f.transactional  whether its migration runs inside a transaction,     *)
(* and answers with an outcome: an effect for each table it touches, with  *)
(* how sure the rule is.  A fact that was not read is NoFact.              *)
(*                                                                         *)
(* Findings are kept only where they change an answer or say the server    *)
(* refuses the statement; a remedy is the sequence of statements that do   *)
(* the same with less waiting, each a record as f.stmt is.                 *)
(***************************************************************************)
EXTENDS Integers, Sequences, FiniteSets, FiniteSetsExt, TLC

CONSTANTS NoFact,   \* a fact that was not read, or a name not given
          Database  \* every table at once

(* Blocks, Work and Confidence of model.py, least first.                   *)
NOTHING == 0
DDL == 1
WRITES == 2
READS_AND_WRITES == 3

CATALOG == 0
SCAN == 1
ROWS == 2
INDEX_BUILD == 3
REWRITE == 4

UNKNOWN == 0
LIKELY == 1
KNOWN == 2

-----------------------------------------------------------------------------
(* Statements.  An option a statement does not give reads as in NoOptions. *)

NoOptions ==
    [table |-> NoFact, tables |-> {}, names |-> {}, name |-> NoFact, actions |-> <<>>,
     only |-> FALSE, concurrently |-> FALSE, cascade |-> FALSE, references |-> {},
     partition_of |-> NoFact, default |-> FALSE, partition |-> NoFact, target |-> NoFact,
     full |-> FALSE, object |-> NoFact, mode |-> NoFact, with_data |-> TRUE,
     constrained |-> FALSE, over |-> NoFact, intent |-> NoFact, unique |-> FALSE,
     value |-> NoFact, algorithm |-> NoFact, lock |-> NoFact, online |-> FALSE,
     ignore |-> FALSE, wait |-> FALSE, fulltext |-> FALSE, spatial |-> FALSE,
     hashed |-> FALSE, nocheck |-> NoFact, clustered |-> FALSE, resumable |-> FALSE,
     low_priority |-> NoFact, whole |-> FALSE, reads |-> NoFact, source |-> NoFact, fillfactor |-> FALSE]

NoActionOptions ==
    [column |-> NoFact, name |-> NoFact, type |-> NoFact, from_type |-> NoFact,
     collate |-> NoFact, using |-> FALSE, fills |-> "no", default |-> FALSE,
     not_null |-> FALSE, primary_key |-> FALSE, unique |-> FALSE, check |-> FALSE,
     references |-> NoFact, constraint |-> NoFact, not_valid |-> FALSE,
     using_index |-> FALSE, proves |-> NoFact, cascade |-> FALSE, partition |-> NoFact,
     concurrently |-> FALSE, light |-> FALSE, position |-> FALSE, new |-> NoFact,
     charset |-> NoFact, intent |-> NoFact, option |-> NoFact, value |-> NoFact,
     fulltext |-> FALSE, spatial |-> FALSE, hashed |-> FALSE, with_values |-> FALSE,
     clustered |-> NoFact, online |-> FALSE, resumable |-> FALSE, low_priority |-> NoFact,
     fillfactor |-> FALSE]

Stmt(kind, options) == [kind |-> kind] @@ options @@ NoOptions

Action(kind, options) == [kind |-> kind] @@ options @@ NoActionOptions

Alter(table, actions) == Stmt("alter_table", [table |-> table, actions |-> actions])

(* The tables a statement that may name several acts on.                   *)
tables(f) == IF f.stmt.tables # {} THEN f.stmt.tables ELSE {f.stmt.table} \ {NoFact}

-----------------------------------------------------------------------------
(* Outcomes.                                                               *)

(* Where a lock blocks writes, whoever waits for it has others queue       *)
(* behind; a profile that knows better sets waits itself.  at_end says the *)
(* lock is taken when the work is done.                                    *)
Effect(table, lock, blocks, work) ==
    [table |-> table, lock |-> lock, blocks |-> blocks, work |-> work, sure |-> KNOWN,
     waits |-> blocks >= WRITES, at_end |-> FALSE, remedy |-> <<>>]

Outcome(effects) ==
    [effects |-> effects, sure |-> KNOWN, refused |-> FALSE, unread |-> FALSE,
     unnamed |-> {}]

(* No rule of the profile reads the statement, or the action.              *)
unknown == [Outcome({}) EXCEPT !.sure = UNKNOWN]

Least(a, b) == IF a < b THEN a ELSE b

(* The outcomes of the actions of one ALTER TABLE, together.               *)
each_action(outcomes) ==
    IF \E o \in outcomes : o.sure = UNKNOWN THEN unknown
    ELSE [effects |-> UNION {o.effects : o \in outcomes},
          sure    |-> Min({o.sure : o \in outcomes}),
          refused |-> \E o \in outcomes : o.refused,
          unread  |-> \E o \in outcomes : o.unread,
          unnamed |-> UNION {o.unnamed : o \in outcomes}]

Sure(outcome, sure) ==
    [outcome EXCEPT !.sure = Least(@, sure),
                    !.effects = {[e EXCEPT !.sure = Least(@, sure)] : e \in @}]

-----------------------------------------------------------------------------
(* What the schema read and the size read say.                             *)

(* A foreign key is [name, table, columns, target, keys], an index         *)
(* [name, table, columns, constraint], a check [name, table, column,       *)
(* valid] of the form column IS NOT NULL, and pk the primary keys.         *)
references(ctx, table, columns) ==
    IF ctx.schema = NoFact THEN {}
    ELSE {k.target : k \in {g \in ctx.schema.fks :
                                g.table = table /\ g.columns \cap columns # {}}}

referenced_by(ctx, table, columns) ==
    IF ctx.schema = NoFact THEN {}
    ELSE {k.table : k \in {g \in ctx.schema.fks :
                               g.target = table /\ g.keys \cap columns # {}}} \ {table}

foreign_key_target(ctx, table, name) ==
    IF ctx.schema = NoFact THEN NoFact
    ELSE LET found == {k \in ctx.schema.fks : k.table = table /\ k.name = name}
         IN IF found = {} THEN NoFact ELSE (CHOOSE k \in found : TRUE).target

AnyColumn(ctx, table) ==
    IF ctx.schema = NoFact THEN {}
    ELSE UNION {k.columns \cup k.keys : k \in ctx.schema.fks}

is_check(ctx, table, name) ==
    ctx.schema # NoFact /\ \E k \in ctx.schema.checks : k.table = table /\ k.name = name

index_table(f, name) ==
    IF name \in DOMAIN f.run.indexes THEN f.run.indexes[name]
    ELSE IF f.ctx.schema = NoFact THEN NoFact
    ELSE LET found == {i \in f.ctx.schema.indexes : i.name = name}
         IN IF found = {} THEN NoFact ELSE (CHOOSE i \in found : TRUE).table

(* The intent's table stands for an index no read found only when the      *)
(* statement names one.                                                    *)
dropped_index_table(f, name) ==
    LET found == index_table(f, name)
    IN IF found = NoFact /\ Cardinality(f.stmt.names) = 1 THEN f.stmt.intent ELSE found

(* The placeholder for the table of an index no read found.                *)
index_label(name, table) == IF table = NoFact THEN <<"table of index", name>> ELSE table

is_new(f, table) == table \in f.run.created

created_in_run(f, table) == table \in f.run.born

rows(f, table) ==
    IF is_new(f, table) THEN 0
    ELSE IF table \in DOMAIN f.ctx.rows THEN f.ctx.rows[table]
    ELSE NoFact

-----------------------------------------------------------------------------
(* The analyzer's report of one statement.                                 *)

merge(f, group) ==
    [lock   |-> Max({e.lock : e \in group}),
     blocks |-> IF is_new(f, (CHOOSE e \in group : TRUE).table) THEN NOTHING
                ELSE Max({e.blocks : e \in group}),
     work   |-> IF is_new(f, (CHOOSE e \in group : TRUE).table) THEN CATALOG
                ELSE Max({e.work : e \in group}),
     rows   |-> rows(f, (CHOOSE e \in group : TRUE).table)]

Impact(f, outcome) ==
    [tables  |-> [t \in {e.table : e \in outcome.effects} |->
                    merge(f, {e \in outcome.effects : e.table = t})],
     unnamed |-> {[blocks |-> e.blocks, work |-> e.work] : e \in outcome.unnamed},
     refused |-> outcome.refused,
     sure    |-> Min({outcome.sure} \cup {e.sure : e \in outcome.effects}),
     queues  |-> {e.table : e \in {o \in outcome.effects : o.waits /\ ~is_new(f, o.table)}},
     at_end  |-> {e.table : e \in {o \in outcome.effects : o.at_end}},
     remedy  |-> {e.remedy : e \in {o \in outcome.effects : ~is_new(f, o.table)}} \ {<<>>}]

-----------------------------------------------------------------------------
(* The guards that read an impact (guards/impact.py).  over = NoFact is a  *)
(* rule without a threshold.                                               *)

counts(size, over, assume_small) ==
    \/ over = NoFact
    \/ IF size = NoFact THEN ~assume_small ELSE size > over

(* Mutant: a lock on a table no read named counts as small.                *)
UnnamedNeverCounts(over, assume_small) == over = NoFact

unnamed_counts(over, assume_small) == over = NoFact \/ ~assume_small

Blocked(impact, test(_), over, assume_small) ==
    \/ impact.sure = UNKNOWN
    \/ \E t \in DOMAIN impact.tables :
          test(impact.tables[t]) /\ counts(impact.tables[t].rows, over, assume_small)
    \/ unnamed_counts(over, assume_small) /\ \E l \in impact.unnamed : test(l)

max_blocking(impact, limit, over, assume_small) ==
    LET test(lock) == lock.blocks > limit IN Blocked(impact, test, over, assume_small)

no_rewrite(impact, over, assume_small) ==
    LET test(lock) == lock.work >= REWRITE IN Blocked(impact, test, over, assume_small)

-----------------------------------------------------------------------------
(* What RunState keeps of the statements before.  RunTables, RunChecks and *)
(* RunTimeouts model how it follows renames, copies, rollbacks and         *)
(* timeouts; here it takes the statements a later rule reads back.         *)

Fresh ==
    [created |-> {}, born |-> {}, gone |-> {}, link |-> <<>>, default |-> {},
     partitioned |-> {}, checks |-> {}, dropped_checks |-> {}, indexes |-> <<>>,
     domains |-> <<>>, storage |-> <<>>, settings |-> <<>>]

Put(f, x, y) == (x :> y) @@ f

record_create(run, s) ==
    [run EXCEPT !.created = @ \cup {s.table}, !.born = @ \cup {s.table},
                !.gone = @ \ {s.table},
                !.link = IF s.partition_of = NoFact THEN @
                         ELSE Put(@, s.table, s.partition_of),
                !.default = IF s.default THEN @ \cup {s.table} ELSE @ \ {s.table},
                !.partitioned = IF s.target = "partitioned" THEN @ \cup {s.table}
                                ELSE @ \ {s.table}]

drop(run, names) ==
    [run EXCEPT !.created = @ \ names, !.born = @ \ names, !.gone = @ \cup names,
                !.link = [t \in DOMAIN @ \ names |-> @[t]], !.default = @ \ names,
                !.partitioned = @ \ names,
                !.checks = {k \in @ : k.table \notin names}]

record_checks(run, table, a) ==
    CASE a.kind = "add_constraint" /\ a.proves # NoFact ->
            [run EXCEPT !.checks = {k \in @ : k.name # a.name} \cup
                {[table |-> table, name |-> a.name, column |-> a.proves,
                  valid |-> ~a.not_valid]}]
      [] a.kind = "validate_constraint" ->
            [run EXCEPT !.checks = {IF k.table = table /\ k.name = a.name
                                    THEN [k EXCEPT !.valid = TRUE] ELSE k : k \in @}]
      [] a.kind = "drop_constraint" ->
            IF \E k \in run.checks : k.table = table /\ k.name = a.name
            THEN [run EXCEPT !.checks = {k \in @ : ~(k.table = table /\ k.name = a.name)}]
            ELSE [run EXCEPT !.dropped_checks = @ \cup {<<table, a.name>>}]
      [] a.kind = "drop_column" ->
            [run EXCEPT !.checks = {k \in @ : ~(k.table = table /\ k.column = a.column)}]
      [] a.kind = "attach_partition" ->
            [run EXCEPT !.link = Put(@, a.partition, table),
                        !.default = IF a.default THEN @ \cup {a.partition}
                                    ELSE @ \ {a.partition}]
      [] a.kind = "detach_partition" ->
            [run EXCEPT !.link = Put(@, a.partition, NoFact),
                        !.default = @ \ {a.partition}]
      [] OTHER -> run

record(run, s) ==
    CASE s.kind = "create_table" -> record_create(run, s)
      [] s.kind = "drop_table" -> drop(run, s.tables)
      [] s.kind = "create_index" /\ s.name # NoFact ->
            [run EXCEPT !.indexes = Put(@, s.name, s.table)]
      [] s.kind = "alter_table" ->
            LET after[i \in 0..Len(s.actions)] ==
                    IF i = 0 THEN run ELSE record_checks(after[i - 1], s.table, s.actions[i])
            IN after[Len(s.actions)]
      [] s.kind = "set" /\ s.name # NoFact -> [run EXCEPT !.settings = Put(@, s.name, s.value)]
      [] s.kind = "create_object" /\ s.object = "domain" ->
            [run EXCEPT !.domains = Put(@, s.name, [own |-> s.constrained, over |-> s.over])]
      [] s.kind = "drop_object" /\ s.object = "domain" ->
            [run EXCEPT !.domains = Put(@, s.name, NoFact)]
      [] OTHER -> run
=============================================================================
