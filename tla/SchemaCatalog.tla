---------------------------- MODULE SchemaCatalog ----------------------------
(***************************************************************************)
(* A PostgreSQL schema as far as a generated migration can be refused by   *)
(* it, and the statements autogenerate() writes for it.                    *)
(*                                                                         *)
(* A schema is a record of the tables, the columns with their nullability, *)
(* the indexes (with those behind UNIQUE constraints), the foreign keys,   *)
(* the checks, and the columns that hold a NULL in some row.  An index, a  *)
(* foreign key or a check is named by its kind and its one column, so      *)
(* Of(name) is the column and Home[Of(name)] the table.  Primary keys are  *)
(* the columns in Ids: a key is always behind them.                        *)
(*                                                                         *)
(* Left out, because no refusal depends on them here: column types,        *)
(* defaults, comments, enum types, renames, several columns in one key,    *)
(* partitioned tables.                                                     *)
(***************************************************************************)
EXTENDS Naturals, Sequences, SequencesExt, FiniteSets, Functions, TLC

CONSTANTS
    Columns,    \* every column, table by table, in the order declared
    Home,       \* the table of each column
    Ids,        \* the columns that are primary keys
    NoRef       \* the reference of a column that has none

ASSUME CatalogAssumption ==
    /\ DOMAIN Home = ToSet(Columns)
    /\ Ids \subseteq DOMAIN Home
    /\ NoRef \notin DOMAIN Home

Of(name) == name[2]
TableOf(name) == Home[Of(name)]

Kinds == <<"ix", "key", "fk", "ref", "ck", "route">>

\* The names in S, column by column: the order the models declare them in.
InOrder(S) ==
    SelectSeq(FlattenSeq([i \in DOMAIN Columns |->
                  [k \in DOMAIN Kinds |-> <<Kinds[k], Columns[i]>>]]),
              LAMBDA n : n \in S)

ColumnsInOrder(S) == SelectSeq(Columns, LAMBDA c : c \in S)

Put(f, k, v) == (k :> v) @@ f
Without(f, S) == Restrict(f, DOMAIN f \ S)

(***************************************************************************)
(* What a schema holds.                                                    *)
(***************************************************************************)
HasColumn(db, c) == c \in DOMAIN db.cols

\* A foreign key may point at c: a valid unique index or a primary key.
IsKey(db, c) ==
    /\ HasColumn(db, c)
    /\ c \in Ids \/ \E n \in DOMAIN db.keys :
                        Of(n) = c /\ db.keys[n].unique /\ db.keys[n].valid

PointsAt(db, f, c) == db.fks[f].target = c

\* A foreign key leans on the unique index n, so n cannot go.  A column has
\* one unique index here, so every key at the column leans on that one.
LeanedOn(db, n) ==
    /\ n \in DOMAIN db.keys /\ db.keys[n].unique /\ db.keys[n].valid
    /\ Of(n) \notin Ids
    /\ \E f \in DOMAIN db.fks : PointsAt(db, f, Of(n))

(***************************************************************************)
(* Statements: what they do, what they do it on, the detail they carry,    *)
(* and whether they take IF EXISTS or IF NOT EXISTS.                       *)
(***************************************************************************)
Statement(op, on, arg, lenient) == [op |-> op, on |-> on, arg |-> arg,
                                    lenient |-> lenient]
Plain(op, on) == Statement(op, on, <<>>, FALSE)
Lenient(op, on) == Statement(op, on, <<>>, TRUE)

Index(unique) == [unique |-> unique, valid |-> TRUE, constraint |-> FALSE]
UniqueConstraint == [unique |-> TRUE, valid |-> TRUE, constraint |-> TRUE]

CreateIndex(n, unique) == Statement("create_index", n, Index(unique), FALSE)
AddFk(n, target, valid) ==
    Statement("add_fk", n, [target |-> target, valid |-> valid], FALSE)
AddCheck(n, valid) == Statement("add_check", n, [valid |-> valid], FALSE)

\* The object a drop names is gone already.
Missing(db, s) ==
    CASE s.op = "drop_table"  -> s.on[2] \notin db.tables
      [] s.op = "drop_column" -> ~HasColumn(db, s.on[2])
      [] s.op = "drop_index"  -> s.on \notin DOMAIN db.keys
      [] s.op = "drop_unique" -> \/ s.on \notin DOMAIN db.keys
                                 \/ ~db.keys[s.on].constraint
      [] s.op = "drop_fk"     -> s.on \notin DOMAIN db.fks
      [] s.op = "drop_check"  -> s.on \notin DOMAIN db.checks

\* Something else depends on what a drop names, and PostgreSQL refuses it.
InUse(db, s) ==
    CASE s.op = "drop_table"  ->
             \E f \in DOMAIN db.fks : /\ TableOf(f) # s.on[2]
                                      /\ Home[db.fks[f].target] = s.on[2]
      [] s.op = "drop_column" ->
             \E f \in DOMAIN db.fks : Of(f) # s.on[2] /\ PointsAt(db, f, s.on[2])
      [] s.op = "drop_index"  -> \/ db.keys[s.on].constraint
                                 \/ LeanedOn(db, s.on)
      [] s.op = "drop_unique" -> LeanedOn(db, s.on)
      [] OTHER -> FALSE

Drops == {"drop_table", "drop_column", "drop_index", "drop_unique", "drop_fk",
          "drop_check"}

\* The object exists already, or the statement needs one that does not.
Clashes(db, s) ==
    CASE s.op = "create_table" -> s.on[2] \in db.tables
      [] s.op = "add_column"   ->
             \/ Home[s.on[2]] \notin db.tables \/ HasColumn(db, s.on[2])
             \/ s.arg.ref # NoRef /\ ~IsKey(db, s.arg.ref)
             \* Every table that gains a column has rows.
             \/ s.arg.required /\ ~s.arg.filled
      [] s.op = "add_fk"       -> \/ s.on \in DOMAIN db.fks
                                  \/ ~HasColumn(db, Of(s.on))
                                  \/ ~IsKey(db, s.arg.target)
      [] s.op = "add_check"    -> \/ s.on \in DOMAIN db.checks
                                  \/ ~HasColumn(db, Of(s.on))
      [] s.op = "create_index" -> \/ s.on \in DOMAIN db.keys /\ ~s.lenient
                                  \/ ~HasColumn(db, Of(s.on))
      [] s.op = "add_unique"   -> \/ s.on \in DOMAIN db.keys
                                  \/ ~HasColumn(db, Of(s.on))
      [] s.op = "attach"       -> \/ s.on \notin DOMAIN db.keys
                                  \/ db.keys[s.on].constraint
                                  \/ ~db.keys[s.on].valid
      [] s.op = "validate"     ->
             IF s.on[1] \in {"fk", "ref"} THEN s.on \notin DOMAIN db.fks
             ELSE \/ s.on \notin DOMAIN db.checks
                  \/ s.on[1] = "route" /\ Of(s.on) \in db.nulls
      [] s.op \in {"backfill", "drop_not_null"} -> ~HasColumn(db, s.on[2])
      [] s.op = "set_not_null" -> ~HasColumn(db, s.on[2]) \/ s.on[2] \in db.nulls

Refused(db, s) ==
    IF s.op \in Drops
    THEN IF Missing(db, s) THEN ~s.lenient ELSE InUse(db, s)
    ELSE Clashes(db, s)

\* What goes with the columns C: their indexes, their own foreign keys and
\* checks.
WithoutColumns(db, C) ==
    [db EXCEPT !.cols = Without(@, C), !.nulls = @ \ C,
               !.keys = Without(@, {n \in DOMAIN @ : Of(n) \in C}),
               !.fks = Without(@, {n \in DOMAIN @ : Of(n) \in C}),
               !.checks = Without(@, {n \in DOMAIN @ : Of(n) \in C})]

Nullability(required) == IF required THEN "required" ELSE "nullable"

AddColumn(db, c, arg) ==
    [db EXCEPT !.cols = Put(@, c, Nullability(arg.required)),
               !.keys = IF arg.unique THEN Put(@, <<"key", c>>, UniqueConstraint)
                        ELSE @,
               !.fks = IF arg.ref = NoRef THEN @
                       ELSE Put(@, <<"ref", c>>, [target |-> arg.ref, valid |-> TRUE]),
               !.nulls = IF arg.filled THEN @ ELSE @ \cup {c}]

Dropped(db, s) ==
    CASE s.op = "drop_table"  ->
             [WithoutColumns(db, {c \in DOMAIN db.cols : Home[c] = s.on[2]})
                 EXCEPT !.tables = @ \ {s.on[2]}]
      [] s.op = "drop_column" -> WithoutColumns(db, {s.on[2]})
      [] s.op \in {"drop_index", "drop_unique"} ->
             [db EXCEPT !.keys = Without(@, {s.on})]
      [] s.op = "drop_fk"     -> [db EXCEPT !.fks = Without(@, {s.on})]
      [] s.op = "drop_check"  -> [db EXCEPT !.checks = Without(@, {s.on})]

\* The schema a statement that is not refused leaves.
Executed(db, s) ==
    CASE s.op \in Drops        -> IF Missing(db, s) THEN db ELSE Dropped(db, s)
      [] s.op = "create_table" ->
             [db EXCEPT !.tables = @ \cup {s.on[2]}, !.cols = s.arg.cols @@ @,
                        !.keys = s.arg.keys @@ @, !.checks = s.arg.checks @@ @]
      [] s.op = "add_column"   -> AddColumn(db, s.on[2], s.arg)
      [] s.op = "add_fk"       -> [db EXCEPT !.fks = Put(@, s.on, s.arg)]
      [] s.op = "add_check"    -> [db EXCEPT !.checks = Put(@, s.on, s.arg.valid)]
      [] s.op = "create_index" ->
             IF s.on \in DOMAIN db.keys THEN db
             ELSE [db EXCEPT !.keys = Put(@, s.on, s.arg)]
      [] s.op = "add_unique"   ->
             [db EXCEPT !.keys = Put(@, s.on, UniqueConstraint)]
      [] s.op = "attach"       -> [db EXCEPT !.keys[s.on].constraint = TRUE]
      [] s.op = "validate"     ->
             IF s.on[1] \in {"fk", "ref"} THEN [db EXCEPT !.fks[s.on].valid = TRUE]
             ELSE [db EXCEPT !.checks[s.on] = TRUE]
      [] s.op = "backfill"     -> [db EXCEPT !.nulls = @ \ {s.on[2]}]
      [] s.op = "set_not_null" -> [db EXCEPT !.cols[s.on[2]] = "required"]
      [] s.op = "drop_not_null" -> [db EXCEPT !.cols[s.on[2]] = "nullable"]

\* A statement that failed on its own: a build cancelled by a lock timeout or
\* stopped by a duplicate leaves its index invalid, the others leave nothing.
Interrupted(db, s) ==
    IF s.op = "create_index" /\ s.on \notin DOMAIN db.keys
    THEN [db EXCEPT !.keys = Put(@, s.on, [s.arg EXCEPT !.valid = FALSE])]
    ELSE db

NoStatement == Plain("none", <<"none", "none">>)
=============================================================================
