---------------------------- MODULE Autogenerate ----------------------------
(***************************************************************************)
(* autogenerate_migrations() on PostgreSQL: the diff of the models against *)
(* the live schema db becomes one migration, or with online=True the       *)
(* migration <id>, which changes the catalog in one transaction, and       *)
(* <id>_online, each statement of which commits alone.  The options o are  *)
(* online, and drops: "allow" for allow_drops, "ignore" for                *)
(* ignore_undeclared, "strict" for neither.                                *)
(*                                                                         *)
(* A phase of the generation is a sequence of blocks.  A block appends its *)
(* up statements to the migration or to a group of the online migration    *)
(* and puts its down statements in front of that one's down steps.         *)
(***************************************************************************)
EXTENDS SchemaDiff
LOCAL INSTANCE Graphs

OnlineGroups ==
    <<"backfill", "index", "constraint", "validate", "not_null", "drop", "cleanup">>

(***************************************************************************)
(* Blocks.                                                                 *)
(***************************************************************************)
Block(group, up, down) == [group |-> group, up |-> up, down |-> down]
First(up, down) == Block("first", up, down)

\* The block of each element of a sequence.
Each(s, B(_)) == [i \in DOMAIN s |-> B(s[i])]
EachBlocks(s, Bs(_)) == FlattenSeq(Each(s, Bs))

InGroup(blocks, group) == SelectSeq(blocks, LAMBDA b : b.group = group)
UpSteps(blocks, group) == FlattenSeq(Each(InGroup(blocks, group), LAMBDA b : b.up))
DownSteps(blocks, group) ==
    FlattenSeq(Reverse(Each(InGroup(blocks, group), LAMBDA b : b.down)))

\* The group of a step: its online group with online, else the migration.
GroupOf(o, group) == IF o.online THEN group ELSE "first"

(***************************************************************************)
(* The keys a foreign key of the same diff may point at.                   *)
(***************************************************************************)
IndexKeys(db, m) ==
    {Of(n) : n \in {x \in NewIndexes(db, m) \cup ChangedIndexes(db, m) : m.indexes[x]}}
ColumnKeys(db, m) == {c \in NewColumns(db, m) : m.cols[c].unique}

\* The keys in state.online_keys when the foreign keys are placed.  The index
\* phase adds its keys to the set without online too.
OnlineKeys(db, m, o) ==
    IndexKeys(db, m) \cup {Of(n) : n \in IF o.online THEN InvalidKeys(db, m) ELSE {}}
                     \cup (IF o.online THEN ColumnKeys(db, m) ELSE {})

(***************************************************************************)
(* New tables.  Their foreign keys go in after every CREATE TABLE, and a   *)
(* key that points at an index or a column of the same diff goes in late.  *)
(***************************************************************************)
OwnColumns(m, t) == ColumnsInOrder({c \in DOMAIN m.cols : Home[c] = t})
OwnNames(S, t) == {n \in S : TableOf(n) = t}

CreateTable(m, t) ==
    LET own == ToSet(OwnColumns(m, t))
        unique == {<<"key", c>> : c \in {x \in own : m.cols[x].unique}}
        indexes == OwnNames(DOMAIN m.indexes, t)
    IN  Statement("create_table", <<"table", t>>,
            [cols |-> [c \in own |-> Nullability(~m.cols[c].nullable)],
             keys |-> [n \in unique |-> UniqueConstraint]
                      @@ [n \in indexes |-> Index(m.indexes[n])],
             checks |-> [n \in OwnNames(m.checks, t) |-> TRUE]], FALSE)

LateFk(n, target, validated) ==
    [name |-> n, target |-> target, validated |-> validated]

\* _column_foreign_key(): a column's REFERENCES as a statement of its own.
ColumnFk(m, c, validated) == LateFk(<<"ref", c>>, m.cols[c].ref, validated)

\* Every foreign key of a new table: a column's REFERENCES, then the declared.
TableFks(m, t) ==
    Each(SelectSeq(OwnColumns(m, t), LAMBDA c : m.cols[c].ref # NoRef),
         LAMBDA c : ColumnFk(m, c, FALSE))
    \o Each(InOrder(OwnNames(DOMAIN m.fks, t)), LAMBDA n : LateFk(n, m.fks[n], FALSE))

NewTableFks(db, m) == EachBlocks(MissingTables(db, m), LAMBDA t : TableFks(m, t))
Waits(db, m, fk) == fk.target \in IndexKeys(db, m) \cup ColumnKeys(db, m)

NewTableSteps(db, m) ==
    LET direct == SelectSeq(NewTableFks(db, m), LAMBDA fk : ~Waits(db, m, fk))
        tables == MissingTables(db, m)
    IN  <<First(Each(tables, LAMBDA t : CreateTable(m, t))
                  \o Each(direct, LAMBDA fk : AddFk(fk.name, fk.target, TRUE)),
                Reverse(Each(direct, LAMBDA fk : Plain("drop_fk", fk.name)))
                  \o Reverse(Each(tables, LAMBDA t : Lenient("drop_table",
                                                             <<"table", t>>))))>>

(***************************************************************************)
(* Columns that turn nullable or NOT NULL.                                 *)
(***************************************************************************)
Column(op, c) == Plain(op, <<"col", c>>)
RouteCheck(c) == <<"route", c>>

\* transient_drop() and validate().
TransientDrop(n) == Lenient("drop_check", n)
ValidateConstraint(n) == Plain("validate", n)

\* Mutant: SET NOT NULL before the check is validated.
SetNotNullEarly(c, backfill) ==
    [route |-> <<TransientDrop(RouteCheck(c)), AddCheck(RouteCheck(c), FALSE)>>
                   \o backfill
                   \o <<Column("set_not_null", c), ValidateConstraint(RouteCheck(c))>>,
     cleanup |-> <<TransientDrop(RouteCheck(c))>>]

\* not_null_route(): SET NOT NULL reads a valid check instead of the rows.  The
\* backfill runs again for the rows written before the check went in.
NotNullRoute(c, backfill) ==
    [route |-> <<TransientDrop(RouteCheck(c)), AddCheck(RouteCheck(c), FALSE)>>
                   \o backfill
                   \o <<ValidateConstraint(RouteCheck(c)), Column("set_not_null", c)>>,
     cleanup |-> <<TransientDrop(RouteCheck(c))>>]

\* The route as a block, with its DROP NOT NULL.
SetNotNullOnline(c, backfill) ==
    LET statements == NotNullRoute(c, backfill)
    IN  <<Block("not_null", statements.route, <<Column("drop_not_null", c)>>),
          Block("cleanup", statements.cleanup, <<>>)>>

ChangedColumn(m, o, c) ==
    LET backfill == <<Column("backfill", c)>>
    IN  IF m.cols[c].nullable
        THEN <<First(<<Column("drop_not_null", c)>>, <<Column("set_not_null", c)>>)>>
        ELSE <<Block(GroupOf(o, "backfill"), backfill, <<>>)>>
             \o IF o.online THEN SetNotNullOnline(c, backfill)
                ELSE <<First(<<Column("set_not_null", c)>>,
                             <<Column("drop_not_null", c)>>)>>

ChangedColumnSteps(db, m, o) ==
    EachBlocks(ColumnsInOrder(ChangedColumns(db, m)), LAMBDA c : ChangedColumn(m, o, c))

(***************************************************************************)
(* New columns.  A NOT NULL column without a default goes in nullable, is  *)
(* filled and tightened.  With online its key and reference come later,    *)
(* and a value fills the rows as a default the same migration drops.       *)
(***************************************************************************)
AddColumnStep(c, required, unique, ref, filled) ==
    Statement("add_column", <<"col", c>>,
              [required |-> required, unique |-> unique, ref |-> ref,
               filled |-> filled], FALSE)

\* _late_reference(): without online, a reference to an index of this diff.
IsLateReference(db, m, o, c) == ~o.online /\ m.cols[c].ref \in IndexKeys(db, m)

\* _new_not_null_online(): NOT NULL from the start, with the value as a default
\* that the same migration drops.
NewNotNullOnline(c, col) ==
    <<First(<<AddColumnStep(c, TRUE, FALSE, NoRef, col.fill = "value")>>,
            <<Column("drop_column", c)>>)>>

NewColumn(db, m, o, c) ==
    LET col == m.cols[c]
        keyless == o.online
        ref == IF keyless \/ IsLateReference(db, m, o, c) THEN NoRef ELSE col.ref
        unique == col.unique /\ ~keyless
        drop == <<Column("drop_column", c)>>
        backfill == IF col.fill = "none" THEN <<>> ELSE <<Column("backfill", c)>>
    IN  CASE col.nullable \/ col.fill = "default" ->
               <<First(<<AddColumnStep(c, ~col.nullable, unique, ref,
                                       col.fill = "default")>>, drop)>>
          [] o.online /\ ~col.nullable /\ col.fill \in {"value", "none"} ->
               NewNotNullOnline(c, col)
          [] OTHER ->
               <<First(<<AddColumnStep(c, FALSE, unique, ref, FALSE)>>, drop),
                 Block(GroupOf(o, "backfill"), backfill, <<>>)>>
               \o IF o.online THEN SetNotNullOnline(c, backfill)
                  ELSE <<First(<<Column("set_not_null", c)>>, <<>>)>>

\* concurrently(): the build and the drop that run again over an earlier attempt.
BuildConcurrently(n, unique) == Statement("create_index", n, Index(unique), TRUE)
DropConcurrently(n) == Lenient("drop_index", n)

\* unique_using_index().
UniqueUsingIndex(n) == Plain("attach", n)

\* _column_keys_online(): the UNIQUE the ADD COLUMN left off.
ColumnKeyOnline(m, o, c) ==
    IF ~(o.online /\ m.cols[c].unique) THEN <<>>
    ELSE LET key == <<"key", c>>
         IN  <<Block("index", <<DropConcurrently(key), BuildConcurrently(key, TRUE),
                                UniqueUsingIndex(key)>>,
                     <<Plain("drop_unique", key)>>)>>

\* Mutant: the new columns in the order they are declared.
DeclaredOrder(db, m) == ColumnsInOrder(NewColumns(db, m))

\* _referenced_first(): a column another new column references goes in first.
ReferencedFirst(db, m) ==
    LET new == ColumnsInOrder(NewColumns(db, m))
        referenced == {m.cols[c].ref : c \in ToSet(new)}
    IN  SelectSeq(new, LAMBDA c : c \in referenced)
        \o SelectSeq(new, LAMBDA c : c \notin referenced)

NewColumnSteps(db, m, o) ==
    EachBlocks(ReferencedFirst(db, m),
               LAMBDA c : NewColumn(db, m, o, c) \o ColumnKeyOnline(m, o, c))

\* Mutant: only a reference to an index of this diff goes in late.
IndexReferences(db, m, o) ==
    Each(SelectSeq(ReferencedFirst(db, m), LAMBDA c : IsLateReference(db, m, o, c)),
         LAMBDA c : ColumnFk(m, c, o.online))

\* The references of new columns that go in late.
NewColumnFks(db, m, o) ==
    Each(SelectSeq(ReferencedFirst(db, m),
             LAMBDA c : IF o.online THEN m.cols[c].ref # NoRef
                        ELSE IsLateReference(db, m, o, c)),
         LAMBDA c : ColumnFk(m, c, o.online))

(***************************************************************************)
(* Indexes.                                                                *)
(***************************************************************************)
\* Mutant: CREATE INDEX IF NOT EXISTS alone, which an invalid index satisfies.
BuiltIfMissing(n, unique) == <<Statement("create_index", n, Index(unique), TRUE)>>

\* rebuilt(): whatever an earlier attempt left under the name goes first.
Rebuilt(n, unique) == <<DropConcurrently(n), BuildConcurrently(n, unique)>>
Replaced(o, n, unique) ==
    IF o.online THEN Rebuilt(n, unique)
    ELSE <<Plain("drop_index", n), CreateIndex(n, unique)>>

NewIndex(m, o, n) ==
    IF o.online
    THEN Block("index", Rebuilt(n, m.indexes[n]), <<DropConcurrently(n)>>)
    ELSE First(<<CreateIndex(n, m.indexes[n])>>, <<Plain("drop_index", n)>>)

\* Mutant: the down step builds the index the models declare.
RebuiltBothWays(db, m, o, n) ==
    Block(GroupOf(o, "index"), Replaced(o, n, m.indexes[n]),
          IF db.keys[n].valid THEN Replaced(o, n, m.indexes[n]) ELSE <<>>)

\* The down step of a rebuilt invalid index leaves the valid one.
ChangedIndex(db, m, o, n) ==
    Block(GroupOf(o, "index"), Replaced(o, n, m.indexes[n]),
          IF db.keys[n].valid THEN Replaced(o, n, db.keys[n].unique) ELSE <<>>)

KeyRebuild(o, n) ==
    IF o.online THEN Block("index", Rebuilt(n, TRUE) \o <<UniqueUsingIndex(n)>>, <<>>)
    ELSE First(<<Plain("drop_index", n), Plain("add_unique", n)>>, <<>>)

IndexSteps(db, m, o) ==
    Each(InOrder(NewIndexes(db, m)), LAMBDA n : NewIndex(m, o, n))
    \o Each(InOrder(ChangedIndexes(db, m)), LAMBDA n : ChangedIndex(db, m, o, n))
    \o Each(InOrder(InvalidKeys(db, m)), LAMBDA n : KeyRebuild(o, n))

(***************************************************************************)
(* Foreign keys and checks.  With online they go in NOT VALID, and the     *)
(* online migration validates them.                                        *)
(***************************************************************************)
Validate(o, n) ==
    IF o.online THEN <<Block("validate", <<ValidateConstraint(n)>>, <<>>)>> ELSE <<>>

LateFkSteps(db, m, o) ==
    EachBlocks(SelectSeq(NewTableFks(db, m), LAMBDA fk : Waits(db, m, fk))
                   \o NewColumnFks(db, m, o),
        LAMBDA fk :
            LET late == o.online /\ fk.target \in OnlineKeys(db, m, o)
                group == IF late THEN "constraint" ELSE "first"
                \* A new table has no rows to validate.
                scans == o.online /\ (late \/ fk.validated)
            IN  <<Block(group, <<AddFk(fk.name, fk.target, ~scans)>>,
                        <<Plain("drop_fk", fk.name)>>)>>
                \o IF scans THEN Validate(o, fk.name) ELSE <<>>)

NewFk(db, m, o, n) ==
    <<Block(IF m.fks[n] \in OnlineKeys(db, m, o) THEN "constraint" ELSE "first",
            <<AddFk(n, m.fks[n], ~o.online)>>, <<Plain("drop_fk", n)>>)>>
    \o Validate(o, n)

NewCheck(o, n) ==
    <<First(<<AddCheck(n, ~o.online)>>, <<Plain("drop_check", n)>>)>> \o Validate(o, n)

ChangedFk(db, m, o, n) ==
    <<First(<<Plain("drop_fk", n), AddFk(n, m.fks[n], ~o.online)>>,
            <<Plain("drop_fk", n), AddFk(n, db.fks[n].target, TRUE)>>)>>
    \o Validate(o, n)

\* With online every drop runs last, with IF EXISTS.
Drop(o, op, on, restore) ==
    Block(GroupOf(o, "drop"), <<Statement(op, on, <<>>, o.online)>>, restore)

\* A leftover check of the SET NOT NULL route, unless the route runs again.
RouteCheckDrops(db, m, o) ==
    Each(SelectSeq(InOrder(RouteChecks(db, m)),
             LAMBDA n : ~(o.online /\ Of(n) \in ChangedColumns(db, m))),
         LAMBDA n : Block(GroupOf(o, "cleanup"), <<TransientDrop(n)>>, <<>>))

ConstraintSteps(db, m, o) ==
    EachBlocks(InOrder(NewChecks(db, m)), LAMBDA n : NewCheck(o, n))
    \o EachBlocks(InOrder(NewFks(db, m)), LAMBDA n : NewFk(db, m, o, n))
    \o Each(InOrder(Unvalidated(db, m)),
            LAMBDA n : Block(GroupOf(o, "validate"), <<ValidateConstraint(n)>>, <<>>))
    \o RouteCheckDrops(db, m, o)
    \o IF o.drops # "allow" THEN <<>>
       ELSE EachBlocks(InOrder(ChangedFks(db, m)), LAMBDA n : ChangedFk(db, m, o, n))
            \o Each(InOrder(ExtraFks(db, m)), LAMBDA n :
                   Drop(o, "drop_fk", n, <<AddFk(n, db.fks[n].target, TRUE)>>))
            \o Each(InOrder(ExtraChecks(db, m)), LAMBDA n :
                   Drop(o, "drop_check", n, <<AddCheck(n, TRUE)>>))

(***************************************************************************)
(* Drops.                                                                  *)
(***************************************************************************)
ExtraIndexDrop(db, o, n) ==
    IF db.keys[n].constraint
    THEN Drop(o, "drop_unique", n, <<Plain("add_unique", n)>>)
    ELSE Drop(o, "drop_index", n,
              IF o.online THEN Rebuilt(n, db.keys[n].unique)
              ELSE <<CreateIndex(n, db.keys[n].unique)>>)

\* Which of a set of tables point at which others.
Points(db, S) ==
    {<<TableOf(f), Home[db.fks[f].target]>> : f \in DOMAIN db.fks} \cap (S \X S)

InCycle(db, S) ==
    LET reaches == ConnectionsIn([node |-> S, edge |-> Points(db, S)])
    IN  {t \in S : \E u \in S \ {t} : reaches[t, u] /\ reaches[u, t]}

\* _dependency_order(): a table before the tables it points at, where no cycle
\* forbids it.
DropOrder(db, S) ==
    CHOOSE s \in SetToSeqs(S) : \A i, j \in DOMAIN s :
        i < j /\ <<s[j], s[i]>> \in Points(db, S) => {s[i], s[j]} \subseteq InCycle(db, S)

\* _extra_table_drops(): the keys of a cycle go first.
ExtraTableDrops(db, m, o) ==
    LET extra == ExtraTables(db, m)
        cyclic == InCycle(db, extra)
        keys == {f \in DOMAIN db.fks :
                    LET target == Home[db.fks[f].target]
                    IN  {TableOf(f), target} \subseteq cyclic /\ TableOf(f) # target}
    IN  Each(InOrder(keys), LAMBDA f : Drop(o, "drop_fk", f, <<>>))
        \o Each(DropOrder(db, extra), LAMBDA t : Drop(o, "drop_table", <<"table", t>>, <<>>))

DropSteps(db, m, o) ==
    IF o.drops # "allow" THEN <<>>
    ELSE Each(InOrder(ExtraIndexes(db, m)), LAMBDA n : ExtraIndexDrop(db, o, n))
         \o Each(ColumnsInOrder(ExtraColumns(db, m)),
                 LAMBDA c : Drop(o, "drop_column", <<"col", c>>, <<>>))
         \o ExtraTableDrops(db, m, o)

(***************************************************************************)
(* The generation: its phases in order, and the two migrations.            *)
(***************************************************************************)
Blocks(db, m, o) ==
    NewTableSteps(db, m) \o ChangedColumnSteps(db, m, o) \o NewColumnSteps(db, m, o)
    \o IndexSteps(db, m, o) \o LateFkSteps(db, m, o) \o ConstraintSteps(db, m, o)
    \o DropSteps(db, m, o)

\* A generation that raises: objects no model declares, a column that turns
\* NOT NULL or is added NOT NULL with no value for the rows.
Raises(db, m, o) ==
    \/ o.drops = "strict" /\ Extras(db, m)
    \/ \E c \in NewColumns(db, m) \cup ChangedColumns(db, m) :
          /\ ~m.cols[c].nullable
          /\ m.cols[c].fill = "none"

Plan(db, m, o) ==
    LET blocks == Blocks(db, m, o)
        down == DownSteps(blocks, "first")
        irreversible == /\ o.drops = "allow"
                        /\ ExtraColumns(db, m) # {} \/ ExtraTables(db, m) # {}
    IN  [up |-> UpSteps(blocks, "first"),
         down |-> down,
         reversible |-> down # <<>> /\ (o.online \/ ~irreversible),
         rest |-> EachBlocks(OnlineGroups, LAMBDA g : UpSteps(blocks, g)),
         restDown |-> EachBlocks(Reverse(OnlineGroups), LAMBDA g : DownSteps(blocks, g)),
         restReversible |-> ~irreversible]

NoPlan == [up |-> <<>>, down |-> <<>>, reversible |-> FALSE,
           rest |-> <<>>, restDown |-> <<>>, restReversible |-> FALSE]
=============================================================================
