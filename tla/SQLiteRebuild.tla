---------------------------- MODULE SQLiteRebuild ----------------------------
(***************************************************************************)
(* autogenerate() on SQLite, which cannot alter a column or a constraint   *)
(* of a table that exists: a copy is created from the declaration, the     *)
(* rows go across, the old table is dropped and the copy renamed.          *)
(*                                                                         *)
(* Here a schema has more fields:                                          *)
(*   parts    what no model can declare: collations, unnamed checks,       *)
(*            UNIQUEs over a pair of columns, indexes on an expression,    *)
(*            triggers and generated columns, each named by its kind and a *)
(*            column it uses                                               *)
(*   views    the tables that a view, or a trigger of another table, names *)
(*   rows     the tables that hold the rows they held at first             *)
(*   blank    the columns that are NULL in every row                       *)
(*   copies   the copies of rebuilds under way, by table                   *)
(*   enforced, legacy   PRAGMA foreign_keys and legacy_alter_table         *)
(* A foreign key has a cascade: ON DELETE CASCADE or no action.            *)
(***************************************************************************)
EXTENDS Autogenerate

Own(S, t) == {n \in S : TableOf(n) = t}
OwnOf(f, t) == Restrict(f, Own(DOMAIN f, t))
LiveColumns(db, t) == {c \in DOMAIN db.cols : Home[c] = t}
DeclaredColumns(m, t) == {c \in DOMAIN m.cols : Home[c] = t}

(***************************************************************************)
(* The read of a live schema.                                              *)
(***************************************************************************)
PartsOf(db, kind) == {Of(p) : p \in {x \in db.parts : x[1] = kind}}

Collations(db) == PartsOf(db, "collation")
UnnamedChecks(db) == PartsOf(db, "check")
TableChecks(db) == DOMAIN db.checks
ExpressionIndexes(db) == PartsOf(db, "expression")

\* _sqlite_plan().  PRAGMA table_info leaves generated columns out, and an
\* index on an expression is read as its statement alone.
Snapshot(db) ==
    [tables |-> db.tables, cols |-> db.cols, keys |-> db.keys, fks |-> db.fks,
     checks |-> Restrict(db.checks, TableChecks(db)), views |-> db.views,
     collations |-> Collations(db), unnamed |-> UnnamedChecks(db),
     pairs |-> PartsOf(db, "pair"), statements |-> ExpressionIndexes(db),
     triggers |-> PartsOf(db, "trigger")]

\* SQLite's own index behind a UNIQUE of a column no model declares goes when
\* that column goes, so the diff does not list it.
SqliteExtraIndexes(db, m) ==
    {n \in ExtraIndexes(db, m) : n[1] = "key" => Of(n) \in DOMAIN m.cols}

(***************************************************************************)
(* What a table holds when it is created from its declaration: the foreign *)
(* keys are in CREATE TABLE.                                               *)
(***************************************************************************)
Contents(m, t) ==
    LET own == DeclaredColumns(m, t)
        refs == {c \in own : m.cols[c].ref # NoRef}
        key(target, cascade) == [target |-> target, valid |-> TRUE,
                                 cascade |-> cascade]
    IN  [cols |-> [c \in own |-> Nullability(~m.cols[c].nullable)],
         keys |-> [n \in {<<"key", c>> : c \in {x \in own : m.cols[x].unique}}
                       |-> UniqueConstraint],
         fks |-> [n \in {<<"ref", c>> : c \in refs}
                       |-> key(m.cols[Of(n)].ref, FALSE)]
                 @@ [n \in Own(DOMAIN m.fks, t) |-> key(m.fks[n], n \in m.cascades)],
         checks |-> [n \in Own(m.checks, t) |-> TRUE]]

\* Mutant: what the models do not declare is not carried.
DeclaredAlone(db, m, o, t) ==
    Contents(m, t) @@ [parts |-> {}]

\* The copy of a rebuild: the declaration, and unless drops are allowed the
\* columns and constraints the models do not declare.  What cannot be declared
\* is carried with the columns that are kept.
CopyOf(db, m, o, t) ==
    LET declared == Contents(m, t)
        undeclared == IF o.drops = "allow" THEN {}
                      ELSE LiveColumns(db, t) \ DOMAIN declared.cols
        kept == DOMAIN declared.cols \cup undeclared
        carried(f) == IF o.drops = "allow" THEN <<>> ELSE OwnOf(f, t)
        constraints(f) == Restrict(f, {n \in DOMAIN f : n[1] = "key"})
    IN  [cols |-> declared.cols @@ Restrict(db.cols, undeclared),
         keys |-> declared.keys @@ carried(constraints(db.keys)),
         fks |-> declared.fks
                 @@ LET live == carried(db.fks)
                    IN  Restrict(live, {f \in DOMAIN live : ~Implied(m, f)}),
         checks |-> declared.checks @@ carried(db.checks),
         parts |-> {<<"collation", c>> : c \in kept \cap db.collations}
                   \cup {<<"check", c>> : c \in kept \cap db.unnamed}
                   \cup {<<"pair", c>> : c \in kept \cap db.pairs}]

\* A nullable column that the models make NOT NULL.
Tightens(db, m, c) == /\ HasColumn(db, c) /\ db.cols[c] = "nullable"
                      /\ ~m.cols[c].nullable /\ c \notin Ids

\* The columns of the copy that take a value where the old row has none.
Filled(db, m, t) ==
    {c \in DeclaredColumns(m, t) :
        IF HasColumn(db, c) THEN Tightens(db, m, c) ELSE m.cols[c].fill # "none"}

(***************************************************************************)
(* The statements of a rebuild.                                            *)
(***************************************************************************)
OnTable(op, t) == Plain(op, <<"table", t>>)
ForeignKeys(value) == Plain("foreign_keys", <<"setting", value>>)
LegacyAlter(value) == Plain("legacy", <<"setting", value>>)

\* A view, or any trigger: its check at the rename would miss the old table.
RenamesUnderLegacy(db) == db.views # {} \/ db.triggers # {}

UndeclaredIndexes(db, m, t) ==
    Each(InOrder({n \in Own(DOMAIN db.keys, t) : n[1] = "ix" /\ n \notin DOMAIN m.indexes}),
         LAMBDA n : CreateIndex(n, db.keys[n].unique))
    \o Each(ColumnsInOrder({c \in db.statements : Home[c] = t}),
            LAMBDA c : Plain("create_part", <<"expression", c>>))

RebuildTable(db, m, o, t) ==
    LET legacy == RenamesUnderLegacy(db)
        triggers == ColumnsInOrder({c \in db.triggers : Home[c] = t})
    IN  <<Statement("create_copy", <<"table", t>>, CopyOf(db, m, o, t), FALSE),
          Statement("copy_rows", <<"table", t>>, Filled(db, m, t), FALSE),
          OnTable("drop_table", t)>>
        \o (IF legacy THEN <<LegacyAlter(TRUE)>> ELSE <<>>)
        \o <<OnTable("rename_copy", t)>>
        \o (IF legacy THEN <<LegacyAlter(FALSE)>> ELSE <<>>)
        \o Each(InOrder(Own(DOMAIN m.indexes, t)), LAMBDA n : CreateIndex(n, m.indexes[n]))
        \o (IF o.drops = "allow" THEN <<>> ELSE UndeclaredIndexes(db, m, t))
        \o Each(triggers, LAMBDA c : Plain("create_part", <<"trigger", c>>))

(***************************************************************************)
(* Which tables are rebuilt, in the order the phases mark them.            *)
(***************************************************************************)
\* SQLite's ADD COLUMN refuses it.
AddColumnNeedsRebuild(col) ==
    \/ col.unique
    \/ ~col.nullable /\ col.fill # "default"
    \/ col.fill = "default" /\ col.ref # NoRef

TablesOf(S) == SelectSeq(Models, LAMBDA t : \E c \in S : Home[c] = t)
TablesOfNames(S) == SelectSeq(Models, LAMBDA t : Own(S, t) # {})

ColumnRebuilds(db, m) ==
    TablesOf(ChangedColumns(db, m))
    \o TablesOf({c \in NewColumns(db, m) : AddColumnNeedsRebuild(m.cols[c])})

ConstraintRebuilds(db, m, o) ==
    TablesOfNames(NewFks(db, m)) \o TablesOfNames(NewChecks(db, m))
    \o IF o.drops # "allow" THEN <<>>
       ELSE TablesOfNames(ChangedFks(db, m)) \o TablesOfNames(ExtraFks(db, m))
            \o TablesOfNames(ExtraChecks(db, m))
            \o TablesOfNames({n \in SqliteExtraIndexes(db, m) : db.keys[n].constraint})

Rebuilds(db, m, o) ==
    FoldLeft(LAMBDA marked, t : IF t \in ToSet(marked) THEN marked ELSE Append(marked, t),
             <<>>, ColumnRebuilds(db, m) \o ConstraintRebuilds(db, m, o))

\* Enforcement goes off around the rebuilds when a live foreign key points at
\* one of their tables.
TurnsForeignKeysOff(db, tables) ==
    \E f \in DOMAIN db.fks : Home[db.fks[f].target] \in tables

Unenforced(steps) == <<ForeignKeys(FALSE)>> \o steps \o <<ForeignKeys(TRUE)>>

RebuildSteps(db, m, o) ==
    LET tables == Rebuilds(db, m, o)
        steps == EachBlocks(tables, LAMBDA t : RebuildTable(db, m, o, t))
    IN  IF tables = <<>> THEN <<>>
        ELSE <<First(IF TurnsForeignKeysOff(db, ToSet(tables)) THEN Unenforced(steps)
                     ELSE steps, <<>>)>>

(***************************************************************************)
(* The other phases, on the tables that are not rebuilt.                   *)
(***************************************************************************)
SqliteNewTable(m, t) ==
    LET table == Contents(m, t)
    IN  <<Statement("create_table", <<"table", t>>, table, FALSE)>>
        \o Each(InOrder(Own(DOMAIN m.indexes, t)), LAMBDA n : CreateIndex(n, m.indexes[n]))

SqliteNewTables(db, m) ==
    LET tables == MissingTables(db, m)
    IN  <<First(EachBlocks(tables, LAMBDA t : SqliteNewTable(m, t)),
                Reverse(Each(tables, LAMBDA t : Lenient("drop_table", <<"table", t>>))))>>

\* A table marked by its constraints alone still gets its ADD COLUMN first.
SqliteNewColumns(db, m) ==
    LET marked == ToSet(ColumnRebuilds(db, m))
        added == SelectSeq(ReferencedFirst(db, m), LAMBDA c : Home[c] \notin marked)
    IN  Each(added, LAMBDA c :
            LET col == m.cols[c]
            IN  First(<<AddColumnStep(c, ~col.nullable, FALSE, col.ref,
                                      col.fill = "default")>>,
                      <<Column("drop_column", c)>>))

SqliteIndexes(db, m, o, rebuilt) ==
    LET own(S) == InOrder({n \in S : TableOf(n) \notin rebuilt})
    IN  Each(own(NewIndexes(db, m)), LAMBDA n : NewIndex(m, o, n))
        \o Each(own(ChangedIndexes(db, m)), LAMBDA n : ChangedIndex(db, m, o, n))

SqliteTableDrops(db, m) ==
    LET extra == ExtraTables(db, m)
        drops == Each(DropOrder(db, extra), LAMBDA t : OnTable("drop_table", t))
    IN  IF extra = {} THEN <<>>
        ELSE <<First(IF InCycle(db, extra) # {} THEN Unenforced(drops) ELSE drops, <<>>)>>

SqliteDrops(db, m, o, rebuilt) ==
    IF o.drops # "allow" THEN <<>>
    ELSE Each(InOrder({n \in SqliteExtraIndexes(db, m) : TableOf(n) \notin rebuilt}),
              LAMBDA n : ExtraIndexDrop(db, o, n))
         \o Each(ColumnsInOrder({c \in ExtraColumns(db, m) : Home[c] \notin rebuilt}),
                 LAMBDA c : Drop(o, "drop_column", <<"col", c>>, <<>>))
         \o SqliteTableDrops(db, m)

\* One migration.  With a pragma that a transaction would ignore it runs bare,
\* statement by statement.
SqlitePlan(schema, m, o) ==
    LET db == Snapshot(schema)
        rebuilt == ToSet(Rebuilds(db, m, o))
        blocks == SqliteNewTables(db, m) \o SqliteNewColumns(db, m)
                  \o RebuildSteps(db, m, o) \o SqliteIndexes(db, m, o, rebuilt)
                  \o SqliteDrops(db, m, o, rebuilt)
        up == UpSteps(blocks, "first")
        down == DownSteps(blocks, "first")
        gone == o.drops = "allow" /\ (\/ ExtraTables(db, m) # {}
                                      \/ \E c \in ExtraColumns(db, m) :
                                             Home[c] \notin rebuilt)
        reversible == down # <<>> /\ rebuilt = {} /\ ~gone
        bare == \E i \in DOMAIN up : up[i].op = "foreign_keys"
    IN  IF bare
        THEN [NoPlan EXCEPT !.rest = up, !.restDown = down, !.restReversible = reversible]
        ELSE [NoPlan EXCEPT !.up = up, !.down = down, !.reversible = reversible,
                            !.restReversible = TRUE]

(***************************************************************************)
(* What SQLite refuses and does.                                           *)
(***************************************************************************)
\* The rows that a foreign key ties to t: those of other tables, and those of
\* a copy.  A key of a table that holds none, or only NULLs, ties nothing.
TiedTo(db, t) ==
    {f \in {<<"table", n>> : n \in {x \in DOMAIN db.fks :
                /\ TableOf(x) \in db.rows \ {t} /\ Of(x) \notin db.blank}}
           \cup UNION {{<<"copy", n>> : n \in {x \in DOMAIN db.copies[u].fks :
                /\ db.copies[u].full /\ Of(x) \notin db.copies[u].blank}}
                       : u \in DOMAIN db.copies} :
        LET key == IF f[1] = "table" THEN db.fks[f[2]]
                   ELSE db.copies[TableOf(f[2])].fks[f[2]]
        IN  Home[key.target] = t}
Cascades(db, f) == IF f[1] = "table" THEN db.fks[f[2]].cascade
                   ELSE db.copies[TableOf(f[2])].fks[f[2]].cascade

\* A trigger that names a column a rebuild left behind: SQLite reads the whole
\* schema when it drops a column.
Broken(db) == \E p \in db.parts : p[1] = "trigger" /\ ~HasColumn(db, Of(p))

ColumnInUse(db, c) ==
    \/ c \in Ids \/ Broken(db)
    \/ \E n \in DOMAIN db.keys \cup DOMAIN db.checks : Of(n) = c
    \/ \E f \in DOMAIN db.fks : Of(f) = c /\ f[1] = "fk"
    \/ \E p \in db.parts : Of(p) = c /\ p[1] # "collation"

SqliteRefuses(db, s) ==
    CASE s.op = "create_table" -> s.on[2] \in db.tables
      [] s.op = "add_column"   ->
             \/ Home[s.on[2]] \notin db.tables \/ HasColumn(db, s.on[2])
             \/ s.arg.unique
             \/ s.arg.required /\ ~s.arg.filled
             \/ db.enforced /\ s.arg.filled /\ s.arg.ref # NoRef
      [] s.op = "create_index" -> s.on \in DOMAIN db.keys \/ ~HasColumn(db, Of(s.on))
      [] s.op = "drop_index"   -> s.on \notin DOMAIN db.keys \/ db.keys[s.on].constraint
      [] s.op = "drop_column"  -> ~HasColumn(db, s.on[2]) \/ ColumnInUse(db, s.on[2])
      \* With enforcement on, the rows are deleted first.
      [] s.op = "drop_table"   ->
             IF s.on[2] \notin db.tables THEN ~s.lenient
             ELSE db.enforced /\ \E f \in TiedTo(db, s.on[2]) : ~Cascades(db, f)
      [] s.op = "create_copy"  -> s.on[2] \in DOMAIN db.copies
      [] s.op = "copy_rows"    ->
             LET copy == db.copies[s.on[2]]
             IN  \/ \E c \in DOMAIN copy.cols \ s.arg :
                       copy.cols[c] = "required" /\ (~HasColumn(db, c) \/ c \in db.nulls)
                 \/ db.enforced /\ \E f \in DOMAIN copy.fks : ~IsKey(db, copy.fks[f].target)
      [] s.op = "rename_copy"  -> \/ s.on[2] \in db.tables
                                  \/ s.on[2] \in db.views /\ ~db.legacy
                                  \/ Broken(db) /\ ~db.legacy
      [] s.op \in {"create_part", "foreign_keys", "legacy"} -> FALSE

WithoutParts(db, C) == [WithoutColumns(db, C) EXCEPT
    !.parts = {p \in @ : Of(p) \notin C}, !.blank = @ \ C]

\* DROP TABLE with enforcement on deletes what cascades.
DropTable(db, t) ==
    LET lost == IF db.enforced THEN {f \in TiedTo(db, t) : Cascades(db, f)} ELSE {}
        tables == {TableOf(f[2]) : f \in {x \in lost : x[1] = "table"}}
        copies == {TableOf(f[2]) : f \in {x \in lost : x[1] = "copy"}}
    IN  [WithoutParts(db, LiveColumns(db, t)) EXCEPT
            !.tables = @ \ {t}, !.rows = @ \ (tables \cup {t}),
            !.copies = [u \in DOMAIN @ |->
                           IF u \in copies THEN [@[u] EXCEPT !.full = FALSE] ELSE @[u]]]

\* The rows of the old table, with the values the copy takes.
CopyRows(db, t, filled) ==
    LET new == DOMAIN db.copies[t].cols \ LiveColumns(db, t)
        of(S) == ((S \cap DOMAIN db.copies[t].cols) \cup new) \ filled
    IN  [db EXCEPT !.copies[t] = [nulls |-> of(db.nulls), blank |-> of(db.blank)] @@
                                 [@ EXCEPT !.full = t \in db.rows]]

\* The copy under the name of the old table.
PutInPlace(db, t) ==
    LET copy == db.copies[t]
    IN  [db EXCEPT !.tables = @ \cup {t}, !.cols = copy.cols @@ @,
                   !.keys = copy.keys @@ @, !.fks = copy.fks @@ @,
                   !.checks = copy.checks @@ @, !.parts = @ \cup copy.parts,
                   !.nulls = @ \cup copy.nulls, !.blank = @ \cup copy.blank,
                   !.rows = IF copy.full THEN @ \cup {t} ELSE @,
                   !.copies = Without(@, {t})]

SqliteExecuted(db, s) ==
    CASE s.op = "create_table" ->
             [db EXCEPT !.tables = @ \cup {s.on[2]}, !.cols = s.arg.cols @@ @,
                        !.keys = s.arg.keys @@ @, !.fks = s.arg.fks @@ @,
                        !.checks = s.arg.checks @@ @]
      [] s.op = "add_column"   ->
             LET c == s.on[2]
                 added == AddColumn(db, c, [s.arg EXCEPT !.ref = NoRef])
             IN  [added EXCEPT
                    !.blank = IF s.arg.filled THEN @ ELSE @ \cup {c},
                    !.fks = IF s.arg.ref = NoRef THEN @
                            ELSE Put(@, <<"ref", c>>, [target |-> s.arg.ref, valid |-> TRUE,
                                                       cascade |-> FALSE])]
      [] s.op \in {"create_index", "drop_index"} -> Executed(db, s)
      [] s.op = "drop_column"  -> WithoutParts(db, {s.on[2]})
      [] s.op = "drop_table"   ->
             IF s.on[2] \notin db.tables THEN db ELSE DropTable(db, s.on[2])
      [] s.op = "create_copy"  ->
             [db EXCEPT !.copies = Put(@, s.on[2], s.arg @@
                                       [full |-> FALSE, nulls |-> {}, blank |-> {}])]
      [] s.op = "copy_rows"    -> CopyRows(db, s.on[2], s.arg)
      [] s.op = "rename_copy"  -> PutInPlace(db, s.on[2])
      [] s.op = "create_part"  -> [db EXCEPT !.parts = @ \cup {s.on}]
      [] s.op = "foreign_keys" -> [db EXCEPT !.enforced = s.on[2]]
      [] s.op = "legacy"       -> [db EXCEPT !.legacy = s.on[2]]
=============================================================================
