----------------------------- MODULE SchemaDiff -----------------------------
(***************************************************************************)
(* diff_schema(): what differs between a live schema db and the models'    *)
(* declaration m.  A declaration has the tables, their columns (nullable,  *)
(* the value rows get, UNIQUE, REFERENCES), the named indexes, foreign     *)
(* keys and checks.  fill is what a column has for the rows already there: *)
(* "default", a backfill "value", a backfill "expression" or "none".       *)
(***************************************************************************)
EXTENDS SchemaCatalog

CONSTANT Models     \* the tables the models declare, in the order passed

(***************************************************************************)
(* The declarations.  The constructors refuse what no database could hold, *)
(* so none of these is refused.                                            *)
(***************************************************************************)
\* A column: one of the primary key is never nullable.
ColumnDef(primaryKey, nullable, fill, unique, ref) ==
    [nullable |-> nullable /\ ~primaryKey, fill |-> fill, unique |-> unique, ref |-> ref]

\* A named index, foreign key and check, on one column each.
DeclaredIndex(c, unique) == <<"ix", c>> :> unique
DeclaredForeignKey(c, target) == <<"fk", c>> :> target
DeclaredCheck(c) == {<<"ck", c>>}

(***************************************************************************)
(* The differences.                                                        *)
(***************************************************************************)
Both(db, m) == db.tables \cap m.tables
InBoth(db, m, n) == TableOf(n) \in Both(db, m)

MissingTables(db, m) == SelectSeq(Models, LAMBDA t : t \in m.tables \ db.tables)
ExtraTables(db, m) == db.tables \ m.tables

NewColumns(db, m) == {c \in DOMAIN m.cols : /\ Home[c] \in Both(db, m)
                                            /\ ~HasColumn(db, c)}
ExtraColumns(db, m) == {c \in DOMAIN db.cols : /\ Home[c] \in Both(db, m)
                                               /\ c \notin DOMAIN m.cols}

\* Columns whose nullability changes: a key column's is not compared.
ChangedColumns(db, m) ==
    {c \in DOMAIN m.cols \cap DOMAIN db.cols :
        c \notin Ids /\ db.cols[c] # Nullability(~m.cols[c].nullable)}

NewIndexes(db, m) == {n \in DOMAIN m.indexes : /\ InBoth(db, m, n)
                                               /\ n \notin DOMAIN db.keys}
\* An invalid index answers no query and is built again.
ChangedIndexes(db, m) ==
    {n \in DOMAIN m.indexes \cap DOMAIN db.keys :
        m.indexes[n] # db.keys[n].unique \/ ~db.keys[n].valid}

\* A unique index behind a column declared UNIQUE belongs to the column.
Backs(db, m, n) == /\ db.keys[n].unique
                   /\ Of(n) \in DOMAIN m.cols
                   /\ m.cols[Of(n)].unique \/ Of(n) \in Ids

Undeclared(db, m) == {n \in DOMAIN db.keys \ DOMAIN m.indexes : InBoth(db, m, n)}
InvalidKeys(db, m) == {n \in Undeclared(db, m) :
                          Backs(db, m, n) /\ ~db.keys[n].valid /\ Of(n) \notin Ids}
ExtraIndexes(db, m) == {n \in Undeclared(db, m) : ~Backs(db, m, n)}

\* A foreign key on a column declared with REFERENCES belongs to the column.
Implied(m, n) == Of(n) \in DOMAIN m.cols /\ m.cols[Of(n)].ref # NoRef

NewFks(db, m) == {n \in DOMAIN m.fks \ DOMAIN db.fks : InBoth(db, m, n)}
ChangedFks(db, m) == {n \in DOMAIN m.fks \cap DOMAIN db.fks :
                         m.fks[n] # db.fks[n].target}
UndeclaredFks(db, m) == {n \in DOMAIN db.fks \ DOMAIN m.fks : InBoth(db, m, n)}
ExtraFks(db, m) == {n \in UndeclaredFks(db, m) : ~Implied(m, n)}

\* The check of the SET NOT NULL route, on a column declared NOT NULL.
IsRouteCheck(m, n) == /\ n[1] = "route" /\ Of(n) \in DOMAIN m.cols
                      /\ ~m.cols[Of(n)].nullable

NewChecks(db, m) == {n \in m.checks \ DOMAIN db.checks : InBoth(db, m, n)}
UndeclaredChecks(db, m) == {n \in DOMAIN db.checks \ m.checks : InBoth(db, m, n)}
RouteChecks(db, m) == {n \in UndeclaredChecks(db, m) : IsRouteCheck(m, n)}
ExtraChecks(db, m) == UndeclaredChecks(db, m) \ RouteChecks(db, m)

Unvalidated(db, m) ==
    {n \in DOMAIN db.fks : /\ ~db.fks[n].valid
                           /\ \/ n \in DOMAIN m.fks /\ n \notin ChangedFks(db, m)
                              \/ n \in UndeclaredFks(db, m) /\ Implied(m, n)}
    \cup {n \in DOMAIN db.checks \cap m.checks : ~db.checks[n]}

\* What a generation is told to drop or to leave alone.
Extras(db, m) == \/ ExtraTables(db, m) # {} \/ ExtraColumns(db, m) # {}
                 \/ ExtraIndexes(db, m) # {} \/ ExtraFks(db, m) # {}

\* SchemaDiff.outstanding(), and the rest of what is_empty() counts that a
\* generation without drops acts on.
Outstanding(db, m) ==
    \/ MissingTables(db, m) # <<>> \/ NewColumns(db, m) # {}
    \/ ChangedColumns(db, m) # {}  \/ NewIndexes(db, m) # {}
    \/ ChangedIndexes(db, m) # {}  \/ InvalidKeys(db, m) # {}
    \/ NewFks(db, m) # {}          \/ NewChecks(db, m) # {}
    \/ Unvalidated(db, m) # {}
=============================================================================
