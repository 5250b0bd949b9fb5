---------------------------- MODULE MCAutogenerate ----------------------------
(***************************************************************************)
(* Two tables: t with the columns k and s, u with the column r.  r may     *)
(* point at t's primary key or at k, s at r.                               *)
(***************************************************************************)
EXTENDS AutogenerateRun

CONSTANTS
    Families,   \* which scenarios: "keys", "columns", "references" on PostgreSQL,
                \* "rebuild", "parts" and "tables" on SQLite
    Admitted    \* which of the generations known to fail are among them

MCModels == <<"t", "u">>
MCColumns == <<"tid", "k", "s", "uid", "r">>
MCHome == [c \in ToSet(MCColumns) |-> IF c \in {"tid", "k", "s"} THEN "t" ELSE "u"]
MCIds == {"tid", "uid"}

Nothing == [x \in {} |-> TRUE]
Id(t) == IF t = "t" THEN "tid" ELSE "uid"

\* The indexes a column may have live: none, one valid, invalid or not unique,
\* one behind a UNIQUE constraint, the index of such a constraint left invalid.
LiveKeys(c) ==
    {Nothing, <<"ix", c>> :> Index(TRUE), <<"ix", c>> :> Index(FALSE),
     <<"ix", c>> :> [Index(TRUE) EXCEPT !.valid = FALSE],
     <<"key", c>> :> UniqueConstraint,
     <<"key", c>> :> [Index(TRUE) EXCEPT !.valid = FALSE]}
LiveFks(f) == {Nothing} \cup
    {f :> [target |-> c, valid |-> v] : c \in {"tid", "k"}, v \in BOOLEAN}

LiveSchema(tables, cols, keys, fks, checks) ==
    LET all == cols @@ [c \in {Id(t) : t \in tables} |-> "required"]
    IN  [tables |-> tables, cols |-> all, keys |-> keys, fks |-> fks,
         checks |-> checks, nulls |-> {c \in DOMAIN all : all[c] = "nullable"}]

\* A foreign key needs its column and a key at its target.
Sound(d) ==
    /\ \A c \in DOMAIN d.cols : Home[c] \in d.tables
    /\ \A n \in DOMAIN d.keys \cup DOMAIN d.fks \cup DOMAIN d.checks :
          HasColumn(d, Of(n))
    /\ \A f \in DOMAIN d.fks : IsKey(d, d.fks[f].target)

Declared(nullable, fill, unique, ref) == ColumnDef(FALSE, nullable, fill, unique, ref)
IdColumn == ColumnDef(TRUE, TRUE, "none", FALSE, NoRef)

Declaration(tables, cols, indexes, fks, checks) ==
    [tables |-> tables, cols |-> cols @@ [c \in {Id(t) : t \in tables} |-> IdColumn],
     indexes |-> indexes, fks |-> fks, checks |-> checks]

\* A column has at most one unique index, and what points at it one.
Valid(m) ==
    /\ \A c \in DOMAIN m.cols : Home[c] \in m.tables
    /\ \A n \in DOMAIN m.indexes \cup DOMAIN m.fks \cup m.checks :
          Of(n) \in DOMAIN m.cols
    /\ LET keyed(c) == /\ c \in DOMAIN m.cols
                       /\ \/ c \in Ids \/ m.cols[c].unique
                          \/ <<"ix", c>> \in DOMAIN m.indexes /\ m.indexes[<<"ix", c>>]
       IN  /\ \A n \in DOMAIN m.fks : keyed(m.fks[n]) /\ m.cols[Of(n)].ref = NoRef
           /\ \A c \in DOMAIN m.cols : m.cols[c].ref # NoRef => keyed(m.cols[c].ref)
    /\ \A c \in DOMAIN m.cols : m.cols[c].unique =>
          <<"ix", c>> \notin DOMAIN m.indexes

(***************************************************************************)
(* Generations that are known not to work.  Undiffed and TwoKeys are not    *)
(* the generator's: the diff leaves a missing column-level UNIQUE alone,   *)
(* and with two keys on a column PostgreSQL chooses the one a foreign key  *)
(* leans on.                                                               *)
(***************************************************************************)
Undiffed(d, m) == \E c \in DOMAIN d.cols \cap DOMAIN m.cols :
    m.cols[c].unique /\ \A n \in DOMAIN d.keys : Of(n) = c => ~d.keys[n].unique

Targets(m) == {m.fks[n] : n \in DOMAIN m.fks} \cup {m.cols[c].ref : c \in DOMAIN m.cols}
TwoKeys(d, m) == \E c \in Targets(m) \cup {d.fks[f].target : f \in DOMAIN d.fks} :
    Cardinality({n \in DOMAIN d.keys : Of(n) = c}
                \cup {n \in DOMAIN m.indexes : Of(n) = c}) > 1

\* A foreign key whose target is built in the same generation, without online.
SplitKey(d, m, o) == ~o.online /\ \E n \in NewFks(d, m) : m.fks[n] \in IndexKeys(d, m)

\* A new column that references a new column declared after it, and is itself
\* referenced by a third.
Chain(d, m, o) == ~o.online /\ \E a, b \in NewColumns(d, m) :
    /\ m.cols[a].ref = b /\ \E c \in NewColumns(d, m) : m.cols[c].ref = a
    /\ \E i, j \in DOMAIN Columns : i < j /\ Columns[i] = a /\ Columns[j] = b

\* A changed foreign key goes in before the online migration builds its target.
LateChange(d, m, o) == /\ o.online /\ o.drops = "allow"
                       /\ \E n \in ChangedFks(d, m) : m.fks[n] \in OnlineKeys(d, m, o)

\* A key is dropped or built again while a foreign key that goes later, or
\* stays, leans on it.
EarlyDrop(d, m, o) ==
    LET kept == DOMAIN d.fks \ (IF o.drops # "allow" THEN {}
                                ELSE ExtraFks(d, m) \cup ChangedFks(d, m))
        rebuilt == {Of(n) : n \in ChangedIndexes(d, m)}
        leaving == IF o.drops # "allow" THEN {}
                   ELSE {Of(n) : n \in ExtraIndexes(d, m)} \cup ExtraColumns(d, m)
        gone == IF o.drops # "allow" THEN {} ELSE ExtraTables(d, m)
    IN  \/ \E f \in DOMAIN d.fks : d.fks[f].target \in rebuilt
        \/ \E f \in kept : \/ d.fks[f].target \in leaving
                            \/ /\ Home[d.fks[f].target] \in gone
                               /\ TableOf(f) \notin gone

\* A key left invalid is built again after what points at it goes in.
InvalidTarget(d, m) ==
    {Of(n) : n \in InvalidKeys(d, m)} \cap
        ({fk.target : fk \in ToSet(NewTableFks(d, m))}
         \cup {m.cols[c].ref : c \in NewColumns(d, m)}) # {}

Known(d, m, o) ==
    {k \in {"undiffed", "two_keys", "split_key", "chain", "late_change",
            "early_drop", "invalid_target"} :
        CASE k = "undiffed"       -> Undiffed(d, m)
          [] k = "two_keys"       -> TwoKeys(d, m)
          [] k = "split_key"      -> SplitKey(d, m, o)
          [] k = "chain"          -> Chain(d, m, o)
          [] k = "late_change"    -> LateChange(d, m, o)
          [] k = "early_drop"     -> EarlyDrop(d, m, o)
          [] k = "invalid_target" -> InvalidTarget(d, m)}

Generations(lives, declarations) ==
    {s \in [live : {l \in lives : Sound(l)},
            models : {m \in declarations : Valid(m)}, options : Arguments] :
        Known(s.live, s.models, s.options) \subseteq Admitted}

(***************************************************************************)
(* Keys: which tables, columns, indexes and foreign keys there are.        *)
(***************************************************************************)
Optional(c, values) == {Nothing} \cup {c :> v : v \in values}

KeyLives ==
    {LiveSchema(ts, k @@ r, keys, fks, Nothing) :
        ts \in SUBSET {"t", "u"}, k \in Optional("k", {"nullable"}),
        r \in Optional("r", {"nullable"}),
        keys \in LiveKeys("k"),
        fks \in LiveFks(<<"fk", "r">>) \cup {<<"ref", "r">> :> [target |-> "k",
                                                                valid |-> TRUE]}}
KeyDeclarations ==
    {Declaration(ts, k @@ r, ix, fks, {}) :
        ts \in SUBSET {"t", "u"},
        k \in Optional("k", {Declared(TRUE, "none", u, NoRef) : u \in BOOLEAN}
                            \cup {Declared(FALSE, f, TRUE, NoRef) :
                                     f \in {"value", "expression"}}),
        r \in Optional("r", {Declared(TRUE, "none", FALSE, c) :
                                c \in {NoRef, "tid", "k"}}),
        ix \in {Nothing, DeclaredIndex("k", TRUE), DeclaredIndex("k", FALSE)},
        fks \in {Nothing, DeclaredForeignKey("r", "tid"), DeclaredForeignKey("r", "k")}}

(***************************************************************************)
(* Columns: one column's nullability, index and checks.                    *)
(***************************************************************************)
ColumnLives ==
    {LiveSchema({"t"}, k, keys, Nothing, ck @@ route) :
        k \in Optional("k", {"nullable", "required"}),
        keys \in {Nothing, <<"ix", "k">> :> [Index(TRUE) EXCEPT !.valid = FALSE]},
        ck \in Optional(<<"ck", "k">>, BOOLEAN),
        route \in Optional(<<"route", "k">>, {FALSE})}
ColumnDeclarations ==
    {Declaration({"t"}, k, ix, Nothing, ck) :
        k \in Optional("k", {Declared(n, f, u, NoRef) : n \in BOOLEAN,
                        f \in {"none", "default", "value", "expression"},
                        u \in BOOLEAN}),
        ix \in {Nothing, DeclaredIndex("k", TRUE)},
        ck \in {{}, DeclaredCheck("k")}}

(***************************************************************************)
(* References: s points at one of r and k, which points at the other, and  *)
(* each may be new.                                                        *)
(***************************************************************************)
Pick(C, value(_)) == {[c \in S |-> value(c)] : S \in SUBSET C}
ReferenceLives ==
    {LiveSchema({"t", "u"}, [c \in DOMAIN keys |-> "nullable"],
                [n \in {<<"key", c>> : c \in DOMAIN keys} |-> UniqueConstraint],
                Nothing, Nothing) : keys \in Pick({"k", "r", "s"}, LAMBDA c : TRUE)}
References == {[s |-> "r", r |-> "k", k |-> NoRef], [s |-> "k", k |-> "r", r |-> NoRef]}
ReferenceDeclarations ==
    {Declaration({"t", "u"},
         [c \in DOMAIN ref |-> Declared(nullable, "value", c # "s", ref[c])],
         Nothing, Nothing, {}) : nullable \in BOOLEAN, ref \in References}

(***************************************************************************)
(* SQLite.                                                                 *)
(***************************************************************************)
SqliteLive(d, parts, views, enforced) ==
    [tables |-> d.tables, cols |-> d.cols, keys |-> d.keys, fks |-> d.fks,
     checks |-> d.checks, nulls |-> d.nulls, parts |-> parts, views |-> views,
     rows |-> d.tables, blank |-> {}, copies |-> Nothing,
     enforced |-> enforced, legacy |-> FALSE]
SqliteDeclaration(m, cascades) ==
    [tables |-> m.tables, cols |-> m.cols, indexes |-> m.indexes, fks |-> m.fks,
     checks |-> m.checks, cascades |-> cascades]

Unguarded(d, tables) == d.enforced /\ ~TurnsForeignKeysOff(d, ToSet(tables))
RebuiltBefore(tables, t) ==
    {tables[i] : i \in {x \in DOMAIN tables : \E y \in DOMAIN tables : x < y /\ tables[y] = t}}

\* Foreign keys of the copies of a generation that no live one stands for,
\* with the table they are on.
CopiedFks(d, m, o) ==
    LET tables == Rebuilds(Snapshot(d), m, o)
    IN  UNION {LET copy == CopyOf(Snapshot(d), m, o, t)
               IN  {[on |-> t, fk |-> f, target |-> copy.fks[f].target] : f \in DOMAIN copy.fks}
               : t \in ToSet(tables)}

\* rebuild_turns_foreign_keys_off() asks the live foreign keys alone.  A key
\* that the generation adds to one rebuilt table points at another one that is
\* rebuilt later, or at its own.
AddedKey(d, m, o) ==
    LET tables == Rebuilds(Snapshot(d), m, o)
    IN  Unguarded(d, tables) /\ \E k \in CopiedFks(d, m, o) :
            Home[k.target] \in ToSet(tables) \ RebuiltBefore(tables, k.on)

\* The rows are copied into a table whose foreign key points at a key that the
\* generation builds later.
LateKey(d, m, o) ==
    LET tables == Rebuilds(Snapshot(d), m, o)
    IN  Unguarded(d, tables) /\ \E k \in CopiedFks(d, m, o) :
            /\ ~IsKey(d, k.target)
            /\ Home[k.target] \in d.tables \ RebuiltBefore(tables, k.on)

\* A column no model declares that SQLite cannot drop, of a table that is not
\* rebuilt.
Undroppable(d, m, o) ==
    LET rebuilt == ToSet(Rebuilds(Snapshot(d), m, o))
        left == [d EXCEPT !.keys = Without(@, SqliteExtraIndexes(d, m)),
                          !.parts = {p \in @ : p[1] # "collation"}]
    IN  /\ o.drops = "allow"
        /\ \E c \in ExtraColumns(d, m) : Home[c] \notin rebuilt /\ ColumnInUse(left, c)

\* A generated column is not read, and a rebuild leaves it behind.
Generated(d, m, o) ==
    \E p \in d.parts : p[1] = "generated" /\ TableOf(p) \in ToSet(Rebuilds(Snapshot(d), m, o))

SqliteKnown(d, m, o) ==
    {k \in {"undiffed", "added_key", "late_key", "undroppable", "generated"} :
        CASE k = "undiffed"    -> Undiffed(d, m)
          [] k = "added_key"   -> AddedKey(d, m, o)
          [] k = "late_key"    -> LateKey(d, m, o)
          [] k = "undroppable" -> Undroppable(d, m, o)
          [] k = "generated"   -> Generated(d, m, o)}

SqliteGenerations(lives, declarations) ==
    {s \in [live : {l \in lives : Sound(l) /\ \A p \in l.parts : HasColumn(l, Of(p))},
            models : {m \in declarations : Valid(m) /\ m.cascades \subseteq DOMAIN m.fks},
            options : SqliteArguments] :
        SqliteKnown(s.live, s.models, s.options) \subseteq Admitted}

\* Rebuild: which keys the rebuilt tables have and which point at them.
SqliteFks(f) == {Nothing} \cup {f :> [target |-> c, valid |-> TRUE, cascade |-> b] :
                                    c \in {"tid", "k"}, b \in BOOLEAN}
RebuildLives ==
    {SqliteLive(LiveSchema({"t", "u"}, k @@ r, keys, fks, Nothing), {}, {}, on) :
        k \in Optional("k", {"nullable", "required"}), r \in Optional("r", {"nullable"}),
        keys \in {Nothing, <<"ix", "k">> :> Index(TRUE), <<"key", "k">> :> UniqueConstraint},
        fks \in SqliteFks(<<"fk", "r">>) \cup SqliteFks(<<"ref", "r">>),
        on \in BOOLEAN}
RebuildDeclarations ==
    {SqliteDeclaration(Declaration({"t", "u"}, k @@ r, ix, fks, {}), cascades) :
        k \in Optional("k", {Declared(TRUE, "none", u, NoRef) : u \in BOOLEAN}
                            \cup {Declared(FALSE, f, FALSE, NoRef) :
                                     f \in {"value", "default"}}),
        r \in Optional("r", {Declared(n, "default", FALSE, c) :
                                n \in BOOLEAN, c \in {NoRef, "tid", "k"}}),
        ix \in {Nothing, DeclaredIndex("k", TRUE)},
        fks \in {Nothing, DeclaredForeignKey("r", "tid"), DeclaredForeignKey("r", "k")},
        cascades \in {{}, {<<"fk", "r">>}}}

\* Parts: what t has that no model declares.
PartKinds == {"collation", "check", "pair", "trigger", "expression", "generated"}
PartsLives ==
    {SqliteLive(LiveSchema({"t", "u"}, k, keys, fks, ck), parts, views, TRUE) :
        k \in {"k" :> "nullable", ("k" :> "nullable") @@ ("s" :> "required")},
        keys \in {Nothing, <<"ix", "k">> :> Index(FALSE), <<"key", "k">> :> UniqueConstraint},
        fks \in {Nothing, <<"fk", "s">> :> [target |-> "uid", valid |-> TRUE,
                                            cascade |-> FALSE]},
        ck \in Optional(<<"ck", "k">>, {TRUE}),
        parts \in {{}} \cup {{<<p, c>>} : p \in PartKinds, c \in {"k", "s"}},
        views \in {{}, {"t"}}}
PartsDeclarations ==
    {SqliteDeclaration(Declaration({"t", "u"}, k @@ s, ix, Nothing, ck), {}) :
        k \in Optional("k", {Declared(n, "value", FALSE, NoRef) : n \in BOOLEAN}),
        s \in Optional("s", {Declared(FALSE, "default", FALSE, NoRef)}),
        ix \in {Nothing, DeclaredIndex("k", FALSE), DeclaredIndex("s", FALSE)},
        ck \in {{}, DeclaredCheck("k")}}

\* Tables: which are new and which go, with keys that may close a cycle.
TablesLives ==
    {SqliteLive(LiveSchema(ts, cols, <<"key", "k">> :> UniqueConstraint, fks, Nothing),
                {}, {}, TRUE) :
        ts \in SUBSET {"t", "u"},
        cols \in {("k" :> "nullable"), ("k" :> "nullable") @@ ("s" :> "nullable"),
                  ("k" :> "nullable") @@ ("s" :> "nullable") @@ ("r" :> "nullable"),
                  ("k" :> "nullable") @@ ("r" :> "nullable")},
        fks \in {f @@ g : f \in Optional(<<"fk", "r">>, {[target |-> "k", valid |-> TRUE,
                                                         cascade |-> FALSE]}),
                          g \in Optional(<<"fk", "s">>, {[target |-> c, valid |-> TRUE,
                                                         cascade |-> FALSE] :
                                                            c \in {"uid", "k"}})}}
    \cup {SqliteLive(LiveSchema(ts, Nothing, Nothing, Nothing, Nothing), {}, {}, TRUE) :
              ts \in SUBSET {"t", "u"}}
TablesDeclarations ==
    {SqliteDeclaration(Declaration(ts, cols, Nothing, fks, {}), {}) :
        ts \in SUBSET {"t", "u"},
        cols \in {Nothing} \cup {k @@ s @@ r :
            k \in {"k" :> Declared(TRUE, "none", TRUE, NoRef)},
            s \in Optional("s", {Declared(TRUE, "none", FALSE, c) : c \in {NoRef, "uid"}}),
            r \in Optional("r", {Declared(TRUE, "none", FALSE, c) : c \in {NoRef, "k"}})},
        fks \in Optional(<<"fk", "s">>, {"k"})}

MCScenarios ==
    UNION {CASE f = "keys"       -> Generations(KeyLives, KeyDeclarations)
             [] f = "columns"    -> Generations(ColumnLives, ColumnDeclarations)
             [] f = "references" -> Generations(ReferenceLives, ReferenceDeclarations)
             [] f = "rebuild"    -> SqliteGenerations(RebuildLives, RebuildDeclarations)
             [] f = "parts"      -> SqliteGenerations(PartsLives, PartsDeclarations)
             [] f = "tables"     -> SqliteGenerations(TablesLives, TablesDeclarations)
           : f \in Families}
===============================================================================
