------------------------------ MODULE RunTables ------------------------------
(***************************************************************************)
(* The impact analysis never runs a migration: it reads the statements in  *)
(* order and RunState (impact/state.py) keeps what they did to the tables, *)
(* so that a later statement is judged against the tables it will meet.    *)
(* Here every statement is taken by a PostgreSQL catalog, db, and by the   *)
(* analysis, facts, and the properties compare the two.                    *)
(*                                                                         *)
(* The rows of a live table (one the context read before the run) are one  *)
(* token, the table's own name then.  A table of the run holds the tokens  *)
(* of the tables its rows were copied from, in itself or in the partitions *)
(* below it.  A live table is taken to keep the size the context read.     *)
(***************************************************************************)
EXTENDS Naturals, Sequences, FiniteSets, SequencesExt

CONSTANTS Names,            \* every table name a statement may use
          Live,             \* the tables there before the run
          LivePartitioned,  \* the live tables that are partitioned
          LiveParent,       \* the partitioned table of each live table, or NoTable
          NoTable,             \* no table
          NoLink,           \* the run did not attach, create or detach it
          New,              \* the identity of a table of the run
          Unknown,          \* rows of a query that reads no table
          MaxStatements,    \* bound: statements of the run
          MaxMigrations,    \* bound: migrations of the run
          NamesReused       \* whether a table created under a live table's old
                            \* name is renamed

ASSUME NamesAssumption ==
    /\ Live \subseteq Names
    /\ LivePartitioned \subseteq Live
    /\ LiveParent \in [Live -> LivePartitioned \cup {NoTable}]

VARIABLES db,        \* the tables that exist, by name
          dbBegan,   \* the catalog as the migration's transaction began
          facts,     \* RunState.tables, gone and renamed
          atStart,   \* RunState._at_start
          seen,      \* whether the context read the schema and the partitions
          budget     \* statements and migrations left

tableVars == <<db, dbBegan, facts, atStart, seen, budget>>

(* Everything reachable from S, where f gives the next names of a name.    *)
Reach(f, S) ==
    LET upTo[i \in 0..Cardinality(Names)] ==
            IF i = 0 THEN S
            ELSE upTo[i - 1] \cup UNION {f[n] : n \in upTo[i - 1] \cap DOMAIN f}
    IN upTo[Cardinality(Names)]

-----------------------------------------------------------------------------
(* The catalog PostgreSQL keeps: what each statement does there.           *)

Children(d) == [n \in DOMAIN d |-> {c \in DOMAIN d : d[c].parent = n}]

DbBelow(d, n) == Reach(Children(d), {n}) \ {n}

(* The live tables a table's rows come from.                               *)
Tokens(d, n) ==
    LET partitions == [m \in DOMAIN d |-> IF d[m].of = New THEN Children(d)[m] ELSE {}]
    IN UNION {IF d[m].of = New THEN d[m].rows ELSE {d[m].of} : m \in Reach(partitions, {n})}

DbCreate(d, n, partitioned, parent, rows) ==
    [m \in DOMAIN d \cup {n} |->
        IF m = n
        THEN [of |-> New, rows |-> rows, partitioned |-> partitioned, parent |-> parent]
        ELSE d[m]]

DbDrop(d, n) == [m \in DOMAIN d \ ({n} \cup DbBelow(d, n)) |-> d[m]]

DbRename(d, old, new) ==
    LET was(m) == IF m = new THEN old ELSE m
    IN [m \in (DOMAIN d \ {old}) \cup {new} |->
            [d[was(m)] EXCEPT !.parent = IF @ = old THEN new ELSE @]]

(* The rows of an INSERT land in one table that is not partitioned.        *)
Leaves(d, n) == {m \in {n} \cup DbBelow(d, n) : ~d[m].partitioned}

RowsOf(d, reads) ==
    IF reads = Unknown THEN {Unknown} ELSE UNION {Tokens(d, m) : m \in reads}

-----------------------------------------------------------------------------
(* What the analysis reads out of its facts.                               *)

Blank == [born |-> FALSE, created |-> FALSE, filled |-> FALSE, sources |-> {},
          link |-> NoLink, partitioned |-> FALSE]

RenamedNames(s) == {s.renamed[i][1] : i \in 1..Len(s.renamed)}

original(s, n) ==
    IF n \in RenamedNames(s)
    THEN s.renamed[SelectInSeq(s.renamed, LAMBDA pair : pair[1] = n)][2]
    ELSE n

is_new(s, n) == s.tables[n].created

created_in_run(s, n) == s.tables[n].born

(* The first rename in insertion order wins.                               *)
now_named(s, live) ==
    LET at == SelectInSeq(s.renamed, LAMBDA pair : pair[2] = live)
    IN IF at # 0 THEN s.renamed[at][1]
       ELSE IF live \in s.gone \cup RenamedNames(s) \/ s.tables[live].born THEN NoTable
       ELSE live

Linked(s) == {c \in Names : s.tables[c].link # NoLink}

(* What context.relations holds for a name, when the partitions were read. *)
Read(s, n) ==
    IF seen /\ ~s.tables[n].born /\ n \notin s.gone /\ original(s, n) \in Live
    THEN [partitions |-> {c \in Live : LiveParent[c] = original(s, n)},
          parent     |-> LiveParent[original(s, n)]]
    ELSE [partitions |-> {}, parent |-> NoTable]

relation(s, n) ==
    LET read == Read(s, n)
        kept == {now_named(s, p) : p \in read.partitions} \ ({NoTable} \cup Linked(s))
    IN [partitions |-> kept \cup {c \in Linked(s) : s.tables[c].link = n},
        parent     |-> IF s.tables[n].link # NoLink THEN s.tables[n].link
                       ELSE IF read.parent = NoTable THEN NoTable
                       ELSE now_named(s, read.parent)]

below(s, n) == Reach([m \in Names |-> relation(s, m).partitions], {n}) \ {n}

above(s, n) ==
    Reach([m \in Names |-> {relation(s, m).parent} \ {NoTable}], {n}) \ {n}

sources_of(s, n) ==
    IF s.tables[n].created THEN {}
    ELSE IF s.tables[n].filled THEN s.tables[n].sources
    ELSE {original(s, n)}

(* Whether CREATE TABLE IF NOT EXISTS may find the table there.            *)
may_exist(s, n) ==
    \/ s.tables[n].born
    \/ n \in RenamedNames(s)
    \/ n \notin s.gone /\ (seen => n \in Live)

-----------------------------------------------------------------------------
(* How a statement changes the facts.                                      *)

Sources(s, reads) ==
    IF reads = Unknown \/ \E m \in reads : sources_of(s, m) = Unknown THEN Unknown
    ELSE UNION {sources_of(s, m) : m \in reads}

filled(s, t, reads) ==
    LET had  == IF t.filled THEN t.sources ELSE {}
        more == Sources(s, reads)
        all  == IF had = Unknown \/ more = Unknown THEN Unknown ELSE had \cup more
    IN IF all = {} THEN t
       ELSE [t EXCEPT !.filled = TRUE, !.sources = all, !.created = FALSE]

(* fill() for every table of the run among some names.                     *)
fill(s, names, reads) ==
    [s EXCEPT !.tables = [m \in Names |->
        IF m \in names /\ created_in_run(s, m) THEN filled(s, s.tables[m], reads)
        ELSE s.tables[m]]]

forget(s, n) ==
    [s EXCEPT !.tables[n] = Blank, !.gone = @ \ {n},
              !.renamed = SelectSeq(@, LAMBDA pair : pair[1] # n)]

record_create(s, n, partitioned, parent, reads) ==
    LET fresh == [forget(s, n) EXCEPT !.tables[n] =
                    [Blank EXCEPT !.born = TRUE, !.created = TRUE,
                                  !.link = IF parent = NoTable THEN NoLink ELSE parent,
                                  !.partitioned = partitioned]]
    IN IF reads = NoTable THEN fresh ELSE fill(fresh, {n}, reads)

(* Mutant: only the table the INSERT names is filled.                      *)
InsertFillsOne(s, n, reads) == fill(s, {n}, reads)

insert(s, n, reads) == fill(s, {n} \cup below(s, n) \cup above(s, n), reads)

attach(s, parent, child) ==
    LET linked == [s EXCEPT !.tables[child].link = parent]
    IN fill(linked, {parent} \cup above(linked, parent), {child})

detach(s, child) == [s EXCEPT !.tables[child].link = NoTable]

(* Mutant: DROP TABLE leaves the partitions below in place.                *)
DropLeavesPartitions(s, n) == [forget(s, n) EXCEPT !.gone = @ \cup {n}]

drop(s, n) ==
    LET names == {n} \cup below(s, n)
    IN [tables  |-> [m \in Names |-> IF m \in names THEN Blank ELSE s.tables[m]],
        gone    |-> s.gone \cup names,
        renamed |-> SelectSeq(s.renamed, LAMBDA pair : pair[1] \notin names)]

(* Mutant: a second rename records the middle name as the live one.        *)
RenameOfRenamed(s, old, new) ==
    LET cleared == forget(forget(s, old), new)
        moved   == [cleared.tables EXCEPT ![new] = s.tables[old]]
    IN [tables  |-> [m \in Names |->
                        [moved[m] EXCEPT !.link = IF @ = old THEN new ELSE @]],
        gone    |-> cleared.gone \cup {old},
        renamed |-> Append(cleared.renamed, <<new, old>>)]

rename(s, old, new) ==
    LET cleared == forget(forget(s, old), new)
        moved   == [cleared.tables EXCEPT ![new] = s.tables[old]]
    IN [tables  |-> [m \in Names |->
                        [moved[m] EXCEPT !.link = IF @ = old THEN new ELSE @]],
        gone    |-> cleared.gone \cup {old},
        renamed |-> Append(cleared.renamed, <<new, original(s, old)>>)]

-----------------------------------------------------------------------------
(* The statements of a run, in an order the database accepts.              *)

Statement ==
    /\ budget.statements > 0
    /\ budget' = [budget EXCEPT !.statements = @ - 1]
    /\ UNCHANGED <<dbBegan, atStart, seen>>

(* The tables a query reads: none, one, or rows of something else.         *)
Queries == {{}, Unknown} \cup {{m} : m \in DOMAIN db}

(* An IF NOT EXISTS the analysis cannot settle leaves no record, and so no *)
(* link to a partitioned table either: without the schema read no run here *)
(* creates a partition with it.                                            *)
Create(n, partitioned, parent, ifNotExists, reads) ==
    /\ Statement
    /\ ifNotExists /\ ~seen => parent = NoTable
    /\ n \notin DOMAIN db \/ ifNotExists
    /\ parent # NoTable => parent \in DOMAIN db /\ parent # n /\ db[parent].partitioned
    /\ reads # NoTable => parent = NoTable /\ ~partitioned
    /\ db' = IF n \in DOMAIN db THEN db
             ELSE DbCreate(db, n, partitioned, parent,
                           IF reads = NoTable THEN {} ELSE RowsOf(db, reads))
    /\ facts' = IF ifNotExists /\ may_exist(facts, n) THEN facts
                ELSE record_create(facts, n, partitioned, parent, reads)

Insert(n, reads, leaf) ==
    /\ Statement
    /\ leaf \in Leaves(db, n)
    /\ db' = [db EXCEPT ![leaf].rows = IF db[leaf].of = New THEN @ \cup RowsOf(db, reads)
                                       ELSE @]
    /\ facts' = insert(facts, n, reads)

Drop(n) ==
    /\ Statement
    /\ db' = DbDrop(db, n)
    /\ facts' = drop(facts, n)

Rename(old, new) ==
    /\ Statement
    /\ new \notin DOMAIN db
    /\ NamesReused \/ ~(db[old].of = New /\ old \in Live)
    /\ db' = DbRename(db, old, new)
    /\ facts' = rename(facts, old, new)

Attach(parent, child) ==
    /\ Statement
    /\ db[parent].partitioned /\ db[child].parent = NoTable
    /\ parent \notin {child} \cup DbBelow(db, child)
    /\ db' = [db EXCEPT ![child].parent = parent]
    /\ facts' = attach(facts, parent, child)

Detach(child) ==
    /\ Statement
    /\ db[child].parent # NoTable
    /\ db' = [db EXCEPT ![child].parent = NoTable]
    /\ facts' = detach(facts, child)

(* ROLLBACK: the catalog, and the facts, are those the migration began at. *)
Rollback ==
    /\ Statement
    /\ db' = dbBegan
    /\ facts' = atStart

(* The migration commits, and the next statement belongs to another one.   *)
EnterMigration ==
    /\ budget.migrations > 0
    /\ budget' = [budget EXCEPT !.migrations = @ - 1]
    /\ dbBegan' = db /\ atStart' = facts
    /\ UNCHANGED <<db, facts, seen>>

TablesInit ==
    /\ db = [n \in Live |-> [of |-> n, rows |-> {}, partitioned |-> n \in LivePartitioned,
                             parent |-> LiveParent[n]]]
    /\ dbBegan = db
    /\ facts = [tables |-> [n \in Names |-> Blank], gone |-> {}, renamed |-> <<>>]
    /\ atStart = facts
    /\ seen \in BOOLEAN
    /\ budget = [statements |-> MaxStatements, migrations |-> MaxMigrations - 1]

TablesNext ==
    \/ \E n \in Names, partitioned, ifNotExists \in BOOLEAN, parent \in DOMAIN db \cup {NoTable},
          reads \in Queries \cup {NoTable} : Create(n, partitioned, parent, ifNotExists, reads)
    \/ \E n, leaf \in DOMAIN db, reads \in Queries : Insert(n, reads, leaf)
    \/ \E n \in DOMAIN db : Drop(n) \/ Detach(n)
    \/ \E old \in DOMAIN db, new \in Names : Rename(old, new)
    \/ \E parent, child \in DOMAIN db : Attach(parent, child)
    \/ Rollback \/ EnterMigration

TablesSpec == TablesInit /\ [][TablesNext]_tableVars

-----------------------------------------------------------------------------
(* What the analysis carries from statement to statement follows the       *)
(* tables, through renames, swaps, copies, partitions and rollbacks.  A    *)
(* table it takes for new was created by this run and holds no rows, so    *)
(* the locks and the work on it are rightly left out of the report         *)
(* (analyzer.merge).  With the schema and sizes read, the size a statement *)
(* is judged by counts every live table whose rows the named table holds,  *)
(* and the partitions and the partitioned table that decide the locks it   *)
(* takes are those the catalog has.                                        *)
FactsFollowTables ==
    /\ \A n \in DOMAIN db : is_new(facts, n) => db[n].of = New /\ Tokens(db, n) = {}
    /\ seen => \A n \in DOMAIN db :
          /\ \/ sources_of(facts, n) = Unknown
             \/ Tokens(db, n) \subseteq sources_of(facts, n)
          /\ relation(facts, n) = [partitions |-> Children(db)[n], parent |-> db[n].parent]
=============================================================================
