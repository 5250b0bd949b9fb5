----------------------------- MODULE LockWindows -----------------------------
(***************************************************************************)
(* Inside a transaction a lock is held until the commit, so a brief lock   *)
(* before long work keeps its table blocked for all of it.  aggregate()    *)
(* (impact/window.py) reads the statements of a migration together and     *)
(* reports such windows.  Here a migration is written statement by         *)
(* statement over tables that may be renamed on the way, and the windows   *)
(* are compared with the locks that are held while each statement runs.    *)
(***************************************************************************)
EXTENDS Naturals, Sequences, FiniteSets, SequencesExt, FiniteSetsExt

CONSTANTS TableNames,   \* the names of tables
          Present,      \* those that exist before the migration
          Absent,       \* no table has this name
          DATABASE,     \* the one window of an engine that locks the database
          Works,        \* how heavy a statement's work is; 0 is catalog work
          MaxScript     \* bound: statements of the migration

ASSUME WindowsAssumption == Present \subseteq TableNames /\ 0 \in Works /\ Works \subseteq Nat

WRITES == 1
READS_AND_WRITES == 2

(* How long the engine keeps a lock: to the commit of the migration        *)
(* (spans_transaction), to the end of its statement, to the next DDL,      *)
(* which commits, or to the commit and over the whole database.            *)
Modes == {"transaction", "statement", "row", "database"}

VARIABLES script, \* the statements so far
          named,  \* the table each name stands for now
          mode

windowVars == <<script, named, mode>>

(* Locks that keep neither writers nor readers out make no window, and are *)
(* left out.                                                               *)
(* A statement: what it blocks of each table it locks, its work, whether it*)
(* commits (DDL on an engine that commits each), and the rename it makes.  *)
Statements ==
    LET rows(level, names) == [names -> level]
        live == {n \in TableNames : named[n] # Absent}
        lockSets == UNION {rows(WRITES..READS_AND_WRITES, {n}) : n \in live}
                    \cup rows({READS_AND_WRITES}, live) \cup {<<>>}
    IN [blocks : lockSets, work : Works, commits : BOOLEAN, renames : {<<>>}]
       \cup {[blocks |-> n :> READS_AND_WRITES, work |-> 0, commits |-> TRUE,
              renames |-> <<n, m>>] : n \in live, m \in TableNames \ live}

Run(s) ==
    /\ Len(script) < MaxScript
    /\ s.commits \/ s.renames # <<>> \/ mode = "row"
    /\ script' = Append(script, s @@ [tables |-> named])
    /\ named' = IF s.renames = <<>> THEN named
                ELSE [named EXCEPT ![s.renames[2]] = named[s.renames[1]],
                                   ![s.renames[1]] = Absent]
    /\ UNCHANGED mode

WindowsInit ==
    /\ script = <<>>
    /\ named = [n \in TableNames |-> IF n \in Present THEN n ELSE Absent]
    /\ mode \in Modes

WindowsNext == \E s \in Statements : Run(s)

WindowsSpec == WindowsInit /\ [][WindowsNext]_windowVars

-----------------------------------------------------------------------------
(* The scopes of a migration, each a set of statement positions.           *)

row_scopes ==
    {{i} : i \in {j \in 1..Len(script) : script[j].commits}}
    \cup {(a..b) : <<a, b>> \in
            {r \in (1..Len(script)) \X (1..Len(script)) :
                /\ r[1] <= r[2]
                /\ \A i \in r[1]..r[2] : ~script[i].commits
                /\ r[1] = 1 \/ script[r[1] - 1].commits
                /\ r[2] = Len(script) \/ script[r[2] + 1].commits}}

Scopes ==
    IF script = <<>> THEN {}
    ELSE CASE mode \in {"transaction", "database"} -> {1..Len(script)}
           [] mode = "statement" -> {{i} : i \in 1..Len(script)}
           [] mode = "row" -> row_scopes

(* Mutant: the first lock of a table sets how far it is blocked.           *)
TakeFirst(acc, i, name) ==
    LET moved == name \in DOMAIN acc.keys
        key   == IF mode = "database" THEN DATABASE ELSE IF moved THEN acc.keys[name] ELSE name
    IN IF key \in DOMAIN acc.levels THEN acc
       ELSE [acc EXCEPT !.names = (key :> name) @@ @,
                        !.levels = (key :> <<<<script[i].blocks[name], i>>>>) @@ @]

(* The windows of a scope: the levels each key reaches, the name it goes   *)
(* by, and the key of a table renamed in the scope.                        *)
Take(acc, i, name) ==
    LET level == script[i].blocks[name]
        moved == name \in DOMAIN acc.keys
        key   == IF mode = "database" THEN DATABASE ELSE IF moved THEN acc.keys[name] ELSE name
        had   == IF key \in DOMAIN acc.levels THEN acc.levels[key] ELSE <<>>
    IN [acc EXCEPT
         !.names = IF key \notin DOMAIN @ \/ moved
                   THEN (key :> IF mode = "database" THEN DATABASE ELSE name) @@ @ ELSE @,
         !.levels = (key :> IF had = <<>> \/ level > Last(had)[1]
                            THEN Append(had, <<level, i>>) ELSE had) @@ @]

Renamed(acc, pair) ==
    IF pair = <<>> THEN acc
    ELSE LET key == IF pair[1] \in DOMAIN acc.keys THEN acc.keys[pair[1]] ELSE pair[1]
         IN [acc EXCEPT !.keys = (pair[2] :> key)
                                 @@ [n \in DOMAIN @ \ {pair[1]} |-> @[n]]]

Scanned(scope) ==
    FoldLeft(LAMBDA acc, i : Renamed(FoldSet(LAMBDA name, a : Take(a, i, name), acc,
                                             DOMAIN script[i].blocks),
                                     script[i].renames),
             [levels |-> <<>>, names |-> <<>>, keys |-> <<>>],
             SetToSortSeq(scope, <))

windows(scope) ==
    LET scan == Scanned(scope)
    IN {LET reached  == scan.levels[key]
            kept     == reached[1][2]..Max(scope)
            heaviest == Max({script[i].work : i \in kept})
        IN [key |-> key, table |-> scan.names[key], blocks |-> Last(reached)[1], taken_by |-> Last(reached)[2],
            heaviest |-> heaviest, opened |-> reached[1][2],
            during |-> Min({i \in kept : script[i].work = heaviest})] : key \in DOMAIN scan.levels}

-----------------------------------------------------------------------------
(* What the server does: which locks are held while a statement runs.      *)

HeldDuring(j, i) ==
    /\ j <= i
    /\ CASE mode \in {"transaction", "database"} -> TRUE
         [] mode = "statement" -> i = j
         [] mode = "row" -> i = j \/ \A k \in j..i : ~script[k].commits

Locked(j, name) ==
    IF mode = "database" THEN DATABASE ELSE script[j].tables[name]

(* The table a window of a scope is about: its key is the name the table   *)
(* had as the scope began.                                                 *)
Subject(scope, w) ==
    IF w.key = DATABASE THEN DATABASE ELSE script[Min(scope)].tables[w.key]

(* Every table kept from writers, or from readers too, while a statement   *)
(* works is in a window that says so: as blocked, over work at least as    *)
(* heavy, and from the first lock on.  No lock goes unreported because its *)
(* table was renamed, its lock grew stronger, or a commit ended the scope. *)
LocksAreInWindows ==
    \A j, i \in 1..Len(script) :
        HeldDuring(j, i) =>
            \A n \in DOMAIN script[j].blocks :
                \E scope \in Scopes : \E w \in windows(scope) :
                    /\ {j, i} \subseteq scope
                    /\ Subject(scope, w) = Locked(j, n)
                    /\ w.blocks >= script[j].blocks[n]
                    /\ w.heaviest >= script[i].work
                    /\ w.opened <= j

(* And no window is made up: the table it is about is blocked that far by  *)
(* the statement it names, goes by the window's name there or earlier, and *)
(* is still blocked while the work it names runs.                          *)
WindowsAreHeld ==
    \A scope \in Scopes : \A w \in windows(scope) :
        /\ \E n \in DOMAIN script[w.taken_by].blocks :
              /\ Locked(w.taken_by, n) = Subject(scope, w)
              /\ script[w.taken_by].blocks[n] = w.blocks
        /\ script[w.during].work = w.heaviest
        /\ \E j \in scope : \E n \in DOMAIN script[j].blocks :
              /\ Locked(j, n) = Subject(scope, w)
              /\ w.table \in {n, DATABASE}
              /\ \A later \in scope : \A o \in DOMAIN script[later].blocks :
                    later > j /\ Locked(later, o) = Subject(scope, w) =>
                        w.table \in {o, DATABASE}
        /\ \E j \in w.opened..w.during : \E n \in DOMAIN script[j].blocks :
              Locked(j, n) = Subject(scope, w) /\ HeldDuring(j, w.during)

(* The windows are the locks the server holds, in both directions.         *)
WindowsAreTheLocks == LocksAreInWindows /\ WindowsAreHeld
=============================================================================
