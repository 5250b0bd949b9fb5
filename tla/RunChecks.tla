------------------------------ MODULE RunChecks ------------------------------
(***************************************************************************)
(* On PostgreSQL SET NOT NULL reads every row unless a valid check proves  *)
(* the column has no NULL.  The impact analysis looks for such a check     *)
(* among the ones the run added and the ones the schema read reports,      *)
(* following what the run did to them (RunState.record_checks,             *)
(* impact/state.py; _proven_not_null, rules/postgres/alter.py).  As in     *)
(* RunTables, each statement is taken by the server's catalog and by the   *)
(* analysis; here both look at the columns and constraints of one table.   *)
(***************************************************************************)
EXTENDS Naturals, FiniteSets

CONSTANTS Columns,       \* the names a column may have
          Constraints,   \* the names a constraint may have
          SchemaColumns, \* the columns the schema read reports
          SchemaChecks,  \* the IS NOT NULL checks it reports: name to column and validity
          AutoName,      \* the name the server gives the unnamed check of a column
          NoName,          \* no name, no column
          MaxAlters,     \* bound: statements of the run
          UnnamedChecks,   \* whether the run adds checks it does not name,
          GoneNamesReused  \* and names a constraint as one dropped with its column

ASSUME ChecksAssumption ==
    /\ SchemaColumns \subseteq Columns
    /\ DOMAIN SchemaChecks \subseteq Constraints
    /\ SchemaChecks \in [DOMAIN SchemaChecks -> [column : SchemaColumns, valid : BOOLEAN]]
    /\ NoName \notin Columns \cup Constraints
    /\ AutoName \in [Columns -> Constraints]

VARIABLES catalog,  \* the table's columns and constraints
          known,    \* the _Table record: checks, schema_checks, schema_columns
          began,    \* both of these as the migration began
          born,     \* whether the run created the table, under a live one's name
          alters    \* statements left, and whether a second migration may begin

checkVars == <<catalog, known, began, born, alters>>

Without(f, x) == [y \in DOMAIN f \ {x} |-> f[y]]
With(f, x, v) == [y \in DOMAIN f \cup {x} |-> IF y = x THEN v ELSE f[y]]

(* A constraint that is no IS NOT NULL check tests no column here.         *)
Other == [column |-> NoName, valid |-> TRUE]

-----------------------------------------------------------------------------
(* How the analysis follows the schema's names.                            *)

(* Mutant: a name the schema's object has left still finds it.             *)
SchemaNameKept(renamed, name) ==
    LET now == {s \in DOMAIN renamed : renamed[s] = name}
    IN IF now # {} THEN CHOOSE s \in now : TRUE ELSE name

schema_name(renamed, name) ==
    LET now == {s \in DOMAIN renamed : renamed[s] = name}
    IN IF now # {} THEN CHOOSE s \in now : TRUE
       ELSE IF name \in DOMAIN renamed THEN NoName
       ELSE name

move(renamed, old, new) ==
    IF schema_name(renamed, old) = NoName THEN renamed
    ELSE With(renamed, schema_name(renamed, old), new)

schema_check_kept(name) ==
    name \in DOMAIN known.schema_checks => known.schema_checks[name] # NoName

proves_not_null(column) ==
    \E name \in DOMAIN known.checks :
        known.checks[name] = [column |-> column, valid |-> TRUE]

proven_not_null(column) ==
    \/ proves_not_null(column)
    \/ /\ ~born
       /\ \E name \in DOMAIN SchemaChecks :
            /\ schema_check_kept(name)
            /\ SchemaChecks[name] =
                 [column |-> schema_name(known.schema_columns, column), valid |-> TRUE]

-----------------------------------------------------------------------------
(* The actions of ALTER TABLE, and record_checks for each.                 *)

Alter ==
    /\ alters.left > 0
    /\ alters' = [alters EXCEPT !.left = @ - 1]
    /\ UNCHANGED <<began, born>>

(* A check the statement does not name is recorded under no name.          *)
AddCheck(name, column, notValid) ==
    LET given == IF name = NoName THEN AutoName[column] ELSE name
        check == [column |-> column, valid |-> ~notValid]
    IN /\ Alter
       /\ name = NoName => UnnamedChecks
       /\ given \notin DOMAIN catalog.constraints
       /\ catalog' = [catalog EXCEPT !.constraints = With(@, given, check)]
       /\ known' = [known EXCEPT !.checks = With(@, name, check)]

AddOther(name) ==
    /\ Alter
    /\ name \notin DOMAIN catalog.constraints
    /\ catalog' = [catalog EXCEPT !.constraints = With(@, name, Other)]
    /\ UNCHANGED known

ValidateConstraint(name) ==
    /\ Alter
    /\ catalog' = [catalog EXCEPT !.constraints[name].valid = TRUE]
    /\ known' = IF name \in DOMAIN known.checks
                THEN [known EXCEPT !.checks[name].valid = TRUE] ELSE known

DropConstraint(name) ==
    /\ Alter
    /\ catalog' = [catalog EXCEPT !.constraints = Without(@, name)]
    /\ known' = IF name \in DOMAIN known.checks
                THEN [known EXCEPT !.checks = Without(@, name)]
                ELSE [known EXCEPT !.schema_checks = move(@, name, NoName)]

(* DROP COLUMN takes its checks along, and record_checks leaves their names*)
(* in schema_checks: a check renamed to one is then taken for it.          *)
RenameConstraint(old, new) ==
    /\ Alter
    /\ new \notin DOMAIN catalog.constraints
    /\ GoneNamesReused \/ \A n \in DOMAIN known.schema_checks : known.schema_checks[n] # new
    /\ catalog' = [catalog EXCEPT !.constraints = With(Without(@, old), new, @[old])]
    /\ known' = IF old \in DOMAIN known.checks
                THEN [known EXCEPT !.checks = With(Without(@, old), new, @[old])]
                ELSE [known EXCEPT !.schema_checks = move(@, old, new)]

AddColumn(column) ==
    /\ Alter
    /\ column \notin catalog.columns
    /\ catalog' = [catalog EXCEPT !.columns = @ \cup {column}]
    /\ UNCHANGED known

(* The server drops the column's checks with it.                           *)
DropColumn(column) ==
    LET kept(checks) == [n \in {m \in DOMAIN checks : checks[m].column # column} |-> checks[n]]
    IN /\ Alter
       /\ catalog' = [columns |-> catalog.columns \ {column},
                      constraints |-> kept(catalog.constraints)]
       /\ known' = [known EXCEPT !.checks = kept(@),
                                 !.schema_columns = move(@, column, NoName)]

RenameColumn(old, new) ==
    LET moved(checks) ==
            [n \in DOMAIN checks |->
                [checks[n] EXCEPT !.column = IF @ = old THEN new ELSE @]]
    IN /\ Alter
       /\ new \notin catalog.columns
       /\ catalog' = [columns |-> (catalog.columns \ {old}) \cup {new},
                      constraints |-> moved(catalog.constraints)]
       /\ known' = [known EXCEPT !.checks = moved(@),
                                 !.schema_columns = move(@, old, new)]

RollbackAlters ==
    /\ Alter
    /\ catalog' = began.catalog
    /\ known' = began.known

NextMigration ==
    /\ alters.more
    /\ alters' = [alters EXCEPT !.more = FALSE]
    /\ began' = [catalog |-> catalog, known |-> known]
    /\ UNCHANGED <<catalog, known, born>>

ChecksInit ==
    /\ born \in BOOLEAN
    /\ catalog = [columns |-> SchemaColumns,
                  constraints |-> IF born THEN <<>> ELSE SchemaChecks]
    /\ known = [checks |-> <<>>, schema_checks |-> <<>>, schema_columns |-> <<>>]
    /\ began = [catalog |-> catalog, known |-> known]
    /\ alters = [left |-> MaxAlters, more |-> TRUE]

ChecksNext ==
    \/ \E name \in Constraints \cup {NoName}, column \in catalog.columns, notValid \in BOOLEAN :
            AddCheck(name, column, notValid)
    \/ \E name \in Constraints : AddOther(name)
    \/ \E name \in DOMAIN catalog.constraints : ValidateConstraint(name) \/ DropConstraint(name)
    \/ \E old \in DOMAIN catalog.constraints, new \in Constraints : RenameConstraint(old, new)
    \/ \E column \in Columns : AddColumn(column)
    \/ \E column \in catalog.columns : DropColumn(column)
    \/ \E old \in catalog.columns, new \in Columns : RenameColumn(old, new)
    \/ RollbackAlters \/ NextMigration

ChecksSpec == ChecksInit /\ [][ChecksNext]_checkVars

-----------------------------------------------------------------------------
(* When the analysis reads SET NOT NULL as catalog work, the table really  *)
(* has a valid check on that column: dropped, renamed and rolled back      *)
(* checks and columns, and names used again, mislead it into no scan that  *)
(* PostgreSQL then makes with reads and writes waiting.                    *)
ProvedColumnsAreChecked ==
    \A column \in catalog.columns :
        proven_not_null(column) =>
            \E name \in DOMAIN catalog.constraints :
                catalog.constraints[name] = [column |-> column, valid |-> TRUE]
=============================================================================
