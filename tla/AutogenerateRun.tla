--------------------------- MODULE AutogenerateRun ---------------------------
(***************************************************************************)
(* The generated migrations on the schema they were generated for.  The    *)
(* first runs in one transaction; each statement of <id>_online, and of a  *)
(* SQLite migration with a pragma, commits alone.  One of <id>_online may  *)
(* fail on a lock timeout or on a row.  A failed run starts again from the *)
(* first statement of <id>_online, as up() does after repair(), or from a  *)
(* new diff.  The application writes NULLs while <id>_online runs.  An     *)
(* applied pair is taken down, last migration first.                       *)
(***************************************************************************)
EXTENDS SQLiteRebuild

CONSTANTS
    Scenarios,      \* schema, declaration and arguments of a generation
    MaxFailures     \* failures of online statements

\* SQLite ignores online.
Arguments == [engine : {"postgres"}, online : BOOLEAN, drops : {"allow", "ignore", "strict"}]
SqliteArguments == [engine : {"sqlite"}, online : {FALSE},
                    drops : {"allow", "ignore", "strict"}]

ASSUME RunAssumption ==
    /\ MaxFailures \in Nat
    /\ \A s \in Scenarios : s.options \in Arguments \cup SqliteArguments

VARIABLES
    db,         \* the schema
    origin,     \* the schema the first generation read
    models,     \* the declaration
    options,
    plan,       \* the migrations generated last
    phase,      \* where the run stands
    pc,         \* the next statement of <id>_online, or of its down step
    attempt,    \* runs of the <id>_online generated last
    failures,
    stuck       \* the statement PostgreSQL refused, if any

vars == <<db, origin, models, options, plan, phase, pc, attempt, failures, stuck>>
given == <<origin, models, options>>

OnSqlite == options.engine = "sqlite"
Refuses(d, s) == IF OnSqlite THEN SqliteRefuses(d, s) ELSE Refused(d, s)
After(d, s) == IF OnSqlite THEN SqliteExecuted(d, s) ELSE Executed(d, s)

\* A migration in one transaction: a refused statement rolls it back.
Transaction(statements) ==
    LET run == FoldLeft(LAMBDA t, s :
                   IF t.stuck # NoStatement THEN t
                   ELSE IF Refuses(t.db, s) THEN [t EXCEPT !.stuck = s]
                   ELSE [t EXCEPT !.db = After(@, s)],
                   [db |-> db, stuck |-> NoStatement], statements)
    IN  IF run.stuck # NoStatement THEN [run EXCEPT !.db = db] ELSE run

Init == \E s \in Scenarios :
    /\ db = s.live /\ origin = s.live /\ models = s.models /\ options = s.options
    /\ plan = NoPlan /\ phase = "diff" /\ pc = 1 /\ attempt = 0
    /\ failures = 0 /\ stuck = NoStatement

\* planning.plan_migrations(): online is for PostgreSQL alone.
PlanMigrations ==
    IF OnSqlite THEN SqlitePlan(db, models, [options EXCEPT !.online = FALSE])
                ELSE Plan(db, models, options)

\* plan_migrations(): from the live schema, every time it is asked.
Generate ==
    /\ phase = "diff"
    /\ IF Raises(db, models, options)
       THEN phase' = "raised" /\ UNCHANGED plan
       ELSE /\ plan' = PlanMigrations
            /\ phase' = "first"
    /\ pc' = 1 /\ attempt' = 0
    /\ UNCHANGED <<db, given, failures, stuck>>

\* The first migration, in one transaction.
RunFirst ==
    /\ phase = "first"
    /\ LET run == Transaction(plan.up)
       IN  /\ db' = run.db /\ stuck' = run.stuck
           /\ phase' = IF run.stuck = NoStatement THEN "online" ELSE "refused"
    /\ attempt' = 1
    /\ UNCHANGED <<given, plan, pc, failures>>

\* The next statement of <id>_online, which commits when it ends.
RunOnline ==
    /\ phase = "online" /\ pc <= Len(plan.rest)
    /\ LET s == plan.rest[pc]
       IN  IF Refuses(db, s)
           THEN phase' = "refused" /\ stuck' = s /\ UNCHANGED <<db, pc>>
           ELSE db' = After(db, s) /\ pc' = pc + 1 /\ UNCHANGED <<phase, stuck>>
    /\ UNCHANGED <<given, plan, attempt, failures>>

Applied ==
    /\ phase = "online" /\ pc > Len(plan.rest)
    /\ phase' = "applied"
    /\ UNCHANGED <<db, given, plan, pc, attempt, failures, stuck>>

\* A statement fails on its own: a lock timeout, a duplicate, an orphan row.
FailOnline ==
    /\ phase = "online" /\ options.online /\ pc <= Len(plan.rest)
    /\ failures < MaxFailures
    /\ ~Refused(db, plan.rest[pc])
    /\ db' = Interrupted(db, plan.rest[pc])
    /\ failures' = failures + 1 /\ phase' = "failed"
    /\ UNCHANGED <<given, plan, pc, attempt, stuck>>

\* repair() and up(): <id>_online from its first statement.
Rerun ==
    /\ phase = "failed"
    /\ phase' = "online" /\ pc' = 1 /\ attempt' = attempt + 1
    /\ UNCHANGED <<db, given, plan, failures, stuck>>

\* A diff generated after the failure, in place of the failed migration.  The
\* diff never asks for a UNIQUE an existing column lacks, so that much of a
\* failed migration is not generated again, and neither is what points at it.
Regenerate ==
    /\ phase = "failed"
    /\ \A c \in DOMAIN models.cols : models.cols[c].unique => IsKey(db, c)
    /\ phase' = "diff"
    /\ UNCHANGED <<db, given, plan, pc, attempt, failures, stuck>>

\* The application writes a row without a value for a column it may be
\* missing from.  Only the columns that turn NOT NULL tell the difference.
WriteNull ==
    /\ phase \in {"online", "failed"} /\ options.online
    /\ \E c \in DOMAIN db.cols \ db.nulls :
          /\ c \in DOMAIN models.cols /\ ~models.cols[c].nullable
          /\ db.cols[c] = "nullable" /\ RouteCheck(c) \notin DOMAIN db.checks
          /\ db' = [db EXCEPT !.nulls = @ \cup {c}]
    /\ UNCHANGED <<given, plan, phase, pc, attempt, failures, stuck>>

\* down(): <id>_online first.  A migration without a down step stops it.
StartDown ==
    /\ phase = "applied" /\ failures = 0
    /\ plan.rest = <<>> \/ plan.restReversible
    /\ phase' = "down" /\ pc' = 1
    /\ UNCHANGED <<db, given, plan, attempt, failures, stuck>>

DownOnline ==
    /\ phase = "down" /\ pc <= Len(plan.restDown)
    /\ LET s == plan.restDown[pc]
       IN  IF Refuses(db, s)
           THEN phase' = "refused" /\ stuck' = s /\ UNCHANGED <<db, pc>>
           ELSE db' = After(db, s) /\ pc' = pc + 1 /\ UNCHANGED <<phase, stuck>>
    /\ UNCHANGED <<given, plan, attempt, failures>>

DownFirst ==
    /\ phase = "down" /\ pc > Len(plan.restDown)
    /\ plan.up = <<>> \/ plan.reversible
    /\ LET run == Transaction(plan.down)
       IN  /\ db' = run.db /\ stuck' = run.stuck
           /\ phase' = IF run.stuck = NoStatement THEN "reverted" ELSE "refused"
    /\ UNCHANGED <<given, plan, pc, attempt, failures>>

Next == \/ Generate \/ RunFirst \/ RunOnline \/ Applied \/ FailOnline \/ Rerun
        \/ Regenerate \/ WriteNull \/ StartDown \/ DownOnline \/ DownFirst

Spec == Init /\ [][Next]_vars

(***************************************************************************)
(* Properties.                                                             *)
(***************************************************************************)
\* What a run again may fail on: ADD CONSTRAINT has no IF NOT EXISTS, so a
\* constraint an earlier attempt added stops it, and so does the index such a
\* constraint holds on to.
AddedBefore(s) ==
    \/ s.op = "add_fk" /\ s.on \in DOMAIN db.fks
    \/ s.op = "drop_index" /\ (db.keys[s.on].constraint \/ LeanedOn(db, s.on))

\* PostgreSQL refuses no generated statement, up or down, whatever the
\* application writes meanwhile; a run again after a failure stops only on a
\* constraint an earlier attempt added.
EveryStatementRuns == stuck = NoStatement \/ (attempt > 1 /\ AddedBefore(stuck))

\* An applied migration, however often it failed and was run or generated
\* again, leaves nothing for the next diff: no table, column, key or constraint
\* missing, invalid or unvalidated, no check of the SET NOT NULL route, and with
\* drops nothing the models do not declare.
NextDiffIsEmpty ==
    phase = "applied" =>
        /\ ~Outstanding(db, models)
        /\ RouteChecks(db, models) = {}
        /\ options.drops = "allow" =>
              /\ ~Extras(db, models) /\ ExtraChecks(db, models) = {}
              /\ ChangedFks(db, models) = {}

\* Without online the generation is one migration, and autogenerate(), which
\* returns the first, leaves nothing behind.
OneMigrationOffline == ~options.online => plan.up = <<>> \/ plan.rest = <<>>

\* A new column ends with the UNIQUE and the REFERENCES its model declares,
\* though the diff would not report one that is missing.
NewColumnsKeepTheirKeys ==
    phase = "applied" /\ failures = 0 =>
        \A c \in DOMAIN models.cols \ DOMAIN origin.cols :
            /\ models.cols[c].unique => IsKey(db, c)
            /\ models.cols[c].ref # NoRef =>
                  \E f \in DOMAIN db.fks : Of(f) = c /\ PointsAt(db, f, models.cols[c].ref)

\* A schema without what a repair does: a constraint reads the same before and
\* after it is validated, a unique index before and after it is attached.
Reads(d) == [tables |-> d.tables, cols |-> d.cols,
             keys |-> [n \in DOMAIN d.keys |-> d.keys[n].unique],
             fks |-> [n \in DOMAIN d.fks |-> d.fks[n].target],
             checks |-> {n \in DOMAIN d.checks : ~IsRouteCheck(models, n)}]

\* The down steps of an applied migration bring back the schema the diff read.
\* An invalid index that was rebuilt stays rebuilt, as the models declare it.
DownRestores ==
    phase = "reverted" =>
        LET rebuilt == {n \in DOMAIN origin.keys \cap DOMAIN models.indexes :
                           ~origin.keys[n].valid}
        IN  Reads(db) = [Reads(origin) EXCEPT !.keys =
                            [n \in rebuilt |-> models.indexes[n]] @@ @]

Unlisted(o, m) ==
    [tables |-> o.tables \ m.tables, cols |-> DOMAIN o.cols \ DOMAIN m.cols,
     keys |-> DOMAIN o.keys \ DOMAIN m.indexes,
     fks |-> {f \in DOMAIN o.fks \ DOMAIN m.fks : ~Implied(m, f)},
     checks |-> {n \in DOMAIN o.checks \ m.checks : ~IsRouteCheck(m, n)}]

\* A rebuild loses no row at any of its steps, whatever enforcement does to a
\* DROP TABLE, gives back the two settings, and brings everything back that no
\* model can declare; without drops, no migration removes what the models do
\* not declare.
NothingElseIsLost ==
    /\ OnSqlite => \A t \in origin.tables \cap models.tables :
          t \in db.rows \/ (t \in DOMAIN db.copies /\ db.copies[t].full)
    /\ OnSqlite /\ phase = "applied" =>
          /\ origin.enforced => db.enforced
          /\ ~db.legacy /\ DOMAIN db.copies = {}
          /\ \A p \in origin.parts : HasColumn(db, Of(p)) =>
                p \in db.parts \/ (p[1] = "expression" /\ options.drops = "allow")
    /\ phase = "applied" /\ options.drops # "allow" =>
          LET was == Unlisted(origin, models)
              now == Unlisted(db, models)
          IN  \A f \in DOMAIN was : was[f] \subseteq now[f]

\* SET NOT NULL runs online only under a validated check of its column, so it
\* reads the check in place of the rows.
NotNullIsProved ==
    phase = "online" /\ options.online /\ pc <= Len(plan.rest) =>
        (plan.rest[pc].op = "set_not_null" =>
            LET check == RouteCheck(plan.rest[pc].on[2])
            IN  check \in DOMAIN db.checks /\ db.checks[check])
=============================================================================
