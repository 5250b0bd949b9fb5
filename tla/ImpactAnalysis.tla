---------------------------- MODULE ImpactAnalysis ----------------------------
(***************************************************************************)
(* The impact analysis of a script against a server, of which it may have  *)
(* read only part: read_context() asks for the schema, then for each fact  *)
(* of the profile's context plan, and a statement that fails (a missing    *)
(* privilege, a lock not granted) leaves its fact out and the read goes    *)
(* on.  Then the statements are judged in order, each with what the run    *)
(* did before it.  The answer for a statement is compared with the answer  *)
(* a complete read would have given.                                       *)
(***************************************************************************)
EXTENDS ImpactRules

CONSTANTS Limit,       \* bound: the row threshold the guards are given
          NoTable,     \* no table
          NoStatement, \* no statement is judged yet
          RemedyOnPartitions, \* whether the remedy of a key is judged on a partitioned
                              \* table, and the one of a new column when its type
          RemedyOnDomains,    \* checks each row
          LockedInstant,      \* whether the assertion is judged on an instant change
                              \* that spells a LOCK and no ALGORITHM
          RemedyAfterWith     \* whether the remedy is judged that appends a WITH
                              \* clause to a statement that has one

Postgres == INSTANCE PostgresRules
MySQL == INSTANCE MySQLRules
MSSQL == INSTANCE MSSQLRules
SQLite == INSTANCE SQLiteRules
DuckDB == INSTANCE DuckDBRules

VARIABLES scenario,  \* [engine, server, lossy: the facts the read may lose, and
                     \* the family of statements to judge]
          plan,      \* the facts the context plan has still to ask for
          read,      \* the facts read
          script,    \* the statements before the judged one, still to come
          run,       \* RunState
          complete,  \* the RunState a complete read would have given
          judged     \* the judged statement, [stmt, transactional], or NoStatement

vars == <<scenario, plan, read, script, run, complete, judged>>

-----------------------------------------------------------------------------
(* The profiles.                                                           *)

Plan(engine) ==
    CASE engine = "postgres" ->
            <<"schema", "settings", "sizes", "partitions", "indexes", "arrays", "types">>
      [] engine = "mysql" -> <<"schema", "settings", "sizes", "fulltext", "row_versions">>
      [] engine = "mssql" -> <<"schema", "settings", "snapshot", "sizes">>
      [] engine = "sqlite" -> <<"schema", "settings", "sizes">>
      [] engine = "duckdb" -> <<"schema", "sizes">>

(* Whether the plan asks for a fact, given what it read.                   *)
Asks(fact, known) ==
    IF scenario.engine = "mysql" THEN MySQL!asks(scenario.server, fact, known) ELSE TRUE

Everything ==
    LET all == {Plan(scenario.engine)[i] : i \in DOMAIN Plan(scenario.engine)}
    IN {fact \in all : Asks(fact, all)}

Context(facts) ==
    CASE scenario.engine = "postgres" -> Postgres!context(scenario.server, facts)
      [] scenario.engine = "mysql" -> MySQL!context(scenario.server, facts)
      [] scenario.engine = "mssql" -> MSSQL!context(scenario.server, facts)
      [] scenario.engine = "sqlite" -> SQLite!context(scenario.server, facts)
      [] scenario.engine = "duckdb" -> DuckDB!context(scenario.server, facts)

Around(s, facts, runs, transactional) ==
    [stmt |-> s, ctx |-> Context(facts), run |-> runs, transactional |-> transactional]

(* The report of a statement.                                              *)
Report(f) ==
    Impact(f, CASE scenario.engine = "postgres" -> Postgres!effects(f)
                [] scenario.engine = "mysql" -> MySQL!effects(f)
                [] scenario.engine = "mssql" -> MSSQL!effects(f)
                [] scenario.engine = "sqlite" -> SQLite!effects(f)
                [] scenario.engine = "duckdb" -> DuckDB!effects(f))

(* The run after a statement: the handler of MySQL writes in the run state *)
(* itself, before the analyzer records the statement.                      *)
After(f) ==
    record(IF scenario.engine = "mysql" THEN MySQL!Recorded(f) ELSE f.run, f.stmt)

-----------------------------------------------------------------------------
Begin(engine, family, server, before, lossy) ==
    /\ scenario = [engine |-> engine, family |-> family, server |-> server, lossy |-> lossy]
    /\ plan = Plan(engine)
    /\ read = {}
    /\ script = before
    /\ run = Fresh
    /\ complete = Fresh
    /\ judged = NoStatement

(* The rest of the plan, without the facts that are no longer asked for.   *)
Rest(known) == SelectSeq(Tail(plan), LAMBDA fact : Asks(fact, known))

ReadFact ==
    /\ plan # <<>>
    /\ read' = read \cup {Head(plan)}
    /\ plan' = Rest(read \cup {Head(plan)} \cup {plan[i] : i \in DOMAIN plan})
    /\ UNCHANGED <<scenario, script, run, complete, judged>>

(* attempt() returns None, and the plan goes on without the fact.          *)
FailedRead ==
    /\ plan # <<>> /\ Head(plan) \in scenario.lossy
    /\ plan' = Rest(read \cup {plan[i] : i \in 2..Len(plan)})
    /\ UNCHANGED <<scenario, read, script, run, complete, judged>>

(* The analysis reports a statement, then the run state takes it in.       *)
Statement ==
    /\ plan = <<>> /\ script # <<>>
    /\ run' = After(Around(Head(script), read, run, FALSE))
    /\ complete' = After(Around(Head(script), Everything, complete, FALSE))
    /\ script' = Tail(script)
    /\ UNCHANGED <<scenario, plan, read, judged>>

(* The statement in question comes last.                                   *)
Judge(s, transactional) ==
    /\ plan = <<>> /\ script = <<>> /\ judged = NoStatement
    /\ judged' = [stmt |-> s, transactional |-> transactional]
    /\ UNCHANGED <<scenario, plan, read, script, run, complete>>

-----------------------------------------------------------------------------
Judged == judged # NoStatement

(* The report of the judged statement from what was read, and from all.    *)
Reports ==
    [all \in BOOLEAN |->
        Report(Around(judged.stmt, IF all THEN Everything ELSE read,
                      IF all THEN complete ELSE run, judged.transactional))]

(* Without the settings the server is taken for one at the floor, which    *)
(* docs/impact.md says, and readers for ones that wait for the writer; the *)
(* properties leave out the others.                                        *)
ServerKnown ==
    CASE scenario.engine = "postgres" ->
            "settings" \in read \/ scenario.server.version = Postgres!FLOOR
      [] scenario.engine = "mysql" -> "settings" \in read
      [] scenario.engine = "mssql" ->
            "settings" \in read /\ ("snapshot" \in read \/ ~scenario.server.row_versions)
      [] scenario.engine = "sqlite" -> "settings" \in read \/ ~scenario.server.wal
      [] scenario.engine = "duckdb" -> TRUE

(* A statement that takes the partitioned table alone, which has no rows:  *)
(* no finding says the partitions were not read.                           *)
ParentAlone(s) ==
    s.only \/ \E n \in DOMAIN s.actions : s.actions[n].kind \in Postgres!NO_FILE

Answer(r) ==
    <<[t \in DOMAIN r.tables |-> <<r.tables[t].lock, r.tables[t].blocks, r.tables[t].work>>],
      r.refused, r.sure>>

Stands(given, truth) ==
    \/ given.sure # KNOWN
    \/ Answer(given) = Answer(truth)
    \/ /\ ParentAlone(judged.stmt)
       /\ \A t \in DOMAIN truth.tables :
             truth.tables[t].lock = given.tables[t].lock /\
             truth.tables[t].work < given.tables[t].work

(* An answer given as known stands: a statement reported with confidence   *)
(* known, from a read that lost some facts, is reported with the same      *)
(* locks, work, refusals and confidence when no fact is lost, or with less *)
(* work where it takes a partitioned table alone.                          *)
KnownStays ==
    Judged /\ "schema" \in read /\ ServerKnown =>
        \E reports \in {Reports} : Stands(reports[FALSE], reports[TRUE])

Blocks(report, over) ==
    {rule \in {NoFact, DDL, WRITES} :
        IF rule = NoFact THEN no_rewrite(report, over, FALSE)
        ELSE max_blocking(report, rule, over, FALSE)}

(* A guard errs on the side of blocking, except on MySQL, where a storage  *)
(* that was not read is taken for the instant case: a statement that       *)
(* passes max_blocking() or no_rewrite() with some facts lost passes it    *)
(* with all of them read, since a lock or a table the lost facts would     *)
(* have shown is covered by the tables the report does name or by an       *)
(* unnamed lock.                                                           *)
GuardsErrOnBlocking ==
    Judged /\ "schema" \in read /\ scenario.engine # "mysql" =>
        \E reports \in {Reports} : \A over \in {NoFact, Limit} :
            Blocks(reports[TRUE], over) \subseteq Blocks(reports[FALSE], over)

(* Four remedies the code gives do not hold: a key on a partitioned table  *)
(* is sent to statements the server refuses there, the first statement of  *)
(* the remedy for a new column of a domain that checks its rows rewrites   *)
(* the table as the original does, an instant change of MySQL that spells  *)
(* a LOCK alone is asserted with ALGORITHM=INPLACE, which rebuilds, and a  *)
(* statement of SQL Server that has a WITH clause is given a second one.   *)
Holds(s) ==
    LET f == Around(s, read, run, FALSE)
    IN /\ scenario.engine = "mysql" =>
              \/ LockedInstant \/ s.lock = NoFact \/ s.algorithm # NoFact
              \/ ~MySQL!instant(f)
       /\ scenario.engine = "mssql" =>
              RemedyAfterWith \/ ~MSSQL!has_clause(f)
       /\ scenario.engine = "postgres" => \A n \in DOMAIN s.actions :
              /\ s.actions[n].kind = "add_constraint" /\ s.actions[n].constraint # "check" =>
                     RemedyOnPartitions \/ ~Postgres!partitioned(f, s.table)
              /\ s.actions[n].kind = "add_column" =>
                     RemedyOnDomains \/ Postgres!domain_check(f, s.actions[n].type) = NoFact

(* The reports of the statements of a remedy, each after those before it,  *)
(* and outside a transaction, which only SQL Server does not ask for.      *)
Followed(remedy) ==
    LET after[i \in 0..Len(remedy)] ==
            IF i = 0 THEN run ELSE After(Around(remedy[i], Everything, after[i - 1], FALSE))
        inside == scenario.engine = "mssql" /\ judged.transactional
    IN {Report(Around(remedy[i], read, after[i - 1], inside)) : i \in DOMAIN remedy}

Safer(step, report) ==
    /\ step.refused => scenario.engine = "mssql" /\ report.refused
    /\ step.sure # UNKNOWN
    /\ IF scenario.engine = "mysql" THEN Answer(step) = Answer(report)
       ELSE \A t \in DOMAIN step.tables :
               step.tables[t].work > CATALOG =>
                   \/ step.tables[t].blocks < Max({report.tables[n].blocks : n \in DOMAIN report.tables})
                   \/ t \in step.at_end
                   \/ t \in report.queues \ step.queues

(* The safer statements of a finding are safer: run in their order, none   *)
(* is refused, unless SQL Server refuses what they replace, and none does  *)
(* work on a table's data while it blocks as much as the statement they    *)
(* replace, unless it takes the lock when the work is done, or is the      *)
(* first that no one queues behind.  On MySQL and MariaDB the statement    *)
(* with the clause that asserts its algorithm and lock runs as it would    *)
(* without.                                                                *)
RemediesAreSafer ==
    Judged /\ read = Everything /\ Holds(judged.stmt) =>
        \E report \in {Reports[FALSE]} : \A remedy \in report.remedy :
            \A step \in Followed(remedy) : Safer(step, report)
=============================================================================
