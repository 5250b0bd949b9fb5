---------------------------- MODULE MCQueryBuilder ---------------------------
(* Queries of three calls, on four dialects, over subqueries that bind a   *)
(* value, define a CTE, read one, carry a LIMIT or are set operations.     *)
EXTENDS QueryBuilder

CONSTANT Admitted   \* the known faults the pieces may run into

Dialect == [leads |-> FALSE, parens |-> TRUE, nulls |-> TRUE, ordered |-> FALSE,
            top |-> FALSE, returning |-> TRUE, ctas |-> TRUE, qualify |-> FALSE,
            locks |-> TRUE, truth |-> TRUE, distinct_on |-> FALSE]
SQLite == [Dialect EXCEPT !.parens = FALSE, !.locks = FALSE]
\* PostgreSQL renders as DuckDB does, but for QUALIFY and FOR UPDATE.
DuckDB == [Dialect EXCEPT !.qualify = TRUE, !.locks = FALSE, !.distinct_on = TRUE]
MySQL == [Dialect EXCEPT !.nulls = FALSE, !.returning = FALSE]
MSSQL == [Dialect EXCEPT !.leads = TRUE, !.nulls = FALSE, !.ordered = TRUE,
                         !.top = TRUE, !.returning = FALSE, !.ctas = FALSE,
                         !.locks = FALSE, !.truth = FALSE]
MCDialects == {SQLite, DuckDB, MySQL, MSSQL}

\* SELECT ... WHERE x = v, and forms of it.
Filter(v) == [NewQuery EXCEPT !.where = <<Compare(Name, Value(v))>>]
Reading(a, v) == [Filter(v) EXCEPT !.from = [kind |-> "name", name |-> a]]
Defining(a, q, v) == [Reading(a, v) EXCEPT !.withs = <<Cte(a, q)>>]
Capped(v) == [Filter(v) EXCEPT !.order = <<OrderKey(Name, FALSE)>>, !.limit = TRUE]
Except(q, r) == [q EXCEPT !.unions = <<Member("EXCEPT", r)>>]

Plain == SubqueryOf(Filter("plain"))
WithD == SubqueryOf(Defining("d", Filter("in d"), "of d"))
ReadsC == SubqueryOf(Reading("c", "of c"))

MCItems ==
    {Call(<<ReadsC, Name>>), Window(<<Plain>>, <<Name>>), Window(<<Name>>, <<WithD>>),
     Case(Plain)}
    \cup (IF "window" \in Admitted THEN {Window(<<ReadsC>>, <<Plain>>)} ELSE {})
    \cup (IF "case" \in Admitted THEN {Case(WithD)} ELSE {})
MCSources ==
    {[kind |-> "name", name |-> "c"],
     [kind |-> "query", q |-> Capped("from")],
     [kind |-> "query", q |-> Defining("d", Filter("in d"), "of d")]}
    \cup (IF "order" \in Admitted
          THEN {[kind |-> "query", q |-> Defining("e", Reading("c", "in e"), "of e")]}
          ELSE {})
MCConditions ==
    {Between(Plain, Value("low"), Value("high")),
     Group(<<Truth(Name), InList(WithD, <<Value("member")>>), On(Name, ReadsC),
             RawFragment(<<Value("raw")>>)>>),
     Exists(Defining("e", Defining("d", Filter("in d"), "in e"), "of e"))}
    \cup (IF "truth" \in Admitted THEN {Truth(Plain)} ELSE {})
MCOrderEntries ==
    {OrderKey(Name, TRUE), OrderKey(WithD, FALSE)}
    \cup (IF "nulls" \in Admitted THEN {OrderKey(Plain, TRUE)} ELSE {})
MCCtes ==
    {Cte("c", Filter("in c")),
     Cte("d", Reading("c", "other d")),
     Cte("e", [NewQuery EXCEPT !.stmt = "delete", !.returning = TRUE,
                               !.where = <<InSubquery(Name, WithD.q)>>]),
     Cte("e", [NewQuery EXCEPT !.stmt = "insert_from", !.returning = TRUE,
                               !.source = <<WithD.q>>])}
    \cup (IF "row" \in Admitted
          THEN {Cte("e", [NewQuery EXCEPT !.stmt = "insert", !.returning = TRUE,
                                          !.rows = <<<<WithD>>>>])}
          ELSE {})
MCMembers(d) ==
    {Member("UNION", Filter("member")),
     Member("EXCEPT", Defining("d", Filter("in d"), "of d")),
     Member("UNION", Capped("capped"))}
    \cup (IF d.parens \/ "member" \in Admitted
          THEN {Member("UNION", Except(Filter("left"), Filter("right")))} ELSE {})
MCOperands ==
    {Value("set"), Plain}
    \cup (IF "row" \in Admitted THEN {WithD} ELSE {})
=============================================================================
