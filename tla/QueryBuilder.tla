---------------------------- MODULE QueryBuilder ----------------------------
(***************************************************************************)
(* A query under construction: one call of the builder a step, on a query  *)
(* of one dialect, in any order.  A call that raises leaves the query as   *)
(* it was, so its condition is a guard.                                    *)
(***************************************************************************)
EXTENDS QueryRendering, FiniteSets

CONSTANTS
    Dialects,       \* the dialects
    Items,          \* what select() takes
    Sources,        \* what from_() takes
    Conditions,     \* the conditions of where, having, join and qualify
    OrderEntries,   \* the keys of orderBy()
    Ctes,           \* the CTEs of with_()
    Members(_),     \* the set operations, [op, q], that a dialect is given
    Operands,       \* the values of insert() and update()
    MaxCalls        \* the calls on one query

VARIABLES
    dialect,
    query,          \* the query under construction
    rendered,       \* the query the last statement is made from
    calls

vars == <<dialect, query, rendered, calls>>

Init ==
    /\ dialect \in Dialects
    /\ query = NewQuery
    /\ rendered = NewQuery
    /\ calls = 0

Renders(q) ==
    /\ calls < MaxCalls
    /\ rendered' = q
    /\ calls' = calls + 1
    /\ UNCHANGED dialect

Calls(q) == Renders(q) /\ query' = q

Select == \E i \in Items : Calls([query EXCEPT !.cols = Append(@, i)])
From == \E f \in Sources : Calls([query EXCEPT !.from = f])
Join == \E c \in Conditions : Calls([query EXCEPT !.joins = Append(@, c)])
Where == \E c \in Conditions : Calls([query EXCEPT !.where = Append(@, c)])
GroupBy == \E i \in Items : Calls([query EXCEPT !.group = Append(@, i)])
Having == \E c \in Conditions : Calls([query EXCEPT !.having = Append(@, c)])
Qualify == \E c \in Conditions : Calls([query EXCEPT !.qualify = <<c>>])
OrderBy == \E e \in OrderEntries : Calls([query EXCEPT !.order = Append(@, e)])
With == \E w \in Ctes : Calls([query EXCEPT !.withs = Append(@, w)])
SetOp == \E u \in Members(dialect) : Calls([query EXCEPT !.unions = Append(@, u)])

\* distinct() and distinctOn() exclude each other.
Distinct == query.distinct # "on" /\ Calls([query EXCEPT !.distinct = "all"])
DistinctOn == query.distinct # "all" /\ Calls([query EXCEPT !.distinct = "on"])

\* limit(), offset() and top() are set once, and top() with neither of them.
Limit == ~query.limit /\ ~query.top /\ Calls([query EXCEPT !.limit = TRUE])
Offset == ~query.offset /\ ~query.top /\ Calls([query EXCEPT !.offset = TRUE])
Top ==
    /\ ~query.limit /\ ~query.offset /\ ~query.top
    /\ Calls([query EXCEPT !.top = TRUE])
\* page() caps and then skips, and keeps the cap when the offset raises.
Page ==
    /\ ~query.limit /\ ~query.top
    /\ Calls([query EXCEPT !.limit = TRUE, !.offset = TRUE])
\* cursor_page() orders and filters before it caps, and keeps both when the cap
\* raises.
CursorPage ==
    Calls([query EXCEPT !.order = Append(@, OrderKey(Name, FALSE)),
                        !.where = Append(@, Compare(Name, Value("after"))),
                        !.limit = ~query.top])
ForUpdate == Calls([query EXCEPT !.locked = TRUE])

\* The verbs turn the query into another statement and leave its clauses.
Insert ==
    \E v, w \in Operands :
        Calls([query EXCEPT !.stmt = "insert", !.rows = <<<<v>>, <<w>>>>])
InsertFrom ==
    \E u \in Members(dialect) :
        Calls([query EXCEPT !.stmt = "insert_from", !.source = <<u.q>>])
Update ==
    \E v \in Operands : Calls([query EXCEPT !.stmt = "update", !.sets = <<v>>])
Delete == Calls([query EXCEPT !.stmt = "delete"])
CreateTableAs == query.stmt = "select" /\ Calls([query EXCEPT !.stmt = "ctas"])
Returning == Calls([query EXCEPT !.returning = TRUE])

OnConflict == query.stmt = "insert" /\ Calls([query EXCEPT !.conflict = "unset"])
MergeOrIgnore == query.conflict # "none" /\ Calls([query EXCEPT !.conflict = "set"])

\* first() and total() render a copy and leave the query as it was.  The
\* database refuses the count of a write.
First == Renders(FirstQuery(query, dialect)) /\ UNCHANGED query
Total == query.stmt = "select" /\ Renders(CountQuery(query)) /\ UNCHANGED query

Next ==
    \/ Select \/ From \/ Join \/ Where \/ GroupBy \/ Having \/ Qualify \/ OrderBy
    \/ With \/ SetOp \/ Distinct \/ DistinctOn \/ Limit \/ Offset \/ Top \/ Page
    \/ CursorPage \/ ForUpdate
    \/ Insert \/ InsertFrom \/ Update \/ Delete \/ CreateTableAs \/ Returning
    \/ OnConflict \/ MergeOrIgnore \/ First \/ Total

Spec == Init /\ [][Next]_vars

(***************************************************************************)
(* What a statement means.                                                 *)
(***************************************************************************)
Placeholders(sql) == SelectSeq(sql, LAMBDA t : t[1] = "value")

IsText(t, w) == t[1] = "text" /\ t[2] = w
Depth(sql, i) ==
    LET before == SubSeq(sql, 1, i - 1)
    IN   Len(SelectSeq(before, LAMBDA t : IsText(t, "(")))
       - Len(SelectSeq(before, LAMBDA t : IsText(t, ")")))
AtTop(sql, words) ==
    Mapped(SelectSeq([i \in DOMAIN sql |-> i],
                     LAMBDA i : /\ sql[i][1] = "text" /\ sql[i][2] \in words
                                /\ Depth(sql, i) = 0),
           LAMBDA i : sql[i][2])

\* The name a token reads is defined before it, by the WITH of a statement
\* that the token is in.
DefinedBefore(sql, i) ==
    \E j \in 1 .. i - 1 : /\ sql[j][1] = "defines" /\ sql[j][2] = sql[i][2]
                          /\ \A k \in j .. i : Depth(sql, k) >= Depth(sql, j)

\* Every name a query reads is a CTE of the query, or of one around it.
RECURSIVE QueriesIn(_)
QueriesIn(n) ==
    CASE n.node = "query" -> {n.q}
      [] n.node \in {"call", "window"} -> UNION {QueriesIn(a) : a \in ToSet(n.args)}
                                    \cup IF n.node = "call" THEN {}
                                         ELSE UNION {QueriesIn(a) : a \in ToSet(n.over)}
      [] n.node = "case" -> QueriesIn(n.result)
      [] n.node = "truth" -> QueriesIn(n.of)
      [] OTHER -> {}
Expressions(q) ==
    ToSet(q.cols \o Flat(q.joins) \o Flat(q.where) \o q.group \o Flat(q.having)
          \o Flat(q.qualify) \o q.sets \o Flat(q.rows)
          \o Mapped(q.order, LAMBDA e : e.of))
RECURSIVE Closed(_, _)
Closed(q, scope) ==
    LET own == scope \cup {w.alias : w \in ToSet(q.withs)}
        earlier(i) == scope \cup {q.withs[j].alias : j \in 1 .. i - 1}
    IN /\ q.from.kind = "name" => q.from.name \in own
       /\ q.from.kind = "query" => Closed(q.from.q, own)
       /\ \A i \in DOMAIN q.withs : Closed(q.withs[i].q, earlier(i))
       /\ \A u \in ToSet(q.unions) : Closed(u.q, own)
       /\ \A s \in ToSet(q.source) : Closed(s, own)
       /\ \A n \in Expressions(q) : \A nested \in QueriesIn(n) : Closed(nested, own)

(***************************************************************************)
(* Properties.                                                             *)
(***************************************************************************)
\* The values to_sql() returns are the ones of the placeholders in the text,
\* one for each and in the order they appear, wherever the clauses and the
\* subqueries that carry them stand (builder.py:725, docs/queries.md:417).
ParamsInOrder ==
    LET statement == ToSql(rendered, dialect)
    IN ~statement.refused =>
           Placeholders(statement.sql) = Mapped(statement.params, LAMBDA v : <<"value", v>>)

\* Every CTE a statement reads is defined in a WITH it is under, before it is
\* read: hoisting loses none, a subquery that keeps its WITH loses none, and
\* the one clause lists them in dependency order (builder.py:556).
NamesAreDefined ==
    LET statement == ToSql(rendered, dialect)
    IN (~statement.refused /\ Closed(rendered, {})) =>
           \A i \in DOMAIN statement.sql :
               statement.sql[i][1] = "reads" => DefinedBefore(statement.sql, i)

WithLeads(sql) ==
    dialect.leads => \A i \in DOMAIN sql : IsText(sql[i], "WITH") => i = 1

MembersStayWhole(sql) ==
    rendered.stmt = "select" =>
        /\ AtTop(sql, {"UNION", "EXCEPT"}) = Mapped(rendered.unions, LAMBDA u : u.op)
        /\ AtTop(sql, {"ORDER BY"}) = IF rendered.order = <<>> THEN <<>> ELSE <<"ORDER BY">>
        /\ AtTop(sql, {"LIMIT", "OFFSET"}) =
              (IF rendered.limit THEN <<"LIMIT">> ELSE <<>>)
              \o (IF rendered.offset THEN <<"OFFSET">> ELSE <<>>)

\* A WITH, a set operator, ORDER BY, LIMIT or OFFSET applies to the statement
\* it was called on.  On a dialect that refuses a WITH inside parentheses, a
\* statement has one at most, and it comes first (docs/queries.md:325); the
\* clauses of a member of a set operation stay in it, or the member is refused
\* (builder.py:588, docs/queries.md:343).
ClausesStayInPlace ==
    LET statement == ToSql(rendered, dialect)
    IN ~statement.refused => WithLeads(statement.sql) /\ MembersStayWhole(statement.sql)

=============================================================================
