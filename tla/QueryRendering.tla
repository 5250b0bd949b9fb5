--------------------------- MODULE QueryRendering ---------------------------
(***************************************************************************)
(* How a query becomes the text of a statement and the list of values bound *)
(* to its placeholders.  The text is a sequence of tokens; the ones kept   *)
(* are the placeholders (each marked with the value it was written for),   *)
(* the parentheses, WITH, the definition and the reading of a CTE, the set *)
(* operators, ORDER BY, LIMIT and OFFSET.  RenderContext.params is the     *)
(* second field of a rendered part, and its hoisting flag the argument h.  *)
(*                                                                         *)
(* A dialect d is a record of its compiler's flags:                        *)
(*   leads   with_leads_write()          parens   parenthesized_set_members() *)
(*   nulls   _native_nulls_order         ordered  limit_needs_order_by()   *)
(*   truth   IS TRUE writes the column once                                *)
(*   top, returning, ctas, qualify, locks, distinct_on                     *)
(*                                      the clauses it does not refuse     *)
(***************************************************************************)
EXTENDS Naturals, SequencesExt

(***************************************************************************)
(* Queries and the expressions in them.                                    *)
(***************************************************************************)
Name == [node |-> "name"]
Value(v) == [v |-> v, node |-> "value"]
SubqueryOf(q) == [q |-> q, node |-> "query"]
Call(args) == [node |-> "call", args |-> args]
Window(args, over) == [node |-> "window", args |-> args, over |-> over]
Case(result) == [node |-> "case", result |-> result]

\* A condition is the sequence of the expressions in it, as it writes them.
Compare(column, operand) == <<column, operand>>
Truth(column) == <<[node |-> "truth", of |-> column]>>
Between(column, low, high) == <<column, low, high>>
InList(column, values) == <<column>> \o values
InSubquery(column, q) == <<column, SubqueryOf(q)>>
Exists(q) == <<SubqueryOf(q)>>
RawFragment(values) == values
Group(conditions) == FlattenSeq(conditions)
On(left, right) == <<left, right>>

\* A fresh query on a model: SELECT * FROM its table.
NewQuery ==
    [top |-> FALSE, returning |-> FALSE, qualify |-> <<>>, where |-> <<>>,
     from |-> [kind |-> "model"], withs |-> <<>>, order |-> <<>>, limit |-> FALSE,
     unions |-> <<>>, stmt |-> "select", source |-> <<>>, rows |-> <<>>, cols |-> <<>>,
     joins |-> <<>>, group |-> <<>>, having |-> <<>>, distinct |-> "none",
     offset |-> FALSE, locked |-> FALSE, sets |-> <<>>, conflict |-> "none"]

\* What with_(), a set operation and orderBy() add to one.
Cte(alias, q) == [q |-> q, alias |-> alias]
Member(op, q) == [q |-> q, op |-> op]
OrderKey(key, nulls) == [nulls |-> nulls, of |-> key]

(***************************************************************************)
(* Rendered parts.                                                         *)
(***************************************************************************)
Text(w) == [sql |-> <<<<"text", w>>>>, refused |-> FALSE, params |-> <<>>]
Defines(a) == [sql |-> <<<<"defines", a>>>>, refused |-> FALSE, params |-> <<>>]
Reads(a) == [sql |-> <<<<"reads", a>>>>, refused |-> FALSE, params |-> <<>>]
Nothing == [sql |-> <<>>, refused |-> FALSE, params |-> <<>>]
Refusal == [Nothing EXCEPT !.refused = TRUE]
RefusedIf(condition) == IF condition THEN Refusal ELSE Nothing

\* The parts in the order they are written, rendered in that order too.
Then(parts) ==
    [sql |-> FlattenSeq([i \in DOMAIN parts |-> parts[i].sql]),
     refused |-> \E i \in DOMAIN parts : parts[i].refused,
     params |-> FlattenSeq([i \in DOMAIN parts |-> parts[i].params])]
Parens(part) == Then(<<Text("("), part, Text(")")>>)
Flat(s) == FlattenSeq(s)
Mapped(s, Op(_)) == <<>> \o [i \in DOMAIN s |-> Op(s[i])]

\* The text of a part whose values are written as literals.
Inlined(part) ==
    [part EXCEPT !.params = <<>>,
                 !.sql = SelectSeq(part.sql, LAMBDA t : t[1] # "value")]

(***************************************************************************)
(* The subqueries a probe render of a query's body meets, in its order.    *)
(***************************************************************************)
RECURSIVE NestedInNode(_)
NestedInNode(n) ==
    CASE n.node = "query" -> <<n.q>>
      [] n.node = "call" -> Flat(Mapped(n.args, NestedInNode))
      [] n.node = "truth" -> NestedInNode(n.of)
      [] n.node = "window" -> Flat(Mapped(n.over \o n.args, NestedInNode))
      [] OTHER -> <<>>
NestedInNodes(nodes) == Flat(Mapped(nodes, NestedInNode))

\* The expressions after FROM, clause by clause.
Clauses(q) == Flat(q.joins \o q.where) \o q.group \o Flat(q.having \o q.qualify)

RECURSIVE NestedInSelect(_)
NestedInSelect(q) ==
    NestedInNodes(q.cols)
    \o (IF q.from.kind = "query" THEN NestedInSelect(q.from.q) ELSE <<>>)
    \o NestedInNodes(Clauses(q))
    \o Flat(Mapped(q.unions, LAMBDA u : NestedInSelect(u.q)))
    \o NestedInNodes(Mapped(q.order, LAMBDA e : e.of))

\* The expressions of an UPDATE or DELETE, assignments first.
Written(q) == (IF q.stmt = "update" THEN q.sets ELSE <<>>) \o Flat(q.where)

Probed(q) ==
    IF q.stmt \in {"update", "delete"} THEN NestedInNodes(Written(q)) ELSE NestedInSelect(q)

\* _collect_ctes(): each [alias, q], in the order the WITH clause lists them.
RECURSIVE CollectCtes(_)
OwnCtes(q) == Flat(Mapped(q.withs, LAMBDA w : Append(CollectCtes(w.q), w)))
\* A mutant: no probe of the body.
NoProbeCtes(q) ==
    (IF q.from.kind = "query" THEN CollectCtes(q.from.q) ELSE <<>>)
    \o OwnCtes(q)
    \o Flat(Mapped(q.unions, LAMBDA u : CollectCtes(u.q)))
CollectCtes(q) ==
    (IF q.from.kind = "query" THEN CollectCtes(q.from.q) ELSE <<>>)
    \o OwnCtes(q)
    \o Flat(Mapped(q.unions, LAMBDA u : CollectCtes(u.q)))
    \o Flat(Mapped(Probed(q), CollectCtes))

(***************************************************************************)
(* Expressions and clauses.                                                *)
(***************************************************************************)
RECURSIVE RenderSql(_, _, _, _), RenderNode(_, _, _)

\* render_nested(): a subquery leaves its WITH out where one is hoisted.
\* A mutant: a subquery always renders its own.
KeepsItsWith(q, d, h) == RenderSql(q, d, TRUE, h)
RenderNested(q, d, h) == RenderSql(q, d, ~h, h)

RenderNodes(nodes, d, h) == Then(Mapped(nodes, LAMBDA n : RenderNode(n, d, h)))

\* compile_window_call(): the OVER clause is rendered before the arguments.
RenderWindow(n, d, h) ==
    LET over == RenderNodes(n.over, d, h)
        args == RenderNodes(n.args, d, h)
    IN [Then(<<args, over>>) EXCEPT !.params = over.params \o args.params]

\* compile_is_boolean(): T-SQL writes the column twice, from one rendering.
RenderTruth(n, d, h) ==
    LET column == RenderNode(n.of, d, h)
    IN IF d.truth THEN column ELSE [column EXCEPT !.sql = column.sql \o column.sql]

\* A CASE writes its results with no context: their values are literals.
RenderNode(n, d, h) ==
    CASE n.node = "name" -> Nothing
      [] n.node = "value" -> [sql |-> <<<<"value", n.v>>>>, refused |-> FALSE,
                              params |-> <<n.v>>]
      [] n.node = "query" -> Parens(RenderNested(n.q, d, h))
      [] n.node = "call" -> RenderNodes(n.args, d, h)
      [] n.node = "window" -> RenderWindow(n, d, h)
      [] n.node = "truth" -> RenderTruth(n, d, h)
      [] n.node = "case" -> Inlined(RenderNode(n.result, d, FALSE))

\* compile_order_entry(): without NULLS FIRST the key is written twice, in a
\* CASE and on its own, from one rendering.
RenderOrderEntry(e, d, h) ==
    LET key == RenderNode(e.of, d, h)
    IN IF e.nulls /\ ~d.nulls THEN [key EXCEPT !.sql = key.sql \o key.sql] ELSE key
RenderOrderBy(q, d, h) ==
    IF q.order = <<>> THEN Nothing
    ELSE Then(<<Text("ORDER BY")>>
              \o Mapped(q.order, LAMBDA e : RenderOrderEntry(e, d, h)))

\* compile_limit_offset().  An OFFSET on its own stands for every spelling of
\* it, the ones that cap the rows at "all" included.
\* A mutant: an OFFSET is written only after a LIMIT.
OffsetAfterLimit(q, d) ==
    IF q.limit THEN Then(<<Text("LIMIT"), IF q.offset THEN Text("OFFSET") ELSE Nothing>>)
    ELSE Nothing
RenderLimit(q, d) ==
    Then(<<RefusedIf((q.limit \/ q.offset) /\ d.ordered /\ q.order = <<>>),
           IF q.limit THEN Text("LIMIT") ELSE Nothing,
           IF q.offset THEN Text("OFFSET") ELSE Nothing>>)

RenderFrom(q, d, h) ==
    CASE q.from.kind = "model" -> Nothing
      [] q.from.kind = "name" -> Reads(q.from.name)
      [] q.from.kind = "query" -> Parens(RenderSql(q.from.q, d, FALSE, h))

RenderBase(q, d, h) ==
    Then(<<RefusedIf(q.distinct = "on" /\ ~d.distinct_on),
           RenderNodes(q.cols, d, h), RenderFrom(q, d, h), RenderNodes(Clauses(q), d, h),
           RefusedIf(q.top /\ ~d.top), RefusedIf(q.qualify # <<>> /\ ~d.qualify)>>)

(***************************************************************************)
(* SELECT.                                                                 *)
(***************************************************************************)
\* One definition for each alias, and no two different ones of a name.
Firsts(ctes) ==
    SelectSeq([i \in DOMAIN ctes |-> [cte |-> ctes[i], at |-> i]],
              LAMBDA c : \A j \in 1 .. c.at - 1 : ctes[j].alias # c.cte.alias)
RenderWith(q, d, h) ==
    LET ctes == CollectCtes(q)
        Definition(c) == Then(<<Defines(c.cte.alias),
                                Parens(RenderSql(c.cte.q, d, FALSE, h))>>)
    IN IF ctes = <<>> THEN Nothing
       ELSE Then(<<RefusedIf(\E i, j \in DOMAIN ctes : /\ ctes[i].alias = ctes[j].alias
                                                      /\ ctes[i].q # ctes[j].q),
                   Text("WITH")>>
                 \o Mapped(Firsts(ctes), Definition))

\* _refuse_set_member_clauses(): what only parentheses would scope to a member.
\* A mutant: no member is refused.
AnyMember(m) == FALSE
RefusedMember(m) == m.order # <<>> \/ m.limit \/ m.offset

RenderMember(u, d, h) ==
    LET member == RenderSql(u.q, d, FALSE, h)
    IN IF d.parens THEN Then(<<Text(u.op), Parens(member)>>)
       ELSE Then(<<RefusedIf(RefusedMember(u.q)), Text(u.op), member>>)

RenderParts(q, d, include, h) ==
    LET base == RenderBase(q, d, h)
    IN Then(<<IF include THEN RenderWith(q, d, h) ELSE Nothing,
              IF q.unions # <<>> /\ d.parens THEN Parens(base) ELSE base>>
            \o Mapped(q.unions, LAMBDA u : RenderMember(u, d, h))
            \o <<RenderOrderBy(q, d, h), RenderLimit(q, d),
                 RefusedIf(q.locked /\ (q.unions # <<>> \/ ~d.locks))>>)

RenderSelect(q, d, include, h) == RenderParts(q, d, include, h \/ include)

(***************************************************************************)
(* Writes.                                                                 *)
(***************************************************************************)
\* A write that carries a clause it would not render is refused.
UnrenderedClauses(q) ==
    \/ q.cols # <<>> \/ q.from.kind # "model" \/ q.withs # <<>> \/ q.joins # <<>>
    \/ q.group # <<>> \/ q.having # <<>> \/ q.order # <<>> \/ q.limit \/ q.offset
    \/ q.top \/ q.distinct # "none" \/ q.unions # <<>> \/ q.qualify # <<>> \/ q.locked

\* A mutant: the WHERE clause is rendered before the assignments.
WhereFirst(q, d, h) ==
    LET sets == RenderNodes(q.sets, d, h)
        where == RenderNodes(Flat(q.where), d, h)
    IN [Then(<<sets, where>>) EXCEPT !.params = where.params \o sets.params]

RenderUpdateOrDelete(q, d, h) ==
    Then(<<RefusedIf(q.where = <<>>), RenderNodes(Written(q), d, h)>>)

RenderWrite(q, d, h) ==
    Then(<<IF d.leads THEN RenderWith(q, d, TRUE) ELSE Nothing,
           RenderUpdateOrDelete(q, d, d.leads \/ h)>>)

\* INSERT ... SELECT: the WITH of the source in front of INSERT, or kept by it.
RenderInsertFrom(q, d, h) ==
    LET source == Head(q.source)
    IN Then(<<IF d.leads THEN RenderWith(source, d, TRUE) ELSE Nothing,
              RenderSql(source, d, ~d.leads, d.leads \/ h)>>)

\* The VALUES list, which an upsert writes once in every dialect.
RenderInsert(q, d, h) ==
    Then(<<RefusedIf(q.conflict = "unset"), RenderNodes(Flat(q.rows), d, h)>>)

RenderDml(q, d, h) ==
    Then(<<RefusedIf(UnrenderedClauses(q)),
           RefusedIf(q.stmt \in {"insert", "insert_from"} /\ q.where # <<>>),
           CASE q.stmt = "insert" -> RenderInsert(q, d, h)
             [] q.stmt = "insert_from" -> RenderInsertFrom(q, d, h)
             [] OTHER -> RenderWrite(q, d, h),
           RefusedIf(q.returning /\ ~d.returning)>>)

RenderSql(q, d, include, h) ==
    IF q.stmt \in {"select", "ctas"}
    THEN Then(<<RefusedIf(q.stmt = "ctas" /\ ~d.ctas), RenderSelect(q, d, include, h)>>)
    ELSE RenderDml(q, d, h)

\* The statement to_sql() returns, with its parameters.
ToSql(q, d) == RenderSql(q, d, TRUE, FALSE)

(***************************************************************************)
(* The queries first() and total() run in the place of q.                  *)
(***************************************************************************)
\* One row: TOP 1 where a LIMIT would be refused and TOP caps the whole result.
FirstQuery(q, d) ==
    IF q.limit \/ q.top THEN q
    ELSE IF d.ordered /\ q.order = <<>> /\ ~q.offset /\ q.unions = <<>>
    THEN [q EXCEPT !.top = TRUE]
    ELSE [q EXCEPT !.limit = TRUE]

\* SELECT COUNT( * ) FROM (q), with q's own WITH, unordered and uncapped.
CountQuery(q) ==
    LET counted == [q EXCEPT !.order = <<>>, !.limit = FALSE, !.offset = FALSE, !.top = FALSE]
    IN [NewQuery EXCEPT !.cols = <<Call(<<>>)>>, !.from = [kind |-> "query", q |-> counted]]
=============================================================================
