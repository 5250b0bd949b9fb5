----------------------------- MODULE MCImpactRules -----------------------------
(* The servers and statements the impact analysis is checked on.           *)
EXTENDS ImpactAnalysis

CONSTANTS t, q, r, d, m, x, u,   \* tables: q and r are below t, d is a DEFAULT
                                 \* partition, m the partitioned table t is in, x stands
                                 \* alone, u is at the other end of a foreign key
          c, k, i, l,            \* a column, a key column, an index, a constraint
          held, proof,           \* checks the server has, and a run adds
          CollationUnread,       \* whether the read may lose the index of a column
                                 \* of another collation than the default,
          FulltextUnread,        \* the FULLTEXT indexes of a table that has one,
          ClusteredUnread        \* and the clustered index a statement drops or rebuilds

-----------------------------------------------------------------------------
(* Servers.                                                                *)

Type(base, args) == [base |-> base, args |-> args, array |-> FALSE]
ArrayOf(base, args) == [base |-> base, args |-> args, array |-> TRUE]
Varchar10 == Type("varchar", <<10>>)

Column(type) == [table |-> t, column |-> c, type |-> type]

Schema(options) ==
    options @@ [columns |-> {Column(Varchar10)}, fks |-> {}, indexes |-> {}, pk |-> {},
                checks |-> {}]

Server(options) ==
    options @@ [version |-> 16, zone |-> "UTC", rows |-> [n \in {t, u, x} |-> 1],
                relations |-> <<>>, indexed |-> {}, arrays |-> <<>>, types |-> <<>>,
                schema |-> Schema(<<>>)]

Relation(partitioned, parent, default, partitions) ==
    [partitioned |-> partitioned, parent |-> parent, default |-> default,
     partitions |-> partitions]

Partition(parent) == Relation(FALSE, parent, NoTable, {})

Shapes ==
    [alone  |-> <<>>,
     parent |-> t :> Relation(TRUE, NoTable, NoTable, {q}) @@ q :> Partition(t),
     beside |-> t :> Relation(TRUE, NoTable, d, {q, d}) @@ q :> Partition(t) @@ d :> Partition(t),
     deep   |-> t :> Relation(TRUE, NoTable, NoTable, {q}) @@
                q :> Relation(TRUE, t, NoTable, {r}) @@ r :> Partition(q),
     child  |-> m :> Relation(TRUE, NoTable, d, {t, d}) @@ t :> Partition(m) @@ d :> Partition(m)]

(* A partitioned table is as large as its partitions.                      *)
Sizes(shape, big) ==
    LET leaf(n) == IF n \in big THEN Limit + 1 ELSE 1
        size[n \in {t, q, r, d, m, x, u}, depth \in 0..2] ==
            IF depth > 0 /\ n \in DOMAIN shape /\ shape[n].partitioned
            THEN MapThenSumSet(LAMBDA p : size[p, depth - 1], shape[n].partitions)
            ELSE leaf(n)
    IN [n \in {t, q, r, d, m, x, u} |-> size[n, 2]]

One(kind, options) == Alter(t, <<Action(kind, options)>>)

Attach(child, default) ==
    One("attach_partition", [partition |-> child, default |-> default])

Detach(child) == One("detach_partition", [partition |-> child])

-----------------------------------------------------------------------------
(* Partitioned tables and statements that reach the rows of a table.       *)

OnTable(kind, options) == Stmt(kind, [table |-> t] @@ options)

Constraint(options) == One("add_constraint", [name |-> k] @@ options)

PartitionStatements ==
    {OnTable(kind, <<>>) : kind \in {"create_trigger", "drop_trigger", "update", "insert", "cluster"}}
    \cup {OnTable("create_index", [name |-> i, only |-> o, concurrently |-> n]) : o, n \in BOOLEAN}
    \cup {OnTable(kind, [full |-> n]) : kind \in {"vacuum", "analyze"}, n \in BOOLEAN}
    \cup {Stmt(kind, [tables |-> n]) : kind \in {"vacuum", "cluster"}, n \in {{}, {t, u}}}
    \cup {Stmt("drop_index", [names |-> n, concurrently |-> o, intent |-> z]) :
             n \in {{i}, {i, k}}, o \in BOOLEAN, z \in {NoFact, t}}
    \cup {Stmt(kind, [tables |-> {n}, cascade |-> o]) :
             kind \in {"drop_table", "truncate"}, n \in {t, q, d}, o \in BOOLEAN}
    \cup {Stmt("reindex", [target |-> kind, name |-> IF kind = "table" THEN t ELSE i,
                           concurrently |-> o]) :
             kind \in {"table", "index", "schema"}, o \in BOOLEAN}
    \cup {OnTable("lock_table", [mode |-> n, only |-> o]) : n \in {1, 4, 7}, o \in BOOLEAN}
    \cup {Stmt("create_table", [table |-> x, partition_of |-> t]),
          Stmt("create_table", [table |-> x, references |-> {t, u}]),
          Stmt("attach_index", [name |-> i, partition |-> k]),
          Stmt("attach_index", [name |-> i, partition |-> k, intent |-> t]),
          Stmt("refresh_materialized_view", [table |-> u, with_data |-> TRUE]),
          Stmt("refresh_materialized_view", [table |-> u, with_data |-> FALSE]),
          Stmt("drop_view", [tables |-> {u}]), Stmt("comment_on", [table |-> t, object |-> "table"]),
          Stmt("comment_on", [table |-> t, object |-> "index"]),
          Stmt("drop_object", [object |-> "schema"]), Stmt("create_view", <<>>),
          Stmt("merge", [table |-> t])}

PartitionAlters ==
    {Attach(x, o) : o \in BOOLEAN}
    \cup {One("detach_partition", [partition |-> n, concurrently |-> o]) :
             n \in {q, d}, o \in BOOLEAN}
    \cup {One(kind, <<>>) : kind \in {"owner_to", "set_tablespace", "drop_not_null", "enable_trigger",
                                     "set_statistics", "inherit"}}
    \cup {One("set_parameters", [light |-> o]) : o \in BOOLEAN}
    \cup {One("set_not_null", [column |-> c])}
    \cup {Constraint([constraint |-> "check", not_valid |-> o]) : o \in BOOLEAN}
    \cup {One("add_constraint", [constraint |-> "check"])}
    \cup {Constraint([constraint |-> "unique", using_index |-> o]) : o \in BOOLEAN}
    \cup {[Constraint([constraint |-> "exclude"]) EXCEPT !.only = TRUE],
          Alter(t, <<Action("drop_not_null", <<>>),
                     Action("add_constraint", [constraint |-> "check", name |-> k])>>),
          Alter(t, <<Action("set_not_null", [column |-> c]), Action("set_tablespace", <<>>)>>)}

VersionStatements ==
    {Constraint([constraint |-> "foreign_key", references |-> u, not_valid |-> o]) : o \in BOOLEAN}
    \cup {Constraint([constraint |-> n]) : n \in {"unique", "exclude"}}

Indexed(name, table, constraint) ==
    [name |-> name, table |-> table, columns |-> {c}, constraint |-> constraint]

RunsBefore ==
    {<<>>, <<Attach(x, FALSE)>>, <<Attach(x, TRUE)>>, <<Detach(q)>>, <<Detach(d)>>,
     <<Stmt("create_table", [table |-> x, partition_of |-> t])>>,
     <<Stmt("create_index", [table |-> t, name |-> i])>>,
     <<Stmt("drop_table", [tables |-> {t}]), Stmt("create_table", [table |-> t])>>}

(* A statement the server takes in the shape: x is attached once, and only *)
(* to a partitioned table, and a partition is detached once.               *)
Fits(shape, before) ==
    \A n \in DOMAIN before : before[n].kind = "alter_table" =>
        /\ before[n].actions[1].kind = "attach_partition" =>
               /\ t \in DOMAIN shape /\ shape[t].partitioned
               /\ before[n].actions[1].default => shape[t].default = NoTable
        /\ before[n].actions[1].kind = "detach_partition" =>
               /\ t \in DOMAIN shape
               /\ before[n].actions[1].partition \in shape[t].partitions

PartitionServer(shape, big, version, indexes) ==
    Server([relations |-> shape, rows |-> Sizes(shape, big), version |-> version,
            indexed |-> {[table |-> n, column |-> c, collation |-> NoFact] : n \in indexes},
            schema |-> Schema([indexes |-> {Indexed(i, n, FALSE) : n \in indexes}])])

OnPartitions ==
    \E s \in DOMAIN Shapes, n \in {{}, {t}}, big \in {{}, {d}}, b \in RunsBefore :
        /\ Fits(Shapes[s], b)
        /\ Begin("postgres", "partitions", PartitionServer(Shapes[s], big, 16, n), b,
                 {"sizes", "partitions", "indexes"})

OnVersions ==
    \E s \in DOMAIN Shapes, v \in {12, 17, 18}, b \in RunsBefore :
        /\ Fits(Shapes[s], b)
        /\ Begin("postgres", "versions", PartitionServer(Shapes[s], {}, v, {}), b,
                 {"settings", "partitions"})

-----------------------------------------------------------------------------
(* Column types.                                                           *)

Types ==
    {Varchar10, Type("varchar", <<20>>), Type("varchar", <<>>), Type("text", <<>>),
     Type("numeric", <<8, 2>>), Type("numeric", <<9, 2>>), Type("numeric", <<9, 3>>),
     Type("timestamp", <<>>), Type("timestamptz", <<>>), Type("integer", <<>>),
     Type("mood", <<>>), Type("varchar", NoFact), ArrayOf("varchar", <<10>>), ArrayOf("varchar", <<>>)}

(* An index on an expression is in the index read and not in the schema.   *)
TypeServer(old, zone, collation, shown) ==
    Server([zone |-> zone,
            indexed |-> IF collation = "none" THEN {}
                        ELSE {[table |-> t, column |-> c, collation |-> collation]},
            arrays |-> IF old.array THEN <<t, c>> :> old ELSE <<>>,
            schema |-> Schema([columns |-> {Column(IF old.array THEN Postgres!ARRAY ELSE old)},
                               indexes |-> IF shown THEN {Indexed(i, t, FALSE)} ELSE {}])])

Collations(old) == {"none"} \cup (IF old.base \in {"varchar", "text"} THEN {"default", "C"} ELSE {NoFact})

TypeStatements ==
    {One("alter_column_type", [column |-> c, type |-> new, collate |-> o]) :
        new \in Types, o \in {NoFact, "C"}}

OnTypes ==
    \E old \in Types, zone \in {"UTC", "other"}, shown \in BOOLEAN :
        \E n \in Collations(old) :
            /\ shown => n # "none"
            /\ Begin("postgres", "types", TypeServer(old, zone, n, shown), <<>>,
                     {"settings", "arrays", "partitions"} \cup
                     IF n = "C" /\ ~CollationUnread THEN {} ELSE {"indexes"})

-----------------------------------------------------------------------------
(* New columns: what fills them, and domains, which may check each row.    *)

Domain(name, constrained, over) ==
    Stmt("create_object", [object |-> "domain", name |-> name, constrained |-> constrained,
                           over |-> over])

DomainRuns ==
    {<<>>, <<Stmt("drop_object", [object |-> "domain", name |-> "mood"])>>}
    \cup {<<Domain("state", o, over)>> :
             o \in BOOLEAN, over \in {Varchar10, Type("mood", <<>>), ArrayOf("mood", <<>>)}}
    \cup {<<Domain("state", FALSE, Type("mood", <<>>)), Domain("mood", o, Varchar10)>> :
             o \in BOOLEAN}

ColumnStatements ==
    {One("add_column", [column |-> l, type |-> n, fills |-> z]) :
        n \in {Varchar10, Type("mood", <<>>), Type("state", <<>>), ArrayOf("mood", <<>>)},
        z \in {"no", "serial", "volatile", "perhaps", "unread"}}
    \cup {One("add_column", [column |-> l, type |-> Type(n, <<>>)] @@ o) :
            n \in {"integer", "mood"},
            o \in {[primary_key |-> TRUE], [not_null |-> TRUE], [check |-> TRUE],
                   [references |-> u], [not_null |-> TRUE, default |-> TRUE]}}

OnColumns ==
    \E s \in {"alone", "parent"}, o \in BOOLEAN, b \in DomainRuns :
        Begin("postgres", "columns",
              Server([relations |-> Shapes[s], types |-> "mood" :> o @@ "state" :> FALSE,
                      rows |-> Sizes(Shapes[s], {t})]), b, {"types", "partitions"})

-----------------------------------------------------------------------------
(* Keys, checks and foreign keys from the schema read.                     *)

ForeignKey(name, table, target) ==
    [name |-> name, table |-> table, columns |-> {c}, target |-> target, keys |-> {c}]

Check(valid) == [name |-> held, table |-> t, column |-> c, valid |-> valid]

Proof(not_valid) ==
    One("add_constraint", [constraint |-> "check", name |-> proof, proves |-> c,
                           not_valid |-> not_valid])

KeyRuns ==
    {<<>>, <<Proof(TRUE)>>, <<Proof(FALSE)>>,
     <<Proof(TRUE), One("validate_constraint", [name |-> proof])>>,
     <<Proof(FALSE), One("drop_constraint", [name |-> proof])>>,
     <<One("drop_constraint", [name |-> held])>>}

KeyStatements ==
    {One(kind, [column |-> c, cascade |-> o]) : kind \in {"drop_column"}, o \in BOOLEAN}
    \cup {One(kind, [name |-> n, cascade |-> o]) :
            kind \in {"drop_constraint", "validate_constraint"}, n \in {k, l, held}, o \in BOOLEAN}
    \cup {One("set_not_null", [column |-> c]),
          One("alter_column_type", [column |-> c, type |-> Type("text", <<>>)]),
          One("alter_column_type", [column |-> c, type |-> Type("text", <<>>), using |-> TRUE]),
          One("add_constraint", [constraint |-> "foreign_key", references |-> u, name |-> l]),
          One("add_constraint", [constraint |-> "check", name |-> l]),
          One("add_constraint", [constraint |-> "unique", name |-> l])}
    \cup {Stmt(kind, [tables |-> n, cascade |-> o]) :
            kind \in {"drop_table", "truncate"}, n \in {{t}, {u}, {t, u}}, o \in BOOLEAN}

OnKeys ==
    \E s \in {"alone", "parent"}, valid \in BOOLEAN, b \in KeyRuns,
       fks \in {{}, {ForeignKey(k, t, u)}, {ForeignKey(k, u, t), ForeignKey(l, x, u)}} :
        Begin("postgres", "keys",
              Server([relations |-> Shapes[s], version |-> 18, rows |-> Sizes(Shapes[s], {}),
                      schema |-> Schema([fks |-> fks, checks |-> {Check(valid)},
                                         indexes |-> {Indexed(l, t, TRUE)}])]),
              b, {"sizes", "partitions", "indexes"})

-----------------------------------------------------------------------------
(* InnoDB.                                                                 *)

InnodbType(base, length) == [base |-> base, length |-> length, members |-> <<>>]
Enum(members) == [base |-> "enum", length |-> 0, members |-> members]

Collation(charset, name) == [charset |-> charset, name |-> name]
General == Collation("utf8mb4", "general")

Spec0(type, collation) ==
    [table |-> t, column |-> c, type |-> type, collation |-> collation, nullable |-> TRUE,
     identity |-> FALSE]

Storage(format, fulltext, versions) ==
    [format |-> format, collation |-> General, fulltext |-> fulltext, versions |-> versions]

InnodbServer(profile, version, storage, schema) ==
    [profile |-> profile, version |-> version, checks |-> TRUE,
     rows |-> [n \in {t, u} |-> 1], storage |-> t :> storage, schema |-> Schema(schema)]

InnodbServers == {<<"mysql", 80019>>, <<"mysql", 80029>>, <<"mysql", 90100>>,
                  <<"mariadb", 100600>>, <<"mariadb", 110200>>}

Option(kind, option, value) == One(kind, [option |-> option, value |-> value])

StorageRuns ==
    {<<>>, <<One("add_column", [column |-> l])>>, <<One("force", <<>>)>>,
     <<One("add_index", [fulltext |-> TRUE])>>, <<Option("table_option", "row_format", "COMPRESSED")>>,
     <<Stmt("optimize_table", [tables |-> {t}])>>, <<Stmt("create_table", [table |-> t])>>,
     <<Stmt("set", [name |-> "foreign_key_checks", value |-> "off"])>>,
     <<One("add_column", [column |-> l]), One("drop_column", [column |-> l])>>}

InnodbActions ==
    {Action("add_column", [column |-> l] @@ o) :
        o \in {<<>>, [position |-> TRUE], [unique |-> TRUE], [check |-> TRUE], [references |-> u]}
             \cup {[fills |-> n] : n \in {"stored", "expression", "volatile", "identity"}}}
    \cup {Action("drop_column", [column |-> n]) : n \in {c, l}}
    \cup {Action(kind, <<>>) : kind \in {"set_default", "rename_to", "rename_column", "rename_index",
                                        "convert_charset", "force"}}
    \cup {Action("add_index", o) : o \in {<<>>, [fulltext |-> TRUE], [spatial |-> TRUE]}}
    \cup {Action("drop_index", [name |-> n]) : n \in {i, MySQL!PRIMARY}}
    \cup {Action("add_constraint", [constraint |-> n, references |-> IF n = "foreign_key" THEN u ELSE NoFact]) :
            n \in {"primary_key", "unique", "foreign_key", "check", "other"}}
    \cup {Action("drop_constraint", [name |-> n]) : n \in {k, i, held, l, MySQL!PRIMARY}}
    \cup {Action("drop_constraint", [constraint |-> "primary_key"]),
          Action("add_constraint", [constraint |-> "unique", hashed |-> TRUE]),
          Action("change_column", [column |-> c, new |-> l, type |-> Spec0(InnodbType("varchar", 50), NoFact).type])}
    \cup {Action("engine", [option |-> n]) : n \in {"INNODB", "MYISAM"}}
    \cup {Action("table_option", [option |-> n]) : n \in {"key_block_size", "comment"}}
    \cup {Action("index_visibility", [option |-> n]) : n \in {"IGNORED", "INVISIBLE"}}

InnodbStatements ==
    {Alter(t, <<z>>) : z \in InnodbActions}
    \cup {Alter(t, <<y, z>>) :
            y \in {Action("add_column", [column |-> l]), Action("drop_constraint", [constraint |-> "primary_key"])},
            z \in {Action("add_index", <<>>), Action("force", <<>>), Action("drop_index", [name |-> i]),
                   Action("rename_column", <<>>), Action("add_constraint", [constraint |-> "primary_key"])}}
    \cup {OnTable("create_index", o) : o \in {<<>>, [fulltext |-> TRUE], [spatial |-> TRUE],
                                             [unique |-> TRUE, hashed |-> TRUE]}}
    \cup {OnTable("drop_index", [name |-> n]) : n \in {i, MySQL!PRIMARY}}
    \cup {OnTable(kind, <<>>) : kind \in {"update", "insert", "create_trigger", "analyze"}}
    \cup {Stmt(kind, [tables |-> {t}]) :
            kind \in {"drop_table", "truncate", "optimize_table", "rename_table", "drop_view"}}
    \cup {Stmt("drop_trigger", <<>>), Stmt("create_view", <<>>),
          Stmt("create_table", [table |-> x, references |-> {t, x}])}

(* The statements that take a clause, with the clauses they may spell.     *)
Clauses ==
    {[algorithm |-> n, lock |-> o] : n \in {NoFact} \cup 0..3, o \in {NoFact} \cup 0..2}
    \cup {[online |-> TRUE], [ignore |-> TRUE], [wait |-> TRUE]}

SpelledStatements ==
    {o @@ z : o \in Clauses,
              z \in {y \in InnodbStatements : y.kind \in {"alter_table", "create_index", "drop_index"}}}

InnodbSchema ==
    [fks |-> {ForeignKey(k, t, u)}, checks |-> {Check(TRUE)}, indexes |-> {Indexed(i, t, FALSE)},
     columns |-> {Spec0(InnodbType("varchar", 50), General)}]

OnStorage ==
    \E v \in InnodbServers, z \in {"DYNAMIC", "COMPRESSED"}, fulltext \in BOOLEAN,
       n \in {0, 63, 64}, b \in StorageRuns :
        /\ n > 0 => v[1] = "mysql" /\ v[2] >= 80029
        /\ Begin("mysql", "storage",
                 InnodbServer(v[1], v[2], Storage(z, fulltext, n), InnodbSchema), b,
                 {"settings", "row_versions"} \cup
                 IF fulltext /\ ~FulltextUnread THEN {} ELSE {"sizes", "fulltext"})

OnClauses ==
    \E v \in InnodbServers, z \in {"DYNAMIC", "COMPRESSED"} :
        Begin("mysql", "clauses",
              InnodbServer(v[1], v[2], Storage(z, FALSE, 0), InnodbSchema), <<>>, {})

InnodbTypes ==
    {InnodbType("varchar", n) : n \in {50, 63, 64, 100, 200, 256}}
    \cup {InnodbType("varbinary", n) : n \in {200, 300}}
    \cup {InnodbType("int", 0), Enum(<<"a">>), Enum(<<"a", "b">>), Enum(<<"b", "a">>)}

TextCollations ==
    {Collation("utf8mb3", "general"), General, Collation("utf8mb4", "0900"),
     Collation("latin1", "swedish"), Collation("other", "general")}

Collated(type) == type.base \in {"varchar", "enum"}

OnModifies ==
    \E v \in InnodbServers, old \in InnodbTypes, z \in {"DYNAMIC", "REDUNDANT"},
       n \in TextCollations \cup {NoFact}, used \in BOOLEAN :
        /\ (n = NoFact) = ~Collated(old)
        /\ Begin("mysql", "modifies",
                 InnodbServer(v[1], v[2], Storage(z, FALSE, 0),
                              [columns |-> {Spec0(old, n)},
                               indexes |-> IF used THEN {Indexed(i, t, FALSE)} ELSE {}]),
                 <<>>, {"sizes"})

Modify(options) == One("modify_column", [column |-> c] @@ options)

ModifyStatements ==
    {Modify([type |-> n]) : n \in InnodbTypes}
    \cup {Modify([type |-> InnodbType("varchar", 100), collate |-> n]) : n \in TextCollations}
    \cup {Modify([type |-> InnodbType("varchar", 64), charset |-> n.charset]) : n \in TextCollations}
    \cup {Modify([type |-> InnodbType("varchar", 100)] @@ o) :
            o \in {[position |-> TRUE], [not_null |-> TRUE], [fills |-> "identity"], [fills |-> "stored"]}}
    \cup {Modify([type |-> InnodbType("varchar", 100),
                  intent |-> [kind |-> n, from_type |-> InnodbType("varchar", 50),
                              to_type |-> InnodbType("varchar", 100)]]) :
            n \in {"alter_column_type", "set_not_null", "set_column_comment"}}
    \cup {Alter(t, <<Action("modify_column", [column |-> l, type |-> InnodbType("int", 0)])>>)}

-----------------------------------------------------------------------------
(* SQL Server.                                                             *)

Tsql(base, length) == [base |-> base, length |-> length]

TsqlServer(version, enterprise, index) ==
    [version |-> version, enterprise |-> enterprise, row_versions |-> version = 16,
     rows |-> [n \in {t, u} |-> IF n = t THEN Limit + 1 ELSE 1],
     clustered |-> [n \in {t, u} |-> IF n = t THEN index ELSE MSSQL!HEAP],
     schema |-> [columns |-> {[table |-> t, column |-> c, type |-> Tsql("varchar", 10), nullable |-> TRUE],
                              [table |-> t, column |-> k, type |-> Tsql("int", NoFact), nullable |-> FALSE]},
                 fks |-> {[name |-> l, table |-> t, columns |-> {c}, target |-> u, keys |-> {k}]},
                 indexes |-> {Indexed(i, t, FALSE)}, triggers |-> {[name |-> i, table |-> t]}]]

(* held is a clustered index that no statement names.                      *)
OnTsql ==
    \E v \in {11, 12, 14, 16}, o \in BOOLEAN, n \in {MSSQL!HEAP, i, k, held},
       b \in {<<>>, <<Stmt("drop_table", [tables |-> {t}]), Stmt("create_table", [table |-> t])>>} :
        Begin("mssql", "tsql", TsqlServer(v, o, n), b,
              {"settings", "snapshot"} \cup
              IF n = held \/ ClusteredUnread THEN {"sizes"} ELSE {})

TsqlColumns ==
    {One("add_column", [column |-> l, default |-> TRUE, type |-> n, not_null |-> o, with_values |-> z]) :
        n \in {NoFact, Tsql("int", NoFact), Tsql("varchar", MSSQL!MAX), Tsql("xml", NoFact),
               Tsql("rowversion", NoFact), Tsql("point", NoFact)}, o, z \in BOOLEAN}
    \cup {One("add_column", [column |-> l, type |-> Tsql("int", NoFact), fills |-> n,
                             default |-> n \in {"volatile", "unread"}, not_null |-> TRUE]) :
             n \in {"no", "identity", "stored", "virtual", "volatile", "unread"}}
    \cup {One("alter_column", [column |-> n, type |-> z, not_null |-> o, online |-> w]) :
             n \in {c, k, l}, o, w \in BOOLEAN,
             z \in {Tsql("int", NoFact), Tsql("varchar", 20), Tsql("varchar", 5), Tsql("varchar", MSSQL!MAX)}}
    \cup {One("alter_column", [column |-> c, type |-> Tsql("varchar", 10), not_null |-> TRUE,
                               from_type |-> Tsql("varchar", 10), intent |-> n]) :
             n \in {"set_not_null", "drop_not_null"}}

TsqlKeys ==
    {[Constraint([constraint |-> n, references |-> IF n = "foreign_key" THEN u ELSE NoFact])
        EXCEPT !.nocheck = o] : n \in {"check", "foreign_key"}, o \in {NoFact, TRUE}}
    \cup {Constraint([constraint |-> n, clustered |-> o] @@ w) :
             n \in {"primary_key", "unique", "exclude"}, o \in {NoFact, TRUE, FALSE},
             w \in {<<>>, [online |-> TRUE], [online |-> TRUE, resumable |-> TRUE],
                    [resumable |-> TRUE], [fillfactor |-> TRUE]}}
    \cup {One("drop_constraint", [name |-> n]) : n \in {NoFact, k, l}}
    \cup {[One(z, [name |-> n]) EXCEPT !.nocheck = o] :
             z \in {"enable_constraint", "disable_constraint"}, n \in {NoFact, l}, o \in {NoFact, FALSE}}
    \cup {One("rebuild", [online |-> TRUE, low_priority |-> n]) : n \in {NoFact, "self", "none"}}
    \cup {One("switch", [partition |-> u, low_priority |-> n]) : n \in {NoFact, "blockers"}}
    \cup {One("rebuild", <<>>), One("rename_column", [column |-> c]), One("force", <<>>)}

TsqlClauses ==
    {<<>>, [online |-> TRUE], [online |-> TRUE, resumable |-> TRUE], [resumable |-> TRUE],
     [online |-> TRUE, low_priority |-> "self"], [fillfactor |-> TRUE]}

TsqlStatements ==
    TsqlColumns \cup TsqlKeys
    \cup {OnTable("create_index", [name |-> x, clustered |-> o] @@ w) :
             o \in BOOLEAN, w \in TsqlClauses}
    \cup {OnTable("alter_index", [name |-> n, mode |-> "rebuild"] @@ w) :
             n \in {NoFact, i}, w \in TsqlClauses}
    \cup {OnTable("alter_index", [name |-> n, mode |-> z]) :
             n \in {NoFact, i}, z \in {"reorganize", "disable", "set"}}
    \cup {Stmt("drop_index", [names |-> n, intent |-> z]) : n \in {{i}, {i, x}}, z \in {NoFact, t}}
    \cup {OnTable("drop_index", [names |-> {i}]), OnTable("update_statistics", <<>>),
          Stmt("create_trigger", [name |-> i]), Stmt("drop_trigger", [name |-> x]),
          OnTable("create_trigger", <<>>), Stmt("create_table", [table |-> x, references |-> {t}]),
          OnTable("insert", <<>>), Stmt("create_view", <<>>), OnTable("merge", <<>>)}
    \cup {OnTable(n, [whole |-> o]) : n \in {"update", "delete"}, o \in BOOLEAN}
    \cup {Stmt(n, [tables |-> {t}]) : n \in {"drop_table", "truncate", "rename_table"}}

-----------------------------------------------------------------------------
(* SQLite and DuckDB.                                                      *)

FileServer(size, wal) ==
    [wal |-> wal, rows |-> [n \in {t, u} |-> size],
     schema |-> [columns |-> {Column(Varchar10)}, fks |-> {}, indexes |-> {Indexed(i, t, FALSE)}]]

OnFile ==
    \E e \in {"sqlite", "duckdb"}, size \in {0, 1, Limit + 1}, wal \in BOOLEAN,
       b \in {<<>>, <<Stmt("create_table", [table |-> x])>>,
              <<Stmt("drop_table", [tables |-> {t}]), Stmt("create_table", [table |-> t])>>} :
        Begin(e, "file", FileServer(size, wal), b, {"settings", "sizes"})

FileStatements ==
    {One("add_column", [column |-> l, not_null |-> o, check |-> z, default |-> w, fills |-> n]) :
        o, z, w \in BOOLEAN, n \in {"no", "expression", "stored", "virtual"}}
    \cup {One("add_column", [column |-> l, default |-> TRUE, fills |-> n]) : n \in {"volatile", "unread"}}
    \cup {One("add_column", [column |-> l] @@ o) : o \in {[unique |-> TRUE], [primary_key |-> TRUE]}}
    \cup {One(n, [column |-> c]) :
             n \in {"drop_column", "rename_column", "rename_to", "alter_column_type", "set_not_null",
                    "drop_not_null"}}
    \cup {OnTable("create_index", [name |-> l]), Stmt("analyze", [tables |-> {}]), Stmt("vacuum", <<>>),
          Stmt("drop_index", [names |-> {i}]), Stmt("drop_index", [names |-> {k}, intent |-> t]),
          Stmt("create_view", <<>>), OnTable("create_trigger", <<>>), Stmt("comment_on", <<>>),
          Stmt("create_table", [table |-> u, references |-> {t}]), Stmt("set", <<>>)}
    \cup {Stmt("reindex", [name |-> n]) : n \in {NoFact, i, t, k}}
    \cup {OnTable(n, [tables |-> {t}]) : n \in {"drop_table", "update", "delete", "truncate", "analyze"}}
    \cup {Stmt("insert", [table |-> n, source |-> o, reads |-> z]) :
             n \in {t, x}, o \in {NoFact, "select"}, z \in {NoFact, {}, {t, u}}}
    \cup {Stmt("create_table", [table |-> k, source |-> "select", reads |-> z]) : z \in {NoFact, {}, {t}}}
    \cup {Stmt("insert", [table |-> k, source |-> "select", reads |-> {t}, intent |-> t])}

-----------------------------------------------------------------------------
CONSTANT Families   \* the families of scenarios to check

Init ==
    \/ "partitions" \in Families /\ OnPartitions
    \/ "versions" \in Families /\ OnVersions
    \/ "types" \in Families /\ OnTypes
    \/ "columns" \in Families /\ OnColumns
    \/ "keys" \in Families /\ OnKeys
    \/ "storage" \in Families /\ OnStorage
    \/ "clauses" \in Families /\ OnClauses
    \/ "modifies" \in Families /\ OnModifies
    \/ "tsql" \in Families /\ OnTsql
    \/ "file" \in Families /\ OnFile

Statements ==
    [partitions |-> PartitionStatements \cup PartitionAlters,
     versions   |-> VersionStatements,
     types      |-> TypeStatements,
     columns    |-> ColumnStatements,
     keys       |-> KeyStatements,
     storage    |-> InnodbStatements,
     clauses    |-> SpelledStatements,
     modifies   |-> ModifyStatements,
     tsql       |-> TsqlStatements,
     file       |-> FileStatements]

NextInFamily ==
    \/ ReadFact
    \/ FailedRead
    \/ Statement
    \/ \E s \in Statements[scenario.family], o \in BOOLEAN : Judge(s, o)

Spec == Init /\ [][NextInFamily]_vars
=============================================================================
