----------------------------- MODULE MCRecords ------------------------------
(* Texts that need every escape, three tables, and files that vary from a  *)
(* good one in what they leave out, in their sizes or in their key columns.*)
EXTENDS Records

ColumnNames == <<"a", "b", "c">>

C(s) == [t |-> "chars", s |-> s]
I(n) == [t |-> "int", s |-> <<n>>]

\* A primary key of two text columns, not in alphabetical order.
Pair == [fqtn |-> "d.t", name |-> [db |-> "d", table |-> "t"],
         columns |-> <<"b", "a">>, kinds |-> <<"text", "text">>,
         pk |-> <<"b", "a">>]
\* No primary key.
Loose == [fqtn |-> "d.u", name |-> [db |-> "d", table |-> "u"],
          columns |-> <<"a", "b">>, kinds |-> <<"json", "binary">>,
          pk |-> <<>>]
\* An integer key; the schema is one column wider than the rows.
Wide == [fqtn |-> "d.w", name |-> [db |-> "d", table |-> "w"],
         columns |-> <<"c", "a", "b">>,
         kinds |-> <<"text", "text", "text">>, pk |-> <<"c">>]

\* Nomios's own table, and those of the server.
Own(f, d, t) ==
             [fqtn |-> f, name |-> [db |-> d, table |-> t],
              columns |-> <<"a">>, kinds |-> <<"text">>, pk |-> <<"a">>]

KeyTexts == {Nil} \cup {C(s) : s \in
    {<<>>, <<"|">>, <<"\\">>, <<"N">>, <<"\\", "N">>, <<"|", "\\">>}}
Documents == {Nil, C(<<>>), C(<<"{", "}">>), C(<<"\"", "n", "\"">>), C(<<"null">>)}
Blobs == {Nil, C(<<>>), C(<<"\"">>), C(<<"\n", "n">>)}
Texts == {C(s) : s \in {<<"\"">>, <<"\n">>, <<"\r", "x00">>, <<"\t">>,
                        <<"x1f", "n">>, <<"\\", "n">>}}

Create(schema, row) ==
    [id |-> "i", schema |-> schema, op |-> "c", before |-> None, after |-> row,
     gtid |-> "", pos |-> 10]
Delete(schema, row) ==
    [id |-> "i", schema |-> schema, op |-> "d", before |-> row, after |-> None,
     gtid |-> "g", pos |-> 0]
Update(schema, row, new) ==
    [id |-> "i", schema |-> schema, op |-> "u", before |-> row, after |-> new,
     gtid |-> "g", pos |-> 7]

SomeChanges ==
         {Create(Pair, <<v, w>>) : v, w \in KeyTexts}
    \cup {Delete(Pair, <<v, C(<<"|">>)>>) : v \in KeyTexts}
    \cup {Update(Pair, <<v, C(<<>>)>>, <<C(<<"N">>), v>>) : v \in KeyTexts}
    \cup {Create(Loose, <<v, w>>) : v \in Documents, w \in Blobs}
    \cup {Update(Wide, <<I(n), v>>, <<I(n), C(<<"n">>)>>) :
            n \in {-1, 0, 12}, v \in Texts}
    \cup {Create(Own("d.nomios_state", "d", "nomios_state"), <<Nil>>)}
    \cup {Create(Own(n[1], n[2], "t"), <<Nil>>) : n \in
            {<<"mysql.t", "mysql">>, <<"sys.t", "sys">>,
             <<"performance_schema.t", "performance_schema">>,
             <<"information_schema.t", "information_schema">>}}

Good == [env |-> TRUE, id |-> TRUE, source |-> TRUE, sink |-> TRUE, port |-> 0,
         compression |-> TRUE, inflight |-> 0, store |-> "", addr |-> FALSE,
         db |-> TRUE, open |-> TRUE, queues |-> 0, capacity |-> 0, batch |-> 0,
         overrides |-> <<>>, include |-> {}, exclude |-> {}]
Sizes == {-1, 0, 1, 300}
SomeFiles ==
         {[Good EXCEPT ![f] = FALSE] : f \in {"env", "id", "source", "sink",
                                             "compression", "db", "open"}}
    \cup {[Good EXCEPT !.store = s, !.port = p, !.addr = a, !.db = b] :
            s \in {"", "mysql", "file", "redis"}, p \in {0, 3307}, a, b \in BOOLEAN}
    \cup {[Good EXCEPT !.queues = n, !.capacity = n, !.batch = m, !.inflight = m] :
            n, m \in Sizes}
    \cup {[Good EXCEPT !.overrides = o] : o \in
            {("d.t" :> <<"a">>), ("d.t" :> <<>>) @@ ("d.u" :> <<"b", "c">>)}}
    \cup {[Good EXCEPT !.include = i, !.exclude = x] :
            i \in {{[db |-> "*", table |-> "*"]}, {[db |-> "d", table |-> "nomios_state"],
                                                   [db |-> "d", table |-> "w"]}},
            x \in {{}, {[db |-> "d", table |-> "t"], [db |-> "[", table |-> "u"]}}}
=============================================================================
