--------------------------- MODULE MCGroupByQuery ---------------------------
(***************************************************************************)
(* Instances of GroupByQuery: the Filters of MCPredicateFilter by          *)
(* themselves, and GroupBys over a scan or over a Filter.                  *)
(***************************************************************************)
EXTENDS GroupByQuery, MCPredicateFilter

Key(x)           == [kind |-> "Column", name |-> x]
KeyExpr(x)       == [kind |-> "Binary", name |-> x]
Simple(op, x)    == [kind |-> "Simple", op |-> op, column |-> x]
Expression(op, x, y) == [kind |-> "Expression", op |-> op, lhs |-> x, rhs |-> y]
Length           == [kind |-> "Length"]
Keys(xs)         == [i \in DOMAIN xs |-> Key(xs[i])]

Query(c, input, keys, aggs) ==
  [height |-> c.height, frame |-> c.frame, predicate |-> c.predicate, entry |-> c.entry,
   input |-> input, keys |-> keys, aggs |-> aggs]

\* Four rows; a sliced column, nulls, equal strings and equal keys of several columns.
Table == [b |-> Of("Bool", <<TRUE, FALSE, TRUE, FALSE>>), n |-> Slice("I32", <<7, Null, Null, 1, 1>>),
          i |-> Of("I64", <<-1, 1, -1, Null>>),           j |-> Of("I64", <<0, 0, Null, 1>>),
          s |-> Of("Utf8", <<"x", "", "x", Null>>),       f |-> Of("F32", <<8, 0, 0, 3>>),
          d |-> Of("Date", <<1, 1, 2, Null>>),            u |-> Of("U64", <<1, 2, 3, 4>>)]

Scanned(keys, aggs) == Query(Case(4, Table, <<>>, "polars"), "scan", keys, aggs)

\* Lone keys, composite keys, keys too wide, and none.
KeyChoices == {Keys(<<"b">>), Keys(<<"s">>), Keys(<<"f">>), Keys(<<"b", "n">>), Keys(<<"n", "i">>),
               Keys(<<"s", "b", "n">>), Keys(<<"i", "j">>), <<>>}

\* Both paths, with a group of nulls alone, and what only Polars evaluates.
AggChoices == {<<Simple("Sum", "n")>>, <<Simple("Min", "n"), Length>>, <<Simple("Mean", "n"), Simple("Count", "f")>>,
               <<Simple("Max", "i"), Length>>, <<Expression("Sum", "i", "j")>>}

Rejected == {Scanned(Keys(<<"u">>), <<Length>>), Scanned(<<KeyExpr("n")>>, <<Length>>),
             Scanned(Keys(<<"b">>), <<Simple("Median", "n")>>), Scanned(Keys(<<"b">>), <<Simple("Sum", "s")>>)}

\* Lifted, and failing in the UDF or answered in an odd way.
Odd == {Scanned(Keys(<<"d">>), <<Length>>), Scanned(Keys(<<"n">>), <<Simple("Sum", "d")>>),
        Scanned(Keys(<<"n">>), <<Simple("Sum", "b")>>), Scanned(Keys(<<"n">>), <<Simple("Max", "b"), Length>>),
        Scanned(Keys(<<"b">>), <<>>)}

\* Over a Filter: rows left, none left, and no rows at all.
Above(height, k, keys, aggs) ==
  Query(Case(height, [a |-> Of("I64", <<1, 0, 1>>), m |-> Of("Bool", <<TRUE, Null, Null>>), n |-> Of("I32", <<1, 2, Null>>)],
             Compare("Ge", Column("a"), Literal("I64", k)), "polars"),
        "filter", keys, aggs)

Filtered == {Above(h, k, keys, aggs) : h \in {0, 3}, k \in {1, 2},
               keys \in {Keys(<<"m">>), Keys(<<"n">>), <<>>}, aggs \in {<<Simple("Min", "n")>>, <<Length, Length>>}}

\* Over a Filter that compares a NaN, a number above the literal and one below it.
MCNans == {Query(Case(3, [x |-> Of("F64", <<7, 4, 10>>), n |-> Of("I32", <<1, 2, 3>>)],
                      Compare(op, Column("x"), Literal("F64", 0)), "polars"),
                 "filter", keys, <<Simple("Sum", "n"), Length>>) : op \in Ops, keys \in {Keys(<<"n">>), <<>>}}

MCQueries == {Query(c, "none", <<>>, <<>>) : c \in MCCases}
               \cup {Scanned(keys, aggs) : keys \in KeyChoices, aggs \in AggChoices}
               \cup Rejected \cup Odd \cup Filtered \cup MCNans

=============================================================================
