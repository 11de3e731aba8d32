--------------------------- MODULE MCHStackQuery ---------------------------
(***************************************************************************)
(* Instances of HStackQuery: the queries of MCGroupByQuery, and HStacks    *)
(* over a scan or over a Filter.                                           *)
(***************************************************************************)
EXTENDS HStackQuery, MCGroupByQuery

\* Expressions: the nodes of the operands, with their ids moved up, and one more.
Leaf(n)          == <<[args |-> <<>>] @@ n>>
Moved(e, k)      == [i \in DOMAIN e |-> [e[i] EXCEPT !.args = [j \in DOMAIN @ |-> @[j] + k]]]
Unary(n, e)      == e \o <<[args |-> <<Len(e)>>] @@ n>>
Binary(op, e, f) == e \o Moved(f, Len(e)) \o <<[op |-> op, args |-> <<Len(e), Len(e) + Len(f)>>]>>
When(c, e, f)    == c \o Moved(e, Len(c)) \o Moved(f, Len(c) + Len(e))
                      \o <<[op |-> "Where", args |-> <<Len(c), Len(c) + Len(e), Len(c) + Len(e) + Len(f)>>]>>

Col(x)           == Leaf([op |-> "Column", name |-> x])
Lit(tag, v)      == Leaf([op |-> "Literal", value |-> v, dtype |-> tag])

\* A comparison makes a Boolean, which a shift keeps, and b is one.
IsBoolean(n)     == \/ n.op \in CompareOps \cup {"And"} \/ (n.op = "Column" /\ n.name = "b")
                    \/ (n.op = "Shift" /\ n.from = "Bool")
From(e)          == [from |-> IF IsBoolean(Last(e)) THEN "Bool" ELSE "number"]
CastTo(tag, e)   == Unary([op |-> "Cast", to |-> tag] @@ From(e), e)
ShiftBy(e, w)    == Unary([op |-> "Shift", offset |-> w] @@ From(e), e)
Scan(op, e)      == Unary([op |-> op, reverse |-> FALSE] @@ From(e), e)
Backward(op, e)  == Unary([op |-> op, reverse |-> TRUE] @@ From(e), e)
AggregateOf(e)   == Unary([op |-> "Agg"] @@ From(e), e)

Bind(x, e)  == [name |-> x, expr |-> e]
One(e)      == <<<<Bind("z", e)>>>>

\* x has no null, v has, w has a NaN; integers with and without nulls.
Wide == [x |-> Slice("F32", <<9, -2, 3, -1, 2>>), v |-> Of("F32", <<1, Null, 2, Null>>),
         w |-> Of("F32", <<NaN, 1, Null, 2>>),     j |-> Of("I32", <<1, 0, 2, 3>>),
         i |-> Of("I32", <<Null, 1, 2, 0>>),       l |-> Of("I64", <<1, 2, Null, 3>>),
         n |-> Of("I64", <<1, 2, 0, 3>>),          m |-> Of("I8", <<2, 1, 3, 0>>),
         d |-> Of("F64", <<1, 2, 3, 4>>),          b |-> Of("Bool", <<TRUE, FALSE, TRUE, Null>>),
         t |-> Of("Date", <<1, 2, 3, 4>>)]

F(n) == Lit("F32", n)
I(n) == Lit("I32", n)
Over(x, k) == Binary("Gt", Col(x), F(k))

Chains ==
  {Binary("Add", Col(x), e) : x \in {"x", "v", "w"}, e \in {F(1), Col("v"), ShiftBy(Col("x"), 1), ShiftBy(Col("v"), 2)}}
    \cup {Binary("Add", Col(x), I(1)) : x \in {"i", "j"}}
    \cup {Binary("Add", Col("l"), Lit("I64", 1)), Binary("Add", Col("m"), Lit("I8", 1))}
    \cup {Scan("CumSum", Col(x)) : x \in {"m", "j"}}
    \cup {CastTo("F32", Binary(op, Col(x), F(2))) : op \in {"Lt", "Ne"}, x \in {"x", "v", "w"}}
    \cup {CastTo(tag, Col(x)) : tag \in {"F32", "F64"}, x \in {"i", "l", "d", "b", "t"}}
    \cup {CastTo("F32", Binary("And", Over("x", 0), Over(x, 1))) : x \in {"x", "v"}}
    \cup {CastTo("F32", e) : e \in {Scan("CumSum", Over("x", 1)), ShiftBy(Over("x", 1), 1),
                                                    Scan("CumSum", ShiftBy(Over("x", 0), 1))}}
    \cup {Scan(op, e) : op \in {"CumSum", "CumMax"},
            e \in {Col("x"), Col("v"), ShiftBy(Col("x"), 1), Binary("Add", ShiftBy(Col("x"), 1), F(1))}}
    \cup {ShiftBy(Scan("CumSum", Col("x")), 2), ShiftBy(ShiftBy(Col("x"), 1), 1), ShiftBy(Col("x"), -1), ShiftBy(Col("x"), 5), ShiftBy(Col("x"), 0),
          ShiftBy(Col("j"), 1), ShiftBy(Col("i"), 1), Backward("CumSum", Col("x")), Over("x", 0), Col("l"), F(2), Binary("Add", F(1), F(2)),
          AggregateOf(Col("v")), Binary("Add", Col("x"), AggregateOf(Col("x")))}

Conditions ==
  {Binary(op, Col(x), F(1)) : op \in Ops, x \in {"x", "v", "w"}}
    \cup {Binary("Gt", F(1), Col("v")), Binary("And", Over("x", 0), Over("v", 1)), Binary("And", Over("x", 0), Over("x", 2)),
          Binary("Gt", ShiftBy(Col("x"), 1), F(-1)), Binary("Gt", Col("j"), I(1)), Binary("Lt", Col("i"), I(2)), Binary("Lt", Col("l"), Lit("I64", 2)),
          Binary("Eq", CastTo("F32", Over("v", 1)), F(0)), Binary("Gt", Col("x"), AggregateOf(Col("v"))),
          Binary("Lt", CastTo("F32", Col("j")), F(2)), Col("b")}

Branches ==
  {When(c, e[1], e[2]) : c \in Conditions,
     e \in {<<Col("x"), Col("v")>>, <<Col("v"), F(7)>>, <<ShiftBy(Col("x"), 1), Col("x")>>, <<F(5), F(6)>>,
            <<Col("x"), Scan("CumSum", Col("x"))>>}}
    \cup {When(Binary("Gt", Col(x), I(1)), Col("j"), e) : x \in {"i", "j"}, e \in {Col("i"), I(4)}}
    \cup {When(Over("v", 1), Col("x"), When(Over("x", 0), Col("v"), F(3))),
          Binary("Add", When(Over("v", 1), Col("x"), F(4)), Col("v")),
          ShiftBy(When(Over("x", 0), ShiftBy(Col("x"), 1), Col("x")), 1),
          Scan("CumSum", When(Over("x", 0), ShiftBy(Col("x"), 1), Col("x")))}

\* Several columns at once, and HStacks on HStacks.
Plus1(x) == Binary("Add", Col(x), F(1))
Stacks ==
  {<<<<Bind("y", Plus1("x")), Bind("z", When(Over("v", 1), Col("v"), Col("x"))), Bind("k", Binary("Add", Col("i"), I(1)))>>>>,
   <<<<Bind("x", Plus1("v")), Bind("z", Plus1("x"))>>>>,
   <<<<Bind("y", ShiftBy(Col("x"), 1))>>, <<Bind("z", Plus1("y"))>>>>,
   <<<<Bind("y", ShiftBy(Col("x"), 1))>>, <<Bind("z", Scan("CumSum", Col("y")))>>>>,
   <<<<Bind("y", Plus1("x"))>>, <<Bind("z", When(Over("y", 1), Col("y"), Col("v")))>>, <<Bind("k", Binary("Add", Col("z"), Col("y")))>>>>,
   <<<<Bind("y", Plus1("x"))>>, <<Bind("z", CastTo("F32", Col("d"))), Bind("k", Over("y", 1))>>>>,
   <<<<Bind("x", ShiftBy(Col("x"), 1))>>, <<Bind("z", Plus1("x"))>>>>,
   <<<<Bind("x", Plus1("v"))>>, <<Bind("x", Plus1("x"))>>>>,
   <<<<Bind("y", Plus1("x")), Bind("z", CastTo("F32", Col("d")))>>>>,
   <<<<Bind("y", When(Binary("Gt", Col("n"), Lit("I64", 1)), F(1), F(2)))>>, <<Bind("z", Plus1("y"))>>>>,
   <<<<Bind("y", When(Binary("Gt", Col("j"), I(1)), F(1), F(2)))>>, <<Bind("z", Binary("Add", Col("y"), Col("x")))>>>>}

Stacked(c, layers) == Query(c, "none", <<>>, <<>>) @@ [layers |-> layers]
OverScan(h, layers) == Stacked(Case(h, Wide, <<>>, "compact"), layers)

\* A column that a compaction carries or not; rows left, none left; a predicate outside the set.
Narrow == [a |-> Of("I64", <<1, 0, 2, 1>>), l |-> Of("I64", <<4, Null, 5, Null>>)]
OverFiltered(frm, h, p, layers) == Stacked(Case(h, frm, p, "compact"), layers)
LayersOverFilter ==
  {One(CastTo("F32", Col("l"))), One(Binary("Add", CastTo("F32", Col("a")), F(1))), One(Binary("Add", Col("l"), Lit("I64", 1))),
   <<<<Bind("y", CastTo("F32", Col("a")))>>, <<Bind("z", Binary("Add", Col("y"), ShiftBy(Col("y"), 1)))>>>>}
FilterPredicates == {Compare("Ge", Column("a"), Literal("I64", k)) : k \in {1, 3}} \cup {<<Column("a")>>}

MCHStacks ==
  {OverScan(4, One(e)) : e \in Chains \cup Branches}
    \cup {OverScan(h, s) : h \in {0, 4}, s \in Stacks}
    \cup {OverFiltered(Narrow, h, p, s) : h \in {0, 4}, p \in FilterPredicates, s \in LayersOverFilter}
    \cup {OverFiltered([x |-> Of("F32", <<1, 2, 3, 4>>)] @@ Narrow, 4, p, One(Plus1("x"))) : p \in FilterPredicates}
    \cup {OverScan(4, One(Plus1(x))) : x \in {"missing"}}

\* The stacks in which a binding reads a column that a lower HStack has replaced.
MCRecomputed == {OverScan(4, s) : s \in Stacks}

MCCombined == {q @@ [layers |-> <<>>] : q \in MCQueries} \cup MCHStacks

=============================================================================
