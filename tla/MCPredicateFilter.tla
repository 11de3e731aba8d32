-------------------------- MODULE MCPredicateFilter --------------------------
(***************************************************************************)
(* Instances of PredicateFilter.  Floats have one bit of mantissa and two  *)
(* of exponent: sixteen patterns, among them two NaNs, both infinities,    *)
(* both zeros and the subnormals.                                          *)
(***************************************************************************)
EXTENDS PredicateFilter

Column(name)        == [kind |-> "Column", name |-> name]
Literal(tag, value) == [kind |-> "Literal", dtype |-> tag, value |-> value]
Compare(op, l, r)   == <<[kind |-> "Compare", op |-> op, lhs |-> l, rhs |-> r]>>
Both(op, p, q)      == p \o q \o <<[kind |-> op]>>
Of(tag, values)     == [dtype |-> tag, offset |-> 0, parent |-> values]
Slice(tag, values)  == [dtype |-> tag, offset |-> 1, parent |-> values]

Ops == {"Eq", "Ne", "Lt", "Le", "Gt", "Ge"}

\* A sliced column, nulls, and a Boolean column with a null.
Mixed == [a |-> Slice("I64", <<1, 0, Null, 1, -1>>), b |-> Of("I64", <<1, 0, 0, Null>>),
          m |-> Of("Bool", <<Null, TRUE, FALSE, TRUE>>)]

A0 == Compare("Gt", Column("a"), Literal("I64", 0))
Predicates ==
  {Compare(op, Column("a"), Column("b")) : op \in Ops}
    \cup {Compare(op, Literal("I64", 0), Column("a")) : op \in Ops}
    \cup {<<Column("m")>>}
    \cup {Both(op, A0, <<Column("m")>>) : op \in {"And", "Or"}}
    \cup {Both("Or", Compare("Lt", Column("b"), Literal("I64", 1)), Both("And", A0, <<Column("m")>>))}
    \* outside the closed set
    \cup {<<Column("a")>>, <<Literal("Bool", TRUE)>>, Compare("Eq", Column("a"), Literal("I64", Null)),
          Compare("Eq", Column("a"), Literal("F64", 0)), Compare("Eq", Literal("I64", 0), Literal("I64", 0))}

Case(height, frame, predicate, entry) ==
  [height |-> height, frame |-> frame, predicate |-> predicate, entry |-> entry]

Entries == {"compact", "polars"}

MixedCases == {Case(4, Mixed, p, e) : p \in Predicates, e \in Entries}

\* Every pair of patterns.
FloatFrame(u, v) == [x |-> Of("F64", <<u, v>>), y |-> Of("F64", <<v, Null>>)]
FloatCases == {Case(2, FloatFrame(u, v), Compare(op, Column("x"), rhs), "compact") :
                 u \in Floats, v \in {0, 7, 15, 8, 3, 14}, op \in Ops, rhs \in {Column("y"), Literal("F64", 9)}}

\* Columns that only one of the two ways can carry.
Carried(tag, value) == [a |-> Of("I64", <<1, 0>>), z |-> Of(tag, <<value, Null>>)]
CarryCases == {Case(2, Carried(z[1], z[2]), Compare("Ge", Column("a"), Literal("I64", k)), e) :
                 z \in {<<"I32", 1>>, <<"F32", 4>>, <<"Utf8", "s">>, <<"Date", 1>>, <<"Object", "o">>},
                 k \in {0, 1, 2}, e \in Entries}
WidenCases == {Case(2, Carried("I32", 1), Compare(op, Column("a"), Column("z")), e) :
                 op \in {"Eq", "Lt"}, e \in Entries}
EmptyCases == {Case(0, Mixed, p, e) : p \in {A0, Both("And", A0, <<Column("m")>>)}, e \in Entries}

MCCases == MixedCases \cup FloatCases \cup CarryCases \cup WidenCases \cup EmptyCases

=============================================================================
