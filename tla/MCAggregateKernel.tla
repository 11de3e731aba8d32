------------------------- MODULE MCAggregateKernel -------------------------
(* Instance of AggregateKernel for TLC. *)
EXTENDS AggregateKernel

\* Five rows on a grid of four threads, so that one strides over two rows.  The groups cross
\* threadgroups; the second column has more of them than MaxGroups.  Of 3-bit integers, two
\* threes wrap.
MCColumns ==
  {[values |-> v, groups |-> g] :
     v \in {u \in [1..5 -> {Null, -3, 3}] : u[1] # -3 /\ u[2] # 3 /\ u[4] # Null /\ u[5] # 3},
     g \in {<<0, 1, 0, 0, 1>>, <<0, 0, 1, 2, 0>>}}

MCQueries ==
  [dtype : {"I32", "F32"},
   aggs  : {<<op>> : op \in {"Sum", "Min", "Max", "Mean", "Count", "Len"}}]
  \cup [dtype : {"I64"}, aggs : {<<"Sum">>, <<"Max">>, <<"Mean">>}]
  \cup [dtype : {"F32"}, aggs : {<<"Mean", "Max">>}]
  \cup [dtype : {"I32"}, aggs : {<<"Min", "Sum">>, <<"Count", "Len">>}]

=============================================================================
