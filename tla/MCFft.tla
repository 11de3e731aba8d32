-------------------------------- MODULE MCFft --------------------------------
(***************************************************************************)
(* Instances of Fft: bases of 2, 4 and 64 points, the sizes each sends to  *)
(* each algorithm, forward and inverse.                                    *)
(***************************************************************************)
EXTENDS Fft

MCOmega == <<6, 2293>>

\* A signal without symmetries.
Generic(n)    == [i \in 0..(n - 1) |-> <<(i * i * 5 + 3 * i + 7) % P, (i * i * i + 2) % P>>]

Binding(base, n, inverse, x) == [base |-> base, n |-> n, inverse |-> inverse, input |-> x]

Bindings(base, sizes, ways) == {Binding(base, n, way, Generic(n)) : n \in sizes, way \in ways}

MCCases ==
  Bindings(2, {0, 1, 2, 4, 8, 64}, BOOLEAN)
    \cup Bindings(4, {8, 20}, BOOLEAN) \cup Bindings(4, {5}, {TRUE})
    \cup Bindings(64, {3, 5, 6, 8, 11, 12, 16, 20, 24}, BOOLEAN)

=============================================================================
