----------------------------- MODULE FloatOrder -----------------------------
(***************************************************************************)
(* The comparisons of shaders/cmp_f64.metal, which Metal has no double for *)
(* and which therefore compare 64-bit patterns.  A pattern is a sign bit,  *)
(* an exponent and a mantissa, of any width.                               *)
(***************************************************************************)
EXTENDS Integers

CONSTANTS
  ManSize,    \* 2 ^ the bits of the mantissa
  ExpSize     \* 2 ^ the bits of the exponent

ASSUME FloatAssumption == ManSize \in Nat \ {0} /\ ExpSize \in Nat \ {0, 1, 2}

SignBit == ManSize * ExpSize
Floats  == 0..(2 * SignBit - 1)

IsNegative(a) == a >= SignBit
Magnitude(a)  == IF IsNegative(a) THEN a - SignBit ELSE a

IsNan(a) ==
  LET exp == Magnitude(a) \div ManSize
      man == Magnitude(a) % ManSize
  IN  exp = ExpSize - 1 /\ man # 0

\* Shifting the sign out leaves nothing.
BothAreZero(a, b) == Magnitude(a) = 0 /\ Magnitude(b) = 0

\* a with its sign bit flipped, or with all bits flipped if it is negative.
TotalOrderKey(a) == IF IsNegative(a) THEN (2 * SignBit - 1) - a ELSE a + SignBit

\* Fault: zeros of different sign are told apart.
FloatCompareNoZero(op, a, b) ==
  IF IsNan(a) \/ IsNan(b) THEN op = "Ne"
  ELSE LET x == TotalOrderKey(a)  y == TotalOrderKey(b)
       IN  CASE op = "Eq" -> x = y  [] op = "Ne" -> x # y
             [] op = "Lt" -> x < y  [] op = "Le" -> x <= y
             [] op = "Gt" -> x > y  [] op = "Ge" -> x >= y

\* f64_eq and its siblings.
FloatCompare(op, a, b) ==
  IF IsNan(a) \/ IsNan(b) THEN op = "Ne"
  ELSE IF BothAreZero(a, b) THEN op \in {"Eq", "Le", "Ge"}
  ELSE LET x == TotalOrderKey(a)  y == TotalOrderKey(b)
       IN  CASE op = "Eq" -> a = b    [] op = "Ne" -> a # b
             [] op = "Lt" -> x < y    [] op = "Le" -> x <= y
             [] op = "Gt" -> x > y    [] op = "Ge" -> x >= y

-----------------------------------------------------------------------------
\* What the comparisons stand for.

Order(op, x, y) ==
  CASE op = "Eq" -> x = y    [] op = "Ne" -> x # y
    [] op = "Lt" -> x < y    [] op = "Le" -> x <= y
    [] op = "Gt" -> x > y    [] op = "Ge" -> x >= y

\* The powers of two.
Powers == LET power[n \in 0..ExpSize] == IF n = 0 THEN 1 ELSE 2 * power[n - 1] IN power

\* The number a pattern denotes, in units of the smallest subnormal; infinity is the next
\* number of its format.
Denotation(a) ==
  LET exp == Magnitude(a) \div ManSize
      man == Magnitude(a) % ManSize
      abs == IF exp = 0 THEN man ELSE (ManSize + man) * Powers[exp - 1]
  IN  IF IsNegative(a) THEN -abs ELSE abs

\* IEEE 754: NaN is unordered with everything, itself included.
IeeeCompare(op, a, b) ==
  IF IsNan(a) \/ IsNan(b) THEN op = "Ne" ELSE Order(op, Denotation(a), Denotation(b))

\* Polars: NaN equals NaN and is above every number.
PolarsCompare(op, a, b) ==
  IF IsNan(a) \/ IsNan(b)
    THEN LET rank(x) == IF IsNan(x) THEN 1 ELSE 0 IN Order(op, rank(a), rank(b))
    ELSE Order(op, Denotation(a), Denotation(b))

=============================================================================
