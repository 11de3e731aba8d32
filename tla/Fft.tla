--------------------------------- MODULE Fft ---------------------------------
(***************************************************************************)
(* One FFT binding (_run_binding, fft_gpu_planar_core): the choice of the  *)
(* algorithm by size, the launches it makes, the threadgroups that run     *)
(* them (fft.metal), and the three transforms of Bluestein's algorithm.    *)
(* The planar and the interleaved variants index alike and are one here.   *)
(*                                                                         *)
(* A number is a pair modulo P, a prime that is 3 modulo 4: the pairs are  *)
(* a field with a square root of -1, a conjugation, and roots of unity of  *)
(* every order that divides P + 1, whose conjugates are their inverses.    *)
(* A codelet (_fft_radix.metal) is the transform of its size.              *)
(*                                                                         *)
(* What the threads of a threadgroup do between two barriers is one step;  *)
(* RaceFree is why their order does not matter.                            *)
(***************************************************************************)
EXTENDS Integers, SequencesExt

CONSTANTS
  P, Omega,  \* the field, and a root of unity of order P + 1
  MaxDepth,  \* FFT_MAX_RECURSION_DEPTH
  MaxSize,   \* 2^30 in the code
  Cases      \* n, inverse, input (n numbers, from 0) and base (FFT_BASE_MAX, a power of two)

VARIABLES
  case,    \* the binding
  phase,   \* "start", "run", "answered"
  answer,
  job,     \* the transform at hand: the binding's, or one of Bluestein's
  parts,   \* what Bluestein's transforms so far have given
  mem,     \* device memory, by word
  todo,    \* launches, and recursive passes, of the job
  tg       \* per threadgroup of the launch at hand: intervals done, threadgroup memory

fftVars == <<case, phase, answer, job, parts, mem, todo, tg>>

-----------------------------------------------------------------------------
\* Numbers.

Zero == <<0, 0>>
One  == <<1, 0>>
Plus(x, y)  == <<(x[1] + y[1]) % P, (x[2] + y[2]) % P>>
Times(x, y) == <<(x[1] * y[1] - x[2] * y[2]) % P, (x[1] * y[2] + x[2] * y[1]) % P>>
Conj(x)     == <<x[1], (-x[2]) % P>>

Power[k \in 0..P] ==
  IF k = 0 THEN One
  ELSE LET half == Power[k \div 2]
       IN  Times(Times(half, half), IF k % 2 = 1 THEN Omega ELSE One)

ASSUME RootAssumption ==
  /\ P % 4 = 3 /\ \A d \in 2..(P - 1) : P % d # 0
  /\ Times(Power[P], Omega) = One /\ \A k \in 1..P : Power[k] # One

\* e^(-2 pi i k / m), or its inverse.
Twiddle(k, m, inverse) == Power[((IF inverse THEN -k ELSE k) * ((P + 1) \div m)) % (P + 1)]

Reciprocal(n) == <<CHOOSE x \in 1..(P - 1) : (x * n) % P = 1, 0>>

\* The sum of F over 0..n-1.
SumBelow(n, F(_)) == LET sum[k \in 0..n] == IF k = 0 THEN Zero ELSE Plus(sum[k - 1], F(k - 1))
                     IN  sum[n]

\* dft_reference, and numpy.
Dft(n, x, inverse) ==
  [k \in 0..(n - 1) |-> Times(SumBelow(n, LAMBDA t : Times(x[t], Twiddle(k * t, n, inverse))),
                              IF inverse THEN Reciprocal(n) ELSE One)]

-----------------------------------------------------------------------------
\* The plan.

Base == case.base

\* 1 << k.
Shl[k \in 0..30] == IF k = 0 THEN 1 ELSE 2 * Shl[k - 1]

IsPow2(n) == \E k \in 0..30 : n = Shl[k]
Log2(n)   == CHOOSE k \in 0..30 : n = Shl[k]

ASSUME CaseAssumption == \A c \in Cases : c.n \in Nat /\ IsPow2(c.base)

\* factorize: the largest radices first; what they leave is 1 if n is smooth.
Radices(m) == {r \in 2..8 : m % r = 0}
Factorize(n) ==
  LET rest[m \in 1..n] ==
        IF Radices(m) = {} THEN [rem |-> m, radices |-> <<>>]
        ELSE LET less == rest[m \div Max(Radices(m))]
             IN  [rem |-> less.rem, radices |-> <<Max(Radices(m))>> \o less.radices]
  IN  rest[n]

IsSmooth(n) == Factorize(n).rem = 1

\* next_pow2(2n - 1), the length of Bluestein's convolution.
Padded(n) == Shl[CHOOSE k \in 0..30 : Shl[k] >= 2 * n - 1 /\ \A j \in 0..(k - 1) : Shl[j] < 2 * n - 1]
Fits(n)   == 2 * n - 1 <= Shl[30] /\ Padded(n) <= MaxSize

\* fft_gpu_planar_core, fft_gpu_buf.
Algorithm(n) ==
  CASE IsPow2(n) /\ n <= Base                               -> "stockham"
    [] IsPow2(n) /\ n > Base /\ n <= MaxSize                -> "fourstep"
    [] ~IsPow2(n) /\ n <= Base /\ IsSmooth(n)               -> "mixed"
    [] ~IsPow2(n) /\ ~(n <= Base /\ IsSmooth(n)) /\ Fits(n) -> "bluestein"
    [] OTHER                                                -> "unsupported"

Launch(kernel, len, batch) == [kernel |-> kernel, len |-> len, batch |-> batch]
Pass(len, batch, depth)    == [kernel |-> "pass", len |-> len, batch |-> batch, depth |-> depth]

\* fft_pass, one level.
Expanded(p) ==
  IF p.len <= Base THEN <<Launch("batched", p.len, p.batch)>>
  ELSE <<Launch("cols", p.len, p.batch), Launch("twiddle", p.len, p.batch),
         Pass(p.len \div Base, p.batch * Base, p.depth + 1),
         Launch("transpose", p.len, p.batch), Launch("copy", p.len, p.batch)>>

\* The launches of a job, and its buffers; fft_recursive_fourstep_planar stages the input, or its
\* conjugate, where the result is to be.
LaunchesOf(j) ==
  IF Algorithm(j.n) = "fourstep" THEN <<Pass(j.n, 1, 0)>> ELSE <<Launch(Algorithm(j.n), j.n, 1)>>

Buffers == {"in", "data", "scratch"}
BuffersOf(j) ==
  [w \in Buffers \X (0..(j.n - 1)) |->
    LET x == j.input[w[2]]
    IN  CASE w[1] = "in" -> x
          [] w[1] = "data" /\ Algorithm(j.n) = "fourstep" -> IF j.inverse THEN Conj(x) ELSE x
          [] OTHER -> Zero]

\* What the job has computed: the four steps are forward only.
ResultOf(j) ==
  [i \in 0..(j.n - 1) |->
    LET x == mem[<<"data", i>>]
    IN  IF Algorithm(j.n) = "fourstep" /\ j.inverse THEN Times(Conj(x), Reciprocal(j.n)) ELSE x]

-----------------------------------------------------------------------------
\* The kernels.  An item is what a thread does in one round of a loop: read the words from,
\* conjugate and multiply them by factors, transform them, write the words to.  Rounds with
\* different indices may be of different threads.

Item(index, from, to, by, conj) ==
  [index |-> index, from |-> from, to |-> to, by |-> by, conj |-> conj]
Move(index, from, to) == Item(index, <<from>>, <<to>>, <<One>>, FALSE)

Written(item, m, u) ==
  LET read(t) == IF item.conj THEN Conj(m[item.from[t]]) ELSE m[item.from[t]]
      size    == Len(item.from)
  IN  SumBelow(size, LAMBDA t : Times(Times(read(t + 1), item.by[t + 1]), Twiddle(t * (u - 1), size, FALSE)))

Run(items, m) ==
  LET outputs == UNION {Range(it.to) : it \in items}
      output(w) == LET it == CHOOSE i \in items : w \in Range(i.to)
                   IN  Written(it, m, CHOOSE u \in DOMAIN it.to : it.to[u] = w)
  IN  [w \in outputs |-> output(w)] @@ m

\* Rows and columns of a signal of the four steps.
L2(l)        == l.len \div Base
Elements(l)  == 0..(l.batch * l.len - 1)
RowOf(l, e)  == (e % l.len) \div L2(l)
ColOf(l, e)  == (e % l.len) % L2(l)

\* Fault: the modulus of the cross-twiddle is the size of the whole transform.
CrossTwiddleTop(l, e) == Twiddle(RowOf(l, e) * ColOf(l, e), job.n, FALSE)

\* fft_twiddle_mul.
CrossTwiddle(l, e) == Twiddle(RowOf(l, e) * ColOf(l, e), l.len, FALSE)

\* Fault: the transposition is in place.
TransposedInPlace(l, e) ==
  <<"data", (e \div l.len) * l.len + ColOf(l, e) * Base + RowOf(l, e)>>

\* fft_transpose.
Transposed(l, e) == <<"scratch", (e \div l.len) * l.len + ColOf(l, e) * Base + RowOf(l, e)>>

\* One thread per element.
ElementItem(l, e) ==
  CASE l.kernel = "twiddle"   ->
         Item(e, << <<"data", e>> >>, << <<"data", e>> >>, <<CrossTwiddle(l, e)>>, FALSE)
    [] l.kernel = "transpose" -> Move(e, <<"data", e>>, Transposed(l, e))
    [] l.kernel = "copy"      -> Move(e, <<"scratch", e>>, <<"data", e>>)

\* One threadgroup per signal, or per column: its points, and where they are in the buffer.
InPlace(l) == l.kernel \in {"batched", "cols"}
Points(l)  == IF l.kernel = "cols" THEN Base ELSE l.len
Place(l, g, i) ==
  IF l.kernel = "cols" THEN (g \div L2(l)) * l.len + (g % L2(l)) + i * L2(l) ELSE g * l.len + i

StageRadices(l) == IF l.kernel = "mixed" THEN Factorize(l.len).radices
                                         ELSE [k \in 1..Log2(Points(l)) |-> 2]

\* The points that k stages have combined.
Combined(radices) ==
  LET points[k \in 0..Len(radices)] == IF k = 0 THEN 1 ELSE points[k - 1] * radices[k]
  IN  points

\* stockham_pow2_tg and fft_mixed_radix_f32: stage k, from one array to the other.
\* fft_stockham_pow2_f32 alone inverts its twiddles.
Butterflies(l, k) ==
  LET r    == StageRadices(l)[k]
      done == Combined(StageRadices(l))[k - 1]
      m    == Points(l) \div r
      src  == IF k % 2 = 1 THEN "a" ELSE "b"
      dst  == IF k % 2 = 1 THEN "b" ELSE "a"
      butterfly(i) ==
        Item(i, [t \in 1..r |-> <<src, i + (t - 1) * m>>],
             [t \in 1..r |-> <<dst, (i \div done) * r * done + (i % done) + (t - 1) * done>>],
             [t \in 1..r |-> Twiddle((t - 1) * (i % done), r * done, job.inverse /\ l.kernel = "stockham")],
             FALSE)
  IN  {butterfly(i) : i \in 0..(m - 1)}

\* Between device memory and the two arrays; the result of an odd number of stages in place is
\* copied back.
Odd(l)  == Len(StageRadices(l)) % 2 = 1
Flip(l) == l.kernel = "mixed" /\ job.inverse

Loads(l, g) ==
  LET input == IF InPlace(l) THEN "data" ELSE "in"
  IN  {Item(i, << <<input, Place(l, g, i)>> >>, << <<"a", i>> >>, <<One>>, Flip(l)) : i \in 0..(Points(l) - 1)}

CopiesBack(l) == {Move(i, <<"b", i>>, <<"a", i>>) : i \in 0..(Points(l) - 1)}

Stores(l, g) ==
  LET scale  == IF ~InPlace(l) /\ job.inverse THEN Reciprocal(l.len) ELSE One
      result == IF Odd(l) /\ ~InPlace(l) THEN "b" ELSE "a"
  IN  {Item(i, << <<result, i>> >>, << <<"data", Place(l, g, i)>> >>, <<scale>>, Flip(l)) : i \in 0..(Points(l) - 1)}

\* What the threads of group g do between barriers.
Intervals(l, g) ==
  IF l.kernel \in {"twiddle", "transpose", "copy"} THEN <<{ElementItem(l, e) : e \in Elements(l)}>>
  ELSE <<Loads(l, g)>> \o [k \in 1..Len(StageRadices(l)) |-> Butterflies(l, k)]
         \o (IF Odd(l) /\ InPlace(l) THEN <<CopiesBack(l)>> ELSE <<>>) \o <<Stores(l, g)>>

Groups(l) == CASE l.kernel = "batched" -> 0..(l.batch - 1)
               [] l.kernel = "cols"    -> 0..(l.batch * L2(l) - 1)
               [] OTHER                -> {0}

-----------------------------------------------------------------------------
\* Bluestein's algorithm for n points: three transforms of Padded(n).

Chirp(n, m) == Twiddle((m * m) % (2 * n), 2 * n, FALSE)

Chirped ==
  LET n == case.n
      staged(i) == IF case.inverse THEN Conj(case.input[i]) ELSE case.input[i]
  IN  [i \in 0..(Padded(n) - 1) |-> IF i < n THEN Times(staged(i), Chirp(n, i)) ELSE Zero]

\* Fault: no negative lags.
FilterOneSided == [i \in 0..(Padded(case.n) - 1) |-> IF i < case.n THEN Conj(Chirp(case.n, i)) ELSE Zero]

\* Negative lags wrap to the top.
Filter ==
  LET n == case.n
      M == Padded(n)
  IN  [i \in 0..(M - 1) |-> CASE i < n     -> Conj(Chirp(n, i))
                              [] i > M - n -> Conj(Chirp(n, M - i))
                              [] OTHER     -> Zero]

Dechirped(conv) ==
  LET n == case.n
      x(k) == Times(Chirp(n, k), conv[k])
  IN  [k \in 0..(n - 1) |-> IF case.inverse THEN Times(Conj(x(k)), Reciprocal(n)) ELSE x(k)]

Job(n, inverse, input) == [n |-> n, inverse |-> inverse, input |-> input]

-----------------------------------------------------------------------------
\* The host.

NoJob == Job(0, FALSE, <<>>)

FftInit ==
  /\ case \in Cases
  /\ phase = "start" /\ answer = <<>> /\ job = NoJob /\ parts = <<>>
  /\ mem = <<>> /\ todo = <<>> /\ tg = <<>>

StartJob(j) ==
  /\ phase' = "run" /\ job' = j /\ mem' = BuffersOf(j) /\ todo' = LaunchesOf(j)
  /\ UNCHANGED <<case, answer, tg>>

AnswerWith(x) ==
  /\ phase' = "answered" /\ answer' = x
  /\ job' = NoJob /\ parts' = <<>> /\ mem' = <<>> /\ todo' = <<>> /\ tg' = <<>>
  /\ UNCHANGED case

\* _cpu_fft.
FallBack == AnswerWith(Dft(case.n, case.input, case.inverse))

Begin ==
  /\ phase = "start"
  /\ \/ case.n = 0 /\ AnswerWith(<<>>)
     \/ /\ case.n > 0 /\ Algorithm(case.n) = "unsupported"
        /\ FallBack
     \/ /\ case.n > 0 /\ Algorithm(case.n) = "bluestein"
        /\ StartJob(Job(Padded(case.n), FALSE, Chirped)) /\ UNCHANGED parts
     \/ /\ case.n > 0 /\ Algorithm(case.n) \notin {"unsupported", "bluestein"}
        /\ StartJob(Job(case.n, case.inverse, case.input)) /\ UNCHANGED parts

Running == phase = "run" /\ todo # <<>>

ExpandPass ==
  /\ Running /\ Head(todo).kernel = "pass"
  /\ IF Head(todo).depth > MaxDepth THEN FallBack
     ELSE /\ todo' = Expanded(Head(todo)) \o Tail(todo)
          /\ UNCHANGED <<case, phase, answer, job, parts, mem, tg>>

\* dispatch_1d, dispatch_1d_with_tg.
Dispatch ==
  /\ Running /\ Head(todo).kernel # "pass" /\ tg = <<>>
  /\ tg' = [g \in Groups(Head(todo)) |-> [done |-> 0, local |-> <<>>]]
  /\ UNCHANGED <<case, phase, answer, job, parts, mem, todo>>

Finished(g) == tg[g].done = Len(Intervals(Head(todo), g))

\* A threadgroup goes on to its next barrier, or to its end.
Advance(g) ==
  /\ ~Finished(g)
  /\ LET next  == Intervals(Head(todo), g)[tg[g].done + 1]
         after == Run(next, mem @@ tg[g].local)
         local == {w \in DOMAIN after : w[1] \notin Buffers}
     IN  /\ mem' = [w \in DOMAIN mem |-> after[w]]
         /\ tg' = [tg EXCEPT ![g] = [done |-> @.done + 1, local |-> [w \in local |-> after[w]]]]
  /\ UNCHANGED <<case, phase, answer, job, parts, todo>>

\* wait_until_complete.
Wait ==
  /\ tg # <<>> /\ \A g \in DOMAIN tg : Finished(g)
  /\ tg' = <<>> /\ todo' = Tail(todo)
  /\ UNCHANGED <<case, phase, answer, job, parts, mem>>

FinishJob ==
  /\ phase = "run" /\ todo = <<>>
  /\ LET got == ResultOf(job)
         M   == job.n
         chirpz == Algorithm(case.n) = "bluestein"
     IN  \/ ~chirpz /\ AnswerWith(got)
         \/ /\ chirpz /\ Len(parts) = 0
            /\ parts' = <<got>> /\ StartJob(Job(M, FALSE, Filter))
         \/ /\ chirpz /\ Len(parts) = 1
            /\ parts' = Append(parts, got)
            /\ StartJob(Job(M, TRUE, [i \in 0..(M - 1) |-> Times(parts[1][i], got[i])]))
         \/ chirpz /\ Len(parts) = 2 /\ AnswerWith(Dechirped(got))

\* An allocation, a pipeline, a dispatch or the device fails.
Fault == phase # "answered" /\ case.n > 0 /\ FallBack

Done == phase = "answered" /\ UNCHANGED fftVars

FftNext == Begin \/ ExpandPass \/ Dispatch \/ (\E g \in DOMAIN tg : Advance(g)) \/ Wait \/ FinishJob
        \/ Fault \/ Done

FftSpec == FftInit /\ [][FftNext]_fftVars

-----------------------------------------------------------------------------
\* Whichever algorithm its size selects, however deep it recurses and whatever fails, a binding
\* is answered with the discrete Fourier transform of its column (_run_binding).
AnswerIsDft == phase = "answered" => answer = Dft(case.n, case.input, case.inverse)

Conflicts(i, j) ==
  (Range(i.to) \cap (Range(j.from) \cup Range(j.to))) \cup (Range(j.to) \cap Range(i.from))

\* No thread touches what another one writes, unless a barrier orders the two: between two barriers
\* nothing at all, across the barriers of a threadgroup nothing in device memory (they are
\* mem_threadgroup), and across threadgroups nothing ("in-place over the shared data buffer is
\* safe", fft.metal).  What a launch touches is known when it is dispatched.
RaceFree ==
  tg # <<>> /\ (\A g \in DOMAIN tg : tg[g].done = 0) =>
    LET at == [g \in DOMAIN tg |-> Intervals(Head(todo), g)]
    IN  \A g, h \in DOMAIN tg : \A k \in DOMAIN at[g], m \in DOMAIN at[h] :
          \A i \in at[g][k], j \in at[h][m] :
            IF g = h /\ k = m THEN i # j => Conflicts(i, j) = {}
            ELSE g # h \/ i.index # j.index => \A w \in Conflicts(i, j) : w[1] \notin Buffers

=============================================================================
