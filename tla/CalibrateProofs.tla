-------------------------- MODULE CalibrateProofs --------------------------
(***************************************************************************)
(* The distributions the confidence map is fitted on are the ones the      *)
(* engine serves, and what it serves are probabilities, for any examples,  *)
(* groups and outcomes of the searches and for numbers of any length.      *)
(*                                                                         *)
(* The second result needs a theory of rounding, which comes first: the    *)
(* spacing of the numbers, what rounding to the nearest one keeps of an    *)
(* order between them, sums of a list.  On it rest the facts about the     *)
(* steps from logits to an answer, and on these the types of the fit.      *)
(***************************************************************************)
EXTENDS Calibrate, SequenceTheorems, FiniteSetTheorems, TLAPS

-----------------------------------------------------------------------------
(* Rounding, for any even number of significands.                          *)
PlusStep(p, q, r, acc, x) == Plus(acc, x)
Whatever(p, q, r, acc) == TRUE
SumLoop == INSTANCE Folding WITH Step <- PlusStep, Good <- Whatever

LEMMA Significant == Significands \in Nat /\ Significands >= 2 /\ Significands % 2 = 0
  BY FloatAssumption

LEMMA Halving ==
  ASSUME NEW n \in Nat
  PROVE  /\ n \div 2 \in Nat /\ 2 * (n \div 2) <= n /\ n <= 2 * (n \div 2) + 1
         /\ n > 0 => n \div 2 < n
  OBVIOUS

(* The spacing is a recursive function; there is one.                      *)
SpacingUpTo(g, m) ==
  g = [n \in 0 .. m |-> IF n < Significands THEN 1 ELSE 2 * g[n \div 2]]

LEMMA SpacingExists ==
  ASSUME NEW m \in Nat PROVE \E g : SpacingUpTo(g, m)
<1> DEFINE S == {k \in Nat : \E g : SpacingUpTo(g, k)}
<1>1. 0 \in S
  <2> DEFINE g == [n \in 0 .. 0 |-> 1]
  <2>1. g = [n \in 0 .. 0 |-> IF n < Significands THEN 1 ELSE 2 * g[n \div 2]]
    BY Significant
  <2> QED
    BY <2>1 DEF SpacingUpTo
<1>2. ASSUME NEW k \in Nat, k \in S PROVE k + 1 \in S
  <2>1. PICK g : SpacingUpTo(g, k)
    BY <1>2
  <2> DEFINE top == IF k + 1 < Significands THEN 1 ELSE 2 * g[(k + 1) \div 2]
             h == [n \in 0 .. k + 1 |-> IF n = k + 1 THEN top ELSE g[n]]
  <2>2. ASSUME NEW n \in 0 .. k + 1
        PROVE  h[n] = IF n < Significands THEN 1 ELSE 2 * h[n \div 2]
    <3>1. CASE n < Significands
      BY <2>1, <3>1 DEF SpacingUpTo
    <3>2. CASE ~(n < Significands)
      <4>1. n \div 2 \in 0 .. k /\ n \div 2 # k + 1
        BY <3>2, Significant, Halving
      <4>2. h[n \div 2] = g[n \div 2]
        BY <4>1
      <4>3. CASE n = k + 1
        BY <3>2, <4>2, <4>3
      <4>4. CASE n # k + 1
        <5>1. n \in 0 .. k /\ h[n] = g[n]
          BY <4>4
        <5>2. g[n] = 2 * g[n \div 2]
          BY <2>1, <3>2, <5>1 DEF SpacingUpTo
        <5> QED
          BY <3>2, <4>2, <5>1, <5>2
      <4> QED
        BY <4>3, <4>4
    <3> QED
      BY <3>1, <3>2
  <2>3. SpacingUpTo(h, k + 1)
    <3>1. h = [n \in 0 .. k + 1 |-> h[n]]
      OBVIOUS
    <3> HIDE DEF h
    <3> QED
      BY <2>2, <3>1 DEF SpacingUpTo
  <2> QED
    BY <2>3
<1> HIDE DEF S
<1>3. m \in S
  BY <1>1, <1>2, SumLoop!SetInduction
<1> QED
  BY <1>3 DEF S

LEMMA SpacingUnique ==
  ASSUME NEW m \in Nat, NEW k \in Nat, m <= k, NEW g, NEW h, SpacingUpTo(g, m), SpacingUpTo(h, k)
  PROVE  \A n \in 0 .. m : g[n] = h[n]
<1> DEFINE S == {n \in Nat : n <= m => g[n] = h[n]}
<1>1. ASSUME NEW n \in Nat, \A j \in 0 .. n - 1 : j \in S PROVE n \in S
  <2>1. SUFFICES ASSUME n <= m PROVE g[n] = h[n]
    OBVIOUS
  <2>2. CASE n < Significands
    BY <2>1, <2>2 DEF SpacingUpTo
  <2>3. CASE ~(n < Significands)
    <3>1. n \div 2 \in 0 .. n - 1 /\ n \div 2 <= m /\ n \in 0 .. m /\ n \in 0 .. k
      BY <2>1, <2>3, Significant, Halving
    <3>2. g[n \div 2] = h[n \div 2]
      BY <1>1, <3>1
    <3> QED
      BY <2>3, <3>1, <3>2 DEF SpacingUpTo
  <2> QED
    BY <2>2, <2>3
<1> HIDE DEF S
<1>2. \A n \in Nat : n \in S
  BY <1>1, SumLoop!CourseOfValues
<1> QED
  BY <1>2 DEF S

LEMMA UlpDoubles ==
  ASSUME NEW n \in Nat
  PROVE  Ulp[n] = IF n < Significands THEN 1 ELSE 2 * Ulp[n \div 2]
<1> DEFINE up(k) == CHOOSE g : SpacingUpTo(g, k)
           f == [k \in Nat |-> up(k)[k]]
<1>1. \A k \in Nat : SpacingUpTo(up(k), k)
  BY SpacingExists
<1> HIDE DEF up
<1>2. ASSUME NEW k \in Nat PROVE f[k] = IF k < Significands THEN 1 ELSE 2 * f[k \div 2]
  <2>1. f[k] = IF k < Significands THEN 1 ELSE 2 * up(k)[k \div 2]
    BY <1>1 DEF SpacingUpTo
  <2>2. k \div 2 \in Nat /\ k \div 2 <= k /\ k \div 2 \in 0 .. k \div 2
    BY Halving
  <2>3. up(k \div 2)[k \div 2] = up(k)[k \div 2]
    BY <1>1, <2>2, SpacingUnique
  <2> QED
    BY <2>1, <2>2, <2>3
<1>3. f = [k \in Nat |-> IF k < Significands THEN 1 ELSE 2 * f[k \div 2]]
  <2>1. f = [k \in Nat |-> f[k]]
    OBVIOUS
  <2> HIDE DEF f
  <2> QED
    BY <1>2, <2>1
<1> HIDE DEF f
<1>4. Ulp = [k \in Nat |-> IF k < Significands THEN 1 ELSE 2 * Ulp[k \div 2]]
  BY <1>3 DEF Ulp
<1> QED
  BY <1>4

LEMMA UlpPositive ==
  ASSUME NEW n \in Nat PROVE Ulp[n] \in Nat /\ Ulp[n] >= 1
<1> DEFINE S == {k \in Nat : Ulp[k] \in Nat /\ Ulp[k] >= 1}
<1>1. ASSUME NEW k \in Nat, \A j \in 0 .. k - 1 : j \in S PROVE k \in S
  <2>1. CASE k < Significands
    BY <2>1, UlpDoubles
  <2>2. CASE ~(k < Significands)
    <3>1. k \div 2 \in 0 .. k - 1
      BY <2>2, Significant, Halving
    <3>2. Ulp[k \div 2] \in Nat /\ Ulp[k \div 2] >= 1
      BY <1>1, <3>1
    <3> QED
      BY <2>2, <3>2, UlpDoubles
  <2> QED
    BY <2>1, <2>2
<1> HIDE DEF S
<1>2. \A k \in Nat : k \in S
  BY <1>1, SumLoop!CourseOfValues
<1> QED
  BY <1>2 DEF S

(* A number is below the next binade and, unless it needs no rounding, not *)
(* below its own.                                                          *)
InBinade(n) ==
  /\ n < Significands * Ulp[n]
  /\ Ulp[n] # 1 => Significands * Ulp[n] <= 2 * n

LEMMA Binade ==
  ASSUME NEW n \in Nat PROVE InBinade(n)
<1> DEFINE S == {k \in Nat : InBinade(k)}
<1>1. ASSUME NEW k \in Nat, \A j \in 0 .. k - 1 : j \in S PROVE k \in S
  <2>1. CASE k < Significands
    BY <2>1, UlpDoubles, Significant DEF InBinade
  <2>2. CASE ~(k < Significands)
    <3> DEFINE half == k \div 2
               v == Ulp[half]
    <3>1. half \in Nat /\ 2 * half <= k /\ k <= 2 * half + 1 /\ half \in 0 .. k - 1
      BY <2>2, Significant, Halving
    <3>2. InBinade(half) /\ v \in Nat /\ v >= 1 /\ Ulp[k] = 2 * v
      BY <1>1, <2>2, <3>1, UlpPositive, UlpDoubles
    <3>3. half < Significands * v /\ (v # 1 => Significands * v <= 2 * half)
      BY <3>2 DEF InBinade
    <3> HIDE DEF half, v
    <3>4. Significands * (2 * v) = 2 * (Significands * v) /\ Significands * v \in Nat
      BY <3>2, Significant
    <3>5. k < Significands * Ulp[k]
      BY <3>1, <3>2, <3>3, <3>4
    <3>6. Significands * Ulp[k] <= 2 * k
      <4>1. CASE v = 1
        BY <2>2, <3>2, <4>1, Significant
      <4>2. CASE v # 1
        BY <3>1, <3>2, <3>3, <3>4, <4>2
      <4> QED
        BY <4>1, <4>2
    <3> QED
      BY <3>5, <3>6 DEF InBinade
  <2> QED
    BY <2>1, <2>2
<1> HIDE DEF S
<1>2. \A k \in Nat : k \in S
  BY <1>1, SumLoop!CourseOfValues
<1> QED
  BY <1>2 DEF S

(* The spacing of larger numbers is a multiple.                            *)
Multiple(b, u) == \E c \in Nat : b = c * u

LEMMA UlpDivides ==
  ASSUME NEW a \in Nat, NEW b \in Nat, a <= b PROVE Multiple(Ulp[b], Ulp[a])
<1> DEFINE S == {k \in Nat : \A j \in 0 .. k : Multiple(Ulp[k], Ulp[j])}
<1>1. ASSUME NEW k \in Nat, \A j \in 0 .. k - 1 : j \in S PROVE k \in S
  <2> SUFFICES ASSUME NEW j \in 0 .. k PROVE Multiple(Ulp[k], Ulp[j])
    OBVIOUS
  <2>0. Ulp[k] \in Nat /\ Ulp[j] \in Nat
    BY UlpPositive
  <2>1. CASE j < Significands
    <3>1. Ulp[j] = 1
      BY <2>1, UlpDoubles
    <3>2. Ulp[k] = Ulp[k] * Ulp[j]
      BY <2>0, <3>1
    <3> QED
      BY <2>0, <3>2 DEF Multiple
  <2>2. CASE ~(j < Significands)
    <3>1. k \div 2 \in 0 .. k - 1 /\ j \div 2 \in 0 .. k \div 2 /\ ~(k < Significands)
      BY <2>2, Significant, Halving
    <3>2. Ulp[k] = 2 * Ulp[k \div 2] /\ Ulp[j] = 2 * Ulp[j \div 2]
      BY <2>2, <3>1, UlpDoubles
    <3>3. Multiple(Ulp[k \div 2], Ulp[j \div 2])
      BY <1>1, <3>1
    <3>4. PICK c \in Nat : Ulp[k \div 2] = c * Ulp[j \div 2]
      BY <3>3 DEF Multiple
    <3>5. Ulp[j \div 2] \in Nat
      BY <3>1, UlpPositive
    <3>6. Ulp[k] = c * Ulp[j]
      BY <3>2, <3>4, <3>5
    <3> QED
      BY <3>6 DEF Multiple
  <2> QED
    BY <2>1, <2>2
<1> HIDE DEF S
<1>2. b \in S
  BY <1>1, SumLoop!CourseOfValues
<1> QED
  BY <1>2 DEF S

LEMMA UlpGrows ==
  ASSUME NEW a \in Nat, NEW b \in Nat, a <= b PROVE Ulp[a] <= Ulp[b]
<1>1. PICK c \in Nat : Ulp[b] = c * Ulp[a]
  BY UlpDivides DEF Multiple
<1>2. Ulp[a] \in Nat /\ Ulp[b] \in Nat /\ Ulp[b] >= 1
  BY UlpPositive
<1>3. c >= 1
  BY <1>1, <1>2
<1> QED
  BY <1>1, <1>2, <1>3

LEMMA MultipleOfMultiple ==
  ASSUME NEW a \in Nat, NEW b \in Nat, NEW c \in Nat, Multiple(a, b), Multiple(b, c)
  PROVE  Multiple(a, c)
<1>1. PICK m \in Nat : a = m * b
  BY DEF Multiple
<1>2. PICK n \in Nat : b = n * c
  BY DEF Multiple
<1>3. a = (m * n) * c /\ m * n \in Nat
  BY <1>1, <1>2
<1> QED
  BY <1>3 DEF Multiple

(* A number of the format: a multiple of its own spacing.                  *)
Fits(b) == b \in Nat /\ Multiple(b, Ulp[b])

LEMMA FitsCoarser ==
  ASSUME NEW b, Fits(b), NEW a \in Nat, a <= b PROVE Multiple(b, Ulp[a])
  BY UlpDivides, UlpPositive, MultipleOfMultiple DEF Fits

(* The first number of a binade is a multiple of the binade's spacing.     *)
LEMMA BinadeStart ==
  ASSUME NEW q \in Nat, Ulp[q] # 1
  PROVE  \E s \in Nat : Multiple(s, Ulp[q]) /\ s <= q /\ 2 * s = Significands * Ulp[q]
<1> DEFINE u == Ulp[q]
           h == Significands \div 2
           s == h * u
<1>1. u \in Nat /\ h \in Nat /\ Significands = 2 * h /\ Significands * u <= 2 * q
  BY Binade, UlpPositive, Significant DEF InBinade
<1> HIDE DEF u, h
<1>2. s \in Nat /\ 2 * s = Significands * u
  BY <1>1
<1>3. s <= q
  BY <1>1, <1>2
<1>4. Multiple(s, u)
  BY <1>1 DEF Multiple
<1> QED
  BY <1>2, <1>3, <1>4 DEF u

-----------------------------------------------------------------------------
(* Rounding n / d with spacing u goes to a multiple of u next to it.       *)
LEMMA DivMod ==
  ASSUME NEW n \in Nat, NEW e \in Nat, e > 0
  PROVE  /\ n \div e \in Nat /\ n % e \in Nat /\ n = e * (n \div e) + (n % e) /\ n % e < e
  OBVIOUS

LEMMA QuotientLess ==
  ASSUME NEW n \in Nat, NEW e \in Nat, e > 0, NEW c \in Nat
  PROVE  /\ n < c * e => n \div e < c
         /\ c * e <= n => c <= n \div e
<1> DEFINE q == n \div e
           r == n % e
<1>1. q \in Nat /\ r \in Nat /\ n = e * q + r /\ r < e
  BY DivMod
<1> HIDE DEF q, r
<1>2. n < c * e => q < c
  <2>1. SUFFICES ASSUME n < c * e, q >= c PROVE FALSE
    BY <1>1
  <2>2. c * e <= q * e
    BY <1>1, <2>1
  <2> QED
    BY <1>1, <2>1, <2>2
<1>3. c * e <= n => c <= q
  <2>1. SUFFICES ASSUME c * e <= n, q + 1 <= c PROVE FALSE
    BY <1>1
  <2>2. (q + 1) * e <= c * e
    BY <1>1, <2>1
  <2>3. (q + 1) * e = e * q + e
    BY <1>1
  <2> QED
    BY <1>1, <2>1, <2>2, <2>3
<1> QED
  BY <1>2, <1>3 DEF q

Between(n, d, u, m, rest, r) ==
  /\ n = m * (d * u) + rest /\ rest < d * u
  /\ \/ r = m * u /\ 2 * rest <= d * u
     \/ r = (m + 1) * u /\ 2 * rest >= d * u

LEMMA NearestIs ==
  ASSUME NEW n \in Nat, NEW d \in Nat, d > 0, NEW u \in Nat, u > 0
  PROVE  \E m \in Nat, rest \in Nat : Between(n, d, u, m, rest, Nearest(n, d, u))
<1> DEFINE e == d * u
           m == n \div e
           rest == n % e
<1>1. e \in Nat /\ e > 0
  OBVIOUS
<1>2. m \in Nat /\ rest \in Nat /\ n = e * m + rest /\ rest < e
  BY <1>1, DivMod
<1>3. Nearest(n, d, u) = u * (m + IF RoundUp(m, rest, e) THEN 1 ELSE 0)
  BY DEF Nearest
<1>4. RoundUp(m, rest, e) => 2 * rest >= e
  BY <1>1, <1>2 DEF RoundUp
<1>5. ~RoundUp(m, rest, e) => 2 * rest <= e
  BY <1>1, <1>2 DEF RoundUp
<1> HIDE DEF m, rest
<1>6. n = m * (d * u) + rest /\ rest < d * u
  BY <1>1, <1>2
<1>7. \/ Nearest(n, d, u) = m * u /\ 2 * rest <= d * u
      \/ Nearest(n, d, u) = (m + 1) * u /\ 2 * rest >= d * u
  <2>1. CASE RoundUp(m, rest, e)
    BY <1>2, <1>3, <1>4, <2>1
  <2>2. CASE ~RoundUp(m, rest, e)
    BY <1>2, <1>3, <1>5, <2>2
  <2> QED
    BY <2>1, <2>2
<1> QED
  BY <1>2, <1>6, <1>7 DEF Between

LEMMA NearestAtMost ==
  ASSUME NEW n \in Nat, NEW d \in Nat, d > 0, NEW u \in Nat, u > 0,
         NEW b, Multiple(b, u), n <= b * d
  PROVE  Nearest(n, d, u) \in Nat /\ Nearest(n, d, u) <= b
<1>1. PICK c \in Nat : b = c * u
  BY DEF Multiple
<1>2. PICK m \in Nat, rest \in Nat : Between(n, d, u, m, rest, Nearest(n, d, u))
  BY NearestIs
<1> DEFINE e == d * u
<1>3. e \in Nat /\ e > 0 /\ b * d = c * e
  BY <1>1
<1> HIDE DEF e
<1>4. n = m * e + rest /\ rest < e /\ n <= c * e
  BY <1>2, <1>3 DEF e, Between
<1>5. m <= c /\ (m = c => rest = 0)
  <2>1. m <= c
    <3>1. SUFFICES ASSUME m >= c + 1 PROVE FALSE
      BY <1>1, <1>2
    <3>2. m * e >= (c + 1) * e /\ (c + 1) * e = c * e + e
      BY <1>1, <1>2, <1>3, <3>1
    <3> QED
      BY <1>1, <1>2, <1>3, <1>4, <3>2
  <2>2. m = c => rest = 0
    BY <1>1, <1>2, <1>3, <1>4
  <2> QED
    BY <2>1, <2>2
<1>6. CASE Nearest(n, d, u) = m * u
  BY <1>1, <1>2, <1>5, <1>6
<1>7. CASE Nearest(n, d, u) = (m + 1) * u /\ 2 * rest >= d * u
  <2>1. m + 1 <= c
    BY <1>1, <1>2, <1>3, <1>5, <1>7 DEF e
  <2> QED
    BY <1>1, <1>2, <1>7, <2>1
<1> QED
  BY <1>2, <1>6, <1>7 DEF Between

LEMMA NearestAtLeast ==
  ASSUME NEW n \in Nat, NEW d \in Nat, d > 0, NEW u \in Nat, u > 0,
         NEW b, Multiple(b, u), b * d <= n
  PROVE  b <= Nearest(n, d, u)
<1>1. PICK c \in Nat : b = c * u
  BY DEF Multiple
<1>2. PICK m \in Nat, rest \in Nat : Between(n, d, u, m, rest, Nearest(n, d, u))
  BY NearestIs
<1> DEFINE e == d * u
<1>3. e \in Nat /\ e > 0 /\ b * d = c * e
  BY <1>1
<1> HIDE DEF e
<1>4. n = m * e + rest /\ rest < e /\ c * e <= n
  BY <1>2, <1>3 DEF e, Between
<1>5. c <= m
  <2>1. SUFFICES ASSUME m + 1 <= c PROVE FALSE
    BY <1>1, <1>2
  <2>2. (m + 1) * e <= c * e /\ (m + 1) * e = m * e + e
    BY <1>1, <1>2, <1>3, <2>1
  <2> QED
    BY <1>1, <1>2, <1>3, <1>4, <2>2
<1>6. c * u <= m * u /\ m * u <= (m + 1) * u
  BY <1>1, <1>2, <1>5
<1> QED
  BY <1>1, <1>2, <1>6 DEF Between

LEMMA NearestIsClose ==
  ASSUME NEW n \in Nat, NEW d \in Nat, d > 0, NEW u \in Nat, u > 0
  PROVE  /\ 2 * (Nearest(n, d, u) * d) <= 2 * n + d * u
         /\ 2 * n <= 2 * (Nearest(n, d, u) * d) + d * u
<1>1. PICK m \in Nat, rest \in Nat : Between(n, d, u, m, rest, Nearest(n, d, u))
  BY NearestIs
<1> DEFINE e == d * u
           me == m * e
<1>2. e \in Nat /\ me \in Nat /\ (m * u) * d = me /\ ((m + 1) * u) * d = me + e
  BY <1>1
<1>3. n = me + rest /\ rest < e
  BY <1>1 DEF Between
<1> HIDE DEF e, me
<1>4. CASE Nearest(n, d, u) = m * u /\ 2 * rest <= e
  BY <1>1, <1>2, <1>3, <1>4 DEF e
<1>5. CASE Nearest(n, d, u) = (m + 1) * u /\ 2 * rest >= e
  BY <1>1, <1>2, <1>3, <1>5 DEF e
<1> QED
  BY <1>1, <1>4, <1>5 DEF e, Between

(* Rounded quotients.                                                      *)
LEMMA RoundedIs ==
  ASSUME NEW n \in Nat, NEW d \in Nat, d > 0
  PROVE  /\ n \div d \in Nat
         /\ Ulp[n \div d] \in Nat /\ Ulp[n \div d] >= 1
         /\ Rounded(n, d) = Nearest(n, d, Ulp[n \div d])
         /\ Rounded(n, d) \in Nat
<1>1. n \div d \in Nat
  BY DivMod
<1>2. Ulp[n \div d] \in Nat /\ Ulp[n \div d] >= 1 /\ Rounded(n, d) = Nearest(n, d, Ulp[n \div d])
  BY <1>1, UlpPositive DEF Rounded
<1>3. ASSUME NEW u \in Nat, u > 0 PROVE Nearest(n, d, u) \in Nat
  <2>1. PICK m \in Nat, rest \in Nat : Between(n, d, u, m, rest, Nearest(n, d, u))
    BY <1>3, NearestIs
  <2> QED
    BY <1>3, <2>1 DEF Between
<1> QED
  BY <1>1, <1>2, <1>3

LEMMA QuotientAtMost ==
  ASSUME NEW n \in Nat, NEW d \in Nat, d > 0, NEW b \in Nat, n <= b * d
  PROVE  n \div d <= b
<1>1. n < (b + 1) * d /\ b + 1 \in Nat
  OBVIOUS
<1> QED
  BY <1>1, QuotientLess, DivMod

(* Rounding keeps the order with respect to numbers of the format.         *)
LEMMA RoundedAtMost ==
  ASSUME NEW n \in Nat, NEW d \in Nat, d > 0, NEW b, Fits(b), n <= b * d
  PROVE  Rounded(n, d) \in Nat /\ Rounded(n, d) <= b
<1>1. b \in Nat /\ n \div d <= b
  BY QuotientAtMost DEF Fits
<1>2. Multiple(b, Ulp[n \div d])
  BY <1>1, RoundedIs, FitsCoarser
<1> QED
  BY <1>2, RoundedIs, NearestAtMost

LEMMA BelowItsBinade ==
  ASSUME NEW b, Fits(b), NEW q \in Nat, b <= q, Ulp[b] # Ulp[q],
         NEW s \in Nat, 2 * s = Significands * Ulp[q]
  PROVE  b <= s
<1> DEFINE v == Ulp[b]
           u == Ulp[q]
<1>1. b \in Nat /\ v \in Nat /\ u \in Nat /\ v >= 1 /\ v # u
  BY UlpPositive DEF Fits
<1>2. PICK k \in Nat : u = k * v
  BY <1>1, UlpDivides DEF Multiple
<1>3. b < Significands * v
  BY <1>1, Binade DEF InBinade
<1> HIDE DEF v, u
<1>4. k >= 2
  <2>1. k # 0
    BY <1>1, <1>2, UlpPositive DEF u
  <2>2. k # 1
    BY <1>1, <1>2
  <2> QED
    BY <2>1, <2>2
<1>5. 2 * v <= u
  BY <1>1, <1>2, <1>4
<1>6. Significands * (2 * v) <= Significands * u /\ Significands * (2 * v) = 2 * (Significands * v)
  BY <1>1, <1>5, Significant
<1> QED
  BY <1>1, <1>3, <1>6, Significant DEF u

LEMMA RoundedAtLeast ==
  ASSUME NEW n \in Nat, NEW d \in Nat, d > 0, NEW b, Fits(b), b * d <= n
  PROVE  b <= Rounded(n, d)
<1> DEFINE q == n \div d
<1>1. b \in Nat /\ q \in Nat /\ b <= q /\ q * d <= n
  BY DivMod, QuotientLess DEF Fits
<1> HIDE DEF q
<1>2. CASE Ulp[b] = Ulp[q]
  <2>1. Multiple(b, Ulp[q])
    BY <1>2 DEF Fits
  <2> QED
    BY <2>1, RoundedIs, NearestAtLeast DEF q
<1>3. CASE Ulp[b] # Ulp[q]
  <2>1. Ulp[q] # 1
    BY <1>1, <1>3, UlpGrows, UlpPositive
  <2>2. PICK s \in Nat : Multiple(s, Ulp[q]) /\ s <= q /\ 2 * s = Significands * Ulp[q]
    BY <1>1, <2>1, BinadeStart
  <2>3. s * d <= n
    BY <1>1, <2>2
  <2>4. s <= Rounded(n, d)
    <3>1. Rounded(n, d) = Nearest(n, d, Ulp[q]) /\ Ulp[q] \in Nat /\ Ulp[q] > 0
      BY RoundedIs DEF q
    <3>2. s <= Nearest(n, d, Ulp[q])
      BY <2>2, <2>3, <3>1, NearestAtLeast
    <3> QED
      BY <3>1, <3>2
  <2>5. b <= s
    BY <1>1, <1>3, <2>2, BelowItsBinade
  <2>6. Rounded(n, d) \in Int
    BY RoundedIs
  <2> QED
    BY <1>1, <2>4, <2>5, <2>6
<1> QED
  BY <1>2, <1>3

(* What rounding gives is a number of the format.                          *)
LEMMA MultipleFits ==
  ASSUME NEW q \in Nat, NEW m \in Nat, m <= Significands
  PROVE  Fits(m * Ulp[q])
<1> DEFINE u == Ulp[q]
           r == m * u
           v == Ulp[r]
<1>1. u \in Nat /\ u >= 1 /\ r \in Nat /\ v \in Nat /\ v >= 1
  BY UlpPositive
<1>2. r <= Significands * u
  BY <1>1, Significant
<1>3. v # 1 => Significands * v <= 2 * r
  BY <1>1, Binade DEF InBinade
<1>4. v <= 2 * u
  <2>1. SUFFICES ASSUME v # 1, v >= 2 * u + 1 PROVE FALSE
    BY <1>1
  <2>2. Significands * (2 * u + 1) <= Significands * v
        /\ Significands * (2 * u + 1) = 2 * (Significands * u) + Significands
    BY <1>1, <2>1, Significant
  <2> QED
    BY <1>1, <1>2, <1>3, <2>1, <2>2, Significant
<1>5. Multiple(r, u)
  BY <1>1 DEF Multiple
<1>6. CASE r <= q
  <2>1. Multiple(u, v)
    BY <1>1, <1>6, UlpDivides
  <2> HIDE DEF u, r, v
  <2>2. Multiple(r, v)
    BY <1>1, <1>5, <2>1, MultipleOfMultiple
  <2> QED
    BY <1>1, <2>2 DEF Fits, r, u, v
<1>7. CASE q < r
  <2> HIDE DEF r
  <2>0. Multiple(Ulp[r], Ulp[q])
    BY <1>1, <1>7, UlpDivides
  <2>1. PICK k \in Nat : v = k * u
    BY <2>0 DEF Multiple
  <2> USE DEF r
  <2> HIDE DEF v
  <2>2. k = 1 \/ k = 2
    <3>1. k # 0
      BY <1>1, <2>1
    <3>2. SUFFICES ASSUME k >= 3 PROVE FALSE
      BY <3>1
    <3>3. k * u >= 3 * u
      BY <1>1, <3>2
    <3> QED
      BY <1>1, <1>4, <2>1, <3>3
  <2>3. CASE k = 1
    BY <1>1, <1>5, <2>1, <2>3 DEF Fits, v
  <2>4. CASE k = 2
    <3>1. v = 2 * u /\ v # 1
      BY <1>1, <2>1, <2>4
    <3>2. Significands * v = 2 * (Significands * u)
      BY <1>1, <3>1, Significant
    <3>3. Significands * u <= r
      BY <1>1, <1>3, <3>1, <3>2, Significant
    <3>4. m >= Significands
      <4>1. SUFFICES ASSUME m + 1 <= Significands PROVE FALSE
        BY Significant
      <4>2. (m + 1) * u <= Significands * u /\ (m + 1) * u = r + u
        BY <1>1, <4>1, Significant
      <4> QED
        BY <1>1, <3>3, <4>2, Significant
    <3>5. m = 2 * (Significands \div 2) /\ Significands \div 2 \in Nat
      BY <3>4, Significant
    <3>6. r = (Significands \div 2) * v
      BY <1>1, <3>1, <3>5
    <3>7. Multiple(r, v)
      BY <3>5, <3>6 DEF Multiple
    <3> QED
      BY <1>1, <3>7 DEF Fits, v
  <2> QED
    BY <2>2, <2>3, <2>4
<1> QED
  BY <1>1, <1>6, <1>7

LEMMA RoundedFits ==
  ASSUME NEW n \in Nat, NEW d \in Nat, d > 0
  PROVE  Fits(Rounded(n, d))
<1> DEFINE q == n \div d
           u == Ulp[q]
<1>1. q \in Nat /\ u \in Nat /\ u >= 1 /\ Rounded(n, d) = Nearest(n, d, u)
  BY RoundedIs
<1>2. q < Significands * u
  BY <1>1, Binade DEF InBinade
<1>3. n < (q + 1) * d
  BY DivMod
<1> HIDE DEF q, u
<1>4. PICK m \in Nat, rest \in Nat : Between(n, d, u, m, rest, Nearest(n, d, u))
  <2>1. u > 0
    BY <1>1
  <2> QED
    BY <1>1, <2>1, NearestIs
<1>5. m < Significands
  <2>1. SUFFICES ASSUME m >= Significands PROVE FALSE
    BY Significant
  <2>2. m * u >= Significands * u
    BY <1>1, <2>1, Significant
  <2>3. m * u >= q + 1 /\ m * u \in Nat
    BY <1>1, <1>2, <2>2, Significant
  <2>4. (m * u) * d >= (q + 1) * d
    BY <1>1, <2>3
  <2>5. n >= (m * u) * d
    BY <1>1, <1>4 DEF Between
  <2>6. (m * u) * d \in Nat /\ (q + 1) * d \in Nat
    BY <1>1, <2>3
  <2> QED
    BY <1>3, <2>4, <2>5, <2>6
<1>6. Rounded(n, d) = m * u \/ Rounded(n, d) = (m + 1) * u
  BY <1>1, <1>4 DEF Between
<1>7. m \in Nat /\ m + 1 \in Nat /\ m <= Significands /\ m + 1 <= Significands
  BY <1>5, Significant
<1>8. Fits(m * u) /\ Fits((m + 1) * u)
  BY <1>1, <1>7, MultipleFits DEF u
<1> QED
  BY <1>6, <1>8

LEMMA ExactFits ==
  ASSUME NEW n \in Nat PROVE Exact(n) <=> Fits(n)
<1>1. Exact(n) => Fits(n)
  BY RoundedFits DEF Exact
<1>2. ASSUME Fits(n) PROVE Rounded(n, 1) = n
  <2>1. n <= n * 1 /\ n * 1 <= n
    OBVIOUS
  <2>2. Rounded(n, 1) \in Nat /\ Rounded(n, 1) <= n /\ n <= Rounded(n, 1)
    BY <1>2, <2>1, RoundedAtMost, RoundedAtLeast
  <2> QED
    BY <2>2
<1> QED
  BY <1>1, <1>2 DEF Exact

LEMMA SmallFits ==
  ASSUME NEW n \in Nat, n <= Significands PROVE Fits(n)
<1>1. Ulp[0] = 1
  BY UlpDoubles, Significant
<1>2. n * Ulp[0] = n
  BY <1>1
<1> QED
  BY <1>2, MultipleFits

LEMMA RoundedExact ==
  ASSUME NEW b, Fits(b), NEW d \in Nat, d > 0 PROVE Rounded(b * d, d) = b
<1>1. b \in Nat /\ b * d \in Nat /\ b * d <= b * d
  BY DEF Fits
<1>2. Rounded(b * d, d) \in Nat /\ Rounded(b * d, d) <= b /\ b <= Rounded(b * d, d)
  BY <1>1, RoundedAtMost, RoundedAtLeast
<1> QED
  BY <1>1, <1>2

LEMMA RoundedClose ==
  ASSUME NEW n \in Nat
  PROVE  /\ 2 * Rounded(n, 1) <= 2 * n + Ulp[n]
         /\ 2 * n <= 2 * Rounded(n, 1) + Ulp[n]
<1> DEFINE u == Ulp[n]
<1>1. n \div 1 = n
  OBVIOUS
<1>2. u \in Nat /\ u > 0 /\ Rounded(n, 1) = Nearest(n, 1, u) /\ Rounded(n, 1) \in Nat
  BY <1>1, RoundedIs
<1> HIDE DEF u
<1>3. /\ 2 * (Nearest(n, 1, u) * 1) <= 2 * n + 1 * u
      /\ 2 * n <= 2 * (Nearest(n, 1, u) * 1) + 1 * u
  BY <1>2, NearestIsClose
<1>4. 2 * Rounded(n, 1) <= 2 * n + u /\ 2 * n <= 2 * Rounded(n, 1) + u
  BY <1>2, <1>3
<1> QED
  BY <1>4 DEF u

(* Rounding keeps integers integers, and mirrors them around zero.         *)
LEMMA RoundedMirrors ==
  ASSUME NEW n \in Int, NEW d \in Nat, d > 0
  PROVE  /\ Rounded(n, d) \in Int
         /\ n >= 0 => Rounded(n, d) \in Nat
         /\ n < 0 => Rounded(n, d) = -Rounded(-n, d) /\ -n \in Nat /\ Rounded(-n, d) \in Nat
<1>1. n >= 0 => n \in Nat
  OBVIOUS
<1>2. CASE n >= 0
  BY <1>1, <1>2, RoundedIs
<1>3. CASE n < 0
  <2>1. -n \in Nat /\ -n >= 0
    BY <1>3
  <2>2. Rounded(-n, d) \in Nat
    BY <2>1, RoundedIs
  <2>3. Rounded(n, d) = -Nearest(-n, d, Ulp[(-n) \div d])
    BY <1>3 DEF Rounded
  <2>4. Rounded(-n, d) = Nearest(-n, d, Ulp[(-n) \div d])
    BY <2>1, RoundedIs
  <2> QED
    BY <1>3, <2>1, <2>2, <2>3, <2>4
<1> QED
  BY <1>2, <1>3

(* What is less than half a unit above a number rounds to it or below.     *)
LEMMA RoundedBelowHalf ==
  ASSUME NEW n \in Nat, NEW b, Fits(b), 2 * n < 2 * b + Ulp[b]
  PROVE  Rounded(n, 1) <= b
<1> DEFINE u == Ulp[n]
           v == Ulp[b]
<1>1. b \in Nat /\ u \in Nat /\ u > 0 /\ v \in Nat /\ v > 0 /\ 2 * n < 2 * b + v
  BY UlpPositive DEF Fits
<1>2. n \div 1 = n
  OBVIOUS
<1>3. Rounded(n, 1) = Nearest(n, 1, u)
  BY <1>2, RoundedIs
<1>4. CASE n <= b
  <2>1. n <= b * 1
    BY <1>1, <1>4
  <2> QED
    BY <2>1, RoundedAtMost
<1>5. CASE n > b /\ v = u
  <2>1. PICK c \in Nat : b = c * v
    BY DEF Fits, Multiple
  <2> HIDE DEF u, v
  <2>2. PICK m \in Nat, rest \in Nat : Between(n, 1, u, m, rest, Nearest(n, 1, u))
    BY <1>1, NearestIs
  <2>3. n = m * u + rest /\ rest < u
    BY <1>1, <2>2 DEF Between
  <2>4. b = c * u
    BY <1>5, <2>1
  <2>5. m = c
    <3>1. m >= c
      <4>1. SUFFICES ASSUME m + 1 <= c PROVE FALSE
        BY <2>2
      <4>2. (m + 1) * u <= c * u /\ (m + 1) * u = m * u + u /\ m * u \in Nat /\ c * u \in Nat
        BY <1>1, <4>1
      <4> QED
        BY <1>1, <1>5, <2>3, <2>4, <4>2
    <3>2. m <= c
      <4>1. SUFFICES ASSUME c + 1 <= m PROVE FALSE
        BY <2>2
      <4>2. (c + 1) * u <= m * u /\ (c + 1) * u = c * u + u /\ m * u \in Nat /\ c * u \in Nat
        BY <1>1, <4>1
      <4> QED
        BY <1>1, <1>5, <2>3, <2>4, <4>2
    <3> QED
      BY <3>1, <3>2
  <2>6. m * u = b /\ m * u \in Nat
    BY <1>1, <2>4, <2>5
  <2>7. 2 * rest < u
    BY <1>1, <1>5, <2>3, <2>6
  <2> QED
    BY <1>1, <1>3, <2>2, <2>6, <2>7 DEF Between
<1>6. CASE n > b /\ v # u
  <2>1. u # 1
    BY <1>1, <1>6, UlpGrows
  <2>2. PICK s \in Nat : s <= n /\ 2 * s = Significands * u
    BY <2>1, BinadeStart
  <2>3. b < Significands * v
    BY <1>1, Binade DEF InBinade
  <2>4. Multiple(Ulp[n], Ulp[b])
    BY <1>1, <1>6, UlpDivides
  <2>5. PICK k \in Nat : u = k * v
    BY <2>4 DEF Multiple
  <2>6. PICK c \in Nat : b = c * v
    BY DEF Fits, Multiple
  <2> DEFINE h == Significands \div 2
  <2>7. h \in Nat /\ Significands = 2 * h
    BY Significant
  <2> HIDE DEF u, v, h
  <2>8. k >= 2
    <3>1. k # 0 /\ k # 1
      BY <1>1, <1>6, <2>5
    <3> QED
      BY <3>1
  <2>9. s = (h * k) * v
    BY <1>1, <2>2, <2>5, <2>7
  <2>10. h * k >= 2 * h
    BY <2>7, <2>8
  <2>11. c < 2 * h
    <3>1. SUFFICES ASSUME c >= 2 * h PROVE FALSE
      BY <2>7
    <3>2. c * v >= (2 * h) * v
      BY <1>1, <2>7, <3>1
    <3> QED
      BY <1>1, <2>3, <2>6, <2>7, <3>2
  <2>12. (h * k) * v >= (c + 1) * v /\ (c + 1) * v = b + v
    BY <1>1, <2>6, <2>7, <2>10, <2>11
  <2> QED
    BY <1>1, <2>2, <2>9, <2>12
<1> QED
  BY <1>1, <1>4, <1>5, <1>6

-----------------------------------------------------------------------------
(* The operations on numbers of the format.                                *)
LEMMA Unit == One \in Nat /\ One > 0 /\ Fits(One) /\ Fits(0) /\ Fits(1)
              /\ One \div 2 \in Nat /\ 2 * (One \div 2) <= One /\ Fits(One \div 2)
<1>1. One \in Nat /\ One > 0 /\ One \div 2 \in Nat /\ 2 * (One \div 2) <= One
  BY FloatAssumption, Halving
<1>2. Exact(One) /\ Exact(One \div 2)
  BY FloatAssumption
<1>3. Fits(0) /\ Fits(1)
  BY SmallFits, Significant
<1> QED
  BY <1>1, <1>2, <1>3, ExactFits

LEMMA TwoInts ==
  ASSUME NEW a \in Int, NEW b \in Int
  PROVE  /\ Max({a, b}) = IF a >= b THEN a ELSE b
         /\ Min({a, b}) = IF a <= b THEN a ELSE b
<1>1. \A y \in {a, b} : (IF a >= b THEN a ELSE b) >= y
  OBVIOUS
<1>2. \A y \in {a, b} : (IF a <= b THEN a ELSE b) <= y
  OBVIOUS
<1>3. Max({a, b}) \in {a, b} /\ \A y \in {a, b} : Max({a, b}) >= y
  BY <1>1 DEF Max
<1>4. Min({a, b}) \in {a, b} /\ \A y \in {a, b} : Min({a, b}) <= y
  BY <1>2 DEF Min
<1> QED
  BY <1>3, <1>4

LEMMA ClampIs ==
  ASSUME NEW x \in Int, NEW low \in Int, NEW high \in Int, low <= high
  PROVE  /\ Clamp(x, low, high) \in low .. high
         /\ Clamp(x, low, high) \in {x, low, high}
         /\ x > low => Clamp(x, low, high) > low \/ Clamp(x, low, high) = high
<1>1. Min({x, high}) = IF x <= high THEN x ELSE high
  BY TwoInts
<1>2. Min({x, high}) \in Int
  BY <1>1
<1>3. Clamp(x, low, high) = IF low >= Min({x, high}) THEN low ELSE Min({x, high})
  BY <1>2, TwoInts DEF Clamp
<1> QED
  BY <1>1, <1>3

LEMMA RoundedInt ==
  ASSUME NEW n \in Int, NEW d \in Nat, d > 0
  PROVE  Rounded(n, d) \in Int
  BY RoundedMirrors

LEMMA PlusIs ==
  ASSUME NEW a \in Nat, NEW b \in Nat
  PROVE  Fits(Plus(a, b)) /\ Plus(a, b) \in Nat
<1>1. a + b \in Nat
  OBVIOUS
<1> QED
  BY <1>1, RoundedFits, RoundedIs DEF Plus

LEMMA PlusGrows ==
  ASSUME NEW a \in Nat, NEW b \in Nat, NEW c, Fits(c), c <= a + b
  PROVE  c <= Plus(a, b)
<1>1. a + b \in Nat /\ c * 1 <= a + b
  BY DEF Fits
<1> QED
  BY <1>1, RoundedAtLeast DEF Plus

LEMMA PlusZero ==
  ASSUME NEW a, Fits(a) PROVE Plus(a, 0) = a /\ Plus(0, a) = a
<1>1. a \in Nat /\ a + 0 = a * 1 /\ 0 + a = a * 1
  BY DEF Fits
<1> QED
  BY <1>1, RoundedExact DEF Plus

LEMMA TimesIs ==
  ASSUME NEW a \in Nat, NEW b \in Nat
  PROVE  Fits(Times(a, b)) /\ Times(a, b) \in Nat
<1>1. a * b \in Nat
  OBVIOUS
<1> QED
  BY <1>1, Unit, RoundedFits, RoundedIs DEF Times

LEMMA TimesAtMost ==
  ASSUME NEW a, Fits(a), NEW b \in Nat, b <= One
  PROVE  Times(a, b) <= a
<1>1. a \in Nat /\ a * b \in Nat /\ a * b <= a * One
  BY Unit DEF Fits
<1> QED
  BY <1>1, Unit, RoundedAtMost DEF Times

LEMMA TimesOne ==
  ASSUME NEW a, Fits(a) PROVE Times(a, One) = a
  BY Unit, RoundedExact DEF Times

LEMMA OverIs ==
  ASSUME NEW a \in Nat, NEW b \in Nat, b > 0
  PROVE  /\ Fits(Over(a, b)) /\ Over(a, b) \in Nat
         /\ a <= b => Over(a, b) <= One
<1>1. a * One \in Nat
  BY Unit
<1>2. a <= b => a * One <= One * b
  BY Unit
<1> QED
  BY <1>1, <1>2, Unit, RoundedFits, RoundedIs, RoundedAtMost DEF Over

LEMMA OverZero ==
  ASSUME NEW b \in Nat, b > 0 PROVE Over(0, b) = 0
<1>1. 0 * One = 0 * b
  BY Unit
<1> QED
  BY <1>1, Unit, RoundedExact DEF Over

LEMMA IntOperations ==
  ASSUME NEW a \in Int, NEW b \in Int
  PROVE  /\ Plus(a, b) \in Int /\ Minus(a, b) \in Int /\ Times(a, b) \in Int
         /\ b > 0 => Over(a, b) \in Int
<1>1. a + b \in Int /\ a - b \in Int /\ a * b \in Int /\ a * One \in Int
  BY Unit
<1>2. 1 \in Nat /\ 1 > 0 /\ (b > 0 => b \in Nat)
  OBVIOUS
<1> QED
  BY <1>1, <1>2, Unit, RoundedInt DEF Plus, Minus, Times, Over

-----------------------------------------------------------------------------
(* Lists of numbers of the format, their sums and the largest of them.     *)
Terms(p, n) == p \in [1 .. n -> Nat] /\ \A k \in 1 .. n : Fits(p[k])

PartialSums(acc, p, n) ==
  /\ acc[0] = 0
  /\ \A i \in 1 .. n : acc[i] = Plus(acc[i - 1], p[i])
  /\ Total(p) = acc[n]

LEMMA TotalIsLoop ==
  ASSUME NEW n \in Nat, NEW p, DOMAIN p = 1 .. n
  PROVE  \E acc : PartialSums(acc, p, n)
<1>1. Total(p) = SumLoop!Fold(0, 0, 0, 0, p)
  BY DEF Total, SumLoop!Fold, FoldLeft, MapThenFoldSet, Max, SumLoop!Greatest, PlusStep
<1>2. PICK acc : /\ acc[0] = 0
                 /\ \A i \in 1 .. n : acc[i] = PlusStep(0, 0, 0, acc[i - 1], p[i])
                 /\ SumLoop!Fold(0, 0, 0, 0, p) = acc[n]
  BY SumLoop!FoldIsLoop
<1> QED
  BY <1>1, <1>2 DEF PartialSums, PlusStep

(* A sum is a number of the format and not less than any of its terms.     *)
LEMMA TotalIs ==
  ASSUME NEW n \in Nat, NEW p, Terms(p, n)
  PROVE  Fits(Total(p)) /\ Total(p) \in Nat /\ \A k \in 1 .. n : p[k] <= Total(p)
<1>1. DOMAIN p = 1 .. n /\ \A k \in 1 .. n : p[k] \in Nat /\ Fits(p[k])
  BY DEF Terms
<1>2. PICK acc : PartialSums(acc, p, n)
  BY <1>1, TotalIsLoop
<1> DEFINE S == {m \in Nat : m <= n => Fits(acc[m]) /\ \A k \in 1 .. m : p[k] <= acc[m]}
<1>3. 0 \in S
  BY <1>2, Unit DEF PartialSums
<1>4. ASSUME NEW m \in Nat, m \in S PROVE m + 1 \in S
  <2>1. SUFFICES ASSUME m + 1 <= n
                 PROVE  Fits(acc[m + 1]) /\ \A k \in 1 .. m + 1 : p[k] <= acc[m + 1]
    OBVIOUS
  <2>2. m + 1 \in 1 .. n /\ (m + 1) - 1 = m /\ Fits(acc[m]) /\ acc[m] \in Nat
    BY <1>4, <2>1 DEF Fits
  <2>3. acc[m + 1] = Plus(acc[m], p[m + 1])
    BY <1>2, <2>2 DEF PartialSums
  <2>4. p[m + 1] \in Nat /\ Fits(p[m + 1])
    BY <1>1, <2>2
  <2>5. acc[m] <= acc[m] + p[m + 1] /\ p[m + 1] <= acc[m] + p[m + 1]
    BY <2>2, <2>4
  <2>6. Fits(acc[m + 1]) /\ acc[m + 1] \in Nat
    BY <2>2, <2>3, <2>4, PlusIs
  <2>7. acc[m] <= acc[m + 1] /\ p[m + 1] <= acc[m + 1]
    BY <2>2, <2>3, <2>4, <2>5, PlusGrows
  <2>8. ASSUME NEW k \in 1 .. m + 1 PROVE p[k] <= acc[m + 1]
    <3>1. CASE k = m + 1
      BY <2>7, <3>1
    <3>2. CASE k # m + 1
      <4>1. k \in 1 .. m /\ k \in 1 .. n
        BY <2>1, <3>2
      <4>2. p[k] <= acc[m] /\ p[k] \in Nat
        BY <1>1, <1>4, <2>1, <4>1
      <4> QED
        BY <2>2, <2>6, <2>7, <4>2
    <3> QED
      BY <3>1, <3>2
  <2> QED
    BY <2>6, <2>8
<1> HIDE DEF S
<1>5. n \in S
  BY <1>3, <1>4, SumLoop!SetInduction
<1> QED
  BY <1>2, <1>5 DEF S, PartialSums, Fits

(* A list with one entry other than zero adds up to that entry.            *)
LEMMA TotalOfOne ==
  ASSUME NEW n \in Nat, NEW p, Terms(p, n), NEW i \in Nat, \A k \in 1 .. n : k # i => p[k] = 0
  PROVE  Total(p) = IF i \in 1 .. n THEN p[i] ELSE 0
<1>1. DOMAIN p = 1 .. n /\ \A k \in 1 .. n : p[k] \in Nat /\ Fits(p[k])
  BY DEF Terms
<1>2. PICK acc : PartialSums(acc, p, n)
  BY <1>1, TotalIsLoop
<1> DEFINE S == {m \in Nat : m <= n => acc[m] = IF i \in 1 .. m THEN p[i] ELSE 0}
<1>3. 0 \in S
  BY <1>2 DEF PartialSums
<1>4. ASSUME NEW m \in Nat, m \in S PROVE m + 1 \in S
  <2>1. SUFFICES ASSUME m + 1 <= n PROVE acc[m + 1] = IF i \in 1 .. m + 1 THEN p[i] ELSE 0
    OBVIOUS
  <2>2. m + 1 \in 1 .. n /\ (m + 1) - 1 = m /\ acc[m] = IF i \in 1 .. m THEN p[i] ELSE 0
    BY <1>4, <2>1
  <2>3. acc[m + 1] = Plus(acc[m], p[m + 1])
    BY <1>2, <2>2 DEF PartialSums
  <2>4. CASE i = m + 1
    <3>1. acc[m] = 0 /\ i \in 1 .. m + 1
      BY <2>2, <2>4
    <3> QED
      BY <1>1, <2>2, <2>3, <2>4, <3>1, PlusZero
  <2>5. CASE i # m + 1
    <3>1. p[m + 1] = 0 /\ (i \in 1 .. m + 1 <=> i \in 1 .. m)
      BY <2>2, <2>5
    <3>2. Fits(acc[m])
      <4>1. i \in 1 .. m => i \in 1 .. n
        BY <2>1
      <4> QED
        BY <1>1, <2>2, <4>1, Unit
    <3> QED
      BY <2>2, <2>3, <3>1, <3>2, PlusZero
  <2> QED
    BY <2>4, <2>5
<1> HIDE DEF S
<1>5. n \in S
  BY <1>3, <1>4, SumLoop!SetInduction
<1> QED
  BY <1>2, <1>5 DEF S, PartialSums

First(p, m, i) == i \in 1 .. m /\ \A j \in 1 .. m : p[j] < p[i] \/ (p[j] = p[i] /\ i <= j)

(* There is a first largest entry.                                         *)
LEMMA FirstLargestIs ==
  ASSUME NEW n \in Nat, n > 0, NEW p \in [1 .. n -> Int]
  PROVE  FirstLargest(p) \in 1 .. n /\ \A j \in 1 .. n : p[j] <= p[FirstLargest(p)]
<1> DEFINE S == {m \in Nat : m <= n /\ m > 0 => \E i \in Nat : First(p, m, i)}
<1>1. 0 \in S
  OBVIOUS
<1>2. ASSUME NEW m \in Nat, m \in S PROVE m + 1 \in S
  <2>1. SUFFICES ASSUME m + 1 <= n PROVE \E i \in Nat : First(p, m + 1, i)
    OBVIOUS
  <2>2. CASE m = 0
    <3>1. First(p, m + 1, 1)
      BY <2>1, <2>2 DEF First
    <3> QED
      BY <3>1
  <2>3. CASE m > 0
    <3>1. PICK i \in Nat : First(p, m, i)
      BY <1>2, <2>1, <2>3
    <3>2. p[i] \in Int /\ p[m + 1] \in Int /\ \A j \in 1 .. m : p[j] \in Int
      BY <2>1, <3>1 DEF First
    <3>3. CASE p[m + 1] > p[i]
      <4>1. First(p, m + 1, m + 1)
        BY <3>1, <3>2, <3>3 DEF First
      <4> QED
        BY <4>1
    <3>4. CASE ~(p[m + 1] > p[i])
      <4>1. First(p, m + 1, i)
        BY <3>1, <3>2, <3>4 DEF First
      <4> QED
        BY <4>1
    <3> QED
      BY <3>3, <3>4
  <2> QED
    BY <2>2, <2>3
<1> HIDE DEF S
<1>3. n \in S
  BY <1>1, <1>2, SumLoop!SetInduction
<1>4. PICK i \in Nat : First(p, n, i)
  BY <1>3 DEF S
<1>5. FirstLargest(p) = CHOOSE x \in 1 .. n : \A j \in 1 .. n : p[j] < p[x] \/ (p[j] = p[x] /\ x <= j)
  BY DEF FirstLargest
<1>6. /\ FirstLargest(p) \in 1 .. n
      /\ \A j \in 1 .. n : p[j] < p[FirstLargest(p)] \/ (p[j] = p[FirstLargest(p)] /\ FirstLargest(p) <= j)
  BY <1>4, <1>5 DEF First
<1> QED
  BY <1>6

LEMMA LargestIs ==
  ASSUME NEW n \in Nat, n > 0, NEW z \in [1 .. n -> Int]
  PROVE  \E i \in 1 .. n : Max({z[k] : k \in DOMAIN z}) = z[i] /\ \A j \in 1 .. n : z[j] <= z[i]
<1> DEFINE i == FirstLargest(z)
           T == {z[k] : k \in DOMAIN z}
<1>1. i \in 1 .. n /\ \A j \in 1 .. n : z[j] <= z[i]
  BY FirstLargestIs
<1> HIDE DEF i
<1>2. z[i] \in T /\ \A y \in T : z[i] >= y /\ y \in Int
  BY <1>1
<1>3. Max(T) \in T /\ \A y \in T : Max(T) >= y
  BY <1>2 DEF Max
<1> HIDE DEF T
<1>4. Max(T) = z[i]
  <2>1. z[i] \in Int /\ Max(T) \in Int /\ z[i] >= Max(T) /\ Max(T) >= z[i]
    BY <1>2, <1>3
  <2> QED
    BY <2>1
<1> USE DEF T
<1> QED
  BY <1>1, <1>4

-----------------------------------------------------------------------------
(* Distributions: as many probabilities as there are options.              *)
Shares(p, n) == Terms(p, n) /\ \A k \in 1 .. n : p[k] <= One

LEMMA ScaledIs ==
  ASSUME NEW n \in Nat, NEW p, Terms(p, n), Total(p) > 0
  PROVE  Shares(Scaled(p, Total(p)), n)
<1> DEFINE t == Total(p)
           s == Scaled(p, t)
<1>1. t \in Nat /\ t > 0 /\ \A k \in 1 .. n : p[k] \in Nat /\ p[k] <= t
  BY TotalIs DEF Terms
<1> HIDE DEF t
<1>2. s = [k \in 1 .. n |-> Over(p[k], t)]
  BY DEF Scaled, Terms
<1>3. ASSUME NEW k \in 1 .. n PROVE s[k] \in Nat /\ Fits(s[k]) /\ s[k] <= One
  <2>1. s[k] = Over(p[k], t) /\ p[k] \in Nat /\ p[k] <= t
    BY <1>1, <1>2
  <2> QED
    BY <1>1, <2>1, OverIs
<1>4. s \in [1 .. n -> Nat]
  BY <1>2, <1>3
<1> QED
  BY <1>3, <1>4 DEF Shares, Terms, t

(* Giving the rest to the largest entry leaves shares, and never nothing:  *)
(* the rest is negative only where another entry is positive.              *)
LEMMA SettleIs ==
  ASSUME NEW n \in Nat, n > 0, NEW p, Shares(p, n)
  PROVE  Shares(Settle(p), n) /\ \E k \in 1 .. n : Settle(p)[k] > 0
<1> DEFINE t == Total(p)
           rest == Minus(One, t)
           f == FirstLargest(p)
           x == Plus(p[f], rest)
           v == Clamp(x, 0, One)
<1>1. p \in [1 .. n -> Nat] /\ \A k \in 1 .. n : p[k] \in Nat /\ Fits(p[k]) /\ p[k] <= One
  BY DEF Shares, Terms
<1>2. t \in Nat /\ \A k \in 1 .. n : p[k] <= t
  BY TotalIs DEF Shares
<1>3. rest \in Int
  BY <1>2, Unit, IntOperations
<1>4. f \in 1 .. n /\ \A k \in 1 .. n : p[k] <= p[f]
  <2>1. p \in [1 .. n -> Int]
    BY <1>1
  <2> QED
    BY <2>1, FirstLargestIs
<1>5. p[f] \in Nat
  BY <1>1, <1>4
<1>6. x \in Int /\ v \in 0 .. One /\ v \in {x, 0, One} /\ (x > 0 => v > 0)
  <2> DEFINE y == p[f]
  <2>1. y \in Int /\ x = Plus(y, rest)
    BY <1>5
  <2> HIDE DEF rest, y, x
  <2>2. x \in Int
    BY <1>3, <2>1, IntOperations
  <2>3. 0 \in Int /\ One \in Int /\ 0 <= One /\ One > 0
    BY Unit
  <2>4. Clamp(x, 0, One) \in 0 .. One /\ Clamp(x, 0, One) \in {x, 0, One}
        /\ (x > 0 => Clamp(x, 0, One) > 0 \/ Clamp(x, 0, One) = One)
    BY <2>2, <2>3, ClampIs
  <2> QED
    BY <2>2, <2>3, <2>4
<1>7. Fits(v)
  <2>1. CASE v = 0 \/ v = One
    BY <2>1, Unit
  <2>2. CASE v = x
    <3>1. CASE p[f] + rest >= 0
      <4>1. p[f] + rest \in Nat
        BY <1>3, <1>5, <3>1
      <4> QED
        BY <2>2, <4>1, RoundedFits DEF Plus
    <3>2. CASE p[f] + rest < 0
      <4>1. p[f] + rest \in Int
        BY <1>3, <1>5
      <4>2. Plus(p[f], rest) = -Rounded(-(p[f] + rest), 1) /\ Rounded(-(p[f] + rest), 1) \in Nat
        BY <3>2, <4>1, RoundedMirrors DEF Plus
      <4>3. v = 0
        BY <1>6, <2>2, <4>2
      <4> QED
        BY <4>3, Unit
    <3> QED
      BY <1>3, <1>5, <3>1, <3>2
  <2> QED
    BY <1>6, <2>1, <2>2
<1>8. Settle(p) = IF rest = 0 THEN p ELSE [p EXCEPT ![f] = v]
  BY DEF Settle, PushResidue
<1>9. Shares(Settle(p), n)
  <2>1. CASE rest = 0
    BY <1>8, <2>1
  <2>2. CASE rest # 0
    <3> DEFINE q == [p EXCEPT ![f] = v]
    <3>1. Settle(p) = q
      BY <1>8, <2>2
    <3> HIDE DEF rest, f, x, v
    <3>0. v \in Nat /\ f \in 1 .. n
      BY <1>4, <1>6, Unit
    <3>2. q \in [1 .. n -> Nat] /\ \A k \in 1 .. n : q[k] = IF k = f THEN v ELSE p[k]
      BY <1>1, <3>0
    <3> HIDE DEF q
    <3>3. \A k \in 1 .. n : Fits(q[k]) /\ q[k] <= One
      BY <1>1, <1>6, <1>7, <3>2
    <3> QED
      BY <3>1, <3>2, <3>3 DEF Shares, Terms
  <2> QED
    BY <2>1, <2>2
<1>10. t = One => rest = 0
  BY Unit, RoundedExact DEF Minus
<1>11. \E k \in 1 .. n : Settle(p)[k] > 0
  <2>1. CASE rest = 0
    <3>1. t # 0
      <4>1. Minus(One, 0) = One
        BY Unit, RoundedExact DEF Minus
      <4> QED
        BY <2>1, <4>1, Unit
    <3>2. SUFFICES ASSUME \A k \in 1 .. n : p[k] = 0 PROVE FALSE
      BY <1>1, <1>8, <2>1
    <3>3. t = 0
      BY <3>2, TotalOfOne DEF Shares
    <3> QED
      BY <3>1, <3>3
  <2>2. CASE rest > 0
    <3>1. p[f] + rest \in Nat /\ 1 * 1 <= p[f] + rest
      BY <1>3, <1>5, <2>2
    <3>2. 1 <= x
      BY <3>1, Unit, RoundedAtLeast DEF Plus
    <3>3. v > 0
      BY <1>6, <3>2
    <3>4. Settle(p)[f] = v
      BY <1>1, <1>4, <1>8, <2>2
    <3> QED
      BY <1>4, <3>3, <3>4
  <2>3. CASE rest < 0
    <3>1. SUFFICES ASSUME \A k \in 1 .. n : k # f => p[k] = 0 PROVE FALSE
      <4>1. SUFFICES ASSUME NEW k \in 1 .. n, k # f, p[k] # 0 PROVE Settle(p)[k] > 0
        OBVIOUS
      <4>2. Settle(p)[k] = p[k]
        BY <1>1, <1>8, <2>3, <4>1
      <4> QED
        BY <1>1, <4>1, <4>2
    <3>2. t <= One
      <4>1. t = IF f \in 1 .. n THEN p[f] ELSE 0
        BY <1>4, <3>1, TotalOfOne DEF Shares
      <4> QED
        BY <1>1, <1>4, <4>1
    <3>3. One - t \in Nat
      BY <1>2, <3>2, Unit
    <3>4. rest \in Nat
      BY <3>3, RoundedIs DEF Minus
    <3> QED
      BY <2>3, <3>4
  <2> HIDE DEF rest
  <2> QED
    BY <1>3, <2>1, <2>2, <2>3
<1> QED
  BY <1>9, <1>11

LEMMA FixSumIs ==
  ASSUME NEW n \in Nat, n > 0, NEW p, Terms(p, n)
  PROVE  Shares(FixSum(p), n) /\ \E k \in 1 .. n : FixSum(p)[k] > 0
<1>1. p # <<>>
  BY DEF Terms
<1> DEFINE q == IF Total(p) \in {0, One} THEN p ELSE Scaled(p, Total(p))
<1>2. FixSum(p) = Settle(q)
  BY <1>1 DEF FixSum
<1>3. Total(p) \in Nat /\ \A k \in 1 .. n : p[k] <= Total(p)
  BY TotalIs
<1>4. Shares(q, n)
  <2>1. CASE Total(p) \in {0, One}
    <3>1. \A k \in 1 .. n : p[k] \in Nat /\ p[k] <= One
      BY <1>3, <2>1, Unit DEF Terms
    <3> QED
      BY <2>1, <3>1 DEF Shares
  <2>2. CASE Total(p) \notin {0, One}
    <3>1. Total(p) > 0
      BY <1>3, <2>2
    <3> QED
      BY <2>2, <3>1, ScaledIs
  <2> QED
    BY <2>1, <2>2
<1> HIDE DEF q
<1> QED
  BY <1>2, <1>4, SettleIs

LEMMA NormalisedIs ==
  ASSUME NEW n \in Nat, n > 0, NEW p, Terms(p, n), \E k \in 1 .. n : p[k] > 0
  PROVE  Shares(Normalised(p), n) /\ \E k \in 1 .. n : Normalised(p)[k] > 0
<1>1. Total(p) \in Nat /\ \A k \in 1 .. n : p[k] <= Total(p) /\ p[k] \in Nat
  BY TotalIs DEF Terms
<1>2. Total(p) > 0
  BY <1>1
<1>3. Terms(Scaled(p, Total(p)), n)
  BY <1>2, ScaledIs DEF Shares
<1> DEFINE s == Scaled(p, Total(p))
<1> HIDE DEF s
<1>4. Terms(s, n)
  BY <1>3 DEF s
<1>5. Shares(FixSum(s), n) /\ \E k \in 1 .. n : FixSum(s)[k] > 0
  BY <1>4, FixSumIs
<1> QED
  BY <1>5 DEF Normalised, s

(* What the code takes from its mathematical library: exp of a negated     *)
(* number is a number from 0 to 1, and 1 at 0; the logistic function gives *)
(* a number.                                                               *)
FunctionsRound ==
  /\ Exp(0) = One
  /\ \A d \in Nat : Exp(d) \in 0 .. One /\ Exact(Exp(d))
  /\ \A x \in Int : Logistic(x) \in Int

(* The exponential of the highest logit is one, the others are shares.     *)
LEMMA ExponentialsAre ==
  ASSUME FunctionsRound, NEW n \in Nat, n > 0, NEW z \in [1 .. n -> Int], NEW t \in Nat, t > 0
  PROVE  Terms(Exponentials(z, t), n) /\ \E k \in 1 .. n : Exponentials(z, t)[k] > 0
<1> DEFINE top == Max({z[k] : k \in DOMAIN z})
           e == Exponentials(z, t)
<1>1. PICK i \in 1 .. n : top = z[i] /\ \A j \in 1 .. n : z[j] <= z[i]
  BY LargestIs
<1>2. e = [k \in 1 .. n |-> Exp(Over(top - z[k], t))]
  BY DEF Exponentials
<1> HIDE DEF top, e
<1>3. ASSUME NEW k \in 1 .. n PROVE e[k] \in Nat /\ Fits(e[k])
  <2>1. top - z[k] \in Nat
    BY <1>1
  <2>2. Over(top - z[k], t) \in Nat
    BY <2>1, OverIs
  <2>3. Exp(Over(top - z[k], t)) \in 0 .. One /\ Exact(Exp(Over(top - z[k], t)))
    BY <2>2 DEF FunctionsRound
  <2>4. e[k] = Exp(Over(top - z[k], t))
    BY <1>2
  <2>5. e[k] \in Nat /\ Exact(e[k])
    BY <2>3, <2>4, Unit
  <2> QED
    BY <2>5, ExactFits
<1>4. e \in [1 .. n -> Nat]
  BY <1>2, <1>3
<1>5. e[i] = One
  <2>1. top - z[i] = 0
    BY <1>1
  <2>2. Over(top - z[i], t) = 0
    BY <2>1, OverZero
  <2> QED
    BY <1>2, <2>2 DEF FunctionsRound
<1>6. Terms(e, n) /\ e[i] > 0
  BY <1>3, <1>4, <1>5, Unit DEF Terms
<1> QED
  BY <1>6 DEF e

LEMMA SoftmaxIs ==
  ASSUME FunctionsRound, NEW n \in Nat, n > 0, NEW z \in [1 .. n -> Int], NEW t \in Int
  PROVE  Shares(SoftmaxTemp(z, t), n) /\ \E k \in 1 .. n : SoftmaxTemp(z, t)[k] > 0
<1> DEFINE s == Max({t, MinTemperature})
           e == Exponentials(z, s)
<1>1. s \in Nat /\ s > 0
  <2>1. MinTemperature \in Nat /\ MinTemperature > 0
    BY CalibrateAssumption
  <2> QED
    BY <2>1, TwoInts
<1>2. Terms(e, n) /\ \E k \in 1 .. n : e[k] > 0
  <2> HIDE DEF s
  <2> QED
    BY <1>1, ExponentialsAre
<1>3. z # <<>>
  OBVIOUS
<1>4. SoftmaxTemp(z, t) = Normalised(e)
  BY <1>3 DEF SoftmaxTemp
<1> HIDE DEF e
<1>5. Shares(Normalised(e), n) /\ \E k \in 1 .. n : Normalised(e)[k] > 0
  BY <1>2, NormalisedIs
<1> QED
  BY <1>4, <1>5

LEMMA LengthIs ==
  ASSUME NEW n \in Nat, NEW p, DOMAIN p = 1 .. n, p \in [1 .. n -> Int]
  PROVE  Len(p) = n /\ p \in Seq(Int)
  BY LenProperties

LEMMA MixedIs ==
  ASSUME NEW n \in Nat, n > 0, NEW p, Shares(p, n), NEW eps \in 0 .. One
  PROVE  Shares(Mixed(p, eps), n) /\ \E k \in 1 .. n : Mixed(p, eps)[k] > 0
<1> DEFINE u == Over(One, Len(p) * One)
           q == [k \in DOMAIN p |-> Plus(Times(Minus(One, eps), p[k]), Times(eps, u))]
<1>1. p \in [1 .. n -> Nat] /\ DOMAIN p = 1 .. n /\ \A k \in 1 .. n : p[k] \in Nat
  BY DEF Shares, Terms
<1>2. Len(p) = n
  BY <1>1, LengthIs
<1>3. n * One \in Nat /\ n * One > 0
  BY Unit
<1>4. u \in Nat
  BY <1>2, <1>3, Unit, OverIs
<1>5. One - eps \in Nat
  BY Unit
<1>6. Minus(One, eps) \in Nat /\ eps \in Nat
  BY <1>5, RoundedIs DEF Minus
<1> HIDE DEF u
<1>7. ASSUME NEW k \in 1 .. n PROVE q[k] \in Nat /\ Fits(q[k])
  <2>1. Times(Minus(One, eps), p[k]) \in Nat /\ Times(eps, u) \in Nat
    BY <1>1, <1>4, <1>6, TimesIs
  <2>2. q[k] = Plus(Times(Minus(One, eps), p[k]), Times(eps, u))
    BY <1>1
  <2> QED
    BY <2>1, <2>2, PlusIs
<1>8. q \in [1 .. n -> Nat]
  BY <1>1, <1>7
<1>9. Mixed(p, eps) = FixSum(q)
  BY DEF Mixed, u
<1> HIDE DEF q
<1>10. Terms(q, n)
  BY <1>7, <1>8 DEF Terms
<1> QED
  BY <1>9, <1>10, FixSumIs

(* A smoothed level keeps at least its own probability.                    *)
SmoothStep(p, lambda, i, acc, j) ==
  IF i - j \in -2 .. 2 THEN Plus(acc, Times(p[j], Power(lambda, Max({i - j, j - i})))) ELSE acc

SmoothLoop == INSTANCE Folding WITH Step <- SmoothStep, Good <- Whatever

LEMMA SmoothStepIs ==
  ASSUME NEW n \in Nat, NEW p, Shares(p, n), NEW lambda \in 0 .. One,
         NEW i \in 1 .. n, NEW j \in 1 .. n, NEW acc, Fits(acc)
  PROVE  /\ Fits(SmoothStep(p, lambda, i, acc, j))
         /\ acc <= SmoothStep(p, lambda, i, acc, j)
         /\ j = i => p[i] <= SmoothStep(p, lambda, i, acc, j)
<1> DEFINE w == Power(lambda, Max({i - j, j - i}))
           a == Times(p[j], w)
           s == SmoothStep(p, lambda, i, acc, j)
<1>1. p[j] \in Nat /\ Fits(p[j]) /\ acc \in Nat /\ lambda \in Nat
  BY DEF Shares, Terms, Fits
<1>2. w \in Nat
  BY <1>1, Unit, TimesIs DEF Power
<1>3. j = i => w = One
  <2>1. SUFFICES ASSUME j = i PROVE Max({i - j, j - i}) = 0
    BY DEF Power
  <2>2. i - j = 0 /\ j - i = 0
    BY <2>1
  <2> QED
    BY <2>2, TwoInts
<1>4. s = IF i - j \in -2 .. 2 THEN Plus(acc, a) ELSE acc
  BY DEF SmoothStep
<1> HIDE DEF w, s
<1>5. a \in Nat /\ Fits(a) /\ (j = i => a = p[i])
  BY <1>1, <1>2, <1>3, TimesIs, TimesOne
<1> HIDE DEF a
<1>6. Fits(Plus(acc, a)) /\ acc <= Plus(acc, a) /\ a <= Plus(acc, a)
  <2>1. acc <= acc + a /\ a <= acc + a
    BY <1>1, <1>5
  <2> QED
    BY <1>1, <1>5, <2>1, PlusIs, PlusGrows
<1>7. j = i => i - j \in -2 .. 2
  OBVIOUS
<1> QED
  BY <1>1, <1>4, <1>5, <1>6, <1>7 DEF s

LEMMA SmoothedEntry ==
  ASSUME NEW n \in Nat, NEW p, Shares(p, n), NEW lambda \in 0 .. One, NEW i \in 1 .. n
  PROVE  Fits(Smoothed(p, lambda)[i]) /\ p[i] <= Smoothed(p, lambda)[i]
<1> DEFINE seq == [j \in DOMAIN p |-> j]
<1>1. DOMAIN p = 1 .. n /\ DOMAIN seq = 1 .. n /\ \A j \in 1 .. n : seq[j] = j
  BY DEF Shares, Terms
<1>2. Smoothed(p, lambda)[i] = SmoothLoop!Fold(p, lambda, i, 0, seq)
  BY <1>1 DEF Smoothed, SmoothLoop!Fold, FoldLeft, MapThenFoldSet,
              Max, SmoothLoop!Greatest, SmoothStep
<1> HIDE DEF seq
<1>3. PICK acc : /\ acc[0] = 0
                 /\ \A j \in 1 .. n : acc[j] = SmoothStep(p, lambda, i, acc[j - 1], seq[j])
                 /\ SmoothLoop!Fold(p, lambda, i, 0, seq) = acc[n]
  BY <1>1, SmoothLoop!FoldIsLoop
<1> DEFINE S == {m \in Nat : m <= n => Fits(acc[m]) /\ (i <= m => p[i] <= acc[m])}
<1>4. 0 \in S
  BY <1>3, Unit
<1>5. ASSUME NEW m \in Nat, m \in S PROVE m + 1 \in S
  <2>1. SUFFICES ASSUME m + 1 <= n PROVE Fits(acc[m + 1]) /\ (i <= m + 1 => p[i] <= acc[m + 1])
    OBVIOUS
  <2>2. m + 1 \in 1 .. n /\ (m + 1) - 1 = m /\ Fits(acc[m]) /\ (i <= m => p[i] <= acc[m])
    BY <1>5, <2>1
  <2>3. acc[m + 1] = SmoothStep(p, lambda, i, acc[m], m + 1)
    BY <1>1, <1>3, <2>2
  <2>4. Fits(acc[m + 1]) /\ acc[m] <= acc[m + 1] /\ (m + 1 = i => p[i] <= acc[m + 1])
    BY <2>2, <2>3, SmoothStepIs
  <2>5. p[i] \in Nat /\ acc[m] \in Nat /\ acc[m + 1] \in Nat
    BY <2>2, <2>4 DEF Shares, Terms, Fits
  <2> QED
    BY <2>2, <2>4, <2>5
<1> HIDE DEF S
<1>6. n \in S
  BY <1>4, <1>5, SumLoop!SetInduction
<1> QED
  BY <1>2, <1>3, <1>6 DEF S

LEMMA OrdinalSmoothIs ==
  ASSUME NEW n \in Nat, n > 0, NEW p, Shares(p, n), \E k \in 1 .. n : p[k] > 0, NEW lambda \in 0 .. One
  PROVE  Shares(OrdinalSmooth(p, lambda), n)
<1> DEFINE q == Smoothed(p, lambda)
<1>1. DOMAIN p = 1 .. n
  BY DEF Shares, Terms
<1>2. q = [i \in 1 .. n |-> q[i]]
  BY <1>1 DEF Smoothed
<1> HIDE DEF q
<1>3. \A i \in 1 .. n : Fits(q[i]) /\ p[i] <= q[i] /\ p[i] \in Nat
  BY SmoothedEntry DEF q, Shares, Terms
<1>4. \A i \in 1 .. n : q[i] \in Nat
  BY <1>3 DEF Fits
<1>5. Terms(q, n)
  BY <1>2, <1>3, <1>4 DEF Terms
<1>6. \E k \in 1 .. n : q[k] > 0
  BY <1>3, <1>4
<1>7. Shares(Normalised(q), n)
  BY <1>5, <1>6, NormalisedIs
<1> QED
  BY <1>7 DEF OrdinalSmooth, q

-----------------------------------------------------------------------------
(* A calibration whose numbers are what the fit may store.                 *)
Pair(p) == p.a \in Int /\ p.b \in Int
Ints(map) == \A k \in DOMAIN map : map[k] \in Int
Rate(x) == x \in 0 .. One /\ Fits(x)

CalOK(c) ==
  /\ Ints(c.temperature)
  /\ \A k \in DOMAIN c.family : Ints(c.family[k])
  /\ \A k \in DOMAIN c.bucket : Ints(c.bucket[k])
  /\ c.symbolic \in Int
  /\ Ints(c.gamma)
  /\ \A k \in DOMAIN c.epsilon : Rate(c.epsilon[k])
  /\ Pair(c.platt)
  /\ \A k \in DOMAIN c.familyPlatt : Pair(c.familyPlatt[k])
  /\ \A k \in DOMAIN c.symbolicPlatt : Pair(c.symbolicPlatt[k])
  /\ c.lambda \in 0 .. One

LEMMA LookupInt ==
  ASSUME NEW map, Ints(map), NEW key, NEW default \in Int
  PROVE  Lookup(map, key, default) \in Int
  BY DEF Ints, Lookup

LEMMA LookupGroup ==
  ASSUME NEW map, \A k \in DOMAIN map : Ints(map[k]), NEW key
  PROVE  Ints(Lookup(map, key, <<>>))
<1>1. Ints(<<>>)
  BY DEF Ints
<1> QED
  BY <1>1 DEF Lookup

LEMMA TemperatureForIs ==
  ASSUME NEW c, CalOK(c), NEW k, NEW family, NEW size
  PROVE  TemperatureFor(c, k, family, size) \in Nat /\ TemperatureFor(c, k, family, size) >= 1
<1> DEFINE a == Lookup(Lookup(c.family, k, <<>>), family, Lookup(c.temperature, k, One))
           b == Lookup(Lookup(c.bucket, k, <<>>), CardinalityBucket(size), One)
<1>1. One \in Int
  BY Unit
<1>2. a \in Int
  BY <1>1, LookupInt, LookupGroup DEF CalOK
<1>3. b \in Int
  BY <1>1, LookupInt, LookupGroup DEF CalOK
<1>4. TemperatureFor(c, k, family, size) = Max({MinTemperature, Times(a, b)})
  BY DEF TemperatureFor
<1> HIDE DEF a, b
<1>5. Times(a, b) \in Int
  BY <1>2, <1>3, IntOperations
<1>6. MinTemperature \in Nat /\ MinTemperature >= 1
  BY CalibrateAssumption
<1> QED
  BY <1>4, <1>5, <1>6, TwoInts

LEMMA TemperatureIs ==
  ASSUME NEW c, CalOK(c), NEW q, QuestionOK(q)
  PROVE  Temperature(c, q) \in Int
<1>1. MinTemperature \in Int /\ c.symbolic \in Int /\ q.evidence \in Int
  BY CalibrateAssumption DEF CalOK, QuestionOK
<1>2. Max({c.symbolic, MinTemperature}) \in Int
  BY <1>1, TwoInts
<1> DEFINE g == Lookup(c.gamma, q.kind, 0)
           e == Clamp(q.evidence, 0, One)
           t == TemperatureFor(c, q.kind, q.family, Len(q.logits))
           m == EvidenceMultiplier(c, q.kind, q.evidence)
<1>3. m \in Int
  <2>1. g \in Int
    BY LookupInt DEF CalOK
  <2>2. 0 \in Int /\ One \in Int /\ 0 <= One
    BY Unit
  <2>3. e \in Int
    <3> DEFINE ev == q.evidence
    <3>1. ev \in Int
      BY <1>1
    <3> HIDE DEF ev
    <3>2. Clamp(ev, 0, One) \in 0 .. One
      BY <2>2, <3>1, ClampIs
    <3>3. e \in 0 .. One
      BY <3>2 DEF ev
    <3> HIDE DEF e
    <3> QED
      BY <2>2, <3>3
  <2>4. m = Plus(One, Times(Max({g, 0}), Minus(One, e)))
    BY DEF EvidenceMultiplier
  <2> HIDE DEF g, e
  <2>5. Max({g, 0}) \in Int
    BY <2>1, <2>2, TwoInts
  <2>6. Minus(One, e) \in Int
    BY <2>2, <2>3, IntOperations
  <2>7. Times(Max({g, 0}), Minus(One, e)) \in Int
    BY <2>5, <2>6, IntOperations
  <2> QED
    BY <2>2, <2>4, <2>7, IntOperations
<1>4. t \in Int
  BY TemperatureForIs
<1>5. Temperature(c, q) = IF q.symbolic THEN Max({c.symbolic, MinTemperature}) ELSE Times(t, m)
  BY DEF Temperature
<1> HIDE DEF t, m
<1>6. Times(t, m) \in Int
  BY <1>3, <1>4, IntOperations
<1> QED
  BY <1>2, <1>5, <1>6

LEMMA EpsilonIs ==
  ASSUME NEW c, CalOK(c), NEW k
  PROVE  /\ EpsilonFor(c, k) \in 0 .. One \div 2
         /\ Fits(EpsilonFor(c, k))
<1> DEFINE x == Lookup(c.epsilon, k, DefaultEpsilon)
           h == One \div 2
<1>1. Rate(DefaultEpsilon)
  <2>1. DefaultEpsilon \in Nat /\ DefaultEpsilon \in 0 .. One /\ Exact(DefaultEpsilon)
    BY Unit, CalibrateAssumption
  <2> QED
    BY <2>1, ExactFits DEF Rate
<1>2. Rate(x)
  BY <1>1 DEF CalOK, Lookup
<1>3. EpsilonFor(c, k) = Clamp(x, 0, h)
  BY DEF EpsilonFor
<1>4. h \in Nat /\ 0 <= h /\ h \in Int /\ Fits(h) /\ Fits(0)
  BY Unit
<1> HIDE DEF x, h
<1>5. x \in Int /\ 0 \in Int /\ Fits(x)
  BY <1>2, Unit DEF Rate
<1>6. Clamp(x, 0, h) \in 0 .. h /\ Clamp(x, 0, h) \in {x, 0, h}
  BY <1>4, <1>5, ClampIs
<1> QED
  BY <1>3, <1>4, <1>5, <1>6 DEF h

(* What a question is answered with, and what an example of the fit gives. *)
Served(p, q) == Shares(p, Len(q.logits))

LEMMA QuestionLogits ==
  ASSUME NEW q, QuestionOK(q)
  PROVE  /\ Len(q.logits) \in Nat /\ Len(q.logits) > 0
         /\ q.logits \in [1 .. Len(q.logits) -> Int]
<1>1. q.logits \in Seq(Int) /\ Len(q.logits) > 0
  BY DEF QuestionOK
<1> QED
  BY <1>1, LenProperties

LEMMA SmoothIs ==
  ASSUME NEW c, CalOK(c), NEW q, QuestionOK(q), NEW p, Served(p, q),
         \E k \in 1 .. Len(q.logits) : p[k] > 0
  PROVE  Served(Smooth(c, q, p), q)
<1> DEFINE n == Len(q.logits)
           l == c.lambda
<1>1. n \in Nat /\ n > 0 /\ Shares(p, n) /\ \E k \in 1 .. n : p[k] > 0
  BY QuestionLogits DEF Served
<1>2. l \in 0 .. One
  BY DEF CalOK
<1> HIDE DEF n, l
<1>3. Shares(OrdinalSmooth(p, l), n)
  BY <1>1, <1>2, OrdinalSmoothIs
<1> QED
  BY <1>1, <1>3 DEF Smooth, Served, n, l

LEMMA QuestionSoftmax ==
  ASSUME FunctionsRound, NEW c, CalOK(c), NEW q, QuestionOK(q)
  PROVE  /\ Served(SoftmaxTemp(q.logits, Temperature(c, q)), q)
         /\ \E k \in 1 .. Len(q.logits) : SoftmaxTemp(q.logits, Temperature(c, q))[k] > 0
<1> DEFINE n == Len(q.logits)
           z == q.logits
           t == Temperature(c, q)
<1>1. n \in Nat /\ n > 0 /\ z \in [1 .. n -> Int]
  BY QuestionLogits
<1>2. t \in Int
  BY TemperatureIs
<1> HIDE DEF n, z, t
<1>3. Shares(SoftmaxTemp(z, t), n) /\ \E k \in 1 .. n : SoftmaxTemp(z, t)[k] > 0
  BY <1>1, <1>2, SoftmaxIs
<1> QED
  BY <1>3 DEF Served, n, z, t

LEMMA FittedOnIs ==
  ASSUME FunctionsRound, CalOK(cal), NEW q, QuestionOK(q)
  PROVE  Served(FittedOn(q), q)
<1> DEFINE p == SoftmaxTemp(q.logits, Temperature(cal, q))
<1>1. Served(p, q) /\ \E k \in 1 .. Len(q.logits) : p[k] > 0
  BY QuestionSoftmax
<1> HIDE DEF p
<1>2. Served(Smooth(cal, q, p), q)
  BY <1>1, SmoothIs
<1> QED
  BY <1>2 DEF FittedOn, p

LEMMA ProbabilitiesAre ==
  ASSUME FunctionsRound, NEW c, CalOK(c), NEW q, QuestionOK(q)
  PROVE  Served(Probabilities(c, q), q)
<1> DEFINE n == Len(q.logits)
           p == SoftmaxTemp(q.logits, Temperature(c, q))
           eps == EpsilonFor(c, q.kind)
           m == Mix(c, q, p)
<1>1. Shares(p, n) /\ (\E k \in 1 .. n : p[k] > 0) /\ n \in Nat /\ n > 0
  BY QuestionSoftmax, QuestionLogits DEF Served
<1>2. eps \in 0 .. One
  <2>1. eps \in 0 .. One \div 2
    BY EpsilonIs
  <2> HIDE DEF eps
  <2> QED
    BY <2>1, Unit
<1>3. m = IF q.symbolic THEN Mixed(p, eps) ELSE p
  BY DEF Mix
<1> HIDE DEF n, p, eps, m
<1>4. Shares(m, n) /\ \E k \in 1 .. n : m[k] > 0
  BY <1>1, <1>2, <1>3, MixedIs
<1>5. Served(Smooth(c, q, m), q)
  BY <1>4, SmoothIs DEF Served, n
<1> QED
  BY <1>5 DEF Probabilities, m, p

LEMMA LookupPair ==
  ASSUME NEW map, \A k \in DOMAIN map : Pair(map[k]), NEW default, Pair(default), NEW key
  PROVE  Pair(Lookup(map, key, default))
  BY DEF Lookup

LEMMA PlattIs ==
  ASSUME FunctionsRound, NEW x \in Int, NEW params, Pair(params)
  PROVE  Platt(x, params) \in 0 .. One
<1> DEFINE a == params.a
           b == params.b
           y == Times(a, x)
           s == Plus(y, b)
           v == Logistic(s)
<1>1. a \in Int /\ b \in Int
  BY DEF Pair
<1>2. y \in Int
  <2> HIDE DEF a
  <2> QED
    BY <1>1, IntOperations
<1>3. s \in Int
  <2> HIDE DEF y, b
  <2> QED
    BY <1>1, <1>2, IntOperations
<1>4. v \in Int
  BY <1>3 DEF FunctionsRound
<1>5. Platt(x, params) = Clamp(v, 0, One)
  BY DEF Platt
<1>6. 0 \in Int /\ One \in Int /\ 0 <= One
  BY Unit
<1> HIDE DEF v
<1> QED
  BY <1>4, <1>5, <1>6, ClampIs

(* The probability of a Noul that a resolver answered is mixed with a half.*)
(* The remainder of the error rate may be rounded up, by less than what it *)
(* takes to round the sum above one: there the numbers are twice as sparse.*)
LEMMA MixedHalf ==
  ASSUME NEW eps \in 0 .. One \div 2, Fits(eps), NEW p \in 0 .. One
  PROVE  Plus(Times(Minus(One, eps), p), Times(eps, One \div 2)) \in 0 .. One
<1> DEFINE a == Minus(One, eps)
           b == Times(a, p)
           h == One \div 2
           c == Times(eps, h)
           s == Plus(b, c)
<1>1. One \in Nat /\ One > 0 /\ h \in Nat /\ h <= One /\ eps \in Nat /\ eps <= One /\ p \in Nat /\ p <= One
      /\ One - eps \in Nat
  BY Unit
<1>2. a \in Nat /\ Fits(a)
  BY <1>1, RoundedIs, RoundedFits DEF Minus
<1> HIDE DEF h
<1>3. c \in Nat /\ c <= eps
  BY <1>1, TimesIs, TimesAtMost
<1>4. 2 * a <= 2 * (One - eps) + Ulp[One - eps]
  BY <1>1, RoundedClose DEF Minus
<1>5. One <= Significands \/ eps = 0 => a = One - eps
  <2> DEFINE r == One - eps
  <2>1. SUFFICES ASSUME One <= Significands \/ eps = 0 PROVE a = r
    OBVIOUS
  <2>2. Fits(r)
    <3>1. CASE eps = 0
      BY <1>1, <3>1, Unit
    <3>2. CASE One <= Significands
      <4>1. r <= Significands
        BY <1>1, <3>2, Significant
      <4> QED
        BY <1>1, <4>1, SmallFits
    <3> QED
      BY <2>1, <3>1, <3>2
  <2>3. a = Rounded(r, 1) /\ r * 1 = r
    BY <1>1 DEF Minus
  <2> HIDE DEF a, r
  <2>4. Rounded(r * 1, 1) = r
    BY <2>2, RoundedExact
  <2> QED
    BY <2>3, <2>4
<1> HIDE DEF a, c
<1>6. b \in Nat /\ b <= a
  BY <1>1, <1>2, TimesIs, TimesAtMost
<1> HIDE DEF b
<1>7. b + c \in Nat /\ b + c <= a + eps
  BY <1>1, <1>2, <1>3, <1>6
<1>8. CASE One <= Significands \/ eps = 0
  <2>1. b + c <= One * 1
    BY <1>1, <1>5, <1>7, <1>8
  <2> QED
    BY <1>7, <2>1, Unit, RoundedAtMost DEF Plus, a, b, c, h
<1>9. CASE One > Significands /\ eps > 0
  <2>1. Ulp[One] = 2 * Ulp[One - 1]
    BY <1>9, FloatAssumption
  <2>2. One - 1 \in Nat /\ One - eps <= One - 1
    BY <1>1, <1>9
  <2>3. Ulp[One - eps] <= Ulp[One - 1]
    BY <1>1, <2>2, UlpGrows
  <2>4. Ulp[One - 1] \in Nat /\ Ulp[One - 1] >= 1 /\ Ulp[One - eps] \in Nat
    BY <1>1, <2>2, UlpPositive
  <2>5. 2 * (b + c) <= 2 * One + Ulp[One - 1]
    BY <1>1, <1>2, <1>4, <1>7, <2>3, <2>4
  <2>6. 2 * (b + c) < 2 * One + Ulp[One]
    BY <1>1, <1>7, <2>1, <2>4, <2>5
  <2>7. Rounded(b + c, 1) <= One
    BY <1>7, <2>6, Unit, RoundedBelowHalf
  <2>8. Plus(b, c) \in Nat
    BY <1>3, <1>6, PlusIs
  <2> QED
    BY <1>1, <2>7, <2>8 DEF Plus, a, b, c, h
<1> QED
  BY <1>1, <1>8, <1>9, Significant

LEMMA NoulIs ==
  ASSUME FunctionsRound, NEW c, CalOK(c), NEW q, QuestionOK(q)
  PROVE  NoulProbability(c, q) \in 0 .. One
<1> DEFINE x == q.logits[1]
           eps == EpsilonFor(c, "noul")
           symbolic == Lookup(c.symbolicPlatt, "noul", c.platt)
           other == PlattFor(c, q.family)
           p == Platt(x, symbolic)
<1>1. x \in Int
  BY QuestionLogits
<1>2. Pair(symbolic) /\ Pair(other)
  BY LookupPair DEF CalOK, PlattFor
<1>3. eps \in 0 .. One \div 2 /\ Fits(eps)
  BY EpsilonIs
<1>4. NoulProbability(c, q) = IF q.symbolic THEN Plus(Times(Minus(One, eps), p), Times(eps, One \div 2))
                              ELSE Platt(x, other)
  BY DEF NoulProbability
<1> HIDE DEF x, eps, symbolic, other
<1>5. p \in 0 .. One /\ Platt(x, other) \in 0 .. One
  BY <1>1, <1>2, PlattIs
<1> HIDE DEF p
<1>6. Plus(Times(Minus(One, eps), p), Times(eps, One \div 2)) \in 0 .. One
  BY <1>3, <1>5, MixedHalf
<1> QED
  BY <1>4, <1>5, <1>6

-----------------------------------------------------------------------------
(* Counts and means over the examples of the split.                        *)
LEMMA ExamplesAre ==
  /\ Len(Examples) \in Nat /\ Len(Examples) <= Significands
  /\ DOMAIN Examples = 1 .. Len(Examples)
  /\ \A n \in DOMAIN Examples : QuestionOK(Examples[n])
  /\ \A e \in Range(Examples) : QuestionOK(e)
<1>1. Examples \in Seq(Range(Examples)) /\ Len(Examples) <= Significands
      /\ \A q \in Range(Examples) \cup Questions : QuestionOK(q)
  BY CalibrateAssumption
<1>2. Len(Examples) \in Nat /\ DOMAIN Examples = 1 .. Len(Examples)
  BY <1>1, LenProperties
<1>3. \A n \in DOMAIN Examples : Examples[n] \in Range(Examples)
  BY DEF Range
<1> QED
  BY <1>1, <1>2, <1>3

LEMMA Counted ==
  ASSUME NEW group \in SUBSET DOMAIN Examples
  PROVE  IsFiniteSet(group) /\ Cardinality(group) \in Nat /\ Cardinality(group) <= Significands
<1> DEFINE n == Len(Examples)
<1>1. n \in Nat /\ n <= Significands /\ group \in SUBSET (1 .. n)
  BY ExamplesAre
<1> HIDE DEF n
<1>2. IsFiniteSet(1 .. n) /\ Cardinality(1 .. n) = n
  BY <1>1, FS_Interval
<1>3. IsFiniteSet(group) /\ Cardinality(group) <= n
  BY <1>1, <1>2, FS_Subset
<1>4. Cardinality(group) \in Nat
  BY <1>3, FS_CardinalityType
<1> QED
  BY <1>1, <1>3, <1>4, Significant

MeanStep(group, c, k, acc, n) ==
  IF n \in group THEN Plus(acc, TemperatureFor(c, k, FamilyOf(Examples[n]), 1)) ELSE acc

MeanLoop == INSTANCE Folding WITH Step <- MeanStep, Good <- Whatever

MeanSum(group, c, k) == MeanLoop!Fold(group, c, k, 0, [n \in DOMAIN Examples |-> n])

(* A sum of temperatures is not less than their number.                    *)
LEMMA MeanSumIs ==
  ASSUME NEW c, CalOK(c), NEW k, NEW group \in SUBSET DOMAIN Examples
  PROVE  MeanSum(group, c, k) \in Nat /\ MeanSum(group, c, k) >= Cardinality(group)
<1> DEFINE len == Len(Examples)
           seq == [n \in DOMAIN Examples |-> n]
           part(m) == group \cap (1 .. m)
<1>1. len \in Nat /\ len <= Significands /\ DOMAIN Examples = 1 .. len
  BY ExamplesAre
<1>2. DOMAIN seq = 1 .. len /\ \A n \in 1 .. len : seq[n] = n
  BY <1>1
<1> HIDE DEF len
<1> HIDE DEF seq
<1>3. PICK acc : /\ acc[0] = 0
                 /\ \A n \in 1 .. len : acc[n] = MeanStep(group, c, k, acc[n - 1], seq[n])
                 /\ MeanLoop!Fold(group, c, k, 0, seq) = acc[len]
  BY <1>1, <1>2, MeanLoop!FoldIsLoop
<1> DEFINE S == {m \in Nat : m <= len => Fits(acc[m]) /\ Cardinality(part(m)) <= acc[m]}
<1>4. 0 \in S
  <2>1. part(0) = {}
    OBVIOUS
  <2>2. Cardinality(part(0)) = 0
    BY <2>1, FS_EmptySet
  <2> QED
    BY <1>3, <2>2, Unit
<1>5. ASSUME NEW m \in Nat, m \in S PROVE m + 1 \in S
  <2>1. SUFFICES ASSUME m + 1 <= len
                 PROVE  Fits(acc[m + 1]) /\ Cardinality(part(m + 1)) <= acc[m + 1]
    OBVIOUS
  <2>2. m + 1 \in 1 .. len /\ (m + 1) - 1 = m /\ Fits(acc[m]) /\ Cardinality(part(m)) <= acc[m]
    BY <1>1, <1>5, <2>1
  <2>3. acc[m + 1] = MeanStep(group, c, k, acc[m], m + 1)
    BY <1>2, <1>3, <2>2
  <2>4. CASE m + 1 \notin group
    <3>1. part(m + 1) = part(m)
      BY <2>4
    <3> QED
      BY <2>2, <2>3, <2>4, <3>1 DEF MeanStep
  <2>5. CASE m + 1 \in group
    <3> DEFINE t == TemperatureFor(c, k, FamilyOf(Examples[m + 1]), 1)
               before == part(m)
               count == Cardinality(part(m + 1))
    <3>1. part(m + 1) = before \cup {m + 1} /\ m + 1 \notin before
      BY <2>5
    <3>2. before \in SUBSET DOMAIN Examples /\ part(m + 1) \in SUBSET DOMAIN Examples
      OBVIOUS
    <3> HIDE DEF before
    <3>3. IsFiniteSet(before) /\ Cardinality(before) \in Nat /\ count \in Nat /\ count <= Significands
      BY <3>2, Counted
    <3>4. count = Cardinality(before) + 1
      BY <3>1, <3>3, FS_AddElement
    <3>5. Fits(count)
      BY <3>3, SmallFits
    <3>6. t \in Nat /\ t >= 1
      BY TemperatureForIs
    <3>7. acc[m] \in Nat /\ Cardinality(before) <= acc[m]
      BY <2>2 DEF Fits, before
    <3>8. acc[m + 1] = Plus(acc[m], t)
      BY <2>3, <2>5 DEF MeanStep
    <3> DEFINE y == acc[m]
    <3> HIDE DEF t, count, y
    <3>9. count <= y + t /\ y \in Nat /\ acc[m + 1] = Plus(y, t)
      BY <3>3, <3>4, <3>6, <3>7, <3>8 DEF y
    <3>10. Fits(Plus(y, t))
      BY <3>6, <3>9, PlusIs
    <3>11. count <= Plus(y, t)
      BY <3>5, <3>6, <3>9, PlusGrows
    <3> QED
      BY <3>9, <3>10, <3>11 DEF count
  <2> QED
    BY <2>4, <2>5
<1>6. part(len) = group
  BY <1>1
<1> HIDE DEF S
<1>7. len \in S
  BY <1>1, <1>4, <1>5, SumLoop!SetInduction
<1>8. MeanSum(group, c, k) = acc[len]
  BY <1>3 DEF MeanSum, seq
<1>9. Fits(acc[len]) /\ Cardinality(group) <= acc[len]
  <2>1. len <= len
    BY <1>1
  <2> QED
    BY <1>6, <1>7, <2>1 DEF S
<1>10. Cardinality(group) \in Nat
  BY Counted
<1> QED
  BY <1>8, <1>9, <1>10 DEF Fits

(* The mean temperature of a group, a divisor of the fit, is not zero.     *)
LEMMA MeanIsPositive ==
  ASSUME CalOK(cal), NEW group \in SUBSET DOMAIN Examples, Cardinality(group) > 0
  PROVE  Mean(group) \in Nat /\ Mean(group) >= 1
<1> DEFINE s == MeanSum(group, cal, kind)
           d == Cardinality(group) * One
<1>1. SumOver(group) = s
  BY DEF SumOver, MeanSum, MeanLoop!Fold, FoldLeft, MapThenFoldSet,
         Max, MeanLoop!Greatest, MeanStep
<1>2. s \in Nat /\ s >= Cardinality(group) /\ Cardinality(group) \in Nat
  BY MeanSumIs, Counted
<1> HIDE DEF s
<1> DEFINE w == s * One
<1>3. d \in Nat /\ d > 0 /\ w \in Nat /\ 1 * d <= w
  BY <1>2, Unit
<1>4. Mean(group) = Rounded(w, d)
  BY <1>1 DEF Mean, Over
<1> HIDE DEF d, w
<1>5. ASSUME NEW b, Fits(b), b * d <= w PROVE b <= Rounded(w, d)
  BY <1>3, <1>5, RoundedAtLeast
<1>6. 1 <= Rounded(w, d)
  BY <1>3, <1>5, Unit
<1>7. Rounded(w, d) \in Nat
  BY <1>3, RoundedIs
<1> QED
  BY <1>4, <1>6, <1>7

LEMMA ErrorRateIs ==
  ASSUME NEW sym \in SUBSET DOMAIN Examples
  PROVE  Rate(ErrorRate(sym))
<1> DEFINE bad == {n \in sym : Wrong(Examples[n])}
           w == Cardinality(bad)
           n == Cardinality(sym)
           a == (w + 1) * One
           b == (n + 2) * One
<1>1. IsFiniteSet(sym) /\ n \in Nat /\ w \in Nat
  BY Counted
<1>2. w <= n
  BY <1>1, FS_Subset
<1>3. ErrorRate(sym) = Over(a, b)
  BY DEF ErrorRate
<1> HIDE DEF w, n
<1>4. a \in Nat /\ b \in Nat /\ b > 0 /\ a <= b
  BY <1>1, <1>2, Unit
<1> HIDE DEF a, b
<1>5. Fits(Over(a, b)) /\ Over(a, b) \in Nat /\ Over(a, b) <= One
  BY <1>4, OverIs
<1> QED
  BY <1>3, <1>5, Unit DEF Rate

-----------------------------------------------------------------------------
(* The stages of the fit and what they leave alone: a calibration keeps    *)
(* its fields.                                                             *)
Whole(c) ==
  c = [temperature |-> c.temperature, family |-> c.family, bucket |-> c.bucket,
       symbolic |-> c.symbolic, gamma |-> c.gamma, epsilon |-> c.epsilon, platt |-> c.platt,
       familyPlatt |-> c.familyPlatt, symbolicPlatt |-> c.symbolicPlatt, lambda |-> c.lambda]

(* The kinds whose confidence map has been fitted.                         *)
Fitted == IF kind = "choice" THEN {} ELSE IF kind = "score" THEN {"choice"} ELSE {"choice", "score"}

Stages == {"temperature", "lambda", "families", "buckets", "gamma", "epsilon", "confidence",
           "platt", "familyPlatt", "write", "serve", "answered"}

Control ==
  /\ kind \in {"choice", "score", "noul", "written"}
  /\ stage \in Stages
  /\ stage = "lambda" => kind = "score"
  /\ stage = "confidence" => kind \in {"choice", "score"}
  /\ kind = "written" => stage \in {"serve", "answered"}

RowsFit ==
  \A row \in rows :
    /\ row.example.kind \in Fitted
    /\ ~row.example.symbolic => row.p = Probabilities(cal, row.example)

FitInv == Whole(cal) /\ Control /\ RowsFit

(* What the probabilities of a question of kind k are computed from, when  *)
(* no resolver answers it.                                                 *)
SameSettings(c, d, k) ==
  /\ \A default : Lookup(c.family, k, default) = Lookup(d.family, k, default)
  /\ \A default : Lookup(c.temperature, k, default) = Lookup(d.temperature, k, default)
  /\ \A default : Lookup(c.bucket, k, default) = Lookup(d.bucket, k, default)
  /\ \A default : Lookup(c.gamma, k, default) = Lookup(d.gamma, k, default)
  /\ k = "score" => c.lambda = d.lambda

-----------------------------------------------------------------------------
LEMMA SettingsDecide ==
  ASSUME NEW c, NEW d, NEW e, ~e.symbolic, SameSettings(c, d, e.kind)
  PROVE  Probabilities(c, e) = Probabilities(d, e)
<1>1. TemperatureFor(c, e.kind, e.family, Len(e.logits)) = TemperatureFor(d, e.kind, e.family, Len(e.logits))
  BY DEF SameSettings, TemperatureFor
<1>2. EvidenceMultiplier(c, e.kind, e.evidence) = EvidenceMultiplier(d, e.kind, e.evidence)
  BY DEF SameSettings, EvidenceMultiplier
<1>3. Temperature(c, e) = Temperature(d, e)
  BY <1>1, <1>2 DEF Temperature
<1>4. \A p : Mix(c, e, p) = p /\ Mix(d, e, p) = p
  BY DEF Mix
<1>5. \A p : Smooth(c, e, p) = Smooth(d, e, p)
  BY DEF SameSettings, Smooth
<1> QED
  BY <1>3, <1>4, <1>5 DEF Probabilities

(* The map is fitted on what is served with the calibration of the moment. *)
LEMMA FittedAsOfNow ==
  ASSUME NEW e, ~e.symbolic
  PROVE  FittedOn(e) = Probabilities(cal, e)
BY DEF FittedOn, Probabilities, Mix

(* What is stored for one kind is not looked up for another.               *)
LEMMA StoredElsewhere ==
  ASSUME NEW map, NEW value, NEW k, k # kind, NEW default
  PROVE  Lookup(Stored(map, value), k, default) = Lookup(map, k, default)
BY DEF Lookup, Stored

LEMMA RowsKept ==
  ASSUME RowsFit, UNCHANGED <<kind, rows>>, \A k \in Fitted : SameSettings(cal, cal', k)
  PROVE  RowsFit'
<1>1. Fitted' = Fitted
  BY DEF Fitted
<1>2. ASSUME NEW row \in rows, ~row.example.symbolic
      PROVE  Probabilities(cal', row.example) = Probabilities(cal, row.example)
  BY <1>2, SettingsDecide DEF RowsFit
<1> QED
  BY <1>1, <1>2 DEF RowsFit

-----------------------------------------------------------------------------
LEMMA FitInitInv == CalibrateInit => FitInv
BY DEF CalibrateInit, FitInv, Whole, Control, RowsFit, Stages, DefaultCalibration

LEMMA NotFittedYet == Control /\ kind # "written" => kind \notin Fitted
BY DEF Control, Fitted

LEMMA TemperatureInv ==
  ASSUME FitInv, FitTemperature
  PROVE  FitInv'
<1>1. PICK t : cal' = [cal EXCEPT !.temperature = Stored(@, t)]
  BY DEF FitTemperature
<1>2. Whole(cal') /\ cal'.temperature = Stored(cal.temperature, t) /\ cal'.family = cal.family
      /\ cal'.bucket = cal.bucket /\ cal'.gamma = cal.gamma /\ cal'.lambda = cal.lambda
  BY <1>1 DEF FitInv, Whole
<1>3. kind \notin Fitted
  BY NotFittedYet DEF FitInv, Control, FitTemperature
<1>4. \A k \in Fitted : SameSettings(cal, cal', k)
  BY <1>2, <1>3, StoredElsewhere DEF SameSettings
<1>5. Control' /\ UNCHANGED <<kind, rows>>
  BY DEF FitInv, Control, FitTemperature, Go, Stages
<1> QED
  BY <1>2, <1>4, <1>5, RowsKept DEF FitInv

LEMMA LambdaInv ==
  ASSUME FitInv, FitLambda
  PROVE  FitInv'
<1>1. PICK l : cal' = [cal EXCEPT !.lambda = l]
  BY DEF FitLambda
<1>2. Whole(cal') /\ cal'.temperature = cal.temperature /\ cal'.family = cal.family
      /\ cal'.bucket = cal.bucket /\ cal'.gamma = cal.gamma
  BY <1>1 DEF FitInv, Whole
<1>3. "score" \notin Fitted
  BY DEF FitInv, Control, FitLambda, Fitted
<1>4. \A k \in Fitted : SameSettings(cal, cal', k)
  BY <1>2, <1>3 DEF SameSettings
<1>5. Control' /\ UNCHANGED <<kind, rows>>
  BY DEF FitInv, Control, FitLambda, Go, Stages
<1> QED
  BY <1>2, <1>4, <1>5, RowsKept DEF FitInv

LEMMA FamiliesInv ==
  ASSUME FitInv, FitFamilies
  PROVE  FitInv'
<1>1. PICK map : cal' = [cal EXCEPT !.family = Stored(@, map)]
  BY DEF FitFamilies
<1>2. Whole(cal') /\ cal'.family = Stored(cal.family, map) /\ cal'.temperature = cal.temperature
      /\ cal'.bucket = cal.bucket /\ cal'.gamma = cal.gamma /\ cal'.lambda = cal.lambda
  BY <1>1 DEF FitInv, Whole
<1>3. kind \notin Fitted
  BY NotFittedYet DEF FitInv, Control, FitFamilies
<1>4. \A k \in Fitted : SameSettings(cal, cal', k)
  BY <1>2, <1>3, StoredElsewhere DEF SameSettings
<1>5. Control' /\ UNCHANGED <<kind, rows>>
  BY DEF FitInv, Control, FitFamilies, Go, Stages
<1> QED
  BY <1>2, <1>4, <1>5, RowsKept DEF FitInv

LEMMA BucketsInv ==
  ASSUME FitInv, FitBuckets
  PROVE  FitInv'
<1>1. PICK value : cal' = [cal EXCEPT !.bucket = Stored(@, value)]
  BY DEF FitBuckets
<1>2. Whole(cal') /\ cal'.bucket = Stored(cal.bucket, value) /\ cal'.temperature = cal.temperature
      /\ cal'.family = cal.family /\ cal'.gamma = cal.gamma /\ cal'.lambda = cal.lambda
  BY <1>1 DEF FitInv, Whole
<1>3. kind \notin Fitted
  BY NotFittedYet DEF FitInv, Control, FitBuckets
<1>4. \A k \in Fitted : SameSettings(cal, cal', k)
  BY <1>2, <1>3, StoredElsewhere DEF SameSettings
<1>5. Control' /\ UNCHANGED <<kind, rows>>
  BY DEF FitInv, Control, FitBuckets, Go, Stages
<1> QED
  BY <1>2, <1>4, <1>5, RowsKept DEF FitInv

LEMMA GammaInv ==
  ASSUME FitInv, FitGamma
  PROVE  FitInv'
<1>1. PICK g : cal' = [cal EXCEPT !.gamma = Stored(@, g)]
  BY DEF FitGamma
<1>2. Whole(cal') /\ cal'.gamma = Stored(cal.gamma, g) /\ cal'.temperature = cal.temperature
      /\ cal'.family = cal.family /\ cal'.bucket = cal.bucket /\ cal'.lambda = cal.lambda
  BY <1>1 DEF FitInv, Whole
<1>3. kind \notin Fitted
  BY NotFittedYet DEF FitInv, Control, FitGamma
<1>4. \A k \in Fitted : SameSettings(cal, cal', k)
  BY <1>2, <1>3, StoredElsewhere DEF SameSettings
<1>5. Control' /\ UNCHANGED <<kind, rows>>
  BY DEF FitInv, Control, FitGamma, Go, Stages
<1> QED
  BY <1>2, <1>4, <1>5, RowsKept DEF FitInv

(* Stages that touch nothing the probabilities of such questions read.     *)
LEMMA OtherFieldsInv ==
  ASSUME FitInv, FitEpsilon \/ FitPlatt \/ FitFamilyPlatt
  PROVE  FitInv'
<1>1. Whole(cal') /\ cal'.family = cal.family /\ cal'.temperature = cal.temperature
      /\ cal'.bucket = cal.bucket /\ cal'.gamma = cal.gamma /\ cal'.lambda = cal.lambda
  <2>1. CASE FitEpsilon
    BY <2>1 DEF FitInv, Whole, FitEpsilon, Resolved
  <2>2. CASE FitPlatt
    BY <2>2 DEF FitInv, Whole, FitPlatt
  <2>3. CASE FitFamilyPlatt
    BY <2>3 DEF FitInv, Whole, FitFamilyPlatt
  <2> QED
    BY <2>1, <2>2, <2>3
<1>2. \A k \in Fitted : SameSettings(cal, cal', k)
  BY <1>1 DEF SameSettings
<1>3. Control' /\ UNCHANGED <<kind, rows>>
  BY DEF FitInv, Control, FitEpsilon, FitPlatt, FitFamilyPlatt, Go, Stages
<1> QED
  BY <1>1, <1>2, <1>3, RowsKept DEF FitInv

LEMMA ConfidenceInv ==
  ASSUME FitInv, FitConfidence
  PROVE  FitInv'
<1>1. kind \in {"choice", "score"} /\ UNCHANGED cal /\ Fitted' = Fitted \cup {kind}
  BY DEF FitInv, Control, FitConfidence, Fitted
<1>2. Control'
  BY <1>1 DEF FitInv, Control, FitConfidence, Stages
<1>3. RowsFit'
  <2> SUFFICES ASSUME NEW row \in rows'
               PROVE  /\ row.example.kind \in Fitted'
                      /\ ~row.example.symbolic => row.p = Probabilities(cal, row.example)
    BY <1>1 DEF RowsFit
  <2>1. CASE row \in rows
    BY <1>1, <2>1 DEF FitInv, RowsFit
  <2>2. CASE row \notin rows
    <3>1. PICK e \in {x \in Range(Examples) : x.kind = kind} : row = [example |-> e, p |-> FittedOn(e)]
      BY <2>2 DEF FitConfidence
    <3>2. row.example = e /\ row.p = FittedOn(e) /\ e.kind = kind
      BY <3>1
    <3> QED
      BY <1>1, <3>2, FittedAsOfNow
  <2> QED
    BY <2>1, <2>2
<1> QED
  BY <1>1, <1>2, <1>3 DEF FitInv

LEMMA WriteAndAskInv ==
  ASSUME FitInv, Write \/ \E q \in Questions : Ask(q)
  PROVE  FitInv'
<1>1. UNCHANGED <<cal, rows>> /\ Fitted \subseteq Fitted' /\ Control'
  BY DEF FitInv, Control, Write, Ask, Fitted, Stages
<1>2. RowsFit'
  BY <1>1 DEF FitInv, RowsFit
<1> QED
  BY <1>1, <1>2 DEF FitInv

LEMMA FitStepInv == FitInv /\ [CalibrateNext]_vars => FitInv'
<1> SUFFICES ASSUME FitInv, [CalibrateNext]_vars PROVE FitInv'
  OBVIOUS
<1>1. CASE UNCHANGED vars
  BY <1>1 DEF FitInv, Control, RowsFit, Fitted, vars
<1> QED
  BY <1>1, TemperatureInv, LambdaInv, FamiliesInv, BucketsInv, GammaInv, OtherFieldsInv,
     ConfidenceInv, WriteAndAskInv DEF CalibrateNext

(* For every split, however the searches of the fit end, the distributions *)
(* the confidence map was fitted on are those the engine answers with from *)
(* the file that was written (calibrate.rs:354-373, engine.rs:205-238).    *)
THEOREM FitsWhatIsServed == CalibrateSpec => []FittedAsServed
<1>1. FitInv => FittedAsServed
  BY DEF FitInv, RowsFit, FittedAsServed
<1> QED
  BY <1>1, FitInitInv, FitStepInv, PTL DEF CalibrateSpec

-----------------------------------------------------------------------------
(* The types are kept by every stage.                                      *)
RowsTyped == \A row \in rows : \A j \in DOMAIN row.p : row.p[j] \in Numbers

AnswerTyped ==
  answer # NoAnswer =>
    /\ Len(answer.probabilities) = Len(answer.question.logits)
    /\ \A j \in DOMAIN answer.probabilities : answer.probabilities[j] \in Numbers

TypeInv == FitInv /\ CalOK(cal) /\ RowsTyped /\ AnswerTyped

LEMMA StoredInts ==
  ASSUME NEW map, Ints(map), NEW value \in Int
  PROVE  Ints(Stored(map, value))
  BY DEF Ints, Stored

LEMMA StoredGroups ==
  ASSUME NEW map, \A k \in DOMAIN map : Ints(map[k]), NEW value, Ints(value)
  PROVE  \A k \in DOMAIN Stored(map, value) : Ints(Stored(map, value)[k])
  BY DEF Stored

LEMMA StoredRates ==
  ASSUME NEW map, \A k \in DOMAIN map : Rate(map[k]), NEW value, Rate(value)
  PROVE  \A k \in DOMAIN Stored(map, value) : Rate(Stored(map, value)[k])
  BY DEF Stored

LEMMA Searched == Temperatures \subseteq Int /\ Gammas \subseteq Int /\ Lambdas \subseteq 0 .. One
                  /\ One \in Int /\ Pair(Identity) /\ \A p \in PlattFits : Pair(p)
  BY CalibrateAssumption, Unit DEF Pair, Identity

LEMMA DefaultTyped == CalOK(DefaultCalibration)
<1> DEFINE d == DefaultCalibration
<1>1. /\ d.temperature = [k \in {"choice", "score"} |-> One] /\ d.family = <<>> /\ d.bucket = <<>>
      /\ d.symbolic = One /\ d.gamma = <<>>
      /\ d.epsilon = [k \in {"choice", "score", "noul"} |-> DefaultEpsilon]
      /\ d.platt = Identity /\ d.familyPlatt = <<>> /\ d.symbolicPlatt = <<>>
      /\ d.lambda = One \div 4
  BY DEF DefaultCalibration
<1> HIDE DEF d
<1>2. One \in Int /\ One \div 4 \in 0 .. One
  BY Unit
<1>3. Rate(DefaultEpsilon)
  <2>1. DefaultEpsilon \in Nat /\ DefaultEpsilon \in 0 .. One /\ Exact(DefaultEpsilon)
    BY Unit, CalibrateAssumption
  <2> QED
    BY <2>1, ExactFits DEF Rate
<1>4. Ints(d.temperature) /\ Ints(d.gamma)
  BY <1>1, <1>2 DEF Ints
<1>5. \A k \in DOMAIN d.epsilon : Rate(d.epsilon[k])
  BY <1>1, <1>3
<1>6. CalOK(d)
  BY <1>1, <1>2, <1>4, <1>5, Searched DEF CalOK
<1> QED
  BY <1>6 DEF d

LEMMA InitTyped == CalibrateInit => TypeInv
BY FitInitInv, DefaultTyped DEF CalibrateInit, TypeInv, RowsTyped, AnswerTyped

LEMMA TemperatureTyped ==
  ASSUME TypeInv, FitTemperature
  PROVE  CalOK(cal')
<1>1. PICK t \in IF Of(FALSE) = {} THEN {One} ELSE Temperatures :
        cal' = [cal EXCEPT !.temperature = Stored(@, t)]
  BY DEF FitTemperature
<1>2. t \in Int
  BY Searched
<1>3. Ints(Stored(cal.temperature, t))
  BY <1>2, StoredInts DEF TypeInv, CalOK
<1>4. /\ cal'.temperature = Stored(cal.temperature, t)
      /\ cal'.family = cal.family /\ cal'.bucket = cal.bucket /\ cal'.symbolic = cal.symbolic
      /\ cal'.gamma = cal.gamma /\ cal'.epsilon = cal.epsilon /\ cal'.platt = cal.platt
      /\ cal'.familyPlatt = cal.familyPlatt /\ cal'.symbolicPlatt = cal.symbolicPlatt
      /\ cal'.lambda = cal.lambda
  BY <1>1 DEF TypeInv, FitInv, Whole
<1> QED
  BY <1>3, <1>4 DEF TypeInv, CalOK

LEMMA LambdaTyped ==
  ASSUME TypeInv, FitLambda
  PROVE  CalOK(cal')
<1>1. PICK l \in Lambdas : cal' = [cal EXCEPT !.lambda = l]
  BY DEF FitLambda
<1>2. l \in 0 .. One
  BY Searched
<1>3. /\ cal'.lambda = l
      /\ cal'.temperature = cal.temperature
      /\ cal'.family = cal.family /\ cal'.bucket = cal.bucket /\ cal'.symbolic = cal.symbolic
      /\ cal'.gamma = cal.gamma /\ cal'.epsilon = cal.epsilon /\ cal'.platt = cal.platt
      /\ cal'.familyPlatt = cal.familyPlatt /\ cal'.symbolicPlatt = cal.symbolicPlatt
  BY <1>1 DEF TypeInv, FitInv, Whole
<1> QED
  BY <1>2, <1>3 DEF TypeInv, CalOK

LEMMA FamiliesTyped ==
  ASSUME TypeInv, FitFamilies
  PROVE  CalOK(cal')
<1>1. PICK map \in [Large(Families) -> Temperatures] : cal' = [cal EXCEPT !.family = Stored(@, map)]
  BY DEF FitFamilies
<1>2. Ints(map)
  BY Searched DEF Ints
<1>3. \A k \in DOMAIN Stored(cal.family, map) : Ints(Stored(cal.family, map)[k])
  BY <1>2, StoredGroups DEF TypeInv, CalOK
<1>4. /\ cal'.family = Stored(cal.family, map)
      /\ cal'.temperature = cal.temperature /\ cal'.bucket = cal.bucket /\ cal'.symbolic = cal.symbolic
      /\ cal'.gamma = cal.gamma /\ cal'.epsilon = cal.epsilon /\ cal'.platt = cal.platt
      /\ cal'.familyPlatt = cal.familyPlatt /\ cal'.symbolicPlatt = cal.symbolicPlatt
      /\ cal'.lambda = cal.lambda
  BY <1>1 DEF TypeInv, FitInv, Whole
<1> QED
  BY <1>3, <1>4 DEF TypeInv, CalOK

(* The mean of a bucket that is large enough is not zero.                  *)
LEMMA BucketMean ==
  ASSUME CalOK(cal), NEW b \in Large(Sizes)
  PROVE  MeanBase(b) \in Nat /\ MeanBase(b) >= 1
<1> DEFINE group == {n \in Of(FALSE) : BucketOf(Examples[n]) = b}
<1>1. Cardinality({n \in DOMAIN Sizes : Sizes[n] = b}) >= MinGroup
  BY DEF Large
<1>2. {n \in DOMAIN Sizes : Sizes[n] = b} = group
  BY DEF Sizes
<1>3. group \in SUBSET DOMAIN Examples
  BY DEF Of
<1>4. MeanBase(b) = Mean(group)
  BY DEF MeanBase
<1> HIDE DEF group
<1>5. MinGroup \in Nat /\ MinGroup > 0
  BY CalibrateAssumption
<1>6. Cardinality(group) > 0
  BY <1>1, <1>2, <1>3, <1>5, Counted
<1> QED
  BY <1>3, <1>4, <1>6, MeanIsPositive

LEMMA BucketsTyped ==
  ASSUME TypeInv, FitBuckets
  PROVE  CalOK(cal')
<1> DEFINE value(map) == [b \in DOMAIN map |-> Clamp(Over(map[b], MeanBase(b)), One \div 4, 4 * One)]
<1>1. PICK map \in [Large(Sizes) -> Temperatures] :
        cal' = [cal EXCEPT !.bucket = Stored(@, value(map))]
  BY DEF FitBuckets
<1> DEFINE v == value(map)
<1>2. Ints(v)
  <2>1. SUFFICES ASSUME NEW b \in Large(Sizes) PROVE v[b] \in Int
    BY DEF Ints
  <2> DEFINE t == map[b]
             mean == MeanBase(b)
             x == Over(t, mean)
  <2>2. v[b] = Clamp(x, One \div 4, 4 * One)
    OBVIOUS
  <2>3. t \in Int /\ mean \in Int /\ mean > 0
    <3>1. t \in Int
      BY Searched
    <3>2. mean \in Nat /\ mean >= 1
      BY BucketMean DEF TypeInv
    <3> HIDE DEF mean
    <3> QED
      BY <3>1, <3>2
  <2> HIDE DEF v, t, mean
  <2>4. x \in Int
    BY <2>3, IntOperations
  <2> DEFINE low == One \div 4
             high == 4 * One
  <2>5. low \in Int /\ high \in Int /\ low <= high
    BY Unit
  <2> HIDE DEF x, low, high
  <2>6. Clamp(x, low, high) \in low .. high
    BY <2>4, <2>5, ClampIs
  <2>7. Clamp(x, low, high) \in Int
    BY <2>5, <2>6
  <2> QED
    BY <2>2, <2>7 DEF low, high
<1> HIDE DEF v
<1>3. \A k \in DOMAIN Stored(cal.bucket, v) : Ints(Stored(cal.bucket, v)[k])
  BY <1>2, StoredGroups DEF TypeInv, CalOK
<1>4. /\ cal'.bucket = Stored(cal.bucket, v)
      /\ cal'.temperature = cal.temperature /\ cal'.family = cal.family /\ cal'.symbolic = cal.symbolic
      /\ cal'.gamma = cal.gamma /\ cal'.epsilon = cal.epsilon /\ cal'.platt = cal.platt
      /\ cal'.familyPlatt = cal.familyPlatt /\ cal'.symbolicPlatt = cal.symbolicPlatt
      /\ cal'.lambda = cal.lambda
  BY <1>1 DEF TypeInv, FitInv, Whole, v
<1> QED
  BY <1>3, <1>4 DEF TypeInv, CalOK

LEMMA GammaTyped ==
  ASSUME TypeInv, FitGamma
  PROVE  CalOK(cal')
<1>1. PICK g \in IF Of(FALSE) = {} THEN {0} ELSE Gammas : cal' = [cal EXCEPT !.gamma = Stored(@, g)]
  BY DEF FitGamma
<1>2. g \in Int
  BY Searched
<1>3. Ints(Stored(cal.gamma, g))
  BY <1>2, StoredInts DEF TypeInv, CalOK
<1>4. /\ cal'.gamma = Stored(cal.gamma, g)
      /\ cal'.temperature = cal.temperature
      /\ cal'.family = cal.family /\ cal'.bucket = cal.bucket /\ cal'.symbolic = cal.symbolic
      /\ cal'.epsilon = cal.epsilon /\ cal'.platt = cal.platt
      /\ cal'.familyPlatt = cal.familyPlatt /\ cal'.symbolicPlatt = cal.symbolicPlatt
      /\ cal'.lambda = cal.lambda
  BY <1>1 DEF TypeInv, FitInv, Whole
<1> QED
  BY <1>3, <1>4 DEF TypeInv, CalOK

LEMMA EpsilonTyped ==
  ASSUME TypeInv, FitEpsilon
  PROVE  CalOK(cal')
<1> DEFINE sym == Of(TRUE)
           sp == IF kind = "noul" THEN [k \in {kind} |-> Identity] ELSE cal.symbolicPlatt
<1>1. CASE sym = {}
  BY <1>1 DEF FitEpsilon, Resolved, TypeInv
<1>2. CASE sym # {}
  <2>1. Rate(ErrorRate(sym))
    <3>1. sym \in SUBSET DOMAIN Examples
      BY DEF Of
    <3> HIDE DEF sym
    <3> QED
      BY <3>1, ErrorRateIs
  <2>2. /\ cal'.epsilon = Stored(cal.epsilon, ErrorRate(sym)) /\ cal'.symbolicPlatt = sp
        /\ cal'.temperature = cal.temperature
        /\ cal'.family = cal.family /\ cal'.bucket = cal.bucket /\ cal'.symbolic = cal.symbolic
        /\ cal'.gamma = cal.gamma /\ cal'.platt = cal.platt
        /\ cal'.familyPlatt = cal.familyPlatt
        /\ cal'.lambda = cal.lambda
    BY <1>2 DEF FitEpsilon, Resolved, TypeInv, FitInv, Whole
  <2>3. \A k \in DOMAIN sp : Pair(sp[k])
    BY Searched DEF TypeInv, CalOK
  <2> HIDE DEF sym, sp
  <2>4. \A k \in DOMAIN Stored(cal.epsilon, ErrorRate(sym)) : Rate(Stored(cal.epsilon, ErrorRate(sym))[k])
    BY <2>1, StoredRates DEF TypeInv, CalOK
  <2> QED
    BY <2>2, <2>3, <2>4 DEF TypeInv, CalOK
<1> QED
  BY <1>1, <1>2

LEMMA PlattTyped ==
  ASSUME TypeInv, FitPlatt \/ FitFamilyPlatt
  PROVE  CalOK(cal')
<1>1. \A n : \A p \in PlattOver(n) : Pair(p)
  BY Searched DEF PlattOver
<1>2. /\ cal'.temperature = cal.temperature
      /\ cal'.family = cal.family /\ cal'.bucket = cal.bucket /\ cal'.symbolic = cal.symbolic
      /\ cal'.gamma = cal.gamma /\ cal'.epsilon = cal.epsilon
      /\ cal'.symbolicPlatt = cal.symbolicPlatt
      /\ cal'.lambda = cal.lambda
  BY DEF FitPlatt, FitFamilyPlatt, TypeInv, FitInv, Whole
<1>3. Pair(cal'.platt) /\ \A k \in DOMAIN cal'.familyPlatt : Pair(cal'.familyPlatt[k])
  <2>1. CASE FitPlatt
    <3>1. PICK p \in PlattOver(Cardinality(Of(FALSE))) : cal' = [cal EXCEPT !.platt = p]
      BY <2>1 DEF FitPlatt
    <3>2. cal'.platt = p /\ cal'.familyPlatt = cal.familyPlatt
      BY <3>1 DEF TypeInv, FitInv, Whole
    <3> QED
      BY <1>1, <3>2 DEF TypeInv, CalOK
  <2>2. CASE FitFamilyPlatt
    <3>1. PICK map \in [Large(Families) -> PlattOver(MinGroup)] : cal' = [cal EXCEPT !.familyPlatt = map]
      BY <2>2 DEF FitFamilyPlatt
    <3>2. cal'.familyPlatt = map /\ cal'.platt = cal.platt
      BY <3>1 DEF TypeInv, FitInv, Whole
    <3>3. \A k \in DOMAIN map : Pair(map[k])
      BY <1>1
    <3> QED
      BY <3>2, <3>3 DEF TypeInv, CalOK
  <2> QED
    BY <2>1, <2>2
<1> QED
  BY <1>2, <1>3 DEF TypeInv, CalOK

LEMMA ServedNumbers ==
  ASSUME NEW q, QuestionOK(q), NEW p, Served(p, q)
  PROVE  Len(p) = Len(q.logits) /\ \A j \in DOMAIN p : p[j] \in Numbers
<1> DEFINE n == Len(q.logits)
<1>1. n \in Nat /\ Shares(p, n)
  BY QuestionLogits DEF Served
<1> HIDE DEF n
<1>2. DOMAIN p = 1 .. n /\ p \in [1 .. n -> Int] /\ \A k \in 1 .. n : p[k] \in Nat /\ p[k] <= One
  BY <1>1 DEF Shares, Terms
<1>3. Len(p) = n
  BY <1>1, <1>2, LengthIs
<1> QED
  BY <1>2, <1>3, Unit DEF Numbers, n

LEMMA ConfidenceTyped ==
  ASSUME FunctionsRound, TypeInv, FitConfidence
  PROVE  RowsTyped'
<1>1. SUFFICES ASSUME NEW row \in rows' PROVE \A j \in DOMAIN row.p : row.p[j] \in Numbers
  BY DEF RowsTyped, Numbers
<1>2. CASE row \in rows
  BY <1>2 DEF TypeInv, RowsTyped
<1>3. CASE row \notin rows
  <2>1. PICK e \in {x \in Range(Examples) : x.kind = kind} : row = [example |-> e, p |-> FittedOn(e)]
    BY <1>3 DEF FitConfidence
  <2>2. QuestionOK(e) /\ row.p = FittedOn(e)
    BY <2>1, ExamplesAre
  <2>3. Served(FittedOn(e), e)
    BY <2>2, FittedOnIs DEF TypeInv
  <2> QED
    BY <2>2, <2>3, ServedNumbers
<1> QED
  BY <1>2, <1>3

LEMMA AskTyped ==
  ASSUME FunctionsRound, TypeInv, NEW q \in Questions, Ask(q)
  PROVE  AnswerTyped'
<1> DEFINE p == IF q.kind = "noul" THEN <<NoulProbability(cal, q)>> ELSE Probabilities(cal, q)
<1>1. QuestionOK(q)
  BY CalibrateAssumption
<1>2. answer'.question = q /\ answer'.probabilities = p
  BY DEF Ask, Answered
<1>3. Len(p) = Len(q.logits) /\ \A j \in DOMAIN p : p[j] \in Numbers
  <2>1. CASE q.kind = "noul"
    <3>1. NoulProbability(cal, q) \in 0 .. One
      BY <1>1, NoulIs DEF TypeInv
    <3>2. Len(q.logits) = 1
      BY <1>1, <2>1 DEF QuestionOK
    <3> QED
      BY <2>1, <3>1, <3>2 DEF Numbers
  <2>2. CASE q.kind # "noul"
    <3>1. Served(Probabilities(cal, q), q)
      BY <1>1, ProbabilitiesAre DEF TypeInv
    <3>2. Len(Probabilities(cal, q)) = Len(q.logits)
          /\ \A j \in DOMAIN Probabilities(cal, q) : Probabilities(cal, q)[j] \in Numbers
      BY <1>1, <3>1, ServedNumbers
    <3> QED
      BY <2>2, <3>2
  <2> QED
    BY <2>1, <2>2
<1> HIDE DEF p
<1> QED
  BY <1>2, <1>3 DEF AnswerTyped, Numbers

LEMMA StepTyped ==
  ASSUME FunctionsRound, TypeInv, [CalibrateNext]_vars
  PROVE  TypeInv'
<1>1. FitInv'
  BY FitStepInv DEF TypeInv
<1>2. CASE FitTemperature \/ FitLambda \/ FitFamilies \/ FitBuckets \/ FitGamma \/ FitEpsilon
           \/ FitPlatt \/ FitFamilyPlatt
  <2>1. CalOK(cal')
    BY <1>2, TemperatureTyped, LambdaTyped, FamiliesTyped, BucketsTyped, GammaTyped, EpsilonTyped, PlattTyped
  <2>2. UNCHANGED <<rows, answer>>
    BY <1>2 DEF FitTemperature, FitLambda, FitFamilies, FitBuckets, FitGamma, FitEpsilon, FitPlatt,
                FitFamilyPlatt, Go
  <2> QED
    BY <1>1, <2>1, <2>2 DEF TypeInv, RowsTyped, AnswerTyped, Numbers
<1>3. CASE FitConfidence
  <2>1. RowsTyped' /\ UNCHANGED <<cal, answer>>
    BY <1>3, ConfidenceTyped DEF FitConfidence
  <2> QED
    BY <1>1, <2>1 DEF TypeInv, AnswerTyped, Numbers
<1>4. CASE Write \/ UNCHANGED vars
  <2>1. UNCHANGED <<cal, rows, answer>>
    BY <1>4 DEF Write, vars
  <2> QED
    BY <1>1, <2>1 DEF TypeInv, RowsTyped, AnswerTyped, Numbers
<1>5. ASSUME NEW q \in Questions, Ask(q) PROVE TypeInv'
  <2>1. AnswerTyped' /\ UNCHANGED <<cal, rows>>
    BY <1>5, AskTyped DEF Ask
  <2> QED
    BY <1>1, <2>1 DEF TypeInv, RowsTyped, Numbers
<1> QED
  BY <1>2, <1>3, <1>4, <1>5 DEF CalibrateNext

(* For every even number of significands, every split and whatever the     *)
(* searches settle on, what the engine answers with the calibration that   *)
(* was written are probabilities, one for each option: no quotient of the  *)
(* fit or of the answer has a divisor of zero, no rounding takes a sum of  *)
(* shares past one, and the error rates and the weight of the smoothing    *)
(* stay between zero and one (scoring/softmax.rs, calibration/mod.rs).     *)
THEOREM FitTypes ==
  ASSUME FunctionsRound
  PROVE  CalibrateSpec => []CalibrateTypeOK
<1>1. TypeInv => CalibrateTypeOK
  BY DEF TypeInv, CalOK, RowsTyped, AnswerTyped, CalibrateTypeOK, Rate, Numbers
<1>2. TypeInv /\ [CalibrateNext]_vars => TypeInv'
  BY StepTyped
<1> QED
  BY <1>1, <1>2, InitTyped, PTL DEF CalibrateSpec
=============================================================================
