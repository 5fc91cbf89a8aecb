------------------------------ MODULE Folding ------------------------------
(***************************************************************************)
(* What a fold over a sequence computes, for every step: the library's     *)
(* FoldLeft is a recursive function over sets of positions, and these are  *)
(* the facts by which it is the loop of the code.  The step takes three    *)
(* values of its surroundings, an accumulator and an element; Good is what *)
(* the loop keeps true of the accumulator.                                 *)
(***************************************************************************)
EXTENDS Integers, NaturalsInduction, WellFoundedInduction, TLAPS

CONSTANTS
  Step(_, _, _, _, _),
  Good(_, _, _, _)

(* The library's FoldLeft, written out: an instance of this module brings   *)
(* no other module with it.                                                *)
Greatest(s) == CHOOSE x \in s : \A y \in s : x >= y

Fold(p, q, r, base, seq) ==
  LET iter[s \in SUBSET (DOMAIN seq)] ==
        IF s = {} THEN base ELSE Step(p, q, r, iter[s \ {Greatest(s)}], seq[Greatest(s)])
  IN  iter[DOMAIN seq]

-----------------------------------------------------------------------------
(* Induction over the natural numbers, for a set.                          *)
LEMMA NaturalOrder == IsWellFoundedOn({ss \in Nat \X Nat : ss[1] < ss[2]}, Nat)
  BY NatLessThanWellFounded DEF OpToRel

LEMMA SetInduction ==
  ASSUME NEW S, 0 \in S, \A n \in Nat : n \in S => n + 1 \in S
  PROVE  \A n \in Nat : n \in S
<1> DEFINE R == {ss \in Nat \X Nat : ss[1] < ss[2]}
<1>1. SUFFICES ASSUME Nat \ S # {} PROVE FALSE
  OBVIOUS
<1>2. PICK n \in Nat \ S : \A m \in Nat \ S : <<m, n>> \notin R
  BY <1>1, NaturalOrder, WFMin
<1>3. n - 1 \in Nat /\ (n - 1) + 1 = n
  BY <1>2
<1>4. n - 1 \notin S
  BY <1>3
<1>5. <<n - 1, n>> \in R
  BY <1>3
<1> QED
  BY <1>2, <1>3, <1>4, <1>5

LEMMA CourseOfValues ==
  ASSUME NEW S, \A n \in Nat : (\A m \in 0 .. n - 1 : m \in S) => n \in S
  PROVE  \A n \in Nat : n \in S
<1> DEFINE T == {n \in Nat : \A m \in 0 .. n : m \in S}
<1>1. 0 \in T
  <2>1. \A m \in 0 .. 0 - 1 : m \in S
    OBVIOUS
  <2> QED
    BY <2>1
<1>2. ASSUME NEW n \in Nat, n \in T PROVE n + 1 \in T
  <2>1. \A m \in 0 .. (n + 1) - 1 : m \in S
    BY <1>2
  <2>2. n + 1 \in S
    BY <2>1
  <2>3. \A m \in 0 .. n + 1 : m \in 0 .. (n + 1) - 1 \/ m = n + 1
    OBVIOUS
  <2> QED
    BY <2>1, <2>2, <2>3
<1>3. \A n \in Nat : n \in T
  <2> HIDE DEF T
  <2> QED
    BY <1>1, <1>2, SetInduction
<1> QED
  BY <1>3

-----------------------------------------------------------------------------
(* The greatest position of a set of positions.                            *)
LEMMA MaxOfPositions ==
  ASSUME NEW m \in Nat, NEW s \in SUBSET (1 .. m + 1), m + 1 \in s
  PROVE  Greatest(s) = m + 1
<1>1. \A y \in s : m + 1 >= y
  OBVIOUS
<1>2. Greatest(s) \in s /\ \A y \in s : Greatest(s) >= y
  BY <1>1 DEF Greatest
<1>3. Greatest(s) \in 1 .. m + 1 /\ Greatest(s) >= m + 1
  BY <1>2
<1> QED
  BY <1>3

Rest(g, p, q, r, base, seq, s) ==
  IF s = {} THEN base ELSE Step(p, q, r, g[s \ {Greatest(s)}], seq[Greatest(s)])

Iterates(g, p, q, r, base, seq, m) ==
  g = [s \in SUBSET (1 .. m) |-> Rest(g, p, q, r, base, seq, s)]

LEMMA IterationExists ==
  ASSUME NEW p, NEW q, NEW r, NEW base, NEW seq, NEW n \in Nat
  PROVE  \E g : Iterates(g, p, q, r, base, seq, n)
<1> DEFINE S == {m \in Nat : \E g : Iterates(g, p, q, r, base, seq, m)}
<1>1. 0 \in S
  <2> DEFINE g == [s \in SUBSET (1 .. 0) |-> base]
  <2>1. \A s \in SUBSET (1 .. 0) : s = {}
    OBVIOUS
  <2>2. g = [s \in SUBSET (1 .. 0) |-> Rest(g, p, q, r, base, seq, s)]
    BY <2>1 DEF Rest
  <2> QED
    BY <2>2 DEF Iterates
<1>2. ASSUME NEW m \in Nat, m \in S PROVE m + 1 \in S
  <2>1. PICK g : Iterates(g, p, q, r, base, seq, m)
    BY <1>2
  <2> DEFINE h == [s \in SUBSET (1 .. m + 1) |->
                     IF m + 1 \in s THEN Step(p, q, r, g[s \ {m + 1}], seq[m + 1]) ELSE g[s]]
  <2>2. ASSUME NEW s \in SUBSET (1 .. m + 1) PROVE h[s] = Rest(h, p, q, r, base, seq, s)
    <3>1. CASE m + 1 \in s
      <4>1. s \ {m + 1} \in SUBSET (1 .. m + 1) /\ m + 1 \notin s \ {m + 1}
        OBVIOUS
      <4>2. h[s \ {m + 1}] = g[s \ {m + 1}]
        BY <4>1
      <4>3. Greatest(s) = m + 1
        BY <3>1, MaxOfPositions
      <4>4. h[s] = Step(p, q, r, g[s \ {m + 1}], seq[m + 1])
        BY <3>1
      <4> HIDE DEF h
      <4> QED
        BY <3>1, <4>2, <4>3, <4>4 DEF Rest
    <3>2. CASE m + 1 \notin s
      <4>1. s \in SUBSET (1 .. m)
        BY <3>2
      <4>2. h[s] = g[s] /\ g[s] = Rest(g, p, q, r, base, seq, s)
        BY <3>2, <4>1, <2>1 DEF Iterates
      <4>3. CASE s = {}
        BY <4>2, <4>3 DEF Rest
      <4>4. CASE s # {}
        <5>1. s \ {Greatest(s)} \in SUBSET (1 .. m + 1) /\ m + 1 \notin s \ {Greatest(s)}
          BY <3>2
        <5>2. h[s \ {Greatest(s)}] = g[s \ {Greatest(s)}]
          BY <5>1
        <5> HIDE DEF h
        <5> QED
          BY <4>2, <4>4, <5>2 DEF Rest
      <4> QED
        BY <4>3, <4>4
    <3> QED
      BY <3>1, <3>2
  <2>3. Iterates(h, p, q, r, base, seq, m + 1)
    <3>1. h = [s \in SUBSET (1 .. m + 1) |-> h[s]]
      OBVIOUS
    <3> HIDE DEF h
    <3> QED
      BY <2>2, <3>1 DEF Iterates
  <2> QED
    BY <2>3
<1> HIDE DEF S
<1>3. \A m \in Nat : m \in S
  BY <1>1, <1>2, SetInduction
<1> QED
  BY <1>3 DEF S

(* The fold is the last of the accumulators of the loop.                   *)
THEOREM FoldIsLoop ==
  ASSUME NEW p, NEW q, NEW r, NEW base, NEW n \in Nat, NEW seq, DOMAIN seq = 1 .. n
  PROVE  \E acc : /\ DOMAIN acc = 0 .. n
                  /\ acc[0] = base
                  /\ \A i \in 1 .. n : acc[i] = Step(p, q, r, acc[i - 1], seq[i])
                  /\ Fold(p, q, r, base, seq) = acc[n]
<1> DEFINE D == 1 .. n
           iter == CHOOSE g : g = [s \in SUBSET D |-> Rest(g, p, q, r, base, seq, s)]
           acc == [i \in 0 .. n |-> iter[1 .. i]]
<1>1. iter = [s \in SUBSET D |-> Rest(iter, p, q, r, base, seq, s)]
  BY IterationExists DEF Iterates
<1>2. Fold(p, q, r, base, seq) = iter[D]
  BY DEF Fold, Rest
<1> HIDE DEF iter
<1>3. acc[0] = base
  <2>1. 1 .. 0 = {} /\ {} \in SUBSET D
    OBVIOUS
  <2> QED
    BY <1>1, <2>1 DEF Rest
<1>4. ASSUME NEW i \in 1 .. n PROVE acc[i] = Step(p, q, r, acc[i - 1], seq[i])
  <2>1. /\ i - 1 \in Nat /\ (i - 1) + 1 = i /\ i - 1 \in 0 .. n /\ i \in 0 .. n
        /\ 1 .. i \in SUBSET D /\ i \in 1 .. i /\ 1 .. i # {}
    OBVIOUS
  <2>2. Greatest(1 .. i) = i
    BY <2>1, MaxOfPositions
  <2>3. (1 .. i) \ {i} = 1 .. i - 1
    OBVIOUS
  <2>4. acc[i] = Rest(iter, p, q, r, base, seq, 1 .. i)
    BY <1>1, <2>1
  <2>5. acc[i - 1] = iter[1 .. i - 1]
    BY <2>1
  <2> HIDE DEF acc
  <2> QED
    BY <2>1, <2>2, <2>3, <2>4, <2>5 DEF Rest
<1>5. acc[n] = iter[D] /\ DOMAIN acc = 0 .. n
  OBVIOUS
<1> HIDE DEF acc
<1> QED
  BY <1>2, <1>3, <1>4, <1>5

(* What the loop starts with and every step keeps, it ends with.           *)
THEOREM FoldKeeps ==
  ASSUME NEW p, NEW q, NEW r, NEW base, NEW n \in Nat, NEW seq, DOMAIN seq = 1 .. n,
         Good(p, q, r, base),
         \A i \in 1 .. n : \A acc : Good(p, q, r, acc) => Good(p, q, r, Step(p, q, r, acc, seq[i]))
  PROVE  Good(p, q, r, Fold(p, q, r, base, seq))
<1>1. PICK acc : /\ acc[0] = base
                 /\ \A i \in 1 .. n : acc[i] = Step(p, q, r, acc[i - 1], seq[i])
                 /\ Fold(p, q, r, base, seq) = acc[n]
  BY FoldIsLoop
<1> DEFINE S == {m \in Nat : m <= n => Good(p, q, r, acc[m])}
<1>2. 0 \in S
  BY <1>1
<1>3. ASSUME NEW m \in Nat, m \in S PROVE m + 1 \in S
  <2>1. SUFFICES ASSUME m + 1 <= n PROVE Good(p, q, r, acc[m + 1])
    OBVIOUS
  <2>2. m + 1 \in 1 .. n /\ (m + 1) - 1 = m /\ Good(p, q, r, acc[m])
    BY <2>1, <1>3
  <2>3. acc[m + 1] = Step(p, q, r, acc[m], seq[m + 1])
    BY <1>1, <2>2
  <2> QED
    BY <2>2, <2>3
<1> HIDE DEF S
<1>4. n \in S
  BY <1>2, <1>3, SetInduction
<1> QED
  BY <1>1, <1>4 DEF S

(* The accumulators of a loop, from the first to what it returns.           *)
Accumulates(acc, p, q, r, base, n, seq) ==
  /\ acc[0] = base
  /\ \A i \in 1 .. n : acc[i] = Step(p, q, r, acc[i - 1], seq[i])
  /\ Fold(p, q, r, base, seq) = acc[n]

LEMMA Accumulators ==
  ASSUME NEW p, NEW q, NEW r, NEW base, NEW n \in Nat, NEW seq, DOMAIN seq = 1 .. n
  PROVE  \E acc : Accumulates(acc, p, q, r, base, n, seq)
  BY FoldIsLoop DEF Accumulates

(* Two loops over sequences of the same length: what relates their first   *)
(* accumulators, and is kept when both take a step, relates the last ones. *)
THEOREM FoldsAgree ==
  ASSUME NEW p, NEW q, NEW r, NEW base, NEW p2, NEW q2, NEW r2, NEW base2,
         NEW g, NEW h, NEW k,
         NEW n \in Nat, NEW seq, NEW seq2, DOMAIN seq = 1 .. n, DOMAIN seq2 = 1 .. n,
         Good(g, h, k, <<base, base2>>),
         \A i \in 1 .. n : \A a, a2 :
           Good(g, h, k, <<a, a2>>) =>
             Good(g, h, k, <<Step(p, q, r, a, seq[i]), Step(p2, q2, r2, a2, seq2[i])>>)
  PROVE  Good(g, h, k, <<Fold(p, q, r, base, seq), Fold(p2, q2, r2, base2, seq2)>>)
<1>1. PICK acc : Accumulates(acc, p, q, r, base, n, seq)
  BY Accumulators
<1>2. PICK acc2 : Accumulates(acc2, p2, q2, r2, base2, n, seq2)
  BY Accumulators
<1> DEFINE S == {m \in Nat : m <= n => Good(g, h, k, <<acc[m], acc2[m]>>)}
<1>3. 0 \in S
  BY <1>1, <1>2 DEF Accumulates
<1>4. ASSUME NEW m \in Nat, m \in S PROVE m + 1 \in S
  <2>1. SUFFICES ASSUME m + 1 <= n PROVE Good(g, h, k, <<acc[m + 1], acc2[m + 1]>>)
    OBVIOUS
  <2>2. m + 1 \in 1 .. n /\ (m + 1) - 1 = m /\ Good(g, h, k, <<acc[m], acc2[m]>>)
    BY <2>1, <1>4
  <2>3. /\ acc[m + 1] = Step(p, q, r, acc[m], seq[m + 1])
        /\ acc2[m + 1] = Step(p2, q2, r2, acc2[m], seq2[m + 1])
    BY <1>1, <1>2, <2>2 DEF Accumulates
  <2> QED
    BY <2>2, <2>3
<1> HIDE DEF S
<1>5. n \in S
  BY <1>3, <1>4, SetInduction
<1> QED
  BY <1>1, <1>2, <1>5 DEF S, Accumulates

(* One more element is one more step.                                      *)
THEOREM FoldOfLonger ==
  ASSUME NEW p, NEW q, NEW r, NEW base, NEW n \in Nat, NEW seq, DOMAIN seq = 1 .. n,
         NEW longer, DOMAIN longer = 1 .. n + 1, \A i \in 1 .. n : longer[i] = seq[i]
  PROVE  Fold(p, q, r, base, longer) = Step(p, q, r, Fold(p, q, r, base, seq), longer[n + 1])
<1>1. PICK acc : Accumulates(acc, p, q, r, base, n, seq)
  BY Accumulators
<1> DEFINE l == n + 1
<1>2. l \in Nat /\ DOMAIN longer = 1 .. l
  OBVIOUS
<1> HIDE DEF l
<1>3. PICK acc2 : Accumulates(acc2, p, q, r, base, l, longer)
  BY <1>2, Accumulators
<1> DEFINE S == {m \in Nat : m <= n => acc[m] = acc2[m]}
<1>4. 0 \in S
  BY <1>1, <1>3 DEF Accumulates
<1>5. ASSUME NEW m \in Nat, m \in S PROVE m + 1 \in S
  <2>1. SUFFICES ASSUME m + 1 <= n PROVE acc[m + 1] = acc2[m + 1]
    OBVIOUS
  <2>2. m + 1 \in 1 .. n /\ m + 1 \in 1 .. l /\ (m + 1) - 1 = m /\ acc[m] = acc2[m]
    BY <2>1, <1>5 DEF l
  <2> QED
    BY <1>1, <1>3, <2>2 DEF Accumulates
<1> HIDE DEF S
<1>6. n \in S
  BY <1>4, <1>5, SetInduction
<1>7. acc[n] = acc2[n]
  BY <1>6 DEF S
<1>8. l \in 1 .. l /\ l - 1 = n
  BY DEF l
<1>9. acc2[l] = Step(p, q, r, acc2[n], longer[l])
  BY <1>3, <1>8 DEF Accumulates
<1> QED
  BY <1>1, <1>3, <1>7, <1>9 DEF Accumulates, l
=============================================================================
