-------------------------- MODULE DocumentsProofs --------------------------
(***************************************************************************)
(* The documents, for every word list, limit and request: the segments of  *)
(* a text cover it and are found again by their place; what the index      *)
(* says of a term in its postings, its total and its places is one thing;  *)
(* a question's path reaches every field below it; relative dates are      *)
(* days of the calendar; a level holds the numbers it was picked for;      *)
(* complementary questions are not answered alike; and an accepted state   *)
(* is within the limits that validation measures.                          *)
(*                                                                         *)
(* What a recursion over JSON values or over a sequence gives is known by  *)
(* what it does for one more level or one more element: a value of a level *)
(* of JsonValues has members of lower levels, and Folding takes a fold     *)
(* apart.                                                                  *)
(***************************************************************************)
EXTENDS Documents, SequenceTheorems, FiniteSetTheorems, TLAPS

-----------------------------------------------------------------------------
(* Part one.  Lists, levels and the walk.                                  *)

(* Lists: sequences of any length, taken apart and put together.           *)

IsList(s) == s \in Seq(ToSet(s))

LEMMA ListForm ==
  ASSUME NEW n \in Nat, NEW s, s = [k \in 1 .. n |-> s[k]]
  PROVE  IsList(s) /\ Len(s) = n /\ DOMAIN s = 1 .. n
<1>1. DOMAIN s = 1 .. n
  OBVIOUS
<1>2. \A k \in 1 .. n : s[k] \in ToSet(s)
  BY <1>1 DEF ToSet
<1>3. s \in Seq(ToSet(s))
  BY <1>2
<1> QED
  BY <1>1, <1>3 DEF IsList

LEMMA ListDomain ==
  ASSUME NEW s, IsList(s)
  PROVE  Len(s) \in Nat /\ DOMAIN s = 1 .. Len(s) /\ s = [k \in 1 .. Len(s) |-> s[k]]
  BY DEF IsList

LEMMA TypedIsList ==
  ASSUME NEW S, NEW s \in Seq(S)
  PROVE  IsList(s)
<1>1. Len(s) \in Nat /\ s = [k \in 1 .. Len(s) |-> s[k]]
  OBVIOUS
<1> QED
  BY <1>1, ListForm

LEMMA ListIsTyped ==
  ASSUME NEW s, IsList(s), NEW S, \A k \in DOMAIN s : s[k] \in S
  PROVE  s \in Seq(S)
<1>1. Len(s) \in Nat /\ DOMAIN s = 1 .. Len(s) /\ s = [k \in 1 .. Len(s) |-> s[k]]
  BY ListDomain
<1> QED
  BY <1>1

LEMMA EmptyIsList == IsList(<<>>) /\ Len(<<>>) = 0
<1>1. <<>> = [k \in 1 .. 0 |-> <<>>[k]] /\ 0 \in Nat
  OBVIOUS
<1> QED
  BY <1>1, ListForm

LEMMA ConcatLists ==
  ASSUME NEW s, NEW t, IsList(s), IsList(t)
  PROVE  /\ IsList(s \o t)
         /\ Len(s \o t) = Len(s) + Len(t)
         /\ DOMAIN (s \o t) = 1 .. Len(s) + Len(t)
         /\ \A k \in 1 .. Len(s) : (s \o t)[k] = s[k]
         /\ \A k \in 1 .. Len(t) : (s \o t)[Len(s) + k] = t[k]
         /\ ToSet(s \o t) = ToSet(s) \cup ToSet(t)
<1> DEFINE S == ToSet(s) \cup ToSet(t)
           u == s \o t
<1>1. s \in Seq(S) /\ t \in Seq(S)
  <2>1. \A k \in DOMAIN s : s[k] \in S
    BY DEF ToSet
  <2>2. \A k \in DOMAIN t : t[k] \in S
    BY DEF ToSet
  <2> QED
    BY <2>1, <2>2, ListIsTyped
<1> HIDE DEF S
<1>2. /\ u \in Seq(S)
      /\ Len(u) = Len(s) + Len(t)
      /\ \A i \in 1 .. Len(s) + Len(t) : u[i] = IF i <= Len(s) THEN s[i] ELSE t[i - Len(s)]
  BY <1>1, ConcatProperties
<1> HIDE DEF u
<1>3. /\ Len(s) \in Nat /\ DOMAIN s = 1 .. Len(s)
      /\ Len(t) \in Nat /\ DOMAIN t = 1 .. Len(t)
      /\ DOMAIN u = 1 .. Len(s) + Len(t)
  BY <1>1, <1>2
<1>4. IsList(u)
  BY <1>2, TypedIsList
<1>5. \A k \in 1 .. Len(s) : u[k] = s[k]
  BY <1>2, <1>3
<1>6. \A k \in 1 .. Len(t) : u[Len(s) + k] = t[k]
  BY <1>2, <1>3
<1>7. ToSet(u) = ToSet(s) \cup ToSet(t)
  <2>1. \A i \in DOMAIN u : u[i] \in ToSet(s) \cup ToSet(t)
    BY <1>2, <1>3 DEF ToSet
  <2>2. \A k \in DOMAIN s : s[k] \in ToSet(u)
    BY <1>3, <1>5 DEF ToSet
  <2>3. ASSUME NEW k \in DOMAIN t PROVE t[k] \in ToSet(u)
    <3>1. Len(s) + k \in DOMAIN u /\ u[Len(s) + k] = t[k]
      BY <1>3, <1>6
    <3> QED
      BY <3>1 DEF ToSet
  <2> QED
    BY <2>1, <2>2, <2>3 DEF ToSet
<1> QED
  BY <1>2, <1>3, <1>4, <1>5, <1>6, <1>7 DEF u

LEMMA SingleList ==
  ASSUME NEW x
  PROVE  IsList(<<x>>) /\ Len(<<x>>) = 1 /\ ToSet(<<x>>) = {x}
<1> DEFINE u == <<x>>
<1>1. u \in Seq({x}) /\ Len(u) = 1 /\ u[1] = x /\ DOMAIN u = {1}
  OBVIOUS
<1> HIDE DEF u
<1>2. IsList(u)
  BY <1>1, TypedIsList
<1>3. ToSet(u) = {x}
  BY <1>1 DEF ToSet
<1> QED
  BY <1>1, <1>2, <1>3 DEF u

LEMMA AppendLists ==
  ASSUME NEW s, NEW x, IsList(s)
  PROVE  /\ IsList(Append(s, x))
         /\ Len(Append(s, x)) = Len(s) + 1
         /\ DOMAIN Append(s, x) = 1 .. Len(s) + 1
         /\ \A k \in 1 .. Len(s) : Append(s, x)[k] = s[k]
         /\ Append(s, x)[Len(s) + 1] = x
         /\ ToSet(Append(s, x)) = ToSet(s) \cup {x}
<1> DEFINE S == ToSet(s) \cup {x}
           u == Append(s, x)
<1>1. s \in Seq(S)
  <2>1. \A k \in DOMAIN s : s[k] \in S
    BY DEF ToSet
  <2> QED
    BY <2>1, ListIsTyped
<1>2. x \in S
  OBVIOUS
<1> HIDE DEF S
<1>3. /\ u \in Seq(S)
      /\ Len(u) = Len(s) + 1
      /\ \A i \in 1 .. Len(s) : u[i] = s[i]
      /\ u[Len(s) + 1] = x
  BY <1>1, <1>2, AppendProperties
<1> HIDE DEF u
<1>4. /\ Len(s) \in Nat /\ DOMAIN s = 1 .. Len(s)
      /\ DOMAIN u = 1 .. Len(s) + 1
  BY <1>1, <1>3
<1>5. IsList(u)
  BY <1>3, TypedIsList
<1>6. ToSet(u) = ToSet(s) \cup {x}
  <2>1. \A i \in DOMAIN u : i \in 1 .. Len(s) \/ i = Len(s) + 1
    BY <1>4
  <2>2. \A k \in DOMAIN s : s[k] \in ToSet(u)
    BY <1>3, <1>4 DEF ToSet
  <2>3. x \in ToSet(u)
    BY <1>3, <1>4 DEF ToSet
  <2>4. \A i \in DOMAIN u : u[i] \in ToSet(s) \cup {x}
    BY <2>1, <1>3, <1>4 DEF ToSet
  <2> QED
    BY <2>2, <2>3, <2>4 DEF ToSet
<1> QED
  BY <1>3, <1>4, <1>5, <1>6 DEF u

-----------------------------------------------------------------------------
(* The greatest and the least of some numbers; the positions of a list     *)
(* that pass a test.                                                       *)

Whatever(p, q, r, acc) == TRUE

ChooseStep(s, P, r, t, k) == IF k \in P THEN Append(t, s[k]) ELSE t
ChooseLoop == INSTANCE Folding WITH Step <- ChooseStep, Good <- Whatever

LEMMA MaxOf ==
  ASSUME NEW S \in SUBSET Int, S # {}, NEW b \in Int, \A x \in S : x <= b
  PROVE  Max(S) \in S /\ \A x \in S : x <= Max(S)
<1>1. SUFFICES \E x \in S : \A y \in S : x >= y
  <2>1. Max(S) \in S /\ \A y \in S : Max(S) >= y
    BY DEF Max
  <2> QED
    BY <2>1
<1> DEFINE T == {n \in Nat : (\E x \in S : b - n <= x) => \E x \in S : \A y \in S : x >= y}
<1>2. 0 \in T
  <2>1. ASSUME NEW x \in S, b - 0 <= x PROVE \A y \in S : x >= y
    BY <2>1
  <2> QED
    BY <2>1
<1>3. ASSUME NEW n \in Nat, n \in T PROVE n + 1 \in T
  <2>1. SUFFICES ASSUME NEW x \in S, b - (n + 1) <= x
                 PROVE  \E z \in S : \A y \in S : z >= y
    OBVIOUS
  <2>2. CASE \E z \in S : b - n <= z
    BY <2>2, <1>3
  <2>3. CASE \A z \in S : b - n > z
    <3>1. \A y \in S : x >= y
      BY <2>1, <2>3
    <3> QED
      BY <3>1
  <2> QED
    BY <2>2, <2>3
<1> HIDE DEF T
<1>4. \A n \in Nat : n \in T
  BY <1>2, <1>3, ChooseLoop!SetInduction
<1>5. PICK x \in S : TRUE
  OBVIOUS
<1>6. b - x \in Nat /\ b - (b - x) <= x
  BY <1>5
<1> QED
  BY <1>4, <1>6 DEF T

LEMMA MinOf ==
  ASSUME NEW S \in SUBSET Int, S # {}, NEW b \in Int, \A x \in S : b <= x
  PROVE  Min(S) \in S /\ \A x \in S : Min(S) <= x
<1>1. SUFFICES \E x \in S : \A y \in S : x =< y
  <2>1. Min(S) \in S /\ \A y \in S : Min(S) =< y
    BY DEF Min
  <2> QED
    BY <2>1
<1> DEFINE T == {n \in Nat : (\E x \in S : x <= b + n) => \E x \in S : \A y \in S : x =< y}
<1>2. 0 \in T
  <2>1. ASSUME NEW x \in S, x <= b + 0 PROVE \A y \in S : x =< y
    BY <2>1
  <2> QED
    BY <2>1
<1>3. ASSUME NEW n \in Nat, n \in T PROVE n + 1 \in T
  <2>1. SUFFICES ASSUME NEW x \in S, x <= b + (n + 1)
                 PROVE  \E z \in S : \A y \in S : z =< y
    OBVIOUS
  <2>2. CASE \E z \in S : z <= b + n
    BY <2>2, <1>3
  <2>3. CASE \A z \in S : z > b + n
    <3>1. \A y \in S : x =< y
      BY <2>1, <2>3
    <3> QED
      BY <3>1
  <2> QED
    BY <2>2, <2>3
<1> HIDE DEF T
<1>4. \A n \in Nat : n \in T
  BY <1>2, <1>3, ChooseLoop!SetInduction
<1>5. PICK x \in S : TRUE
  OBVIOUS
<1>6. x - b \in Nat /\ x <= b + (x - b)
  BY <1>5
<1> QED
  BY <1>4, <1>6 DEF T

LEMMA MaxOfTwo ==
  ASSUME NEW a \in Int, NEW b \in Int
  PROVE  Max({a, b}) = IF a <= b THEN b ELSE a
<1> DEFINE S == {a, b}
<1>1. S \in SUBSET Int /\ S # {}
  OBVIOUS
<1>2. \E c \in Int : \A x \in S : x <= c
  <2>1. CASE a <= b
    BY <2>1
  <2>2. CASE b <= a
    BY <2>2
  <2> QED
    BY <2>1, <2>2
<1>3. PICK c \in Int : \A x \in S : x <= c
  BY <1>2
<1> HIDE DEF S
<1>4. Max(S) \in S /\ \A x \in S : x <= Max(S)
  BY <1>1, <1>3, MaxOf
<1> QED
  BY <1>4 DEF S

LEMMA MinOfTwo ==
  ASSUME NEW a \in Int, NEW b \in Int
  PROVE  Min({a, b}) = IF a <= b THEN a ELSE b
<1> DEFINE S == {a, b}
<1>1. S \in SUBSET Int /\ S # {}
  OBVIOUS
<1>2. \E c \in Int : \A x \in S : c <= x
  <2>1. CASE a <= b
    BY <2>1
  <2>2. CASE b <= a
    BY <2>2
  <2> QED
    BY <2>1, <2>2
<1>3. PICK c \in Int : \A x \in S : c <= x
  BY <1>2
<1> HIDE DEF S
<1>4. Min(S) \in S /\ \A x \in S : Min(S) <= x
  BY <1>1, <1>3, MinOf
<1> QED
  BY <1>4 DEF S

-----------------------------------------------------------------------------
ChosenTo(s, P, i, t) ==
  /\ IsList(t)
  /\ Len(t) <= i
  /\ ToSet(t) = {s[k] : k \in P \cap (1 .. i)}

LEMMA ChosenIs ==
  ASSUME NEW n \in Nat, NEW s, DOMAIN s = 1 .. n, NEW P
  PROVE  /\ IsList(Chosen(s, P))
         /\ Len(Chosen(s, P)) <= n
         /\ ToSet(Chosen(s, P)) = {s[k] : k \in P \cap (1 .. n)}
<1> DEFINE seq == [k \in DOMAIN s |-> k]
<1>1. DOMAIN seq = 1 .. n /\ \A i \in 1 .. n : seq[i] = i
  OBVIOUS
<1>a. Chosen(s, P) = FoldLeft(LAMBDA t, k : IF k \in P THEN Append(t, s[k]) ELSE t, <<>>, seq)
  BY DEF Chosen
<1> HIDE DEF seq
<1>2. Chosen(s, P) = ChooseLoop!Fold(s, P, 0, <<>>, seq)
  BY <1>a DEF ChooseLoop!Fold, FoldLeft, MapThenFoldSet,
         Max, ChooseLoop!Greatest, ChooseStep
<1>3. PICK acc : ChooseLoop!Accumulates(acc, s, P, 0, <<>>, n, seq)
  BY <1>1, ChooseLoop!Accumulators
<1> DEFINE T == {m \in Nat : m <= n => ChosenTo(s, P, m, acc[m])}
<1>4. 0 \in T
  <2>1. acc[0] = <<>> /\ ToSet(<<>>) = {}
    BY <1>3 DEF ChooseLoop!Accumulates, ToSet
  <2>2. {s[k] : k \in P \cap (1 .. 0)} = {}
    OBVIOUS
  <2> QED
    BY <2>1, <2>2, EmptyIsList DEF ChosenTo
<1>5. ASSUME NEW m \in Nat, m \in T PROVE m + 1 \in T
  <2>1. SUFFICES ASSUME m + 1 <= n PROVE ChosenTo(s, P, m + 1, acc[m + 1])
    OBVIOUS
  <2>2. m + 1 \in 1 .. n /\ (m + 1) - 1 = m /\ ChosenTo(s, P, m, acc[m])
    BY <2>1, <1>5
  <2>3. acc[m + 1] = ChooseStep(s, P, 0, acc[m], m + 1)
    BY <1>1, <1>3, <2>2 DEF ChooseLoop!Accumulates
  <2> DEFINE t == acc[m]
             u == acc[m + 1]
  <2>4. IsList(t) /\ Len(t) <= m /\ ToSet(t) = {s[k] : k \in P \cap (1 .. m)} /\ Len(t) \in Nat
    BY <2>2, ListDomain DEF ChosenTo
  <2>5. CASE m + 1 \in P
    <3>1. u = Append(t, s[m + 1])
      BY <2>3, <2>5 DEF ChooseStep
    <3> HIDE DEF t, u
    <3>2. IsList(u) /\ Len(u) <= m + 1 /\ ToSet(u) = ToSet(t) \cup {s[m + 1]}
      BY <3>1, <2>4, AppendLists
    <3>3. P \cap (1 .. m + 1) = (P \cap (1 .. m)) \cup {m + 1}
      BY <2>5
    <3>4. {s[k] : k \in P \cap (1 .. m + 1)} = {s[k] : k \in P \cap (1 .. m)} \cup {s[m + 1]}
      BY <3>3
    <3> QED
      BY <3>2, <3>4, <2>4 DEF ChosenTo, u
  <2>6. CASE m + 1 \notin P
    <3>1. u = t
      BY <2>3, <2>6 DEF ChooseStep
    <3> HIDE DEF t, u
    <3>3. P \cap (1 .. m + 1) = P \cap (1 .. m)
      BY <2>6
    <3> QED
      BY <3>1, <3>3, <2>4 DEF ChosenTo, u
  <2> QED
    BY <2>5, <2>6
<1> HIDE DEF T
<1>6. n \in T
  BY <1>4, <1>5, ChooseLoop!SetInduction
<1>7. ChosenTo(s, P, n, acc[n]) /\ Chosen(s, P) = acc[n]
  BY <1>2, <1>3, <1>6 DEF T, ChooseLoop!Accumulates
<1> QED
  BY <1>7 DEF ChosenTo

LEMMA ChosenElement ==
  ASSUME NEW n \in Nat, NEW s, DOMAIN s = 1 .. n, NEW P, NEW k \in DOMAIN Chosen(s, P)
  PROVE  \E j \in P \cap (1 .. n) : Chosen(s, P)[k] = s[j]
<1>1. Chosen(s, P)[k] \in ToSet(Chosen(s, P))
  BY DEF ToSet
<1> QED
  BY <1>1, ChosenIs

LEMMA PositionsAre ==
  ASSUME NEW n \in Nat, NEW s, DOMAIN s = 1 .. n, NEW P
  PROVE  /\ IsList(Positions(s, P))
         /\ \A k \in DOMAIN Positions(s, P) : Positions(s, P)[k] \in P \cap (1 .. n)
<1> DEFINE u == [k \in DOMAIN s |-> k]
<1>1. DOMAIN u = 1 .. n /\ \A k \in 1 .. n : u[k] = k
  OBVIOUS
<1>2. Positions(s, P) = Chosen(u, P)
  BY DEF Positions
<1> HIDE DEF u
<1>3. IsList(Chosen(u, P))
  BY <1>1, ChosenIs
<1>4. ASSUME NEW k \in DOMAIN Chosen(u, P) PROVE Chosen(u, P)[k] \in P \cap (1 .. n)
  <2>1. PICK j \in P \cap (1 .. n) : Chosen(u, P)[k] = u[j]
    BY <1>1, ChosenElement
  <2> QED
    BY <2>1, <1>1
<1> QED
  BY <1>2, <1>3, <1>4

(* A list made from another, element by element. *)
LEMMA MadeFrom ==
  ASSUME NEW s, IsList(s), NEW t, t = [k \in DOMAIN s |-> t[k]]
  PROVE  IsList(t) /\ Len(t) = Len(s) /\ DOMAIN t = DOMAIN s
<1>1. Len(s) \in Nat /\ DOMAIN s = 1 .. Len(s)
  BY ListDomain
<1>2. t = [k \in 1 .. Len(s) |-> t[k]]
  BY <1>1
<1> QED
  BY <1>1, <1>2, ListForm

-----------------------------------------------------------------------------
(* The levels of JSON values: every value is of a level, and its members   *)
(* are of the one below.                                                   *)

Wider(inner) ==
  Scalars
  \cup [type : {"array"}, items : {s \in Seq(inner) : Len(s) <= Len(IndexGlyphs)}]
  \cup [type : {"object"}, entries : Seq([key : Texts, value : inner])]

Levelled(f, n) == IF n = 0 THEN Scalars ELSE Wider(f[n - 1])

LEMMA LevelsExist ==
  ASSUME NEW m \in Nat
  PROVE  \E f : f = [n \in 0 .. m |-> Levelled(f, n)]
<1> DEFINE T == {k \in Nat : \E f : f = [n \in 0 .. k |-> Levelled(f, n)]}
<1>1. 0 \in T
  <2> DEFINE f == [n \in 0 .. 0 |-> Scalars]
  <2>1. f = [n \in 0 .. 0 |-> Levelled(f, n)]
    BY DEF Levelled
  <2> QED
    BY <2>1
<1>2. ASSUME NEW k \in Nat, k \in T PROVE k + 1 \in T
  <2>1. PICK f : f = [n \in 0 .. k |-> Levelled(f, n)]
    BY <1>2
  <2> DEFINE g == [n \in 0 .. k + 1 |-> IF n = k + 1 THEN Wider(f[k]) ELSE f[n]]
  <2>2. ASSUME NEW n \in 0 .. k + 1 PROVE g[n] = Levelled(g, n)
    <3>1. CASE n = k + 1
      <4>1. g[n] = Wider(f[k]) /\ g[k] = f[k] /\ n - 1 = k /\ n # 0
        BY <3>1
      <4> HIDE DEF g
      <4> QED
        BY <4>1 DEF Levelled
    <3>2. CASE n # k + 1
      <4>1. n \in 0 .. k /\ g[n] = f[n] /\ f[n] = Levelled(f, n)
        BY <3>2, <2>1
      <4>2. n # 0 => g[n - 1] = f[n - 1]
        BY <4>1
      <4> HIDE DEF g
      <4> QED
        BY <4>1, <4>2 DEF Levelled
    <3> QED
      BY <3>1, <3>2
  <2>3. g = [n \in 0 .. k + 1 |-> g[n]]
    OBVIOUS
  <2> HIDE DEF g
  <2>4. g = [n \in 0 .. k + 1 |-> Levelled(g, n)]
    BY <2>2, <2>3
  <2> QED
    BY <2>4
<1> HIDE DEF T
<1>3. m \in T
  BY <1>1, <1>2, ChooseLoop!SetInduction
<1> QED
  BY <1>3 DEF T

LEMMA JsonLevels ==
  /\ JsonTo[0] = Scalars
  /\ \A n \in Nat : n + 1 <= Nesting => JsonTo[n + 1] = Wider(JsonTo[n])
<1>0. Nesting \in Nat
  BY JsonAssumption
<1> DEFINE j == CHOOSE f : f = [n \in 0 .. Nesting |-> Levelled(f, n)]
<1>1. j = [n \in 0 .. Nesting |-> Levelled(j, n)]
  BY <1>0, LevelsExist
<1>2. JsonTo = j
  BY DEF JsonTo, Levelled, Wider
<1> HIDE DEF j
<1>3. JsonTo[0] = Scalars
  BY <1>0, <1>1, <1>2 DEF Levelled
<1>4. ASSUME NEW n \in Nat, n + 1 <= Nesting PROVE JsonTo[n + 1] = Wider(JsonTo[n])
  <2>1. n + 1 \in 0 .. Nesting /\ n + 1 # 0 /\ (n + 1) - 1 = n
    BY <1>0, <1>4
  <2> QED
    BY <1>1, <1>2, <2>1 DEF Levelled
<1> QED
  BY <1>3, <1>4

LEMMA WiderGrows ==
  ASSUME NEW a, NEW b, a \subseteq b
  PROVE  Wider(a) \subseteq Wider(b)
<1>1. \A s \in Seq(a) : s \in Seq(b)
  BY SeqMonotonic
<1>2. [key : Texts, value : a] \subseteq [key : Texts, value : b]
  OBVIOUS
<1>3. \A s \in Seq([key : Texts, value : a]) : s \in Seq([key : Texts, value : b])
  BY <1>2, SeqMonotonic
<1> QED
  BY <1>1, <1>3 DEF Wider

LEMMA LevelsGrow ==
  ASSUME NEW n \in Nat, n + 1 <= Nesting
  PROVE  JsonTo[n] \subseteq JsonTo[n + 1]
<1>0. Nesting \in Nat
  BY JsonAssumption
<1> DEFINE T == {k \in Nat : k + 1 <= Nesting => JsonTo[k] \subseteq JsonTo[k + 1]}
<1>1. 0 \in T
  BY JsonLevels DEF Wider
<1>2. ASSUME NEW k \in Nat, k \in T PROVE k + 1 \in T
  <2>1. SUFFICES ASSUME (k + 1) + 1 <= Nesting PROVE JsonTo[k + 1] \subseteq JsonTo[(k + 1) + 1]
    OBVIOUS
  <2>2. k + 1 \in Nat /\ k + 1 <= Nesting /\ JsonTo[k] \subseteq JsonTo[k + 1]
    BY <1>0, <1>2, <2>1
  <2>3. JsonTo[k + 1] = Wider(JsonTo[k]) /\ JsonTo[(k + 1) + 1] = Wider(JsonTo[k + 1])
    BY <2>1, <2>2, JsonLevels
  <2> QED
    BY <2>2, <2>3, WiderGrows
<1> HIDE DEF T
<1>3. n \in T
  BY <1>1, <1>2, ChooseLoop!SetInduction
<1> QED
  BY <1>3 DEF T

LEMMA LevelsWithin ==
  ASSUME NEW n \in 0 .. Nesting
  PROVE  JsonTo[n] \subseteq JsonValues
<1>0. Nesting \in Nat
  BY JsonAssumption
<1> DEFINE T == {k \in Nat : k <= Nesting => JsonTo[Nesting - k] \subseteq JsonValues}
<1>1. 0 \in T
  BY <1>0 DEF JsonValues
<1>2. ASSUME NEW k \in Nat, k \in T PROVE k + 1 \in T
  <2>1. SUFFICES ASSUME k + 1 <= Nesting PROVE JsonTo[Nesting - (k + 1)] \subseteq JsonValues
    OBVIOUS
  <2> DEFINE m == Nesting - (k + 1)
  <2>2. m \in Nat /\ m + 1 = Nesting - k /\ m + 1 <= Nesting /\ k <= Nesting
    BY <1>0, <2>1
  <2> HIDE DEF m
  <2>3. JsonTo[m] \subseteq JsonTo[m + 1]
    BY <2>2, LevelsGrow
  <2>4. JsonTo[m + 1] \subseteq JsonValues
    BY <1>2, <2>2
  <2> QED
    BY <2>3, <2>4 DEF m
<1> HIDE DEF T
<1>3. \A k \in Nat : k \in T
  BY <1>1, <1>2, ChooseLoop!SetInduction
<1>4. Nesting - n \in Nat /\ Nesting - n <= Nesting /\ Nesting - (Nesting - n) = n
  BY <1>0
<1> QED
  BY <1>3, <1>4 DEF T

IsScalar(v) ==
  \/ v.type = "text" /\ v.text \in Texts
  \/ v.type = "number" /\ v.number \in Glyphs
  \/ v.type = "bool" /\ v.bool \in BOOLEAN
  \/ v.type = "null"

LEMMA ScalarForm ==
  ASSUME NEW v \in Scalars
  PROVE  IsScalar(v)
<1>1. CASE v \in [type : {"text"}, text : Texts]
  BY <1>1 DEF IsScalar
<1>2. CASE v \in [type : {"number"}, number : Glyphs]
  BY <1>2 DEF IsScalar
<1>3. CASE v \in [type : {"bool"}, bool : BOOLEAN]
  BY <1>3 DEF IsScalar
<1>4. CASE v = Null
  BY <1>4 DEF IsScalar, Null
<1> QED
  BY <1>1, <1>2, <1>3, <1>4 DEF Scalars

(* A value of a level is a scalar, or its children are of the level below. *)
InnerOf(v, inner) ==
  \/ v \in Scalars /\ IsScalar(v)
  \/ /\ v.type = "array" /\ v.items \in Seq(inner) /\ Len(v.items) <= Len(IndexGlyphs)
  \/ /\ v.type = "object" /\ v.entries \in Seq([key : Texts, value : inner])

LEMMA WiderForm ==
  ASSUME NEW inner, NEW v \in Wider(inner)
  PROVE  InnerOf(v, inner)
<1>1. CASE v \in Scalars
  BY <1>1, ScalarForm DEF InnerOf
<1>2. CASE v \in [type : {"array"}, items : {s \in Seq(inner) : Len(s) <= Len(IndexGlyphs)}]
  BY <1>2 DEF InnerOf
<1>3. CASE v \in [type : {"object"}, entries : Seq([key : Texts, value : inner])]
  BY <1>3 DEF InnerOf
<1> QED
  BY <1>1, <1>2, <1>3 DEF Wider

LEMMA LevelForm ==
  /\ \A v \in JsonTo[0] : v \in Scalars /\ IsScalar(v)
  /\ \A n \in Nat : n + 1 <= Nesting => \A v \in JsonTo[n + 1] : InnerOf(v, JsonTo[n])
<1>1. \A v \in JsonTo[0] : v \in Scalars /\ IsScalar(v)
  BY JsonLevels, ScalarForm
<1>2. ASSUME NEW n \in Nat, n + 1 <= Nesting, NEW v \in JsonTo[n + 1] PROVE InnerOf(v, JsonTo[n])
  BY <1>2, JsonLevels, WiderForm
<1> QED
  BY <1>1, <1>2

-----------------------------------------------------------------------------
(* Parts of lists, and entries in the order of their keys.                 *)

LEMMA CountUpTo ==
  ASSUME NEW n \in Nat, NEW S \in SUBSET (1 .. n)
  PROVE  Cardinality(S) \in 0 .. n
<1>1. IsFiniteSet(1 .. n) /\ Cardinality(1 .. n) = n
  <2>1. 1 \in Int /\ n \in Int /\ Cardinality(1 .. n) = IF 1 > n THEN 0 ELSE n - 1 + 1
    BY FS_Interval
  <2> QED
    BY <2>1, FS_Interval
<1>2. IsFiniteSet(S) /\ Cardinality(S) <= Cardinality(1 .. n)
  BY <1>1, FS_Subset
<1> QED
  BY <1>1, <1>2, FS_CardinalityType

LEMMA SubList ==
  ASSUME NEW s, IsList(s), NEW m \in Int, NEW n \in Int, 1 <= m, n <= Len(s), m <= n + 1
  PROVE  /\ IsList(SubSeq(s, m, n))
         /\ Len(SubSeq(s, m, n)) = n - m + 1
         /\ DOMAIN SubSeq(s, m, n) = 1 .. n - m + 1
         /\ \A i \in 1 .. n - m + 1 : SubSeq(s, m, n)[i] = s[m + i - 1]
         /\ ToSet(SubSeq(s, m, n)) = {s[k] : k \in m .. n}
<1> DEFINE u == SubSeq(s, m, n)
           S == {s[k] : k \in m .. n}
<1>1. /\ u \in Seq(S)
      /\ Len(u) = IF m <= n THEN n - m + 1 ELSE 0
      /\ \A i \in 1 .. n - m + 1 : u[i] = s[m + i - 1]
  <2>1. \A i \in m .. n : s[i] \in S
    OBVIOUS
  <2> HIDE DEF S
  <2> QED
    BY <2>1, SubSeqProperties
<1>2. S = {s[k] : k \in m .. n}
  OBVIOUS
<1> HIDE DEF u, S
<1>3. n - m + 1 \in Nat /\ Len(u) = n - m + 1 /\ DOMAIN u = 1 .. n - m + 1
  BY <1>1
<1>4. ToSet(u) = S
  <2>1. \A i \in DOMAIN u : u[i] \in S
    BY <1>1, <1>3
  <2>2. ASSUME NEW k \in m .. n PROVE s[k] \in ToSet(u)
    <3>1. k - m + 1 \in 1 .. n - m + 1 /\ m + (k - m + 1) - 1 = k
      OBVIOUS
    <3>2. u[k - m + 1] = s[k]
      BY <3>1, <1>1
    <3> QED
      BY <3>1, <3>2, <1>3 DEF ToSet
  <2>3. ToSet(u) \subseteq S
    BY <2>1 DEF ToSet
  <2>4. S \subseteq ToSet(u)
    BY <1>2, <2>2
  <2> QED
    BY <2>3, <2>4
<1>5. IsList(u)
  BY <1>1, TypedIsList
<1> QED
  BY <1>1, <1>2, <1>3, <1>4, <1>5 DEF u

(* The part of a list from m to n. *)
PartOf(u, s, m, n) ==
  /\ IsList(u) /\ Len(u) = n - m + 1
  /\ \A k \in 1 .. n - m + 1 : u[k] = s[m + k - 1]
  /\ ToSet(u) = {s[k] : k \in m .. n}

LEMMA SubListIsPart ==
  ASSUME NEW s, IsList(s), NEW m \in Int, NEW n \in Int, 1 <= m, n <= Len(s), m <= n + 1
  PROVE  PartOf(SubSeq(s, m, n), s, m, n)
  BY SubList DEF PartOf

LEMMA InsertAtIs ==
  ASSUME NEW s, IsList(s), NEW i \in 1 .. Len(s) + 1, NEW e
  PROVE  /\ IsList(InsertAt(s, i, e))
         /\ Len(InsertAt(s, i, e)) = Len(s) + 1
         /\ ToSet(InsertAt(s, i, e)) = ToSet(s) \cup {e}
<1>0. Len(s) \in Nat /\ DOMAIN s = 1 .. Len(s) /\ Len(s) \in Int /\ i \in Int /\ i - 1 \in Int
  BY ListDomain
<1> DEFINE a == SubSeq(s, 1, i - 1)
           b == <<e>>
           c == SubSeq(s, i, Len(s))
<1>1. IsList(a) /\ Len(a) = i - 1 /\ ToSet(a) = {s[k] : k \in 1 .. i - 1}
  <2>1. 1 \in Int /\ 1 <= 1 /\ i - 1 <= Len(s) /\ 1 <= (i - 1) + 1 /\ (i - 1) - 1 + 1 = i - 1
    BY <1>0
  <2> QED
    BY <1>0, <2>1, SubList
<1>2. IsList(c) /\ Len(c) = Len(s) - i + 1 /\ ToSet(c) = {s[k] : k \in i .. Len(s)}
  <2> DEFINE n == Len(s)
  <2>1. n \in Int /\ 1 <= i /\ n <= Len(s) /\ i <= n + 1
    BY <1>0
  <2> HIDE DEF n, a, b, c
  <2>2. PartOf(SubSeq(s, i, n), s, i, n)
    BY <1>0, <2>1, SubListIsPart
  <2>3. PartOf(c, s, i, Len(s))
    BY <2>2 DEF n, c
  <2> QED
    BY <2>3 DEF PartOf
<1>3. IsList(b) /\ Len(b) = 1 /\ ToSet(b) = {e}
  BY SingleList
<1>4. InsertAt(s, i, e) = (a \o b) \o c
  BY DEF InsertAt
<1> HIDE DEF a, b, c
<1> DEFINE d == a \o b
<1>5. IsList(d) /\ Len(d) = Len(a) + Len(b) /\ ToSet(d) = ToSet(a) \cup ToSet(b)
  BY <1>1, <1>3, ConcatLists
<1> HIDE DEF d
<1> DEFINE f == d \o c
<1>6. IsList(f) /\ Len(f) = Len(d) + Len(c) /\ ToSet(f) = ToSet(d) \cup ToSet(c)
  BY <1>2, <1>5, ConcatLists
<1>7. f = InsertAt(s, i, e)
  BY <1>4 DEF d
<1> HIDE DEF f
<1>8. (1 .. i - 1) \cup (i .. Len(s)) = 1 .. Len(s)
  BY <1>0
<1>9. ToSet(s) = {s[k] : k \in 1 .. i - 1} \cup {s[k] : k \in i .. Len(s)}
  BY <1>0, <1>8 DEF ToSet
<1>10. Len(f) = Len(s) + 1
  BY <1>0, <1>1, <1>2, <1>3, <1>5, <1>6
<1>11. ToSet(f) = ToSet(s) \cup {e}
  BY <1>9, <1>1, <1>2, <1>3, <1>5, <1>6
<1> QED
  BY <1>6, <1>7, <1>10, <1>11

InsertStep(p, q, r, sorted, e) == Insert(sorted, e)
InsertLoop == INSTANCE Folding WITH Step <- InsertStep, Good <- Whatever

SortedTo(s, i, t) ==
  /\ IsList(t)
  /\ Len(t) = i
  /\ ToSet(t) = {s[k] : k \in 1 .. i}

LEMMA InKeyOrderIs ==
  ASSUME NEW s, IsList(s)
  PROVE  SortedTo(s, Len(s), InKeyOrder(s))
<1> DEFINE n == Len(s)
<1>1. n \in Nat /\ DOMAIN s = 1 .. n
  BY ListDomain
<1> HIDE DEF n
<1>2. InKeyOrder(s) = InsertLoop!Fold(0, 0, 0, <<>>, s)
  BY DEF InKeyOrder, InsertLoop!Fold, FoldLeft, MapThenFoldSet,
         Max, InsertLoop!Greatest, InsertStep
<1>3. PICK acc : InsertLoop!Accumulates(acc, 0, 0, 0, <<>>, n, s)
  BY <1>1, InsertLoop!Accumulators
<1> DEFINE T == {m \in Nat : m <= n => SortedTo(s, m, acc[m])}
<1>4. 0 \in T
  <2>1. acc[0] = <<>> /\ ToSet(<<>>) = {}
    BY <1>3 DEF InsertLoop!Accumulates, ToSet
  <2>2. {s[k] : k \in 1 .. 0} = {}
    OBVIOUS
  <2> QED
    BY <2>1, <2>2, EmptyIsList DEF SortedTo
<1>5. ASSUME NEW m \in Nat, m \in T PROVE m + 1 \in T
  <2>1. SUFFICES ASSUME m + 1 <= n PROVE SortedTo(s, m + 1, acc[m + 1])
    OBVIOUS
  <2>2. m + 1 \in 1 .. n /\ (m + 1) - 1 = m /\ SortedTo(s, m, acc[m])
    BY <1>1, <2>1, <1>5
  <2> DEFINE t == acc[m]
             e == s[m + 1]
             c == Cardinality({k \in DOMAIN t : ~KeyBefore(e.key, t[k].key)})
  <2>3. acc[m + 1] = Insert(t, e)
    BY <1>1, <1>3, <2>2 DEF InsertLoop!Accumulates, InsertStep
  <2>4. IsList(t) /\ Len(t) = m /\ ToSet(t) = {s[k] : k \in 1 .. m} /\ DOMAIN t = 1 .. m
    BY <2>2, ListDomain DEF SortedTo
  <2>5. c \in 0 .. m
    <3> DEFINE K == {k \in DOMAIN t : ~KeyBefore(e.key, t[k].key)}
    <3>1. K \in SUBSET (1 .. m)
      BY <2>4
    <3> HIDE DEF K
    <3>2. Cardinality(K) \in 0 .. m
      BY <3>1, CountUpTo
    <3> QED
      BY <3>2 DEF K
  <2>6. Insert(t, e) = InsertAt(t, 1 + c, e)
    BY DEF Insert
  <2> HIDE DEF t, e, c
  <2> DEFINE u == InsertAt(t, 1 + c, e)
  <2>7. IsList(u) /\ Len(u) = m + 1 /\ ToSet(u) = ToSet(t) \cup {e}
    <3> DEFINE i == 1 + c
    <3>1. i \in 1 .. Len(t) + 1
      BY <2>4, <2>5
    <3> HIDE DEF i
    <3>2. IsList(InsertAt(t, i, e)) /\ Len(InsertAt(t, i, e)) = Len(t) + 1
          /\ ToSet(InsertAt(t, i, e)) = ToSet(t) \cup {e}
      BY <2>4, <3>1, InsertAtIs
    <3> QED
      BY <3>2, <2>4 DEF i
  <2>8. 1 .. m + 1 = (1 .. m) \cup {m + 1}
    OBVIOUS
  <2>9. {s[k] : k \in 1 .. m + 1} = {s[k] : k \in 1 .. m} \cup {e}
    BY <2>8 DEF e
  <2>10. acc[m + 1] = u
    BY <2>3, <2>6
  <2> HIDE DEF u
  <2> QED
    BY <2>4, <2>7, <2>9, <2>10 DEF SortedTo
<1> HIDE DEF T
<1>6. n \in T
  BY <1>1, <1>4, <1>5, ChooseLoop!SetInduction
<1>7. SortedTo(s, n, acc[n]) /\ InKeyOrder(s) = acc[n]
  BY <1>1, <1>2, <1>3, <1>6 DEF T, InsertLoop!Accumulates
<1> QED
  BY <1>7 DEF n

-----------------------------------------------------------------------------
(* The walk of flatten: what it gives exists for every nesting of values,  *)
(* has the form of nodes and is the recursion of the code.                 *)

(* What a walk gives, by its parts. *)
Places == [path : Texts, key : Texts, value : Scalars, depth : 0 .. DepthLimit]
Sizes == [path : Texts, key : Texts, length : Nat]
WalkedOK(w) == w.fields \in Seq(Places) /\ w.arrays \in Seq(Sizes)

Kept(p, q, r, acc) == IF r = 1 THEN acc[1] = acc[2] ELSE WalkedOK(acc)

Member(x, e) == Node(Joined(x.path, e.key), e.key, e.value, Deeper(x.depth))
Item(x, n) == Node(Append(x.path, IndexGlyphs[n]), x.key, x.value.items[n], Deeper(x.depth))

MemberStep(g, x, r, acc, e) == Beside(acc, g[Member(x, e)])
ItemStep(g, x, r, acc, n) == Beside(acc, g[Item(x, n)])
MemberLoop == INSTANCE Folding WITH Step <- MemberStep, Good <- Kept
ItemLoop == INSTANCE Folding WITH Step <- ItemStep, Good <- Kept

ArrayAt(x) == [path |-> x.path, key |-> x.key, length |-> Len(x.value.items)]

WalkOf(g, x) ==
  IF x.value.type = "object"
  THEN MemberLoop!Fold(g, x, 0, Walked(<<>>, <<>>), InKeyOrder(x.value.entries))
  ELSE IF x.value.type = "array"
  THEN ItemLoop!Fold(g, x, 0, Walked(<<>>, <<ArrayAt(x)>>), [n \in DOMAIN x.value.items |-> n])
  ELSE Walked(<<x>>, <<>>)

WalkCase(walk, x) ==
        CASE x.value.type = "object" ->
               FoldLeft(LAMBDA acc, e :
                          Beside(acc, walk[Node(Joined(x.path, e.key), e.key, e.value, Deeper(x.depth))]),
                        Walked(<<>>, <<>>), InKeyOrder(x.value.entries))
          [] x.value.type = "array" ->
               FoldLeft(LAMBDA acc, n :
                          Beside(acc, walk[Node(Append(x.path, IndexGlyphs[n]), x.key,
                                                x.value.items[n], Deeper(x.depth))]),
                        Walked(<<>>, <<[path |-> x.path, key |-> x.key, length |-> Len(x.value.items)]>>),
                        [n \in DOMAIN x.value.items |-> n])
          [] OTHER -> Walked(<<x>>, <<>>)

LEMMA MemberFold ==
  ASSUME NEW g, NEW x, NEW base, NEW seq
  PROVE  FoldLeft(LAMBDA acc, e :
                    Beside(acc, g[Node(Joined(x.path, e.key), e.key, e.value, Deeper(x.depth))]), base, seq)
         = MemberLoop!Fold(g, x, 0, base, seq)
  BY DEF MemberLoop!Fold, FoldLeft, MapThenFoldSet,
         Max, MemberLoop!Greatest, MemberStep, Member

LEMMA ItemFold ==
  ASSUME NEW g, NEW x, NEW base, NEW seq
  PROVE  FoldLeft(LAMBDA acc, n :
                    Beside(acc, g[Node(Append(x.path, IndexGlyphs[n]), x.key,
                                       x.value.items[n], Deeper(x.depth))]), base, seq)
         = ItemLoop!Fold(g, x, 0, base, seq)
  BY DEF ItemLoop!Fold, FoldLeft, MapThenFoldSet,
         Max, ItemLoop!Greatest, ItemStep, Item

LEMMA WalkCases ==
  ASSUME NEW g, NEW x
  PROVE  WalkCase(g, x) = WalkOf(g, x)
<1>1. CASE x.value.type = "object"
  BY <1>1, MemberFold DEF WalkCase, WalkOf
<1>2. CASE x.value.type = "array"
  BY <1>2, ItemFold DEF WalkCase, WalkOf, ArrayAt
<1>3. CASE x.value.type # "object" /\ x.value.type # "array"
  BY <1>3 DEF WalkCase, WalkOf
<1> QED
  BY <1>1, <1>2, <1>3

LEMMA WalkChosen ==
  ASSUME NEW node
  PROVE  Walk(node) = (CHOOSE g : g = [x \in Nodes |-> WalkCase(g, x)])[node]
  BY DEF Walk, WalkCase

LevelNodes(n) == [path : Texts, key : Texts, value : JsonTo[n], depth : 0 .. DepthLimit]

LEMMA DeeperInRange ==
  ASSUME NEW d \in 0 .. DepthLimit
  PROVE  Deeper(d) \in 0 .. DepthLimit /\ (d < DepthLimit => Deeper(d) = d + 1)
<1>1. d + 1 \in Int /\ DepthLimit \in Int /\ DepthLimit \in Nat
  BY JsonAssumption
<1> DEFINE a == d + 1
<1>2. a \in Int
  BY <1>1
<1> HIDE DEF a
<1>3. Min({a, DepthLimit}) = IF a <= DepthLimit THEN a ELSE DepthLimit
  BY <1>1, <1>2, MinOfTwo
<1> QED
  BY <1>1, <1>3 DEF Deeper, a

LEMMA MemberBelow ==
  ASSUME NEW n \in Nat, n + 1 <= Nesting, NEW x \in LevelNodes(n + 1), x.value.type = "object",
         NEW e \in ToSet(InKeyOrder(x.value.entries))
  PROVE  Member(x, e) \in LevelNodes(n)
<1>1. x.path \in Texts /\ x.key \in Texts /\ x.value \in JsonTo[n + 1] /\ x.depth \in 0 .. DepthLimit
  BY DEF LevelNodes
<1>2. InnerOf(x.value, JsonTo[n])
  BY <1>1, LevelForm
<1>3. x.value.entries \in Seq([key : Texts, value : JsonTo[n]])
  BY <1>2 DEF InnerOf, IsScalar
<1> DEFINE s == x.value.entries
<1>4. IsList(s)
  BY <1>3, TypedIsList
<1>a. s \in Seq([key : Texts, value : JsonTo[n]]) /\ e \in ToSet(InKeyOrder(s))
  BY <1>3
<1> HIDE DEF s
<1>5. ToSet(InKeyOrder(s)) = {s[k] : k \in 1 .. Len(s)} /\ DOMAIN s = 1 .. Len(s)
  BY <1>4, InKeyOrderIs, ListDomain DEF SortedTo
<1>b. PICK k \in 1 .. Len(s) : e = s[k]
  BY <1>a, <1>5
<1>6. e \in [key : Texts, value : JsonTo[n]]
  <2> DEFINE S == [key : Texts, value : JsonTo[n]]
  <2>1. s \in Seq(S)
    BY <1>a
  <2> HIDE DEF S
  <2>2. s[k] \in S
    BY <2>1, ElementOfSeq
  <2> QED
    BY <2>2, <1>b DEF S
<1>7. Joined(x.path, e.key) \in Texts
  BY <1>1, <1>6, JsonAssumption DEF Joined, Texts
<1> QED
  BY <1>1, <1>6, <1>7, DeeperInRange DEF Member, Node, LevelNodes

LEMMA ItemBelow ==
  ASSUME NEW n \in Nat, n + 1 <= Nesting, NEW x \in LevelNodes(n + 1), x.value.type = "array",
         NEW k \in DOMAIN x.value.items
  PROVE  Item(x, k) \in LevelNodes(n)
<1>1. x.path \in Texts /\ x.key \in Texts /\ x.value \in JsonTo[n + 1] /\ x.depth \in 0 .. DepthLimit
  BY DEF LevelNodes
<1>2. InnerOf(x.value, JsonTo[n])
  BY <1>1, LevelForm
<1>3. x.value.items \in Seq(JsonTo[n]) /\ Len(x.value.items) <= Len(IndexGlyphs)
  BY <1>2 DEF InnerOf, IsScalar
<1>4. IndexGlyphs \in Seq(Glyphs)
  BY JsonAssumption DEF Texts
<1>5. k \in 1 .. Len(IndexGlyphs) /\ x.value.items[k] \in JsonTo[n]
  BY <1>3, <1>4
<1>6. IndexGlyphs[k] \in Glyphs
  BY <1>4, <1>5
<1>7. Append(x.path, IndexGlyphs[k]) \in Texts
  BY <1>1, <1>6 DEF Texts
<1> QED
  BY <1>1, <1>5, <1>7, DeeperInRange DEF Item, Node, LevelNodes

LEMMA EntriesList ==
  ASSUME NEW n \in Nat, n + 1 <= Nesting, NEW x \in LevelNodes(n + 1)
  PROVE  /\ x.value.type = "object" => IsList(x.value.entries) /\ IsList(InKeyOrder(x.value.entries))
         /\ x.value.type = "array" => IsList(x.value.items)
<1>1. x.value \in JsonTo[n + 1]
  BY DEF LevelNodes
<1>2. InnerOf(x.value, JsonTo[n])
  BY <1>1, LevelForm
<1>3. ASSUME x.value.type = "object" PROVE IsList(x.value.entries) /\ IsList(InKeyOrder(x.value.entries))
  <2>1. x.value.entries \in Seq([key : Texts, value : JsonTo[n]])
    BY <1>2, <1>3 DEF InnerOf, IsScalar
  <2>2. IsList(x.value.entries)
    BY <2>1, TypedIsList
  <2> QED
    BY <2>2, InKeyOrderIs DEF SortedTo
<1>4. ASSUME x.value.type = "array" PROVE IsList(x.value.items)
  <2>1. x.value.items \in Seq(JsonTo[n])
    BY <1>2, <1>4 DEF InnerOf, IsScalar
  <2> QED
    BY <2>1, TypedIsList
<1> QED
  BY <1>3, <1>4

LEMMA ScalarNode ==
  ASSUME NEW x \in LevelNodes(0)
  PROVE  x.value \in Scalars /\ IsScalar(x.value) /\ x.value.type # "object" /\ x.value.type # "array"
<1>1. x.value \in JsonTo[0]
  BY DEF LevelNodes
<1>2. x.value \in Scalars /\ IsScalar(x.value)
  BY <1>1, LevelForm
<1> QED
  BY <1>2 DEF IsScalar

LEMMA WalkAgrees ==
  ASSUME NEW g, NEW h, NEW n \in Nat, n + 1 <= Nesting, NEW x \in LevelNodes(n + 1),
         \A c \in LevelNodes(n) : g[c] = h[c]
  PROVE  WalkOf(g, x) = WalkOf(h, x)
<1>1. CASE x.value.type = "object"
  <2> DEFINE s == InKeyOrder(x.value.entries)
             m == Len(s)
             base == Walked(<<>>, <<>>)
  <2>1. m \in Nat /\ DOMAIN s = 1 .. m
    BY <1>1, EntriesList, ListDomain
  <2>2. \A i \in 1 .. m : Member(x, s[i]) \in LevelNodes(n)
    <3>1. \A i \in 1 .. m : s[i] \in ToSet(s)
      BY <2>1 DEF ToSet
    <3> QED
      BY <1>1, <3>1, MemberBelow
  <2> HIDE DEF s, m, base
  <2>3. ASSUME NEW i \in 1 .. m, NEW a, NEW a2, Kept(0, 0, 1, <<a, a2>>)
        PROVE  Kept(0, 0, 1, <<MemberStep(g, x, 0, a, s[i]), MemberStep(h, x, 0, a2, s[i])>>)
    BY <2>2, <2>3 DEF Kept, MemberStep
  <2>4. Kept(0, 0, 1, <<base, base>>)
    BY DEF Kept
  <2>5. Kept(0, 0, 1, <<MemberLoop!Fold(g, x, 0, base, s), MemberLoop!Fold(h, x, 0, base, s)>>)
    BY <2>1, <2>3, <2>4, MemberLoop!FoldsAgree
  <2> QED
    BY <1>1, <2>5 DEF WalkOf, Kept, s, base
<1>2. CASE x.value.type = "array"
  <2> DEFINE t == x.value.items
             s == [k \in DOMAIN x.value.items |-> k]
             m == Len(t)
             base == Walked(<<>>, <<ArrayAt(x)>>)
  <2>1. m \in Nat /\ DOMAIN t = 1 .. m
    BY <1>2, EntriesList, ListDomain
  <2>2. \A i \in 1 .. m : Item(x, i) \in LevelNodes(n)
    BY <1>2, <2>1, ItemBelow
  <2>6. DOMAIN s = 1 .. m /\ \A i \in 1 .. m : s[i] = i
    BY <2>1
  <2> HIDE DEF s, m, base
  <2>3. ASSUME NEW i \in 1 .. m, NEW a, NEW a2, Kept(0, 0, 1, <<a, a2>>)
        PROVE  Kept(0, 0, 1, <<ItemStep(g, x, 0, a, s[i]), ItemStep(h, x, 0, a2, s[i])>>)
    BY <2>2, <2>3, <2>6 DEF Kept, ItemStep
  <2>4. Kept(0, 0, 1, <<base, base>>)
    BY DEF Kept
  <2>5. Kept(0, 0, 1, <<ItemLoop!Fold(g, x, 0, base, s), ItemLoop!Fold(h, x, 0, base, s)>>)
    BY <2>1, <2>3, <2>4, <2>6, ItemLoop!FoldsAgree
  <2> QED
    BY <1>2, <2>5 DEF WalkOf, Kept, s, base
<1>3. CASE x.value.type # "object" /\ x.value.type # "array"
  BY <1>3 DEF WalkOf
<1> QED
  BY <1>1, <1>2, <1>3

LEMMA NodesGrow ==
  ASSUME NEW n \in Nat, n + 1 <= Nesting
  PROVE  LevelNodes(n) \subseteq LevelNodes(n + 1)
  BY LevelsGrow DEF LevelNodes

LEMMA WalkExists ==
  ASSUME NEW n \in Nat, n <= Nesting
  PROVE  \E g : g = [x \in LevelNodes(n) |-> WalkOf(g, x)]
<1>0. Nesting \in Nat
  BY JsonAssumption
<1> DEFINE T == {k \in Nat : k <= Nesting => \E g : g = [x \in LevelNodes(k) |-> WalkOf(g, x)]}
<1>1. 0 \in T
  <2> DEFINE g == [x \in LevelNodes(0) |-> Walked(<<x>>, <<>>)]
  <2>1. \A x \in LevelNodes(0) : g[x] = WalkOf(g, x)
    BY ScalarNode DEF WalkOf
  <2>2. g = [x \in LevelNodes(0) |-> g[x]]
    OBVIOUS
  <2> HIDE DEF g
  <2>3. g = [x \in LevelNodes(0) |-> WalkOf(g, x)]
    BY <2>1, <2>2
  <2> QED
    BY <2>3
<1>2. ASSUME NEW k \in Nat, k \in T PROVE k + 1 \in T
  <2>1. SUFFICES ASSUME k + 1 <= Nesting
                 PROVE  \E g : g = [x \in LevelNodes(k + 1) |-> WalkOf(g, x)]
    OBVIOUS
  <2>2. PICK g : g = [x \in LevelNodes(k) |-> WalkOf(g, x)]
    BY <1>0, <1>2, <2>1
  <2> DEFINE h == [x \in LevelNodes(k + 1) |-> WalkOf(g, x)]
  <2>3. \A c \in LevelNodes(k) : h[c] = g[c]
    BY <2>1, <2>2, NodesGrow
  <2>4. h = [x \in LevelNodes(k + 1) |-> h[x]] /\ \A x \in LevelNodes(k + 1) : h[x] = WalkOf(g, x)
    OBVIOUS
  <2> HIDE DEF h
  <2>5. \A x \in LevelNodes(k + 1) : WalkOf(g, x) = WalkOf(h, x)
    BY <2>1, <2>3, WalkAgrees
  <2>6. h = [x \in LevelNodes(k + 1) |-> WalkOf(h, x)]
    BY <2>4, <2>5
  <2> QED
    BY <2>6
<1> HIDE DEF T
<1>3. n \in T
  BY <1>1, <1>2, ChooseLoop!SetInduction
<1> QED
  BY <1>3 DEF T

LEMMA WalkIs ==
  \E w : /\ \A x \in Nodes : w[x] = Walk(x) /\ w[x] = WalkOf(w, x)
<1>1. Nesting \in Nat /\ Nesting <= Nesting /\ Nodes = LevelNodes(Nesting)
  BY JsonAssumption DEF Nodes, LevelNodes, JsonValues
<1> DEFINE w == CHOOSE g : g = [x \in Nodes |-> WalkOf(g, x)]
           v == CHOOSE g : g = [x \in Nodes |-> WalkCase(g, x)]
<1>2. w = [x \in Nodes |-> WalkOf(w, x)]
  BY <1>1, WalkExists
<1>3. w = v
  <2>1. \A g : [x \in Nodes |-> WalkOf(g, x)] = [x \in Nodes |-> WalkCase(g, x)]
    BY WalkCases
  <2>2. \A g : (g = [x \in Nodes |-> WalkOf(g, x)]) <=> (g = [x \in Nodes |-> WalkCase(g, x)])
    BY <2>1
  <2> QED
    BY <2>2
<1>4. \A x \in Nodes : Walk(x) = v[x]
  BY WalkChosen
<1> HIDE DEF w, v
<1>5. \A x \in Nodes : w[x] = Walk(x) /\ w[x] = WalkOf(w, x)
  BY <1>2, <1>3, <1>4
<1> QED
  BY <1>5

LEMMA WalkTyped ==
  ASSUME NEW x \in Nodes
  PROVE  WalkedOK(Walk(x))
<1>0. Nesting \in Nat /\ Nesting <= Nesting /\ Nodes = LevelNodes(Nesting)
  BY JsonAssumption DEF Nodes, LevelNodes, JsonValues
<1>1. PICK w : \A y \in Nodes : w[y] = Walk(y) /\ w[y] = WalkOf(w, y)
  BY WalkIs
<1>2. \A n \in 0 .. Nesting : LevelNodes(n) \subseteq Nodes
  BY LevelsWithin DEF Nodes, LevelNodes
<1> DEFINE T == {n \in Nat : n <= Nesting => \A y \in LevelNodes(n) : WalkedOK(w[y])}
<1>3. 0 \in T
  <2>1. ASSUME NEW y \in LevelNodes(0) PROVE WalkedOK(w[y])
    <3>0. 0 \in 0 .. Nesting
      BY <1>0
    <3>4. y \in Nodes /\ y.value.type # "object" /\ y.value.type # "array"
      BY <3>0, <1>2, ScalarNode
    <3>1. w[y] = Walked(<<y>>, <<>>)
      BY <3>4, <1>1 DEF WalkOf
    <3>2. y \in Places
      BY ScalarNode DEF LevelNodes, Places
    <3>3. <<y>> \in Seq(Places)
      BY <3>2
    <3> QED
      BY <3>1, <3>3 DEF WalkedOK, Walked
  <2> QED
    BY <2>1
<1>4. ASSUME NEW n \in Nat, n \in T PROVE n + 1 \in T
  <2>1. SUFFICES ASSUME n + 1 <= Nesting, NEW y \in LevelNodes(n + 1)
                 PROVE  WalkedOK(w[y])
    OBVIOUS
  <2>2. \A c \in LevelNodes(n) : WalkedOK(w[c])
    BY <1>0, <1>4, <2>1
  <2>3. w[y] = WalkOf(w, y) /\ y.value \in JsonTo[n + 1] /\ y.path \in Texts /\ y.key \in Texts
        /\ y.depth \in 0 .. DepthLimit
    BY <1>0, <1>1, <1>2, <2>1 DEF LevelNodes
  <2>4. CASE y.value.type = "object"
    <3> DEFINE s == InKeyOrder(y.value.entries)
               m == Len(s)
               base == Walked(<<>>, <<>>)
    <3>1. m \in Nat /\ DOMAIN s = 1 .. m
      BY <2>1, <2>4, EntriesList, ListDomain
    <3>2. \A i \in 1 .. m : WalkedOK(w[Member(y, s[i])])
      <4>1. \A i \in 1 .. m : s[i] \in ToSet(s)
        BY <3>1 DEF ToSet
      <4> QED
        BY <2>1, <2>2, <2>4, <4>1, MemberBelow
    <3> HIDE DEF s, m
    <3>3. Kept(w, y, 0, base)
      BY DEF Kept, WalkedOK, Walked
    <3>4. ASSUME NEW i \in 1 .. m, NEW acc, Kept(w, y, 0, acc)
          PROVE  Kept(w, y, 0, MemberStep(w, y, 0, acc, s[i]))
      <4>1. WalkedOK(acc) /\ WalkedOK(w[Member(y, s[i])])
        BY <3>2, <3>4 DEF Kept
      <4> QED
        BY <4>1 DEF Kept, MemberStep, WalkedOK, Beside, Walked
    <3> HIDE DEF base
    <3>5. Kept(w, y, 0, MemberLoop!Fold(w, y, 0, base, s))
      BY <3>1, <3>3, <3>4, MemberLoop!FoldKeeps
    <3> QED
      BY <2>3, <2>4, <3>5 DEF Kept, WalkOf, base, s
  <2>5. CASE y.value.type = "array"
    <3> DEFINE t == y.value.items
               s == [k \in DOMAIN y.value.items |-> k]
               m == Len(t)
               base == Walked(<<>>, <<ArrayAt(y)>>)
    <3>1. m \in Nat /\ DOMAIN t = 1 .. m /\ DOMAIN s = 1 .. m /\ \A i \in 1 .. m : s[i] = i
      BY <2>1, <2>5, EntriesList, ListDomain
    <3>2. \A i \in 1 .. m : WalkedOK(w[Item(y, s[i])])
      BY <2>1, <2>2, <2>5, <3>1, ItemBelow
    <3>6. ArrayAt(y) \in Sizes
      BY <2>3, <3>1 DEF ArrayAt, Sizes
    <3> HIDE DEF s, m
    <3>3. Kept(w, y, 0, base)
      BY <3>6 DEF Kept, WalkedOK, Walked
    <3>4. ASSUME NEW i \in 1 .. m, NEW acc, Kept(w, y, 0, acc)
          PROVE  Kept(w, y, 0, ItemStep(w, y, 0, acc, s[i]))
      <4>1. WalkedOK(acc) /\ WalkedOK(w[Item(y, s[i])])
        BY <3>2, <3>4 DEF Kept
      <4> QED
        BY <4>1 DEF Kept, ItemStep, WalkedOK, Beside, Walked
    <3> HIDE DEF base
    <3>5. Kept(w, y, 0, ItemLoop!Fold(w, y, 0, base, s))
      BY <3>1, <3>3, <3>4, ItemLoop!FoldKeeps
    <3> QED
      BY <2>3, <2>5, <3>5 DEF Kept, WalkOf, base, s
  <2>6. CASE y.value.type # "object" /\ y.value.type # "array"
    <3>1. y.value \in Scalars
      BY <2>1, <2>3, <2>6, LevelForm DEF InnerOf
    <3>2. w[y] = Walked(<<y>>, <<>>) /\ y \in Places
      BY <2>1, <2>3, <2>6, <3>1 DEF WalkOf, LevelNodes, Places
    <3> QED
      BY <3>2 DEF WalkedOK, Walked
  <2> QED
    BY <2>4, <2>5, <2>6
<1> HIDE DEF T
<1>5. Nesting \in T
  BY <1>0, <1>3, <1>4, ChooseLoop!SetInduction
<1> QED
  BY <1>0, <1>1, <1>5 DEF T

LEMMA FlattenedTyped ==
  ASSUME NEW state \in JsonValues
  PROVE  WalkedOK(Flattened(state))
<1>1. Node(<<>>, <<>>, state, 0) \in Nodes
  BY JsonAssumption DEF Node, Nodes, Texts
<1> QED
  BY <1>1, WalkTyped DEF Flattened

-----------------------------------------------------------------------------
(* Part two.  Texts, numbers and dates.                                    *)

(* The bytes of a text add up.                                             *)

WidthStep(p, q, r, n, g) == n + Width[g]
WidthLoop == INSTANCE Folding WITH Step <- WidthStep, Good <- Whatever

LEMMA BytesFold ==
  ASSUME NEW text
  PROVE  Bytes(text) = WidthLoop!Fold(0, 0, 0, 0, text)
  BY DEF Bytes, WidthLoop!Fold, FoldLeft, MapThenFoldSet,
         Max, WidthLoop!Greatest, WidthStep

LEMMA NoBytes ==
  ASSUME NEW text, DOMAIN text = 1 .. 0
  PROVE  Bytes(text) = 0
<1>1. 0 \in Nat
  OBVIOUS
<1>2. PICK acc : WidthLoop!Accumulates(acc, 0, 0, 0, 0, 0, text)
  BY <1>1, WidthLoop!Accumulators
<1> QED
  BY <1>2, BytesFold DEF WidthLoop!Accumulates

LEMMA SizeNone ==
  ASSUME NEW text, NEW a \in Int
  PROVE  Size(text, a, a - 1) = 0
<1>1. SubSeq(text, a, a - 1) = <<>>
  BY SubSeqEmpty
<1>2. DOMAIN <<>> = 1 .. 0
  OBVIOUS
<1> QED
  BY <1>1, <1>2, NoBytes DEF Size

LEMMA SizeOfMore ==
  ASSUME NEW text \in Texts, NEW a \in 1 .. Len(text), NEW b \in Int, a - 1 <= b, b + 1 <= Len(text)
  PROVE  Size(text, a, b + 1) = Size(text, a, b) + Width[text[b + 1]]
<1>0. IsList(text) /\ Len(text) \in Nat
  BY TypedIsList DEF Texts
<1> DEFINE n == b - a + 1
           c == b + 1
           s == SubSeq(text, a, b)
           t == SubSeq(text, a, c)
<1>1. n \in Nat /\ c \in Int /\ a \in Int /\ 1 <= a /\ b <= Len(text) /\ a <= b + 1 /\ c <= Len(text) /\ a <= c + 1
      /\ c - a + 1 = n + 1
  BY <1>0
<1> HIDE DEF c
<1>2. DOMAIN s = 1 .. n /\ \A i \in 1 .. n : s[i] = text[a + i - 1]
  BY <1>0, <1>1, SubList
<1>3. DOMAIN t = 1 .. n + 1 /\ \A i \in 1 .. n + 1 : t[i] = text[a + i - 1]
  <2>1. DOMAIN t = 1 .. c - a + 1 /\ \A i \in 1 .. c - a + 1 : t[i] = text[a + i - 1]
    BY <1>0, <1>1, SubList
  <2> QED
    BY <1>1, <2>1
<1> HIDE DEF s, t, n
<1>4. \A i \in 1 .. n : t[i] = s[i]
  BY <1>1, <1>2, <1>3
<1>5. WidthLoop!Fold(0, 0, 0, 0, t) = WidthStep(0, 0, 0, WidthLoop!Fold(0, 0, 0, 0, s), t[n + 1])
  BY <1>1, <1>2, <1>3, <1>4, WidthLoop!FoldOfLonger
<1>6. t[n + 1] = text[c]
  <2>1. n + 1 \in 1 .. n + 1 /\ a + (n + 1) - 1 = c
    BY <1>1
  <2> QED
    BY <2>1, <1>3
<1>7. Bytes(t) = Bytes(s) + Width[text[c]]
  BY <1>5, <1>6, BytesFold DEF WidthStep
<1> QED
  BY <1>7 DEF Size, s, t, c

LEMMA GlyphWidth ==
  ASSUME NEW text \in Texts, NEW k \in 1 .. Len(text)
  PROVE  text[k] \in Glyphs /\ Width[text[k]] \in Nat /\ Width[text[k]] <= MaxSegment
<1>1. text[k] \in Glyphs
  BY DEF Texts
<1> QED
  BY <1>1, JsonAssumption, SegmentsAssumption

LEMMA SizeIsNat ==
  ASSUME NEW text \in Texts, NEW a \in 1 .. Len(text), NEW b \in Int, a - 1 <= b, b <= Len(text)
  PROVE  Size(text, a, b) \in Nat
<1>0. Len(text) \in Nat
  BY DEF Texts
<1> DEFINE T == {n \in Nat : a - 1 + n <= Len(text) => Size(text, a, a - 1 + n) \in Nat}
<1>1. 0 \in T
  <2>1. a - 1 + 0 = a - 1 /\ a \in Int
    OBVIOUS
  <2> QED
    BY <2>1, SizeNone
<1>2. ASSUME NEW n \in Nat, n \in T PROVE n + 1 \in T
  <2>1. SUFFICES ASSUME a - 1 + (n + 1) <= Len(text) PROVE Size(text, a, a - 1 + (n + 1)) \in Nat
    OBVIOUS
  <2> DEFINE c == a - 1 + n
  <2>2. c \in Int /\ a - 1 <= c /\ c + 1 <= Len(text) /\ c + 1 = a - 1 + (n + 1) /\ c + 1 \in 1 .. Len(text)
        /\ Size(text, a, c) \in Nat
    BY <1>0, <1>2, <2>1
  <2> HIDE DEF c
  <2>3. Size(text, a, c + 1) = Size(text, a, c) + Width[text[c + 1]]
    BY <2>2, SizeOfMore
  <2>4. Width[text[c + 1]] \in Nat
    BY <2>2, GlyphWidth
  <2> QED
    BY <2>2, <2>3, <2>4
<1> HIDE DEF T
<1>3. \A n \in Nat : n \in T
  BY <1>1, <1>2, ChooseLoop!SetInduction
<1>4. b - a + 1 \in Nat /\ a - 1 + (b - a + 1) = b
  BY <1>0
<1> QED
  BY <1>3, <1>4 DEF T

LEMMA SizeGrows ==
  ASSUME NEW text \in Texts, NEW a \in 1 .. Len(text), NEW b \in Int, a - 1 <= b,
         NEW c \in Int, b <= c, c <= Len(text)
  PROVE  Size(text, a, b) <= Size(text, a, c)
<1>0. Len(text) \in Nat
  BY DEF Texts
<1> DEFINE T == {n \in Nat : b + n <= Len(text) => Size(text, a, b) <= Size(text, a, b + n)}
<1>1. 0 \in T
  <2>1. b + 0 = b /\ b <= Len(text)
    BY <1>0
  <2>2. Size(text, a, b) \in Nat
    BY <2>1, SizeIsNat
  <2> QED
    BY <2>1, <2>2
<1>2. ASSUME NEW n \in Nat, n \in T PROVE n + 1 \in T
  <2>1. SUFFICES ASSUME b + (n + 1) <= Len(text) PROVE Size(text, a, b) <= Size(text, a, b + (n + 1))
    OBVIOUS
  <2> DEFINE d == b + n
  <2>2. d \in Int /\ a - 1 <= d /\ d + 1 <= Len(text) /\ d <= Len(text) /\ d + 1 = b + (n + 1)
        /\ d + 1 \in 1 .. Len(text) /\ Size(text, a, b) <= Size(text, a, d)
    BY <1>0, <1>2, <2>1
  <2> HIDE DEF d
  <2>3. Size(text, a, d + 1) = Size(text, a, d) + Width[text[d + 1]]
    BY <2>2, SizeOfMore
  <2>4. Width[text[d + 1]] \in Nat /\ Size(text, a, d) \in Nat
    BY <2>2, GlyphWidth, SizeIsNat
  <2>5. b <= Len(text)
    BY <1>0
  <2>6. Size(text, a, b) \in Nat
    BY <2>5, SizeIsNat
  <2> QED
    BY <2>2, <2>3, <2>4, <2>6
<1> HIDE DEF T
<1>3. \A n \in Nat : n \in T
  BY <1>1, <1>2, ChooseLoop!SetInduction
<1>4. c - b \in Nat /\ b + (c - b) = c
  BY <1>0
<1> QED
  BY <1>3, <1>4 DEF T

LEMMA SizeOfOne ==
  ASSUME NEW text \in Texts, NEW a \in 1 .. Len(text)
  PROVE  Size(text, a, a) <= MaxSegment
<1>0. Len(text) \in Nat
  BY DEF Texts
<1> DEFINE b == a - 1
<1>1. b \in Int /\ a - 1 <= b /\ b + 1 <= Len(text) /\ b + 1 = a
  BY <1>0
<1>2. Size(text, a, b) = 0
  BY SizeNone
<1> HIDE DEF b
<1>3. Size(text, a, b + 1) = Size(text, a, b) + Width[text[b + 1]]
  BY <1>1, SizeOfMore
<1> QED
  BY <1>1, <1>2, <1>3, GlyphWidth

-----------------------------------------------------------------------------
(* What a list of ranges covers, and the trimming and cutting of one.      *)

Tight(text, r) ==
  /\ r[1] <= r[2]
  /\ text[r[1]] \notin Spaces /\ text[r[2]] \notin Spaces
  /\ Size(text, r[1], r[2]) <= MaxSegment

Within2(text, R, a, b) == \A n \in DOMAIN R : a <= R[n][1] /\ R[n][2] <= b /\ Tight(text, R[n])
Ordered(R) == \A m, n \in DOMAIN R : m < n => R[m][2] < R[n][1]
Reached(text, R, a, b) ==
  \A k \in a .. b : text[k] \notin Spaces => \E n \in DOMAIN R : k \in R[n][1] .. R[n][2]
AllSpaces(text, a, b) == \A k \in a .. b : text[k] \in Spaces

Covers(text, R, a, b) ==
  /\ R \in Seq(Nat \X Nat)
  /\ Within2(text, R, a, b)
  /\ Ordered(R)
  /\ Reached(text, R, a, b)

LEMMA CoversNone ==
  ASSUME NEW text, NEW a \in Int, NEW b \in Int, AllSpaces(text, a, b)
  PROVE  Covers(text, <<>>, a, b)
<1>1. <<>> \in Seq(Nat \X Nat) /\ DOMAIN <<>> = {}
  OBVIOUS
<1> QED
  BY <1>1 DEF Covers, Within2, Ordered, Reached, AllSpaces

LEMMA CoversOne ==
  ASSUME NEW text, NEW a \in Nat, NEW b \in Nat, Tight(text, <<a, b>>)
  PROVE  Covers(text, <<<<a, b>>>>, a, b)
<1> DEFINE r == <<a, b>>
           R == <<r>>
<1>1. R \in Seq(Nat \X Nat) /\ DOMAIN R = {1} /\ R[1] = r /\ r[1] = a /\ r[2] = b
  OBVIOUS
<1>2. Tight(text, r)
  OBVIOUS
<1> HIDE DEF R, r
<1>3. Within2(text, R, a, b)
  BY <1>1, <1>2 DEF Within2
<1>4. Ordered(R)
  BY <1>1 DEF Ordered
<1>5. Reached(text, R, a, b)
  BY <1>1 DEF Reached
<1> QED
  BY <1>1, <1>3, <1>4, <1>5 DEF Covers, R, r

LEMMA RangeElement ==
  ASSUME NEW R \in Seq(Nat \X Nat), NEW n \in DOMAIN R
  PROVE  R[n][1] \in Nat /\ R[n][2] \in Nat
<1>1. R[n] \in Nat \X Nat
  OBVIOUS
<1> QED
  BY <1>1

LEMMA CoversWider ==
  ASSUME NEW text, NEW R, NEW a \in Int, NEW b \in Int, NEW c \in Int, NEW d \in Int,
         Covers(text, R, a, b), c <= a, b <= d,
         AllSpaces(text, c, a - 1), AllSpaces(text, b + 1, d)
  PROVE  Covers(text, R, c, d)
<1>1. Within2(text, R, c, d)
  <2>1. ASSUME NEW n \in DOMAIN R PROVE c <= R[n][1] /\ R[n][2] <= d /\ Tight(text, R[n])
    <3>1. R[n][1] \in Nat /\ R[n][2] \in Nat
      BY RangeElement DEF Covers
    <3> QED
      BY <3>1 DEF Covers, Within2
  <2> QED
    BY <2>1 DEF Within2
<1>2. Reached(text, R, c, d)
  <2>1. ASSUME NEW k \in c .. d, text[k] \notin Spaces PROVE \E n \in DOMAIN R : k \in R[n][1] .. R[n][2]
    <3>1. k \in a .. b
      BY <2>1 DEF AllSpaces
    <3> QED
      BY <2>1, <3>1 DEF Covers, Reached
  <2> QED
    BY <2>1 DEF Reached
<1> QED
  BY <1>1, <1>2 DEF Covers

LEMMA CoversJoin ==
  ASSUME NEW text, NEW R, NEW Q, NEW a \in Int, NEW b \in Int, NEW d \in Int,
         Covers(text, R, a, b), Covers(text, Q, b + 1, d), a <= b + 1, b <= d
  PROVE  Covers(text, R \o Q, a, d)
<1> DEFINE u == R \o Q
<1>0. R \in Seq(Nat \X Nat) /\ Q \in Seq(Nat \X Nat)
  BY DEF Covers
<1>1. u \in Seq(Nat \X Nat)
  BY <1>0
<1>2. IsList(R) /\ IsList(Q) /\ Len(R) \in Nat /\ Len(Q) \in Nat
      /\ DOMAIN R = 1 .. Len(R) /\ DOMAIN Q = 1 .. Len(Q)
  BY <1>0, TypedIsList, ListDomain
<1>3. /\ DOMAIN u = 1 .. Len(R) + Len(Q)
      /\ \A k \in 1 .. Len(R) : u[k] = R[k]
      /\ \A k \in 1 .. Len(Q) : u[Len(R) + k] = Q[k]
  BY <1>2, ConcatLists
<1> HIDE DEF u
<1>4. \A n \in DOMAIN u :
        \/ n \in DOMAIN R /\ u[n] = R[n]
        \/ n - Len(R) \in DOMAIN Q /\ u[n] = Q[n - Len(R)]
  <2>1. ASSUME NEW n \in DOMAIN u PROVE n \in 1 .. Len(R) \/ (n - Len(R) \in 1 .. Len(Q) /\ Len(R) + (n - Len(R)) = n)
    BY <1>2, <1>3
  <2> QED
    BY <2>1, <1>2, <1>3
<1>5. Within2(text, u, a, d)
  <2>1. ASSUME NEW n \in DOMAIN u PROVE a <= u[n][1] /\ u[n][2] <= d /\ Tight(text, u[n])
    <3>1. CASE n \in DOMAIN R /\ u[n] = R[n]
      <4>1. R[n][1] \in Nat /\ R[n][2] \in Nat
        BY <3>1, <1>0, RangeElement
      <4> QED
        BY <3>1, <4>1 DEF Covers, Within2
    <3>2. CASE n - Len(R) \in DOMAIN Q /\ u[n] = Q[n - Len(R)]
      <4>1. Q[n - Len(R)][1] \in Nat /\ Q[n - Len(R)][2] \in Nat
        BY <3>2, <1>0, RangeElement
      <4> QED
        BY <3>2, <4>1 DEF Covers, Within2
    <3> QED
      BY <1>4, <3>1, <3>2
  <2> QED
    BY <2>1 DEF Within2
<1>6. Ordered(u)
  <2>1. SUFFICES ASSUME NEW m \in DOMAIN u, NEW n \in DOMAIN u, m < n PROVE u[m][2] < u[n][1]
    BY DEF Ordered
  <2>2. CASE n \in DOMAIN R /\ u[n] = R[n]
    <3>1. m \in DOMAIN R /\ u[m] = R[m]
      BY <2>1, <2>2, <1>2, <1>3
    <3> QED
      BY <2>1, <2>2, <3>1 DEF Covers, Ordered
  <2>3. CASE n - Len(R) \in DOMAIN Q /\ u[n] = Q[n - Len(R)]
    <3>1. CASE m \in DOMAIN R /\ u[m] = R[m]
      <4>1. R[m][1] \in Nat /\ R[m][2] \in Nat
        BY <3>1, <1>0, RangeElement
      <4>2. Q[n - Len(R)][1] \in Nat
        BY <2>3, <1>0, RangeElement
      <4>3. R[m][2] <= b
        BY <3>1 DEF Covers, Within2
      <4>4. b + 1 <= Q[n - Len(R)][1]
        BY <2>3 DEF Covers, Within2
      <4>5. R[m][2] < Q[n - Len(R)][1]
        BY <4>1, <4>2, <4>3, <4>4
      <4> QED
        BY <2>3, <3>1, <4>5
    <3>2. CASE m - Len(R) \in DOMAIN Q /\ u[m] = Q[m - Len(R)]
      <4>1. m - Len(R) < n - Len(R)
        BY <2>1, <1>2, <1>3
      <4> QED
        BY <2>3, <3>2, <4>1 DEF Covers, Ordered
    <3> QED
      BY <1>4, <3>1, <3>2
  <2> QED
    BY <1>4, <2>2, <2>3
<1>7. Reached(text, u, a, d)
  <2>1. SUFFICES ASSUME NEW k \in a .. d, text[k] \notin Spaces PROVE \E n \in DOMAIN u : k \in u[n][1] .. u[n][2]
    BY DEF Reached
  <2>2. CASE k \in a .. b
    <3>1. PICK n \in DOMAIN R : k \in R[n][1] .. R[n][2]
      BY <2>1, <2>2 DEF Covers, Reached
    <3>2. n \in DOMAIN u /\ u[n] = R[n]
      BY <1>2, <1>3
    <3> QED
      BY <3>1, <3>2
  <2>3. CASE k \in b + 1 .. d
    <3>1. PICK n \in DOMAIN Q : k \in Q[n][1] .. Q[n][2]
      BY <2>1, <2>3 DEF Covers, Reached
    <3>2. Len(R) + n \in DOMAIN u /\ u[Len(R) + n] = Q[n]
      BY <1>2, <1>3
    <3> QED
      BY <3>1, <3>2
  <2> QED
    BY <2>2, <2>3
<1> QED
  BY <1>1, <1>5, <1>6, <1>7 DEF Covers, u

-----------------------------------------------------------------------------
LEMMA SkipOverIs ==
  ASSUME NEW text, Len(text) \in Nat, NEW S, NEW k \in 1 .. Len(text) + 1
  PROVE  /\ SkipOver(text, k, S) \in k .. Len(text) + 1
         /\ \A i \in k .. SkipOver(text, k, S) - 1 : text[i] \in S
         /\ SkipOver(text, k, S) <= Len(text) => text[SkipOver(text, k, S)] \notin S
<1> DEFINE P == {j \in k .. Len(text) + 1 : j <= Len(text) => text[j] \notin S}
<1>1. P \in SUBSET Int /\ Len(text) + 1 \in P /\ \A j \in P : k <= j /\ k \in Int
  OBVIOUS
<1>2. Min(P) \in P /\ \A x \in P : Min(P) <= x
  BY <1>1, MinOf
<1>3. \A i \in k .. Min(P) - 1 : text[i] \in S
  BY <1>2
<1>4. \E j \in k .. Len(text) + 1 : (\A i \in k .. j - 1 : text[i] \in S) /\ (j <= Len(text) => text[j] \notin S)
  BY <1>2, <1>3
<1> QED
  BY <1>4 DEF SkipOver

LEMMA TrimmedEndIs ==
  ASSUME NEW text, NEW a \in Int, NEW b \in Int, a <= b + 1
  PROVE  /\ TrimmedEnd(text, a, b) \in a - 1 .. b
         /\ AllSpaces(text, TrimmedEnd(text, a, b) + 1, b)
         /\ TrimmedEnd(text, a, b) >= a => text[TrimmedEnd(text, a, b)] \notin Spaces
<1> DEFINE P == {a - 1} \cup {k \in a .. b : text[k] \notin Spaces}
<1>1. P \in SUBSET Int /\ P # {} /\ (\A x \in P : x <= b) /\ P \subseteq a - 1 .. b
      /\ (\A x \in P : x >= a => text[x] \notin Spaces) /\ (\A x \in a .. b : text[x] \notin Spaces => x \in P)
      /\ a - 1 \in P
  OBVIOUS
<1>2. TrimmedEnd(text, a, b) = Max(P)
  BY DEF TrimmedEnd
<1> HIDE DEF P
<1>3. Max(P) \in P /\ \A x \in P : x <= Max(P)
  BY <1>1, MaxOf
<1>4. Max(P) \in a - 1 .. b
  BY <1>1, <1>3
<1>5. ASSUME NEW k \in Max(P) + 1 .. b PROVE text[k] \in Spaces
  <2>1. k \in a .. b /\ ~(k <= Max(P))
    BY <1>4
  <2> QED
    BY <1>1, <1>3, <2>1
<1> QED
  BY <1>1, <1>2, <1>3, <1>4, <1>5 DEF AllSpaces

LEMMA LastOfIs ==
  ASSUME NEW text, NEW a \in Int, NEW b \in Int, a <= b + 1, NEW S
  PROVE  LastOf(text, a, b, S) \in a - 1 .. b
<1> DEFINE P == {a - 1} \cup {k \in a .. b : text[k] \in S}
<1>1. P \in SUBSET Int /\ P # {} /\ (\A x \in P : x <= b) /\ P \subseteq a - 1 .. b
  OBVIOUS
<1>2. LastOf(text, a, b, S) = Max(P)
  BY DEF LastOf
<1> HIDE DEF P
<1>3. Max(P) \in P
  BY <1>1, MaxOf
<1> QED
  BY <1>1, <1>2, <1>3

LEMMA PieceEndIs ==
  ASSUME NEW text, NEW a \in Int, NEW b \in Int, a <= b
  PROVE  PieceEnd(text, a, b) \in a .. b
<1>1. LastOf(text, a, b, ClauseMark) \in a - 1 .. b /\ LastOf(text, a, b, Spaces) \in a - 1 .. b
  BY LastOfIs
<1> QED
  BY <1>1 DEF PieceEnd

LEMMA FittingIs ==
  ASSUME NEW text \in Texts, NEW a \in 1 .. Len(text), NEW b \in a .. Len(text)
  PROVE  Fitting(text, a, b) \in a .. b /\ Size(text, a, Fitting(text, a, b)) <= MaxSegment
<1>0. Len(text) \in Nat
  BY DEF Texts
<1> DEFINE P == {k \in a .. b : Size(text, a, k) <= MaxSegment}
<1>1. a \in P
  BY <1>0, SizeOfOne
<1>2. P \in SUBSET Int /\ P # {} /\ (\A x \in P : x <= b) /\ b \in Int
  BY <1>0, <1>1
<1>3. Max(P) \in P
  BY <1>2, MaxOf
<1> QED
  BY <1>3 DEF Fitting

-----------------------------------------------------------------------------
(* segment_ranges: sentences, lines and chunks cover every glyph that is   *)
(* no white space.                                                         *)

CutStep(text, last, r, s, k) == Cut(text, last, s, k)
CutLoop == INSTANCE Folding WITH Step <- CutStep, Good <- Whatever

ChunkTo(text, first, last, i, s) ==
  /\ s.rest \in first .. last + 1
  /\ s.rest > i
  /\ s.rest <= last => text[s.rest] \notin Spaces
  /\ Covers(text, s.pieces, first, s.rest - 1)

LEMMA AppendRange ==
  ASSUME NEW R \in Seq(Nat \X Nat), NEW a \in Nat, NEW b \in Nat
  PROVE  Append(R, <<a, b>>) = R \o <<<<a, b>>>>
<1> DEFINE S == Nat \X Nat
           r == <<a, b>>
<1>1. R \in Seq(S) /\ r \in S
  OBVIOUS
<1> HIDE DEF S, r
<1>2. Append(R, r) = R \o <<r>>
  BY <1>1, AppendIsConcat
<1> QED
  BY <1>2 DEF r

(* The piece that chunk_long cuts off at k, and where the next one begins. *)
LEMMA CutAt ==
  ASSUME NEW text \in Texts, NEW first \in 1 .. Len(text), NEW last \in first .. Len(text),
         text[last] \notin Spaces, NEW k \in first .. last, NEW s,
         s.rest = k, ChunkTo(text, first, last, k - 1, s)
  PROVE  ChunkTo(text, first, last, k, Cut(text, last, s, k))
<1>0. Len(text) \in Nat /\ k \in Nat /\ last \in Nat /\ first \in Nat /\ k \in 1 .. Len(text)
  BY DEF Texts
<1>1. text[k] \notin Spaces /\ Covers(text, s.pieces, first, k - 1)
  BY DEF ChunkTo
<1>2. CASE Size(text, k, last) <= MaxSegment
  <2> DEFINE Q == <<<<k, last>>>>
             c == [pieces |-> Append(s.pieces, <<k, last>>), rest |-> last + 1]
  <2>1. Tight(text, <<k, last>>)
    BY <1>0, <1>1, <1>2 DEF Tight
  <2>2. Covers(text, Q, k, last)
    BY <1>0, <2>1, CoversOne
  <2>3. Append(s.pieces, <<k, last>>) = s.pieces \o Q
    BY <1>1, <1>0, AppendRange DEF Covers
  <2>4. k - 1 \in Int /\ (k - 1) + 1 = k /\ first <= (k - 1) + 1 /\ k - 1 <= last /\ last \in Int /\ first \in Int
    BY <1>0
  <2> HIDE DEF Q
  <2> DEFINE j == k - 1
  <2>5. Covers(text, s.pieces \o Q, first, last)
    <3>1. Covers(text, s.pieces, first, j) /\ Covers(text, Q, j + 1, last) /\ j \in Int /\ first <= j + 1 /\ j <= last
      BY <2>2, <2>4, <1>1
    <3> HIDE DEF j
    <3> QED
      BY <3>1, <2>4, CoversJoin
  <2>6. c.pieces = Append(s.pieces, <<k, last>>) /\ c.rest = last + 1
    OBVIOUS
  <2>7. Cut(text, last, s, k) = c
    BY <1>2 DEF Cut
  <2> HIDE DEF c, j
  <2>8. c.pieces = s.pieces \o Q
    BY <2>3, <2>6
  <2>9. (last + 1) - 1 = last
    BY <1>0
  <2>10. Covers(text, c.pieces, first, c.rest - 1)
    BY <2>5, <2>6, <2>8, <2>9
  <2>11. c.rest \in first .. last + 1 /\ c.rest > k /\ ~(c.rest <= last)
    BY <2>6, <1>0
  <2> QED
    BY <2>7, <2>10, <2>11 DEF ChunkTo
<1>3. CASE ~(Size(text, k, last) <= MaxSegment)
  <2> DEFINE cut == Fitting(text, k, last)
             end == PieceEnd(text, k, cut)
             e == TrimmedEnd(text, k, end)
             rest == SkipOver(text, end + 1, Spaces)
             Q == <<<<k, e>>>>
             c == [pieces |-> Append(s.pieces, <<k, e>>), rest |-> rest]
  <2>0. Cut(text, last, s, k) = c
    BY <1>3 DEF Cut
  <2>1. cut \in k .. last /\ Size(text, k, cut) <= MaxSegment
    BY <1>0, FittingIs
  <2>2. cut < last /\ cut \in Int /\ k <= cut
    BY <2>1, <1>3, <1>0
  <2> HIDE DEF cut
  <2>3. end \in k .. cut
    BY <2>2, <1>0, PieceEndIs
  <2> HIDE DEF end
  <2>4. end \in Int /\ k <= end + 1 /\ k <= end /\ end + 1 <= last /\ end + 1 \in 1 .. Len(text) + 1 /\ end <= Len(text)
    BY <2>2, <2>3, <1>0
  <2>5. e \in k - 1 .. end /\ AllSpaces(text, e + 1, end) /\ (e >= k => text[e] \notin Spaces)
    BY <2>4, <1>0, TrimmedEndIs
  <2> HIDE DEF e
  <2>6. e >= k
    <3>1. CASE e = k - 1
      <4>1. k \in e + 1 .. end
        BY <3>1, <2>4, <1>0
      <4> QED
        BY <4>1, <2>5, <1>1 DEF AllSpaces
    <3> QED
      BY <3>1, <2>5, <2>4, <1>0
  <2>7. rest \in end + 1 .. Len(text) + 1 /\ (\A i \in end + 1 .. rest - 1 : text[i] \in Spaces)
        /\ (rest <= Len(text) => text[rest] \notin Spaces)
    BY <2>4, <1>0, SkipOverIs
  <2> HIDE DEF rest
  <2>8. rest <= last /\ rest \in Int
    BY <2>7, <2>4, <1>0
  <2>9. Size(text, k, e) <= MaxSegment
    <3>1. e \in Int /\ k - 1 <= e /\ e <= cut /\ cut <= Len(text) /\ cut \in Int
      BY <2>2, <2>3, <2>5, <1>0
    <3>2. Size(text, k, e) <= Size(text, k, cut)
      BY <3>1, <1>0, SizeGrows
    <3>3. Size(text, k, e) \in Nat /\ Size(text, k, cut) \in Nat
      <4>1. e <= Len(text) /\ k - 1 <= cut
        BY <3>1, <2>2, <1>0
      <4> QED
        BY <4>1, <3>1, <1>0, SizeIsNat
    <3> QED
      BY <3>2, <3>3, <2>1, SegmentsAssumption
  <2>10. Tight(text, <<k, e>>)
    BY <2>5, <2>6, <2>9, <1>1 DEF Tight
  <2>11. e \in Nat
    BY <2>5, <2>6, <1>0
  <2>12. Covers(text, Q, k, e)
    BY <2>10, <2>11, <1>0, CoversOne
  <2>13. Append(s.pieces, <<k, e>>) = s.pieces \o Q
    BY <1>1, <1>0, <2>11, AppendRange DEF Covers
  <2> HIDE DEF Q
  <2> DEFINE j == k - 1
  <2>14. Covers(text, s.pieces \o Q, first, e)
    <3>1. Covers(text, s.pieces, first, j) /\ Covers(text, Q, j + 1, e) /\ j \in Int /\ first <= j + 1 /\ j <= e
          /\ e \in Int /\ first \in Int
      BY <2>12, <1>1, <1>0, <2>11, <2>6
    <3> HIDE DEF j
    <3> QED
      BY <3>1, CoversJoin
  <2> DEFINE d == rest - 1
  <2>15. Covers(text, s.pieces \o Q, first, d)
    <3>1. AllSpaces(text, e + 1, d)
      <4>1. ASSUME NEW i \in e + 1 .. d PROVE text[i] \in Spaces
        <5>1. i \in e + 1 .. end \/ i \in end + 1 .. rest - 1
          BY <2>4, <2>8, <2>11
        <5> QED
          BY <5>1, <2>5, <2>7 DEF AllSpaces
      <4> QED
        BY <4>1 DEF AllSpaces
    <3>2. AllSpaces(text, first, first - 1)
      BY <1>0 DEF AllSpaces
    <3>3. first \in Int /\ e \in Int /\ d \in Int /\ first <= first /\ e <= d
      BY <1>0, <2>11, <2>7, <2>8, <2>4, <2>5
    <3> HIDE DEF d
    <3> QED
      BY <3>1, <3>2, <3>3, <2>14, CoversWider
  <2>16. c.pieces = s.pieces \o Q /\ c.rest = rest
    BY <2>13
  <2> HIDE DEF c
  <2>17. rest > k /\ rest <= last + 1 /\ first <= rest
    BY <2>7, <2>8, <2>4, <1>0
  <2>18. rest <= last => text[rest] \notin Spaces
    BY <2>7, <2>8, <1>0
  <2> QED
    BY <2>0, <2>15, <2>16, <2>17, <2>18, <2>8, <1>0 DEF ChunkTo
<1> QED
  BY <1>2, <1>3

LEMMA ChunkLongCovers ==
  ASSUME NEW text \in Texts, NEW first \in 1 .. Len(text), NEW last \in first .. Len(text),
         text[first] \notin Spaces, text[last] \notin Spaces
  PROVE  Covers(text, ChunkLong(text, first, last), first, last)
<1>0. Len(text) \in Nat /\ last \in Nat /\ first \in Nat
  BY DEF Texts
<1> DEFINE seq == [k \in 1 .. last |-> k]
           base == [pieces |-> <<>>, rest |-> first]
<1>1. DOMAIN seq = 1 .. last /\ \A i \in 1 .. last : seq[i] = i
  OBVIOUS
<1>2. ChunkLong(text, first, last) = FoldLeft(LAMBDA s, k : Cut(text, last, s, k), base, seq).pieces
  BY DEF ChunkLong
<1>3. base.rest = first /\ base.pieces = <<>>
  OBVIOUS
<1> HIDE DEF seq, base
<1>4. ChunkLong(text, first, last) = CutLoop!Fold(text, last, 0, base, seq).pieces
  BY <1>2 DEF CutLoop!Fold, FoldLeft, MapThenFoldSet,
         Max, CutLoop!Greatest, CutStep
<1>5. PICK acc : CutLoop!Accumulates(acc, text, last, 0, base, last, seq)
  BY <1>0, <1>1, CutLoop!Accumulators
<1> DEFINE T == {m \in Nat : m <= last => ChunkTo(text, first, last, m, acc[m])}
<1>6. 0 \in T
  <2>1. Covers(text, <<>>, first, first - 1)
    <3> DEFINE b == first - 1
    <3>1. AllSpaces(text, first, b) /\ b \in Int /\ first \in Int
      BY <1>0 DEF AllSpaces
    <3> HIDE DEF b
    <3>2. Covers(text, <<>>, first, b)
      BY <3>1, CoversNone
    <3> QED
      BY <3>2 DEF b
  <2> QED
    BY <2>1, <1>0, <1>3, <1>5 DEF ChunkTo, CutLoop!Accumulates
<1>7. ASSUME NEW m \in Nat, m \in T PROVE m + 1 \in T
  <2>1. SUFFICES ASSUME m + 1 <= last PROVE ChunkTo(text, first, last, m + 1, acc[m + 1])
    OBVIOUS
  <2> DEFINE k == m + 1
             s == acc[m]
  <2>2. k \in 1 .. last /\ k - 1 = m /\ ChunkTo(text, first, last, m, s)
    BY <2>1, <1>7, <1>0
  <2>3. acc[k] = Cut(text, last, s, k)
    BY <1>1, <1>5, <2>2 DEF CutLoop!Accumulates, CutStep
  <2> HIDE DEF k, s
  <2>4. CASE k = s.rest
    <3>1. k \in first .. last /\ ChunkTo(text, first, last, k - 1, s)
      BY <2>2, <2>4, <1>0 DEF ChunkTo
    <3> QED
      BY <3>1, <2>3, <2>4, CutAt DEF k
  <2>5. CASE k # s.rest
    <3>1. Cut(text, last, s, k) = s
      BY <2>5 DEF Cut
    <3> QED
      BY <3>1, <2>2, <2>3, <2>5, <1>0 DEF ChunkTo, k
  <2> QED
    BY <2>4, <2>5
<1> HIDE DEF T
<1>8. last \in T
  BY <1>0, <1>6, <1>7, CutLoop!SetInduction
<1>9. ChunkTo(text, first, last, last, acc[last])
  BY <1>0, <1>8 DEF T
<1>10. acc[last].rest = last + 1 /\ (last + 1) - 1 = last
  BY <1>0, <1>9 DEF ChunkTo
<1> QED
  BY <1>4, <1>5, <1>9, <1>10 DEF ChunkTo, CutLoop!Accumulates

LEMMA PushRangeCovers ==
  ASSUME NEW text \in Texts, NEW first \in 1 .. Len(text) + 1, NEW last \in Int, first <= last + 1, last <= Len(text)
  PROVE  Covers(text, PushRange(text, first, last), first, last)
<1>0. Len(text) \in Nat /\ first \in Int /\ last \in Int
  BY DEF Texts
<1> DEFINE begin == SkipOver(text, first, Spaces)
           end == TrimmedEnd(text, first, last)
<1>1. begin \in first .. Len(text) + 1 /\ (\A i \in first .. begin - 1 : text[i] \in Spaces)
      /\ (begin <= Len(text) => text[begin] \notin Spaces)
  BY <1>0, SkipOverIs
<1>2. end \in first - 1 .. last /\ AllSpaces(text, end + 1, last) /\ (end >= first => text[end] \notin Spaces)
  BY <1>0, TrimmedEndIs
<1>3. PushRange(text, first, last) = IF begin > end THEN <<>> ELSE ChunkLong(text, begin, end)
  BY DEF PushRange
<1> HIDE DEF begin, end
<1>4. CASE begin > end
  <2>1. AllSpaces(text, first, last)
    <3>1. ASSUME NEW k \in first .. last PROVE text[k] \in Spaces
      <4>1. k \in first .. begin - 1 \/ k \in end + 1 .. last
        BY <1>0, <1>1, <1>2, <1>4
      <4> QED
        BY <4>1, <1>1, <1>2 DEF AllSpaces
    <3> QED
      BY <3>1 DEF AllSpaces
  <2> QED
    BY <2>1, <1>0, <1>3, <1>4, CoversNone
<1>5. CASE ~(begin > end)
  <2>1. begin \in 1 .. Len(text) /\ end \in begin .. Len(text) /\ text[begin] \notin Spaces /\ text[end] \notin Spaces
        /\ begin \in Int /\ end \in Int /\ first <= begin /\ end <= last
    BY <1>0, <1>1, <1>2, <1>5
  <2>2. Covers(text, ChunkLong(text, begin, end), begin, end)
    BY <2>1, ChunkLongCovers
  <2>3. AllSpaces(text, first, begin - 1)
    BY <1>1 DEF AllSpaces
  <2> QED
    BY <1>0, <1>2, <1>3, <1>5, <2>1, <2>2, <2>3, CoversWider
<1> QED
  BY <1>4, <1>5

-----------------------------------------------------------------------------
ReadTo(text, s) ==
  /\ s.start \in 1 .. Len(text) + 1
  /\ Covers(text, s.ranges, 1, s.start - 1)

LEMMA SplitCovers ==
  ASSUME NEW text \in Texts, NEW s, ReadTo(text, s), NEW last \in Int, s.start <= last + 1, last <= Len(text),
         NEW start \in Int, last + 1 <= start, start <= Len(text) + 1, AllSpaces(text, last + 1, start - 1)
  PROVE  ReadTo(text, Split(text, s, last, start))
<1>0. Len(text) \in Nat
  BY DEF Texts
<1> DEFINE R == s.ranges
           a == s.start
           b == s.start - 1
           d == start - 1
           Q == PushRange(text, a, last)
           c == Split(text, s, last, start)
<1>1. c.ranges = R \o Q /\ c.start = start
  BY DEF Split
<1>2. a \in 1 .. Len(text) + 1 /\ b \in Int /\ b + 1 = a /\ d \in Int /\ a <= last + 1 /\ 1 <= b + 1 /\ b <= last
      /\ last <= d /\ d = start - 1
  BY <1>0 DEF ReadTo
<1>3. Covers(text, R, 1, b)
  BY DEF ReadTo
<1> HIDE DEF R, a, b, d, c
<1>4. Covers(text, Q, a, last)
  BY <1>2, PushRangeCovers
<1> HIDE DEF Q
<1>5. Covers(text, R \o Q, 1, last)
  BY <1>2, <1>3, <1>4, CoversJoin
<1>6. AllSpaces(text, 1, 1 - 1) /\ AllSpaces(text, last + 1, d)
  BY <1>2 DEF AllSpaces
<1>7. Covers(text, R \o Q, 1, d)
  BY <1>2, <1>5, <1>6, CoversWider
<1> QED
  BY <1>0, <1>1, <1>2, <1>7 DEF ReadTo, c

LEMMA ReadGlyphCovers ==
  ASSUME NEW text \in Texts, NEW k \in 1 .. Len(text), NEW s, ReadTo(text, s)
  PROVE  ReadTo(text, ReadGlyph(text, s, k))
<1>0. Len(text) \in Nat /\ s.start \in 1 .. Len(text) + 1
  BY DEF Texts, ReadTo
<1>1. CASE k < s.start
  BY <1>1 DEF ReadGlyph
<1>2. CASE ~(k < s.start) /\ text[k] = "\n"
  <2> DEFINE last == k - 1
             start == k + 1
  <2>1. last \in Int /\ start \in Int /\ s.start <= last + 1 /\ last <= Len(text) /\ last + 1 <= start
        /\ start <= Len(text) + 1 /\ last + 1 = k /\ start - 1 = k
    BY <1>0, <1>2
  <2>2. AllSpaces(text, last + 1, start - 1)
    <3>1. \A i \in last + 1 .. start - 1 : i = k
      BY <2>1
    <3> QED
      BY <3>1, <1>2 DEF AllSpaces, Spaces
  <2>3. ReadGlyph(text, s, k) = Split(text, s, last, start)
    BY <1>2 DEF ReadGlyph
  <2> HIDE DEF last, start
  <2> QED
    BY <2>1, <2>2, <2>3, SplitCovers
<1>3. CASE ~(k < s.start) /\ text[k] # "\n"
  <2> DEFINE after == SkipOver(text, k + 1, Closing)
             last == after - 1
  <2>1. ReadGlyph(text, s, k) = IF EndsSentence(text, k, after) THEN Split(text, s, last, after) ELSE s
    BY <1>3 DEF ReadGlyph
  <2>2. after \in k + 1 .. Len(text) + 1
    BY <1>0, SkipOverIs
  <2> HIDE DEF after
  <2>3. last \in Int /\ after \in Int /\ s.start <= last + 1 /\ last <= Len(text) /\ last + 1 <= after
        /\ after <= Len(text) + 1 /\ last + 1 = after
    BY <1>0, <1>3, <2>2
  <2>4. AllSpaces(text, last + 1, after - 1)
    BY <2>3 DEF AllSpaces
  <2> HIDE DEF last
  <2>5. ReadTo(text, Split(text, s, last, after))
    BY <2>3, <2>4, SplitCovers
  <2> QED
    BY <2>1, <2>5
<1> QED
  BY <1>1, <1>2, <1>3

ReadStep2(text, q, r, s, k) == ReadGlyph(text, s, k)
ReadGood(text, q, r, s) == ReadTo(text, s)
SentenceLoop == INSTANCE Folding WITH Step <- ReadStep2, Good <- ReadGood

LEMMA SentencesCover ==
  ASSUME NEW text \in Texts
  PROVE  ReadTo(text, Sentences(text))
<1> DEFINE n == Len(text)
           seq == [k \in DOMAIN text |-> k]
           base == [ranges |-> <<>>, start |-> 1]
<1>1. n \in Nat /\ DOMAIN seq = 1 .. n /\ \A i \in 1 .. n : seq[i] = i
  BY DEF Texts
<1>2. Sentences(text) = FoldLeft(LAMBDA s, k : ReadGlyph(text, s, k), base, seq)
  BY DEF Sentences
<1>3. base.start = 1 /\ base.ranges = <<>> /\ 1 - 1 = 0
  OBVIOUS
<1> HIDE DEF seq, base
<1>4. Sentences(text) = SentenceLoop!Fold(text, 0, 0, base, seq)
  BY <1>2 DEF SentenceLoop!Fold, FoldLeft, MapThenFoldSet,
         Max, SentenceLoop!Greatest, ReadStep2
<1>5. ReadGood(text, 0, 0, base)
  <2>1. AllSpaces(text, 1, 0)
    BY DEF AllSpaces
  <2>2. Covers(text, <<>>, 1, 0)
    BY <2>1, CoversNone
  <2> QED
    BY <1>1, <1>3, <2>2 DEF ReadGood, ReadTo
<1>6. ASSUME NEW i \in 1 .. n, NEW acc, ReadGood(text, 0, 0, acc)
      PROVE  ReadGood(text, 0, 0, ReadStep2(text, 0, 0, acc, seq[i]))
  BY <1>1, <1>6, ReadGlyphCovers DEF ReadGood, ReadStep2
<1> HIDE DEF n
<1>7. ReadGood(text, 0, 0, SentenceLoop!Fold(text, 0, 0, base, seq))
  BY <1>1, <1>5, <1>6, SentenceLoop!FoldKeeps
<1> QED
  BY <1>4, <1>7 DEF ReadGood

LEMMA SegmentRangesCover ==
  ASSUME NEW text \in Texts
  PROVE  Covers(text, SegmentRanges(text), 1, Len(text))
<1> DEFINE s == Sentences(text)
           n == Len(text)
           start == n + 1
           c == Split(text, s, n, start)
<1>1. ReadTo(text, s)
  BY SentencesCover
<1>2. n \in Nat
  BY DEF Texts
<1>3. s.start <= n + 1
  BY <1>1, <1>2 DEF ReadTo
<1>4. n \in Int /\ start \in Int /\ n <= Len(text) /\ n + 1 <= start /\ start <= Len(text) + 1 /\ start - 1 = n
  BY <1>2
<1>5. AllSpaces(text, n + 1, start - 1)
  BY <1>4 DEF AllSpaces
<1>6. SegmentRanges(text) = c.ranges /\ c.start = start
  BY DEF SegmentRanges, Split
<1> HIDE DEF s, n, start
<1>7. ReadTo(text, c)
  BY <1>1, <1>3, <1>4, <1>5, SplitCovers
<1> QED
  BY <1>4, <1>6, <1>7 DEF ReadTo, n

-----------------------------------------------------------------------------
(* Tokens, key words, numbers and durations of a text are lists of their   *)
(* kind.                                                                   *)

(* What becomes of a list in a loop stays a list. *)
TokenStep(text, q, r, toks, k) ==
  IF text[k] \in Spaces \/ InDecimal(text, k) \/ InDecimal(text, k - 1) THEN toks
  ELSE toks \o PushWord(TokenText(text, k), text[k] \in Capitals)
NameStep(p, q, r, t, w) == IF t = <<>> THEN <<w>> ELSE t \o <<" ", w>>
AList(p, q, r, acc) == IsList(acc)
TokenLoop == INSTANCE Folding WITH Step <- TokenStep, Good <- AList
NameLoop == INSTANCE Folding WITH Step <- NameStep, Good <- AList

LEMMA PushWordList ==
  ASSUME NEW g, NEW capital
  PROVE  IsList(PushWord(g, capital))
<1> DEFINE words == IF g \in DOMAIN Contractions THEN Contractions[g] ELSE <<g>>
           t == [k \in DOMAIN words |-> [word |-> words[k], kind |-> KindOf(words[k]), capital |-> capital /\ k = 1]]
<1>1. IsList(words)
  <2>1. CASE g \in DOMAIN Contractions
    BY <2>1, IndexAssumption, TypedIsList DEF Texts
  <2>2. CASE g \notin DOMAIN Contractions
    BY <2>2, SingleList
  <2> QED
    BY <2>1, <2>2
<1>2. PushWord(g, capital) = t
  BY DEF PushWord
<1> HIDE DEF words
<1>3. t = [k \in DOMAIN words |-> t[k]]
  OBVIOUS
<1> HIDE DEF t
<1> QED
  BY <1>1, <1>2, <1>3, MadeFrom

LEMMA RawTokensList ==
  ASSUME NEW text, IsList(text)
  PROVE  IsList(RawTokens(text))
<1> DEFINE n == Len(text)
           seq == [k \in DOMAIN text |-> k]
<1>1. n \in Nat /\ DOMAIN seq = 1 .. n
  BY ListDomain
<1>2. RawTokens(text) = FoldLeft(LAMBDA toks, k :
             IF text[k] \in Spaces \/ InDecimal(text, k) \/ InDecimal(text, k - 1) THEN toks
             ELSE toks \o PushWord(TokenText(text, k), text[k] \in Capitals), <<>>, seq)
  BY DEF RawTokens
<1> HIDE DEF seq
<1>3. RawTokens(text) = TokenLoop!Fold(text, 0, 0, <<>>, seq)
  BY <1>2 DEF TokenLoop!Fold, FoldLeft, MapThenFoldSet,
         Max, TokenLoop!Greatest, TokenStep
<1>4. AList(text, 0, 0, <<>>)
  BY EmptyIsList DEF AList
<1>5. ASSUME NEW i \in 1 .. n, NEW acc, AList(text, 0, 0, acc)
      PROVE  AList(text, 0, 0, TokenStep(text, 0, 0, acc, seq[i]))
  <2> DEFINE x == PushWord(TokenText(text, seq[i]), text[seq[i]] \in Capitals)
  <2>1. IsList(x)
    BY PushWordList
  <2>2. TokenStep(text, 0, 0, acc, seq[i]) \in {acc, acc \o x}
    BY DEF TokenStep
  <2> HIDE DEF x
  <2> QED
    BY <1>5, <2>1, <2>2, ConcatLists DEF AList
<1> HIDE DEF n
<1>6. AList(text, 0, 0, TokenLoop!Fold(text, 0, 0, <<>>, seq))
  BY <1>1, <1>4, <1>5, TokenLoop!FoldKeeps
<1> QED
  BY <1>3, <1>6 DEF AList

LEMMA LoweredAllList ==
  ASSUME NEW text, IsList(text)
  PROVE  IsList(LoweredAll(text)) /\ Len(LoweredAll(text)) = Len(text)
<1> DEFINE t == LoweredAll(text)
<1>1. t = [k \in DOMAIN text |-> t[k]]
  BY DEF LoweredAll
<1> HIDE DEF t
<1>2. IsList(t) /\ Len(t) = Len(text)
  BY <1>1, MadeFrom
<1> QED
  BY <1>2 DEF t

LEMMA KeyWordsList ==
  ASSUME NEW key, IsList(key)
  PROVE  IsList(KeyWords(key))
<1> DEFINE P == {k \in DOMAIN key : key[k] \notin Separators}
           n == Len(key)
<1>1. n \in Nat /\ DOMAIN key = 1 .. n
  BY ListDomain
<1> HIDE DEF n
<1>2. IsList(Chosen(key, P))
  BY <1>1, ChosenIs
<1> QED
  BY <1>2, LoweredAllList DEF KeyWords

LEMMA PathWordsList ==
  ASSUME NEW path, IsList(path)
  PROVE  IsList(PathWords(path))
<1> DEFINE t == [k \in DOMAIN path |-> IF Indexed(path, k) THEN " " ELSE path[k]]
<1>1. t = [k \in DOMAIN path |-> t[k]]
  OBVIOUS
<1>2. PathWords(path) = KeyWords(t)
  BY DEF PathWords
<1> HIDE DEF t
<1>3. IsList(t)
  BY <1>1, MadeFrom
<1> QED
  BY <1>2, <1>3, KeyWordsList

LEMMA LowerTextList ==
  ASSUME NEW keyWords, IsList(keyWords), NEW text, IsList(text)
  PROVE  IsList(LowerText(keyWords, text))
<1> DEFINE n == Len(keyWords)
           name == FoldLeft(LAMBDA t, w : IF t = <<>> THEN <<w>> ELSE t \o <<" ", w>>, <<>>, keyWords)
           mark == <<":", " ">>
           shown == IF keyWords = <<>> THEN <<>> ELSE name \o mark
<1>1. n \in Nat /\ DOMAIN keyWords = 1 .. n
  BY ListDomain
<1>2. name = NameLoop!Fold(0, 0, 0, <<>>, keyWords)
  BY DEF NameLoop!Fold, FoldLeft, MapThenFoldSet,
         Max, NameLoop!Greatest, NameStep
<1>3. LowerText(keyWords, text) = shown \o LoweredAll(text)
  BY DEF LowerText
<1> HIDE DEF name
<1>4. AList(0, 0, 0, <<>>)
  BY EmptyIsList DEF AList
<1>5. ASSUME NEW i \in 1 .. n, NEW acc, AList(0, 0, 0, acc)
      PROVE  AList(0, 0, 0, NameStep(0, 0, 0, acc, keyWords[i]))
  <2> DEFINE w == keyWords[i]
             one == <<w>>
             two == <<" ", w>>
  <2>1. IsList(one)
    BY SingleList
  <2>2. two \in Seq({" ", w})
    OBVIOUS
  <2>3. NameStep(0, 0, 0, acc, keyWords[i]) \in {one, acc \o two}
    BY DEF NameStep
  <2> HIDE DEF w, one, two
  <2>4. IsList(acc \o two)
    BY <2>2, <1>5, TypedIsList, ConcatLists DEF AList
  <2> QED
    BY <2>1, <2>3, <2>4 DEF AList
<1> HIDE DEF n
<1>6. IsList(name)
  BY <1>1, <1>2, <1>4, <1>5, NameLoop!FoldKeeps DEF AList
<1>7. IsList(mark)
  <2>1. mark \in Seq({":", " "})
    OBVIOUS
  <2> QED
    BY <2>1, TypedIsList
<1> HIDE DEF mark
<1>8. IsList(shown)
  BY <1>6, <1>7, ConcatLists, EmptyIsList
<1> HIDE DEF shown
<1> QED
  BY <1>3, <1>8, LoweredAllList, ConcatLists

LEMMA KeyTokensList ==
  ASSUME NEW words, IsList(words), NEW falsey, NEW seg
  PROVE  IsList(KeyTokens(words, falsey, seg))
<1> DEFINE t == KeyTokens(words, falsey, seg)
<1>1. t = [k \in DOMAIN words |-> t[k]]
  BY DEF KeyTokens
<1> HIDE DEF t
<1>2. IsList(t)
  BY <1>1, MadeFrom
<1> QED
  BY <1>2 DEF t

LEMMA TextTokensList ==
  ASSUME NEW raw, IsList(raw), NEW flags, NEW seg
  PROVE  IsList(TextTokens(raw, flags, seg))
<1> DEFINE t == TextTokens(raw, flags, seg)
<1>1. t = [k \in DOMAIN raw |-> t[k]]
  BY DEF TextTokens
<1> HIDE DEF t
<1>2. IsList(t)
  BY <1>1, MadeFrom
<1> QED
  BY <1>2 DEF t

LEMMA WordsOfList ==
  ASSUME NEW raw, IsList(raw)
  PROVE  IsList(WordsOf(raw)) /\ DOMAIN WordsOf(raw) = DOMAIN raw
<1> DEFINE t == WordsOf(raw)
<1>1. t = [k \in DOMAIN raw |-> t[k]]
  BY DEF WordsOf
<1> HIDE DEF t
<1>2. IsList(t) /\ DOMAIN t = DOMAIN raw
  BY <1>1, MadeFrom
<1> QED
  BY <1>2 DEF t

-----------------------------------------------------------------------------
(* Numbers are worth something. *)
LEMMA NumberValue ==
  ASSUME NEW g, NEW kind
  PROVE  ParseNumber(g, kind).value \in Int
<1>0. NoNumber.value \in Int
  BY DEF NoNumber
<1>1. CASE kind = "Word"
  <2>1. CASE g \in DOMAIN NumberWords
    BY <1>1, <2>1, AmountsAssumption DEF ParseNumber, Amount
  <2>2. CASE g \notin DOMAIN NumberWords
    BY <1>0, <1>1, <2>2 DEF ParseNumber
  <2> QED
    BY <2>1, <2>2
<1>2. CASE kind # "Word" /\ g \notin DOMAIN Spelling
  BY <1>0, <1>2 DEF ParseNumber
<1>3. CASE kind # "Word" /\ g \in DOMAIN Spelling
  <2>0. NumericCore[g] \in Int /\ NumericCore[g] \div 100 \in Int
    BY <1>3, AmountsAssumption
  <2>1. CASE kind = "Number"
    <3>1. ParseNumber(g, kind) = Amount(NumericCore[g], IF IsOrdinal(Spelling[g]) THEN "Ordinal" ELSE "Plain", "none")
      BY <1>3, <2>1 DEF ParseNumber
    <3> QED
      BY <3>1, <2>0 DEF Amount
  <2>2. CASE kind = "Currency"
    <3>1. ParseNumber(g, kind) = Amount(IF InCents(Spelling[g]) THEN NumericCore[g] \div 100 ELSE NumericCore[g],
                     "Currency", CurrencyOf(Spelling[g]))
      BY <1>3, <2>2 DEF ParseNumber
    <3>2. (IF InCents(Spelling[g]) THEN NumericCore[g] \div 100 ELSE NumericCore[g]) \in Int
      BY <2>0
    <3> QED
      BY <3>1, <3>2 DEF Amount
  <2>3. CASE kind = "Percent"
    <3>1. ParseNumber(g, kind) = Amount(NumericCore[g], "Percent", "none")
      BY <1>3, <2>3 DEF ParseNumber
    <3> QED
      BY <3>1, <2>0 DEF Amount
  <2>4. CASE kind \notin {"Number", "Currency", "Percent"}
    BY <1>0, <1>3, <2>4 DEF ParseNumber
  <2> QED
    BY <2>1, <2>2, <2>3, <2>4
<1> QED
  BY <1>1, <1>2, <1>3

NumbersOK(numbers) == IsList(numbers) /\ \A k \in DOMAIN numbers : numbers[k].number.value \in Int

LEMMA NumeralsOK ==
  ASSUME NEW raw, IsList(raw), NEW at, NEW seg
  PROVE  NumbersOK(Numerals(raw, at, seg))
<1> DEFINE P == {k \in DOMAIN raw : ParseNumber(raw[k].word, raw[k].kind) # NoNumber}
           spans == Positions(raw, P)
           t == Numerals(raw, at, seg)
           m == Len(raw)
<1>1. m \in Nat /\ DOMAIN raw = 1 .. m
  BY ListDomain
<1> HIDE DEF m
<1>2. IsList(spans)
  BY <1>1, PositionsAre
<1>3. /\ t = [n \in DOMAIN spans |-> t[n]]
      /\ \A n \in DOMAIN spans : t[n].number = ParseNumber(raw[spans[n]].word, raw[spans[n]].kind)
  BY DEF Numerals
<1> HIDE DEF spans, P
<1>4. \A n \in DOMAIN spans : t[n].number.value \in Int
  BY <1>3, NumberValue
<1> HIDE DEF t
<1>5. IsList(t) /\ DOMAIN t = DOMAIN spans
  BY <1>2, <1>3, MadeFrom
<1> QED
  BY <1>4, <1>5 DEF NumbersOK, t

LEMMA NumbersConcat ==
  ASSUME NEW a, NumbersOK(a), NEW b, NumbersOK(b)
  PROVE  NumbersOK(a \o b)
<1>1. IsList(a) /\ IsList(b)
  BY DEF NumbersOK
<1>2. IsList(a \o b) /\ ToSet(a \o b) = ToSet(a) \cup ToSet(b)
  BY <1>1, ConcatLists
<1>3. ASSUME NEW k \in DOMAIN (a \o b) PROVE (a \o b)[k].number.value \in Int
  <2>1. (a \o b)[k] \in ToSet(a) \cup ToSet(b)
    BY <1>2 DEF ToSet
  <2> QED
    BY <2>1 DEF NumbersOK, ToSet
<1> QED
  BY <1>2, <1>3 DEF NumbersOK

LEMMA UnitIsNat ==
  ASSUME NEW w
  PROVE  UnitOf(w) \in Nat
<1> DEFINE days == {"day", "days"}
           weeks == {"week", "weeks", "wk", "wks"}
           months == {"month", "months", "mo", "mos"}
           years == {"year", "years", "yr", "yrs"}
           hours == {"hour", "hours", "hr", "hrs"}
<1>1. CASE w \in days
  BY <1>1 DEF UnitOf
<1>2. CASE w \in weeks
  BY <1>2 DEF UnitOf
<1>3. CASE w \in months
  BY <1>3 DEF UnitOf
<1>4. CASE w \in years
  BY <1>4 DEF UnitOf
<1>5. CASE w \in hours
  BY <1>5 DEF UnitOf
<1>6. CASE w \notin days /\ w \notin weeks /\ w \notin months /\ w \notin years /\ w \notin hours
  BY <1>6 DEF UnitOf
<1> QED
  BY <1>1, <1>2, <1>3, <1>4, <1>5, <1>6

DurationsOK(durations) == IsList(durations) /\ \A k \in DOMAIN durations : durations[k].days \in Int

LEMMA DurationsAreOK ==
  ASSUME NEW raw, IsList(raw), NEW words, IsList(words), NEW at, NEW seg
  PROVE  DurationsOK(Durations(raw, words, at, seg))
<1> DEFINE value(k) == IF raw[k].kind \in {"Number", "Word"} THEN ParseNumber(words[k], raw[k].kind)
                       ELSE NoNumber
           P == {k \in DOMAIN words : value(k) # NoNumber /\ UnitOf(WordOr(words, k + 1)) > 0}
           spans == Positions(words, P)
           t == Durations(raw, words, at, seg)
           m == Len(words)
<1>1. m \in Nat /\ DOMAIN words = 1 .. m
  BY ListDomain
<1> HIDE DEF m
<1>2. IsList(spans)
  BY <1>1, PositionsAre
<1>3. /\ t = [n \in DOMAIN spans |-> t[n]]
      /\ \A n \in DOMAIN spans : t[n].days = value(spans[n]).value * UnitOf(words[spans[n] + 1])
  BY DEF Durations
<1> HIDE DEF spans, P
<1>4. \A k : value(k).value \in Int
  <2>1. \A k : value(k) = NoNumber \/ value(k) = ParseNumber(words[k], raw[k].kind)
    OBVIOUS
  <2> HIDE DEF value
  <2> QED
    BY <2>1, NumberValue DEF NoNumber
<1> HIDE DEF value
<1>5. \A n \in DOMAIN spans : t[n].days \in Int
  <2>1. SUFFICES ASSUME NEW n \in DOMAIN spans PROVE t[n].days \in Int
    OBVIOUS
  <2>2. value(spans[n]).value \in Int /\ UnitOf(words[spans[n] + 1]) \in Int
    BY <1>4, UnitIsNat
  <2> QED
    BY <1>3, <2>2
<1> HIDE DEF t
<1>6. IsList(t) /\ DOMAIN t = DOMAIN spans
  BY <1>2, <1>3, MadeFrom
<1> QED
  BY <1>5, <1>6 DEF DurationsOK, t

LEMMA DurationsConcat ==
  ASSUME NEW a, DurationsOK(a), NEW b, DurationsOK(b)
  PROVE  DurationsOK(a \o b)
<1>1. IsList(a) /\ IsList(b)
  BY DEF DurationsOK
<1>2. IsList(a \o b) /\ ToSet(a \o b) = ToSet(a) \cup ToSet(b)
  BY <1>1, ConcatLists
<1>3. ASSUME NEW k \in DOMAIN (a \o b) PROVE (a \o b)[k].days \in Int
  <2>1. (a \o b)[k] \in ToSet(a) \cup ToSet(b)
    BY <1>2 DEF ToSet
  <2> QED
    BY <2>1 DEF DurationsOK, ToSet
<1> QED
  BY <1>2, <1>3 DEF DurationsOK

-----------------------------------------------------------------------------
(* Dates written in figures and in words: every one found is a date.       *)

ValidDate(d) ==
  /\ d = <<d[1], d[2], d[3]>>
  /\ d[1] \in 1 .. 9999 /\ d[2] \in 1 .. 12 /\ d[3] \in 1 .. DaysInMonth(d[1], d[2])

LEMMA NoDateIsNone ==
  ASSUME NEW d, ValidDate(d)
  PROVE  d # NoDate
  BY DEF ValidDate, NoDate

LEMMA DateOfValid ==
  ASSUME NEW y, NEW m, NEW d, DateOf(y, m, d) # NoDate
  PROVE  ValidDate(DateOf(y, m, d))
<1> DEFINE good == m \in 1 .. 12 /\ d \in 1 .. DaysInMonth(y, m) /\ y \in 1 .. 9999
<1>1. DateOf(y, m, d) = IF good THEN <<y, m, d>> ELSE NoDate
  BY DEF DateOf
<1>2. ASSUME good PROVE ValidDate(<<y, m, d>>)
  <2> DEFINE t == <<y, m, d>>
  <2>1. t[1] = y /\ t[2] = m /\ t[3] = d /\ t = <<y, m, d>>
    OBVIOUS
  <2>2. m \in 1 .. 12 /\ d \in 1 .. DaysInMonth(y, m) /\ y \in 1 .. 9999
    BY <1>2
  <2> HIDE DEF t
  <2>3. ValidDate(t)
    BY <2>1, <2>2 DEF ValidDate
  <2> QED
    BY <2>3 DEF t
<1> HIDE DEF good
<1> QED
  BY <1>1, <1>2

WrittenOK(p) == p # NoParse => ValidDate(p.date)

LEMMA ParsedOK ==
  ASSUME NEW y, NEW m, NEW d, NEW length
  PROVE  WrittenOK(Parsed(DateOf(y, m, d), length))
<1> DEFINE date == DateOf(y, m, d)
<1>1. date # NoDate => ValidDate(date)
  BY DateOfValid
<1> HIDE DEF date
<1>2. Parsed(date, length) # NoParse => date # NoDate /\ Parsed(date, length).date = date
  BY DEF Parsed
<1>3. WrittenOK(Parsed(date, length))
  BY <1>1, <1>2 DEF WrittenOK
<1> QED
  BY <1>3 DEF date

LEMMA WrittenAtOK ==
  ASSUME NEW words, NEW i
  PROVE  WrittenOK(WrittenAt(words, i))
<1>0. WrittenOK(NoParse)
  BY DEF WrittenOK
<1>a. \A y, m, d, l : WrittenOK(Parsed(DateOf(y, m, d), l))
  BY ParsedOK
<1>1. WrittenOK(MonthFirst(words, i, 2000))
  <2> DEFINE n == NumberAt(words, i + 1)
             comma == IF WordOr(words, i + 2) = "," THEN 1 ELSE 0
             year == NumberAt(words, i + 2 + comma)
             month == MonthAt(words, i)
             long == 3 + comma
             a == Parsed(DateOf(year, month, n), long)
             b == Parsed(DateOf(2000, month, n), 2)
             c == Parsed(DateOf(n, month, 1), 2)
  <2>2. MonthFirst(words, i, 2000) = IF n \in 1 .. 31 THEN IF year >= 1000 THEN a ELSE b
                                     ELSE IF n >= 1000 THEN c ELSE NoParse
    BY DEF MonthFirst
  <2> HIDE DEF n, comma, year, month, long
  <2>1. WrittenOK(a) /\ WrittenOK(b) /\ WrittenOK(c)
    BY <1>a
  <2> HIDE DEF a, b, c
  <2> QED
    BY <1>0, <2>1, <2>2
<1>2. WrittenOK(DayFirst(words, i, 2000))
  <2> DEFINE skip == IF WordOr(words, i + 1) = "of" THEN 1 ELSE 0
             month == MonthAt(words, i + 1 + skip)
             year == NumberAt(words, i + 2 + skip)
             a == Parsed(DateOf(year, month, NumberAt(words, i)), 3 + skip)
             b == Parsed(DateOf(2000, month, NumberAt(words, i)), 2 + skip)
  <2>1. WrittenOK(a) /\ WrittenOK(b)
    BY <1>a
  <2>2. DayFirst(words, i, 2000) = IF NumberAt(words, i) \notin 1 .. 31 \/ month = 0 THEN NoParse
                                   ELSE IF year >= 1000 THEN a ELSE b
    BY DEF DayFirst
  <2> HIDE DEF skip, month, year, a, b
  <2> QED
    BY <1>0, <2>1, <2>2
<1> QED
  BY <1>0, <1>1, <1>2 DEF WrittenAt, ParseTextualDate

DatesOK(dates) == IsList(dates) /\ \A k \in DOMAIN dates : ValidDate(dates[k].date)

LEMMA DatesConcat ==
  ASSUME NEW a, DatesOK(a), NEW b, DatesOK(b)
  PROVE  DatesOK(a \o b)
<1>1. IsList(a) /\ IsList(b)
  BY DEF DatesOK
<1>2. IsList(a \o b) /\ ToSet(a \o b) = ToSet(a) \cup ToSet(b)
  BY <1>1, ConcatLists
<1>3. ASSUME NEW k \in DOMAIN (a \o b) PROVE ValidDate((a \o b)[k].date)
  <2>1. (a \o b)[k] \in ToSet(a) \cup ToSet(b)
    BY <1>2 DEF ToSet
  <2> QED
    BY <2>1 DEF DatesOK, ToSet
<1> QED
  BY <1>2, <1>3 DEF DatesOK

LEMMA DateTokensOK ==
  ASSUME NEW raw, IsList(raw), NEW at, NEW seg
  PROVE  DatesOK(DateTokens(raw, at, seg))
<1> DEFINE P == {k \in DOMAIN raw : raw[k].kind = "Date" /\ ParseDateToken(raw[k].word) # NoDate}
           spans == Positions(raw, P)
           t == DateTokens(raw, at, seg)
           m == Len(raw)
<1>1. m \in Nat /\ DOMAIN raw = 1 .. m
  BY ListDomain
<1> HIDE DEF m
<1>2. IsList(spans) /\ \A k \in DOMAIN spans : spans[k] \in P \cap (1 .. m)
  BY <1>1, PositionsAre
<1>3. /\ t = [n \in DOMAIN spans |-> t[n]]
      /\ \A n \in DOMAIN spans : t[n].date = ParseDateToken(raw[spans[n]].word)
  BY DEF DateTokens, DateSpan
<1>a. \A k \in P : ParseDateToken(raw[k].word) # NoDate
  OBVIOUS
<1> HIDE DEF spans, P, t
<1>4. ASSUME NEW g, ParseDateToken(g) # NoDate PROVE ValidDate(ParseDateToken(g))
  <2>1. CASE g \in DOMAIN IsoDates
    BY <2>1, <1>4, DateOfValid DEF ParseDateToken
  <2>2. CASE g \notin DOMAIN IsoDates /\ g \in DOMAIN SlashDates
    <3> DEFINE p == SlashDates[g]
               year == ExpandYear(p[3])
               a == DateOf(year, p[1], p[2])
               b == DateOf(year, p[2], p[1])
    <3>1. ParseDateToken(g) = SlashDate(p)
      BY <2>2 DEF ParseDateToken
    <3>2. SlashDate(p) \in {a, b, NoDate}
      BY DEF SlashDate
    <3>3. (a # NoDate => ValidDate(a)) /\ (b # NoDate => ValidDate(b))
      BY DateOfValid
    <3> HIDE DEF p, year, a, b
    <3> QED
      BY <3>1, <3>2, <3>3, <1>4
  <2>3. CASE g \notin DOMAIN IsoDates /\ g \notin DOMAIN SlashDates
    BY <2>3, <1>4 DEF ParseDateToken
  <2> QED
    BY <2>1, <2>2, <2>3
<1>5. ASSUME NEW n \in DOMAIN spans PROVE ValidDate(t[n].date)
  <2>1. ParseDateToken(raw[spans[n]].word) # NoDate
    BY <1>2, <1>a
  <2> QED
    BY <1>3, <1>4, <2>1
<1>6. IsList(t) /\ DOMAIN t = DOMAIN spans
  BY <1>2, <1>3, MadeFrom
<1> QED
  BY <1>5, <1>6 DEF DatesOK, t

WrittenStep(words, at, seg, s, i) ==
  IF i < s.next \/ WrittenAt(words, i) = NoParse THEN s
  ELSE [spans |-> Append(s.spans, DateSpan(at + i, seg, WrittenAt(words, i).date)),
        next |-> i + WrittenAt(words, i).length]
WrittenGood(words, at, seg, s) == DatesOK(s.spans)
WrittenLoop == INSTANCE Folding WITH Step <- WrittenStep, Good <- WrittenGood

LEMMA TextualDatesOK ==
  ASSUME NEW words, IsList(words), NEW at, NEW seg
  PROVE  DatesOK(TextualDates(words, at, seg))
<1> DEFINE n == Len(words)
           seq == [i \in DOMAIN words |-> i]
           base == [spans |-> <<>>, next |-> 1]
<1>1. n \in Nat /\ DOMAIN seq = 1 .. n
  BY ListDomain
<1>2. TextualDates(words, at, seg) =
        FoldLeft(LAMBDA s, i :
             IF i < s.next \/ WrittenAt(words, i) = NoParse THEN s
             ELSE [spans |-> Append(s.spans, DateSpan(at + i, seg, WrittenAt(words, i).date)),
                   next |-> i + WrittenAt(words, i).length], base, seq).spans
  BY DEF TextualDates
<1>3. DatesOK(base.spans)
  <2>1. base.spans = <<>> /\ DOMAIN <<>> = {}
    OBVIOUS
  <2> QED
    BY <2>1, EmptyIsList DEF DatesOK
<1> HIDE DEF base, seq
<1>4. TextualDates(words, at, seg) = WrittenLoop!Fold(words, at, seg, base, seq).spans
  BY <1>2 DEF WrittenLoop!Fold, FoldLeft, MapThenFoldSet,
         Max, WrittenLoop!Greatest, WrittenStep
<1>5. WrittenGood(words, at, seg, base)
  BY <1>3 DEF WrittenGood
<1>6. ASSUME NEW i \in 1 .. n, NEW acc, WrittenGood(words, at, seg, acc)
      PROVE  WrittenGood(words, at, seg, WrittenStep(words, at, seg, acc, seq[i]))
  <2> DEFINE j == seq[i]
             w == WrittenAt(words, j)
             x == DateSpan(at + j, seg, w.date)
             one == <<x>>
  <2>1. CASE j < acc.next \/ w = NoParse
    BY <2>1, <1>6 DEF WrittenStep
  <2>2. CASE ~(j < acc.next \/ w = NoParse)
    <3>1. ValidDate(w.date)
      BY <2>2, WrittenAtOK DEF WrittenOK
    <3>2. x.date = w.date
      BY DEF DateSpan
    <3>3. WrittenStep(words, at, seg, acc, j).spans = Append(acc.spans, x)
      BY <2>2 DEF WrittenStep
    <3> HIDE DEF x, w, j
    <3>4. IsList(acc.spans) /\ \A k \in DOMAIN acc.spans : ValidDate(acc.spans[k].date)
      BY <1>6 DEF WrittenGood, DatesOK
    <3> DEFINE s == acc.spans
               u == Append(s, x)
    <3>a. IsList(s) /\ \A k \in DOMAIN s : ValidDate(s[k].date)
      BY <3>4
    <3> HIDE DEF s
    <3>5. IsList(u) /\ ToSet(u) = ToSet(s) \cup {x}
      BY <3>a, AppendLists
    <3>6. ASSUME NEW k \in DOMAIN u PROVE ValidDate(u[k].date)
      <4>1. u[k] \in ToSet(s) \cup {x}
        BY <3>5 DEF ToSet
      <4> QED
        BY <4>1, <3>1, <3>2, <3>a DEF ToSet
    <3>7. DatesOK(u)
      BY <3>5, <3>6 DEF DatesOK
    <3> QED
      BY <3>3, <3>7 DEF WrittenGood, u, s, j
  <2> QED
    BY <2>1, <2>2
<1> HIDE DEF n
<1>7. WrittenGood(words, at, seg, WrittenLoop!Fold(words, at, seg, base, seq))
  BY <1>1, <1>5, <1>6, WrittenLoop!FoldKeeps
<1> QED
  BY <1>4, <1>7 DEF WrittenGood

ReferenceOK(date) == date = NoDate \/ ValidDate(date)

LEMMA ReferenceStaysOK ==
  ASSUME NEW known, ReferenceOK(known), NEW dates, DatesOK(dates), NEW words, NEW at, NEW keyWords
  PROVE  ReferenceOK(Reference(known, dates, words, at, keyWords))
<1> DEFINE said == {k \in DOMAIN dates : SaysToday(words, dates[k].token - at, keyWords)}
           m == Len(dates)
<1>1. m \in Nat /\ DOMAIN dates = 1 .. m
  BY ListDomain DEF DatesOK
<1>2. said \in SUBSET Int /\ (\A x \in said : x <= m) /\ said \subseteq DOMAIN dates
  BY <1>1
<1>3. Reference(known, dates, words, at, keyWords) =
        IF known # NoDate \/ said = {} THEN known ELSE dates[Max(said)].date
  BY DEF Reference
<1> HIDE DEF said, m
<1>4. CASE known # NoDate \/ said = {}
  BY <1>3, <1>4
<1>5. CASE known = NoDate /\ said # {}
  <2>1. Max(said) \in DOMAIN dates
    <3>1. m \in Int /\ said # {}
      BY <1>1, <1>5
    <3>2. Max(said) \in said
      BY <1>2, <3>1, MaxOf
    <3> QED
      BY <1>2, <3>2
  <2> QED
    BY <1>3, <1>5, <2>1 DEF DatesOK, ReferenceOK
<1> QED
  BY <1>4, <1>5

-----------------------------------------------------------------------------
(* The months of the calendar, and the days of an era.                     *)

March(m) == IF m > 2 THEN m - 3 ELSE m + 9
DayOfMarchYear(m, n) == (153 * March(m) + 2) \div 5 + n - 1
MarchYear(y, m) == IF m <= 2 THEN y - 1 ELSE y
YearDays(y) == 365 * y + y \div 4 - y \div 100 + y \div 400

LEMMA MonthLength ==
  ASSUME NEW y \in Int, NEW m \in 1 .. 12
  PROVE  DaysInMonth(y, m) = IF m = 2 THEN IF IsLeap(y) THEN 29 ELSE 28
                             ELSE IF m = 4 \/ m = 6 \/ m = 9 \/ m = 11 THEN 30 ELSE 31
<1>1. CASE m = 2
  BY <1>1 DEF DaysInMonth
<1>2. CASE m \in {4, 6, 9, 11}
  BY <1>2 DEF DaysInMonth
<1>3. CASE m \in {1, 3, 5, 7, 8, 10, 12}
  BY <1>3 DEF DaysInMonth
<1> QED
  BY <1>1, <1>2, <1>3

LEMMA EraParts ==
  ASSUME NEW era \in Int, NEW yoe \in 0 .. 399
  PROVE  /\ (400 * era + yoe) \div 4 = 100 * era + yoe \div 4
         /\ (400 * era + yoe) \div 100 = 4 * era + yoe \div 100
         /\ (400 * era + yoe) \div 400 = era
<1>1. (400 * era + yoe) \div 4 = 100 * era + yoe \div 4
  BY SMT
<1>2. (400 * era + yoe) \div 100 = 4 * era + yoe \div 100
  BY SMT
<1>3. (400 * era + yoe) \div 400 = era
  BY SMT
<1> QED
  BY <1>1, <1>2, <1>3

LEMMA Days ==
  ASSUME NEW y \in Int, NEW m \in 1 .. 12, NEW n \in Int
  PROVE  DaysFromEpoch(<<y, m, n>>) = YearDays(MarchYear(y, m)) + DayOfMarchYear(m, n) - 719468
<1> DEFINE z == MarchYear(y, m)
           era == z \div 400
           yoe == z - era * 400
           doy == DayOfMarchYear(m, n)
<1>0. z \in Int /\ doy \in Int
  BY DEF MarchYear, DayOfMarchYear, March
<1>a. DaysFromEpoch(<<y, m, n>>) = era * 146097 + (yoe * 365 + yoe \div 4 - yoe \div 100 + doy) - 719468
  <2>1. <<y, m, n>>[1] = y /\ <<y, m, n>>[2] = m /\ <<y, m, n>>[3] = n
    OBVIOUS
  <2> QED
    BY <2>1, SMT DEF DaysFromEpoch, MarchYear, DayOfMarchYear, March
<1> HIDE DEF z, doy
<1>1. era \in Int /\ yoe \in 0 .. 399 /\ z = 400 * era + yoe
  BY <1>0, SMT
<1> HIDE DEF era, yoe
<1>2. z \div 4 = 100 * era + yoe \div 4 /\ z \div 100 = 4 * era + yoe \div 100 /\ z \div 400 = era
  BY <1>1, EraParts
<1>3. YearDays(z) = 365 * z + z \div 4 - z \div 100 + z \div 400
  BY DEF YearDays
<1>4. yoe \div 4 \in Int /\ yoe \div 100 \in Int
  BY <1>1
<1> DEFINE p == yoe \div 4
           q == yoe \div 100
<1> HIDE DEF p, q
<1>5. YearDays(z) = era * 146097 + (yoe * 365 + p - q)
  <2>1. z \div 4 = 100 * era + p /\ z \div 100 = 4 * era + q /\ z \div 400 = era /\ p \in Int /\ q \in Int
    BY <1>2, <1>4 DEF p, q
  <2>2. YearDays(z) = 365 * (400 * era + yoe) + (100 * era + p) - (4 * era + q) + era
    BY <1>1, <1>3, <2>1
  <2> QED
    BY <1>1, <2>1, <2>2, SMT
<1>6. p \in Int /\ q \in Int /\ p = yoe \div 4 /\ q = yoe \div 100
  BY <1>4 DEF p, q
<1>7. DaysFromEpoch(<<y, m, n>>) = era * 146097 + (yoe * 365 + p - q + doy) - 719468
  BY <1>a, <1>6
<1>8. DaysFromEpoch(<<y, m, n>>) = YearDays(z) + doy - 719468
  BY <1>0, <1>1, <1>5, <1>6, <1>7, SMT
<1> QED
  BY <1>8 DEF z, doy

-----------------------------------------------------------------------------
(* The steps of the calendar: month after month, and year after year.      *)

LEMMA MonthAtMost ==
  ASSUME NEW y \in Int, NEW m \in 1 .. 12
  PROVE  DaysInMonth(y, m) \in 28 .. 31
  BY MonthLength

LEMMA LeapStep ==
  ASSUME NEW y \in Int
  PROVE  YearDays(y) = YearDays(y - 1) + 365 + (IF IsLeap(y) THEN 1 ELSE 0)
<1> DEFINE a == y \div 4
           b == y \div 100
           c == y \div 400
           a1 == (y - 1) \div 4
           b1 == (y - 1) \div 100
           c1 == (y - 1) \div 400
<1>1. a1 = a - (IF y % 4 = 0 THEN 1 ELSE 0) /\ a \in Int
  BY SMT
<1>2. b1 = b - (IF y % 100 = 0 THEN 1 ELSE 0) /\ b \in Int
  BY SMT
<1>3. c1 = c - (IF y % 400 = 0 THEN 1 ELSE 0) /\ c \in Int
  BY SMT
<1>4. (y % 400 = 0 => y % 100 = 0) /\ (y % 100 = 0 => y % 4 = 0)
  BY SMT
<1>5. YearDays(y) = 365 * y + a - b + c
  BY DEF YearDays
<1>6. YearDays(y - 1) = 365 * (y - 1) + a1 - b1 + c1
  BY DEF YearDays
<1> HIDE DEF a, b, c, a1, b1, c1
<1>7. IsLeap(y) <=> (y % 4 = 0 /\ y % 100 # 0) \/ y % 400 = 0
  BY DEF IsLeap
<1> DEFINE p == y % 4 = 0
           q == y % 100 = 0
           r == y % 400 = 0
<1> HIDE DEF p, q, r
<1>8. a1 = a - (IF p THEN 1 ELSE 0) /\ b1 = b - (IF q THEN 1 ELSE 0) /\ c1 = c - (IF r THEN 1 ELSE 0)
  BY <1>1, <1>2, <1>3 DEF p, q, r
<1>9. (r => q) /\ (q => p) /\ (IsLeap(y) <=> (p /\ ~q) \/ r)
  BY <1>4, <1>7 DEF p, q, r
<1>10. a \in Int /\ b \in Int /\ c \in Int
  BY <1>1, <1>2, <1>3
<1> QED
  BY <1>5, <1>6, <1>8, <1>9, <1>10

LEMMA DayAfterNext ==
  ASSUME NEW y \in Int, NEW m \in 1 .. 12, NEW n \in Int, 1 <= n, n <= DaysInMonth(y, m)
  PROVE  DaysFromEpoch(DayAfter(<<y, m, n>>)) = DaysFromEpoch(<<y, m, n>>) + 1
<1> DEFINE d == <<y, m, n>>
           dim == DaysInMonth(y, m)
<1>0. y \in Int /\ dim \in 28 .. 31 /\ n \in Int /\ n \in 1 .. dim
  BY MonthAtMost
<1>1. DayAfter(d) = IF n < dim THEN <<y, m, n + 1>> ELSE IF m < 12 THEN <<y, m + 1, 1>> ELSE <<y + 1, 1, 1>>
  BY DEF DayAfter
<1>2. DaysFromEpoch(d) = YearDays(MarchYear(y, m)) + DayOfMarchYear(m, n) - 719468
  BY <1>0, Days
<1>a. dim = IF m = 2 THEN IF IsLeap(y) THEN 29 ELSE 28 ELSE IF m = 4 \/ m = 6 \/ m = 9 \/ m = 11 THEN 30 ELSE 31
  BY <1>0, MonthLength
<1>y. \A k \in Int : YearDays(k) \in Int
  BY DEF YearDays
<1> HIDE DEF d, dim
<1>3. CASE n < dim
  <2>1. DayAfter(d) = <<y, m, n + 1>>
    BY <1>1, <1>3
  <2>2. DaysFromEpoch(<<y, m, n + 1>>) = YearDays(MarchYear(y, m)) + DayOfMarchYear(m, n + 1) - 719468
    BY <1>0, Days
  <2>3. DayOfMarchYear(m, n + 1) = DayOfMarchYear(m, n) + 1 /\ DayOfMarchYear(m, n) \in Int
    BY <1>0 DEF DayOfMarchYear, March
  <2>4. YearDays(MarchYear(y, m)) \in Int
    BY <1>0, <1>y DEF MarchYear
  <2>5. DaysFromEpoch(DayAfter(d)) = DaysFromEpoch(d) + 1
    BY <1>2, <2>1, <2>2, <2>3, <2>4
  <2> QED
    BY <2>5 DEF d
<1>4. CASE ~(n < dim) /\ m < 12
  <2>0. n = dim
    BY <1>0, <1>4
  <2>1. DayAfter(d) = <<y, m + 1, 1>>
    BY <1>1, <1>4
  <2>2. DaysFromEpoch(<<y, m + 1, 1>>) = YearDays(MarchYear(y, m + 1)) + DayOfMarchYear(m + 1, 1) - 719468
    <3>1. m + 1 \in 1 .. 12 /\ 1 \in Int
      BY <1>4
    <3> HIDE DEF d
    <3> QED
      BY <1>0, <3>1, Days
  <2>3. YearDays(MarchYear(y, m + 1)) + DayOfMarchYear(m + 1, 1) = YearDays(MarchYear(y, m)) + DayOfMarchYear(m, n) + 1
    <3>1. CASE m = 2
      <4>1. YearDays(y) = YearDays(y - 1) + 365 + (IF IsLeap(y) THEN 1 ELSE 0) /\ YearDays(y - 1) \in Int
        BY <1>0, <1>y, LeapStep
      <4>2. MarchYear(y, m + 1) = y /\ MarchYear(y, m) = y - 1
        BY <3>1 DEF MarchYear
      <4>3. DayOfMarchYear(m + 1, 1) = 0 /\ DayOfMarchYear(m, n) = 336 + n
        BY <1>0, <3>1 DEF DayOfMarchYear, March
      <4>4. n = IF IsLeap(y) THEN 29 ELSE 28
        BY <1>a, <2>0, <3>1
      <4> QED
        BY <4>1, <4>2, <4>3, <4>4
    <3>2. CASE m # 2
      <4>1. MarchYear(y, m + 1) = MarchYear(y, m) /\ MarchYear(y, m) \in Int
        BY <1>0, <1>4, <3>2 DEF MarchYear
      <4>2. DayOfMarchYear(m + 1, 1) = DayOfMarchYear(m, n) + 1 /\ DayOfMarchYear(m, n) \in Int
        BY <1>0, <1>a, <1>4, <2>0, <3>2, SMT DEF DayOfMarchYear, March
      <4> QED
        BY <4>1, <4>2, <1>y
    <3> QED
      BY <3>1, <3>2
  <2>4. YearDays(MarchYear(y, m)) \in Int /\ DayOfMarchYear(m, n) \in Int
        /\ YearDays(MarchYear(y, m + 1)) \in Int /\ DayOfMarchYear(m + 1, 1) \in Int
    BY <1>0, <1>y DEF MarchYear, DayOfMarchYear, March
  <2>5. DaysFromEpoch(DayAfter(d)) = DaysFromEpoch(d) + 1
    BY <1>2, <2>1, <2>2, <2>3, <2>4
  <2> QED
    BY <2>5 DEF d
<1>5. CASE ~(n < dim) /\ ~(m < 12)
  <2>0. n = 31 /\ m = 12
    BY <1>0, <1>a, <1>5
  <2>1. DayAfter(d) = <<y + 1, 1, 1>>
    BY <1>1, <1>5
  <2>2. DaysFromEpoch(<<y + 1, 1, 1>>) = YearDays(MarchYear(y + 1, 1)) + DayOfMarchYear(1, 1) - 719468
    <3>1. y + 1 \in Int /\ 1 \in 1 .. 12 /\ 1 \in Int
      BY <1>0
    <3> QED
      BY <3>1, Days
  <2>3. MarchYear(y + 1, 1) = y /\ MarchYear(y, m) = y /\ DayOfMarchYear(1, 1) = 306 /\ DayOfMarchYear(m, n) = 305
    BY <1>0, <2>0 DEF MarchYear, DayOfMarchYear, March
  <2>4. YearDays(y) \in Int
    BY <1>0, <1>y
  <2>5. DaysFromEpoch(DayAfter(d)) = DaysFromEpoch(d) + 1
    BY <1>2, <2>1, <2>2, <2>3, <2>4
  <2> QED
    BY <2>5 DEF d
<1> QED
  BY <1>3, <1>4, <1>5

LEMMA MonthBack ==
  ASSUME NEW m \in 1 .. 12, NEW n \in 1 .. 31,
         m = 2 => n <= 29, m = 4 \/ m = 6 \/ m = 9 \/ m = 11 => n <= 30
  PROVE  /\ MonthFromMarch(DayOfMarchYear(m, n)) = March(m)
         /\ DayOfMarchYear(m, n) \in 0 .. 365
         /\ DayOfMarchYear(m, n) = 365 => m = 2 /\ n = 29
  BY SMT DEF DayOfMarchYear, March, MonthFromMarch

LEMMA YearBack ==
  ASSUME NEW c \in 0 .. 3, NEW q \in 0 .. 24, NEW r \in 0 .. 3, NEW doy \in 0 .. 365,
         doy = 365 => r = 3 /\ (q < 24 \/ c = 3)
  PROVE  YearOfEra(36524 * c + 1461 * q + 365 * r + doy) = 100 * c + 4 * q + r
  BY SMT DEF YearOfEra

-----------------------------------------------------------------------------
(* from_days takes back what days_from_civil gave.                         *)

EraDays == {x \in Int : 0 <= x /\ x <= 146096}

LEMMA InEraDays ==
  ASSUME NEW x \in Int, 0 <= x, x <= 146096
  PROVE  x \in EraDays
  BY SMT DEF EraDays

LEMMA EraDaysAre ==
  ASSUME NEW x \in EraDays
  PROVE  x \in Int /\ 0 <= x /\ x <= 146096
  BY SMT DEF EraDays

(* The day of an era on which a year that begins in March begins. *)
EraDay(yoe) == yoe * 365 + yoe \div 4 - yoe \div 100

EraPoint(u, v) == /\ YearOfEra(EraDay(u) + v) = u
                  /\ EraDay(u) \in Nat
                  /\ EraDay(u) + v \in EraDays

InEraYear(u, v) == u \in 0 .. 399 /\ v \in 0 .. 365 /\ (v = 365 => IsLeap(u + 1))

LEMMA YearOfEraBack ==
  ASSUME NEW yoe, NEW doy, InEraYear(yoe, doy)
  PROVE  EraPoint(yoe, doy)
<1> DEFINE c == yoe \div 100
           s == yoe % 100
           q == s \div 4
           r == s % 4
<1>0. yoe \in 0 .. 399 /\ doy \in 0 .. 365 /\ (doy = 365 => IsLeap(yoe + 1))
  BY SMT DEF InEraYear
<1>1. c \in 0 .. 3 /\ s \in 0 .. 99 /\ yoe = 100 * c + s
  BY <1>0, SMT
<1> HIDE DEF c, s
<1>2. q \in 0 .. 24 /\ r \in 0 .. 3 /\ s = 4 * q + r
  BY <1>1, SMT
<1> HIDE DEF q, r
<1>3. yoe = 100 * c + 4 * q + r
  BY <1>0, <1>1, <1>2
<1>4. yoe \div 4 = 25 * c + q /\ yoe \div 100 = c
  BY <1>0, <1>1, <1>2, <1>3, SMT
<1>5. EraDay(yoe) = 36524 * c + 1461 * q + 365 * r
  BY <1>0, <1>1, <1>2, <1>3, <1>4, SMT DEF EraDay
<1>6. doy = 365 => r = 3 /\ (q < 24 \/ c = 3)
  <2>1. SUFFICES ASSUME doy = 365 PROVE r = 3 /\ (q < 24 \/ c = 3)
    OBVIOUS
  <2>2. ((yoe + 1) % 4 = 0 /\ (yoe + 1) % 100 # 0) \/ (yoe + 1) % 400 = 0
    BY <1>0, <2>1 DEF IsLeap
  <2>3. (yoe + 1) % 4 = (r + 1) % 4
    BY <1>0, <1>1, <1>2, <1>3, SMT
  <2>4. q = 24 /\ r = 3 => (yoe + 1) % 100 = 0
    BY <1>0, <1>1, <1>2, <1>3, SMT
  <2>5. (yoe + 1) % 400 = 0 => yoe = 399
    BY <1>0, SMT
  <2>6. yoe = 399 => c = 3 /\ r = 3
    BY <1>0, <1>1, <1>2, <1>3, SMT
  <2>7. (r + 1) % 4 = 0 => r = 3
    BY <1>2, SMT
  <2> QED
    BY <2>2, <2>3, <2>4, <2>5, <2>6, <2>7, <1>1, <1>2
<1>7. YearOfEra(36524 * c + 1461 * q + 365 * r + doy) = 100 * c + 4 * q + r
  BY <1>0, <1>1, <1>2, <1>6, SMTT(60) DEF YearOfEra
<1> DEFINE e == 36524 * c + 1461 * q + 365 * r
<1>8. YearOfEra(e + doy) = yoe
  BY <1>3, <1>7, SMT
<1>9. e \in Nat
  BY <1>0, <1>1, <1>2, SMT
<1>10. e + doy <= 146096
  <2>1. c \in Int /\ q \in Int /\ r \in Int /\ doy \in Int /\ c <= 3 /\ q <= 24 /\ r <= 3 /\ doy <= 365
    BY <1>0, <1>1, <1>2, SMT
  <2>2. 36524 * c <= 109572
    BY <2>1, SMT
  <2>3. 1461 * q <= 35064
    BY <2>1, SMT
  <2>4. 365 * r <= 1095
    BY <2>1, SMT
  <2> QED
    BY <2>1, <2>2, <2>3, <2>4, SMT
<1>11. EraDay(yoe) = e
  BY <1>5, SMT
<1> HIDE DEF e
<1>12. e + doy \in EraDays
  <2> DEFINE x == e + doy
  <2>1. x \in Int /\ 0 <= x
    BY <1>0, <1>9, SMT
  <2>2. x <= 146096
    BY <1>0, <1>10, SMT
  <2> HIDE DEF x
  <2>3. x \in EraDays
    BY <2>1, <2>2, InEraDays
  <2> QED
    BY <2>3 DEF x
<1>13. YearOfEra(EraDay(yoe) + doy) = yoe
  BY <1>8, <1>11, SMT
<1>14. EraDay(yoe) + doy \in EraDays
  BY <1>11, <1>12, SMT
<1> QED
  BY <1>0, <1>9, <1>11, <1>13, <1>14, SMT DEF EraPoint

InMonth(m, n) == (m = 2 => n <= 29) /\ (m = 4 \/ m = 6 \/ m = 9 \/ m = 11 => n <= 30)
MonthPoint(m, n) == /\ MonthFromMarch(DayOfMarchYear(m, n)) = March(m)
                    /\ DayOfMarchYear(m, n) \in 0 .. 365
                    /\ DayOfMarchYear(m, n) = 365 => m = 2 /\ n = 29

LEMMA MonthPoints ==
  ASSUME NEW m \in 1 .. 12, NEW n \in 1 .. 31, InMonth(m, n)
  PROVE  MonthPoint(m, n)
  BY SMT DEF MonthPoint, InMonth, DayOfMarchYear, March, MonthFromMarch

LEMMA SameInEra ==
  ASSUME NEW e \in Int, NEW u \in Int
  PROVE  /\ (400 * e + u) % 4 = u % 4
         /\ (400 * e + u) % 100 = u % 100
         /\ (400 * e + u) % 400 = u % 400
<1>1. (400 * e + u) % 4 = u % 4
  BY SMT
<1>2. (400 * e + u) % 100 = u % 100
  BY SMT
<1>3. (400 * e + u) % 400 = u % 400
  BY SMT
<1> QED
  BY <1>1, <1>2, <1>3, SMT

LEMMA YearIn ==
  ASSUME NEW y \in Int, 1 <= y, y <= 9999
  PROVE  y \in 1 .. 9999
  BY SMT

LEMMA FromDaysBack ==
  ASSUME NEW y \in Int, 1 <= y, y <= 9999, NEW m \in 1 .. 12,
         NEW n \in Int, 1 <= n, n <= DaysInMonth(y, m)
  PROVE  FromDays(DaysFromEpoch(<<y, m, n>>)) = <<y, m, n>>
<1> DEFINE z == MarchYear(y, m)
           doy == DayOfMarchYear(m, n)
           era == z \div 400
           yoe == z - era * 400
           mp == March(m)
           days == DaysFromEpoch(<<y, m, n>>)
<1>0. y \in Int /\ z \in Int /\ n \in Int /\ n \in 1 .. 31 /\ (m <= 2 => z + 1 = y) /\ (m > 2 => z = y)
  <2>1. DaysInMonth(y, m) \in 28 .. 31
    BY MonthAtMost
  <2> HIDE DEF doy, days, mp
  <2> QED
    BY <2>1 DEF MarchYear
<1>1. days = YearDays(z) + doy - 719468
  BY <1>0, Days, SMT
<1>2. /\ m = 2 => n <= 29
      /\ m = 4 \/ m = 6 \/ m = 9 \/ m = 11 => n <= 30
      /\ m = 2 /\ n = 29 => IsLeap(y)
  <2>1. y \in Int
    BY <1>0
  <2>2. DaysInMonth(y, m) = IF m = 2 THEN IF IsLeap(y) THEN 29 ELSE 28
                             ELSE IF m = 4 \/ m = 6 \/ m = 9 \/ m = 11 THEN 30 ELSE 31
    BY <2>1, MonthLength
  <2>3. n <= DaysInMonth(y, m) /\ DaysInMonth(y, m) \in 28 .. 31
    BY <2>1, MonthAtMost
  <2> QED
    BY <1>0, <2>2, <2>3
<1>3. MonthFromMarch(doy) = mp /\ doy \in 0 .. 365 /\ (doy = 365 => m = 2 /\ n = 29)
  <2>1. InMonth(m, n)
    BY <1>2, SMT DEF InMonth
  <2>2. MonthPoint(m, n)
    BY <1>0, <2>1, MonthPoints, SMT
  <2> QED
    BY <2>2, SMT DEF MonthPoint
<1>4. doy = (153 * mp + 2) \div 5 + n - 1 /\ mp \in 0 .. 11 /\ (mp < 10 => m > 2 /\ mp = m - 3) /\ (mp >= 10 => m <= 2 /\ mp = m + 9)
  <2>1. doy = (153 * mp + 2) \div 5 + n - 1
    BY DEF DayOfMarchYear
  <2>2. mp \in 0 .. 11 /\ (mp < 10 => m > 2 /\ mp = m - 3) /\ (mp >= 10 => m <= 2 /\ mp = m + 9)
    BY DEF March
  <2> QED
    BY <2>1, <2>2
<1> HIDE DEF doy, mp, z, days
<1>5. era \in Int /\ yoe \in 0 .. 399 /\ z = 400 * era + yoe
  BY <1>0, SMT
<1> HIDE DEF era, yoe
<1>6. z \div 4 = 100 * era + yoe \div 4 /\ z \div 100 = 4 * era + yoe \div 100 /\ z \div 400 = era
  BY <1>5, EraParts
<1> DEFINE p == yoe \div 4
           q == yoe \div 100
           doe == EraDay(yoe) + doy
<1>7. p \in Int /\ q \in Int /\ EraDay(yoe) = yoe * 365 + p - q
  BY <1>5 DEF EraDay
<1>8. YearDays(z) = 146097 * era + EraDay(yoe)
  <2>1. z \div 4 = 100 * era + p /\ z \div 100 = 4 * era + q /\ z \div 400 = era
    BY <1>6
  <2>2. YearDays(z) = 365 * z + z \div 4 - z \div 100 + z \div 400
    BY DEF YearDays
  <2> HIDE DEF p, q
  <2>3. YearDays(z) = 365 * (400 * era + yoe) + (100 * era + p) - (4 * era + q) + era
    BY <2>1, <2>2, <1>5
  <2> QED
    BY <2>3, <1>5, <1>7, SMT
<1>9. doy = 365 => IsLeap(yoe + 1)
  <2>1. SUFFICES ASSUME doy = 365 PROVE IsLeap(yoe + 1)
    OBVIOUS
  <2>2. m = 2 /\ n = 29 /\ IsLeap(y) /\ y = z + 1
    BY <2>1, <1>0, <1>2, <1>3
  <2>3. y = 400 * era + (yoe + 1)
    BY <2>2, <1>0, <1>5, SMT
  <2>4. y % 4 = (yoe + 1) % 4 /\ y % 100 = (yoe + 1) % 100 /\ y % 400 = (yoe + 1) % 400
    <3> DEFINE u == yoe + 1
    <3>1. u \in Int /\ y = 400 * era + u
      BY <1>0, <1>5, <2>3, SMT
    <3> HIDE DEF u
    <3>2. y % 4 = u % 4 /\ y % 100 = u % 100 /\ y % 400 = u % 400
      BY <1>5, <3>1, SameInEra, SMT
    <3> QED
      BY <3>2, SMT DEF u
  <2> QED
    BY <2>2, <2>4, SMT DEF IsLeap
<1>9a. InEraYear(yoe, doy)
  BY <1>3, <1>5, <1>9, SMT DEF InEraYear
<1>10. YearOfEra(doe) = yoe /\ EraDay(yoe) \in Nat /\ doe \in EraDays
  <2>1. yoe \in 0 .. 399 /\ doy \in 0 .. 365
    BY <1>3, <1>5
  <2>2. EraPoint(yoe, doy)
    BY <1>9a, YearOfEraBack, SMT
  <2> QED
    BY <2>2, SMT DEF EraPoint
<1>11. doe - EraDay(yoe) = doy
  <2>1. doy \in Int /\ EraDay(yoe) \in Int
    BY <1>3, <1>10, SMT
  <2> QED
    BY <2>1, SMT
<1> HIDE DEF p, q
<1>12. DayOfYear(doe, yoe) = doy
  <2>1. DayOfYear(doe, yoe) = doe - (365 * yoe + yoe \div 4 - yoe \div 100)
    BY DEF DayOfYear
  <2>2. 365 * yoe + yoe \div 4 - yoe \div 100 = EraDay(yoe)
    BY <1>5 DEF EraDay
  <2> QED
    BY <2>1, <2>2, <1>11
<1>13. days + 719468 = 146097 * era + doe
  <2>1. YearDays(z) + doy = 146097 * era + doe
    <3>1. doy \in Int /\ EraDay(yoe) \in Int /\ era \in Int
      BY <1>3, <1>5, <1>10, SMT
    <3>2. doe = EraDay(yoe) + doy
      BY SMT
    <3> HIDE DEF doe
    <3> QED
      BY <3>1, <3>2, <1>8, SMT
  <2>2. doe \in Int
    BY <1>10, EraDaysAre
  <2>3. YearDays(z) + doy \in Int
    BY <2>1, <2>2, <1>5, SMT
  <2> HIDE DEF doe
  <2> DEFINE t == 146097 * era + doe
             u == YearDays(z)
  <2>3a. u \in Int /\ doy \in Int
    BY <1>3, <1>5, <1>8, <1>10, SMT
  <2>3b. u + doy = t
    BY <2>1, SMT
  <2>3c. days = u + doy - 719468
    BY <1>1, SMT
  <2> HIDE DEF u
  <2>4. days = t - 719468
    <3> HIDE DEF t
    <3> QED
      BY <2>3a, <2>3b, <2>3c, SMT
  <2>5. t \in Int
    BY <1>5, <2>2, SMT
  <2> HIDE DEF t
  <2>6. days + 719468 = t
    BY <2>4, <2>5, SMT
  <2> QED
    BY <2>6, SMT DEF t
<1> HIDE DEF doe
<1>14. (days + 719468) \div 146097 = era /\ (days + 719468) % 146097 = doe
  <2>1. doe \in Int /\ 0 <= doe /\ doe <= 146096
    BY <1>10, EraDaysAre
  <2> QED
    BY <1>13, <1>5, <2>1, SMT
<1>15. FromDays(days) = InEra(era, doe)
  BY <1>14, SMT DEF FromDays
<1>16. InEra(era, doe) = InYear(yoe + 400 * era, doy)
  BY <1>10, <1>12, SMT DEF InEra
<1>17. yoe + 400 * era = z
  BY <1>5
<1>18. InYear(z, doy) = Civil(z, mp, doy)
  BY <1>3 DEF InYear
<1>19. Civil(z, mp, doy) = DateOf(y, m, n)
  <2>1. doy - (153 * mp + 2) \div 5 + 1 = n
    BY <1>0, <1>4, SMT
  <2>2. (IF mp < 10 THEN z ELSE z + 1) = y /\ (IF mp < 10 THEN mp + 3 ELSE mp - 9) = m
    BY <1>0, <1>4
  <2> QED
    BY <2>1, <2>2 DEF Civil
<1>20. DateOf(y, m, n) = <<y, m, n>>
  <2> DEFINE good == m \in 1 .. 12 /\ n \in 1 .. DaysInMonth(y, m) /\ y \in 1 .. 9999
  <2>1. good
    <3> DEFINE l == DaysInMonth(y, m)
    <3>1. l \in 28 .. 31
      BY MonthAtMost, SMT
    <3>2. n <= l
      BY SMT
    <3> HIDE DEF l
    <3>3. n \in 1 .. l
      BY <3>1, <3>2, SMT
    <3>4. y \in 1 .. 9999
      BY YearIn, SMT
    <3> QED
      BY <3>3, <3>4, SMT DEF l
  <2>2. DateOf(y, m, n) = IF good THEN <<y, m, n>> ELSE NoDate
    BY DEF DateOf
  <2> HIDE DEF good
  <2> QED
    BY <2>1, <2>2, SMTT(30)
<1> QED
  BY <1>15, <1>16, <1>17, <1>18, <1>19, <1>20 DEF days

-----------------------------------------------------------------------------
(* Part three.  The index, and the invariant of the documents.             *)

(* What with_segment, with_facts and with_tokens add to an index.          *)

(* An index is a record of these fields, whatever they hold. *)
IndexNames ==
  {"fields", "segments", "tokens", "postings", "globalTf", "termTokens", "directiveTokens", "bigrams",
   "numbers", "dates", "durations", "reference", "paths", "keys", "lower", "offsets", "arrays", "plain"}
Shaped(ix) == DOMAIN ix = IndexNames
Same(a, b, names) == \A x \in names : a[x] = b[x]

(* What no step of push_segment touches. *)
OutsideSegments == {"fields", "offsets", "paths", "keys", "arrays", "plain"}

SegmentWritten(n, ix, segment, lower) ==
  /\ Shaped(n)
  /\ n.segments = Append(ix.segments, segment)
  /\ n.lower = ix.lower \o lower \o <<"\n">>
  /\ Same(n, ix, IndexNames \ {"segments", "lower", "bigrams"})

LEMMA WithSegmentIs ==
  ASSUME NEW ix, Shaped(ix), NEW segment, NEW lower, NEW pairs
  PROVE  SegmentWritten(WithSegment(ix, segment, lower, pairs), ix, segment, lower)
<1> DEFINE b == FoldLeft(LAMBDA bb, p : BagOf!BagAdd(bb, p), ix.bigrams, pairs)
           l == ix.lower \o lower \o <<"\n">>
           s == Append(ix.segments, segment)
           n == WithSegment(ix, segment, lower, pairs)
<1>1. n = [ix EXCEPT !.segments = s, !.lower = l, !.bigrams = b]
  BY DEF WithSegment
<1> HIDE DEF b, l, s, n
<1>2. Shaped(n) /\ n.segments = s /\ n.lower = l
  BY <1>1 DEF Shaped, IndexNames
<1>3. Same(n, ix, IndexNames \ {"segments", "lower", "bigrams"})
  BY <1>1 DEF Shaped, IndexNames, Same
<1> QED
  BY <1>2, <1>3 DEF l, s, n, SegmentWritten

FactsWritten(n, ix, seg, raw, words, at, keyWords, dates) ==
  /\ Shaped(n)
  /\ n.numbers = ix.numbers \o Numerals(raw, at, seg)
  /\ n.dates = ix.dates \o dates
  /\ n.durations = ix.durations \o Durations(raw, words, at, seg)
  /\ n.reference = Reference(ix.reference, dates, words, at, keyWords)
  /\ Same(n, ix, IndexNames \ {"numbers", "dates", "durations", "reference"})

LEMMA WithFactsIs ==
  ASSUME NEW ix, Shaped(ix), NEW seg, NEW raw, NEW words, NEW at, NEW keyWords, NEW dates
  PROVE  FactsWritten(WithFacts(ix, seg, raw, words, at, keyWords, dates),
                      ix, seg, raw, words, at, keyWords, dates)
<1> DEFINE a == ix.numbers \o Numerals(raw, at, seg)
           b == ix.dates \o dates
           c == ix.durations \o Durations(raw, words, at, seg)
           d == Reference(ix.reference, dates, words, at, keyWords)
           n == WithFacts(ix, seg, raw, words, at, keyWords, dates)
<1>1. n = [ix EXCEPT !.numbers = a, !.dates = b, !.durations = c, !.reference = d]
  BY DEF WithFacts
<1> HIDE DEF a, b, c, d, n
<1>2. Shaped(n) /\ n.numbers = a /\ n.dates = b /\ n.durations = c /\ n.reference = d
  BY <1>1 DEF Shaped, IndexNames
<1>3. Same(n, ix, IndexNames \ {"numbers", "dates", "durations", "reference"})
  BY <1>1 DEF Shaped, IndexNames, Same
<1> QED
  BY <1>2, <1>3 DEF a, b, c, d, n, FactsWritten

TokensWritten(n, ix, toks) ==
  /\ Shaped(n)
  /\ n.tokens = ix.tokens \o toks
  /\ Same(n, ix, IndexNames \ {"tokens", "termTokens", "directiveTokens", "postings", "globalTf"})

LEMMA WithTokensIs ==
  ASSUME NEW ix, Shaped(ix), NEW seg, NEW toks, NEW tf
  PROVE  TokensWritten(WithTokens(ix, seg, toks, tf), ix, toks)
<1> DEFINE a == ix.tokens \o toks
           b == FoldLeft(LAMBDA f, k : IF IsEvidence(toks[k])
                                           THEN Push(f, toks[k].term, Len(ix.tokens) + k) ELSE f,
                             ix.termTokens, [k \in DOMAIN toks |-> k])
           c == FoldLeft(LAMBDA bb, tok :
                               IF /\ "DIRECTIVE" \in tok.flags
                                  /\ HasContent(tok.kind) /\ "FUNC" \notin tok.attrs
                               THEN BagOf!BagAdd(bb, tok.term) ELSE bb, ix.directiveTokens, toks)
           d == FoldLeft(LAMBDA p, t : Push(p, t, <<seg, tf[t]>>), ix.postings, SetToSeq(DOMAIN tf))
           e == GlobalCounts(ix.globalTf, tf)
           n == WithTokens(ix, seg, toks, tf)
<1>1. n = [ix EXCEPT !.tokens = a, !.termTokens = b, !.directiveTokens = c, !.postings = d, !.globalTf = e]
  BY DEF WithTokens
<1> HIDE DEF a, b, c, d, e, n
<1>2. Shaped(n) /\ n.tokens = a
  BY <1>1 DEF Shaped, IndexNames
<1>3. Same(n, ix, IndexNames \ {"tokens", "termTokens", "directiveTokens", "postings", "globalTf"})
  BY <1>1 DEF Shaped, IndexNames, Same
<1> QED
  BY <1>2, <1>3 DEF a, n, TokensWritten

-----------------------------------------------------------------------------
(* What a segment reads, and that it is laid after the others.             *)

SegmentIn(n, ix, seg, field, range, keyWords, keyToks, textToks, raw, lower, at, dates) ==
  /\ Shaped(n)
  /\ n.segments = Append(ix.segments, Segment(ix, field, range, keyWords, keyToks \o textToks, lower))
  /\ n.lower = ix.lower \o lower \o <<"\n">>
  /\ n.tokens = ix.tokens \o (keyToks \o textToks)
  /\ n.numbers = ix.numbers \o Numerals(raw, at, seg)
  /\ n.dates = ix.dates \o dates
  /\ n.durations = ix.durations \o Durations(raw, WordsOf(raw), at, seg)
  /\ n.reference = Reference(ix.reference, dates, WordsOf(raw), at, keyWords)
  /\ Same(n, ix, OutsideSegments)

LEMMA SegmentReadIs ==
  ASSUME NEW ix, Shaped(ix), NEW seg, NEW field, NEW range, NEW keyWords, NEW keyToks, NEW textToks,
         NEW raw, NEW lower,
         NEW at, at = Len(ix.tokens) + Len(keyToks),
         NEW dates, dates = DateTokens(raw, at, seg) \o TextualDates(WordsOf(raw), at, seg)
  PROVE  SegmentIn(SegmentRead(ix, seg, field, range, keyWords, keyToks, textToks, raw, lower),
                   ix, seg, field, range, keyWords, keyToks, textToks, raw, lower, at, dates)
<1> DEFINE s == Segment(ix, field, range, keyWords, keyToks \o textToks, lower)
           pairs == Bigrams(textToks)
           toks == keyToks \o textToks
           tf == TermCounts(keyToks \o textToks)
           words == WordsOf(raw)
           a == WithSegment(ix, s, lower, pairs)
           b == WithFacts(a, seg, raw, words, at, keyWords, dates)
           n == SegmentRead(ix, seg, field, range, keyWords, keyToks, textToks, raw, lower)
<1>1. n = WithTokens(b, seg, toks, tf)
  BY DEF SegmentRead
<1> HIDE DEF n, b
<1>b. b = WithFacts(a, seg, raw, words, at, keyWords, dates)
  BY DEF b
<1> HIDE DEF a
<1>a. a = WithSegment(ix, s, lower, pairs)
  BY DEF a
<1> HIDE DEF s, pairs, tf, words, toks
<1>2. SegmentWritten(a, ix, s, lower)
  BY <1>a, WithSegmentIs
<1>3. FactsWritten(b, a, seg, raw, words, at, keyWords, dates)
  BY <1>2, <1>b, WithFactsIs DEF SegmentWritten
<1>4. TokensWritten(n, b, toks)
  BY <1>1, <1>3, WithTokensIs DEF FactsWritten
<1>5. /\ a.numbers = ix.numbers /\ a.dates = ix.dates /\ a.durations = ix.durations
      /\ a.reference = ix.reference /\ a.tokens = ix.tokens
      /\ a.fields = ix.fields /\ a.offsets = ix.offsets /\ a.paths = ix.paths
      /\ a.keys = ix.keys /\ a.arrays = ix.arrays /\ a.plain = ix.plain
  BY <1>2 DEF SegmentWritten, Same, IndexNames
<1>6. /\ b.segments = a.segments /\ b.lower = a.lower /\ b.tokens = a.tokens
      /\ b.fields = a.fields /\ b.offsets = a.offsets /\ b.paths = a.paths
      /\ b.keys = a.keys /\ b.arrays = a.arrays /\ b.plain = a.plain
  BY <1>3 DEF FactsWritten, Same, IndexNames
<1>7. /\ n.segments = b.segments /\ n.lower = b.lower
      /\ n.numbers = b.numbers /\ n.dates = b.dates /\ n.durations = b.durations /\ n.reference = b.reference
      /\ n.fields = b.fields /\ n.offsets = b.offsets /\ n.paths = b.paths
      /\ n.keys = b.keys /\ n.arrays = b.arrays /\ n.plain = b.plain
  BY <1>4 DEF TokensWritten, Same, IndexNames
<1>8. Same(n, ix, OutsideSegments)
  BY <1>5, <1>6, <1>7 DEF Same, OutsideSegments
<1>9. n.segments = Append(ix.segments, s) /\ n.lower = ix.lower \o lower \o <<"\n">>
  BY <1>2, <1>6, <1>7 DEF SegmentWritten
<1>10. /\ n.numbers = ix.numbers \o Numerals(raw, at, seg)
       /\ n.dates = ix.dates \o dates
       /\ n.durations = ix.durations \o Durations(raw, words, at, seg)
       /\ n.reference = Reference(ix.reference, dates, words, at, keyWords)
  BY <1>3, <1>5, <1>7 DEF FactsWritten
<1>11. Shaped(n) /\ n.tokens = ix.tokens \o toks
  BY <1>4, <1>5, <1>6 DEF TokensWritten
<1>12. SegmentIn(n, ix, seg, field, range, keyWords, keyToks, textToks, raw, lower, at, dates)
  BY <1>8, <1>9, <1>10, <1>11 DEF SegmentIn, s, toks, words
<1> QED
  BY <1>12 DEF n

-----------------------------------------------------------------------------
(* How the segments lie on the tokens and on the lowercase text. *)
Laid(segments, tokens, lower) ==
  /\ IsList(segments) /\ IsList(tokens) /\ IsList(lower)
  /\ \A s \in DOMAIN segments :
       /\ segments[s].tokFirst = IF s = 1 THEN 1 ELSE segments[s - 1].tokLast + 1
       /\ segments[s].lowerFirst \in Nat /\ segments[s].lowerLast \in Nat
       /\ segments[s].lowerFirst <= segments[s].lowerLast + 1
       /\ segments[s].lowerLast + 1 <= Len(lower)
  /\ segments = <<>> => tokens = <<>>
  /\ segments # <<>> => segments[Len(segments)].tokLast = Len(tokens)

(* What a segment says of numbers and time. *)
FactsOK(ix) ==
  /\ NumbersOK(ix.numbers) /\ DurationsOK(ix.durations)
  /\ DatesOK(ix.dates) /\ ReferenceOK(ix.reference)

SegmentsOK(ix) == Shaped(ix) /\ Laid(ix.segments, ix.tokens, ix.lower) /\ FactsOK(ix)

LEMMA LaidOn ==
  ASSUME NEW segments, NEW tokens, NEW lower, Laid(segments, tokens, lower), NEW seg, NEW toks, NEW text,
         IsList(toks), IsList(text),
         seg.tokFirst = Len(tokens) + 1, seg.tokLast = Len(tokens) + Len(toks),
         seg.lowerFirst = Len(lower) + 1, seg.lowerLast = Len(lower) + Len(text)
  PROVE  /\ Laid(Append(segments, seg), tokens \o toks, lower \o text \o <<"\n">>)
         /\ Len(lower \o text \o <<"\n">>) = Len(lower) + Len(text) + 1
<1> DEFINE segs == Append(segments, seg)
           all == tokens \o toks
           one == <<"\n">>
           half == lower \o text
           low == half \o one
           n == Len(segments)
<1>1. IsList(segments) /\ IsList(tokens) /\ IsList(lower) /\ IsList(one) /\ Len(one) = 1
  BY SingleList DEF Laid
<1>2. n \in Nat /\ DOMAIN segments = 1 .. n /\ Len(tokens) \in Nat /\ Len(lower) \in Nat
      /\ Len(toks) \in Nat /\ Len(text) \in Nat
  BY <1>1, ListDomain
<1>3. /\ IsList(segs) /\ Len(segs) = n + 1 /\ DOMAIN segs = 1 .. n + 1
      /\ \A k \in 1 .. n : segs[k] = segments[k]
      /\ segs[n + 1] = seg
  BY <1>1, AppendLists
<1>4. IsList(all) /\ Len(all) = Len(tokens) + Len(toks)
  BY <1>1, ConcatLists
<1> HIDE DEF one
<1>5. IsList(half) /\ Len(half) = Len(lower) + Len(text)
  BY <1>1, ConcatLists
<1> HIDE DEF half
<1>6. IsList(low) /\ Len(low) = Len(lower) + Len(text) + 1
  <2>1. IsList(half \o one) /\ Len(half \o one) = Len(half) + Len(one)
    BY <1>1, <1>5, ConcatLists
  <2> QED
    BY <1>1, <1>2, <1>5, <2>1
<1> HIDE DEF low, all, segs
<1>7. segs # <<>>
  BY <1>2, <1>3
<1>8. ASSUME NEW s \in DOMAIN segs
      PROVE  /\ segs[s].tokFirst = IF s = 1 THEN 1 ELSE segs[s - 1].tokLast + 1
             /\ segs[s].lowerFirst \in Nat /\ segs[s].lowerLast \in Nat
             /\ segs[s].lowerFirst <= segs[s].lowerLast + 1
             /\ segs[s].lowerLast + 1 <= Len(low)
  <2>1. CASE s \in 1 .. n
    <3>1. segs[s] = segments[s] /\ (s # 1 => segs[s - 1] = segments[s - 1])
      BY <1>2, <1>3, <2>1
    <3>2. /\ segments[s].tokFirst = IF s = 1 THEN 1 ELSE segments[s - 1].tokLast + 1
          /\ segments[s].lowerFirst \in Nat /\ segments[s].lowerLast \in Nat
          /\ segments[s].lowerFirst <= segments[s].lowerLast + 1
          /\ segments[s].lowerLast + 1 <= Len(lower)
      BY <1>2, <2>1 DEF Laid
    <3>3. Len(lower) <= Len(low)
      BY <1>2, <1>6
    <3>4. segments[s].lowerLast + 1 <= Len(low)
      BY <3>2, <3>3, <1>2, <1>6
    <3> QED
      BY <3>1, <3>2, <3>4
  <2>2. CASE s = n + 1
    <3>1. segs[s] = seg
      BY <1>3, <2>2
    <3>2. seg.tokFirst = IF s = 1 THEN 1 ELSE segs[s - 1].tokLast + 1
      <4>1. CASE n = 0
        <5>1. segments = <<>>
          BY <1>1, <4>1, ListDomain
        <5>2. tokens = <<>>
          BY <5>1 DEF Laid
        <5> QED
          BY <2>2, <4>1, <5>2
      <4>2. CASE n # 0
        <5>1. segments # <<>> /\ s # 1 /\ s - 1 = n /\ n \in 1 .. n
          BY <1>2, <2>2, <4>2
        <5>2. segments[n].tokLast = Len(tokens)
          BY <5>1 DEF Laid
        <5> QED
          BY <1>3, <5>1, <5>2
      <4> QED
        BY <4>1, <4>2
    <3>3. /\ seg.lowerFirst \in Nat /\ seg.lowerLast \in Nat
          /\ seg.lowerFirst <= seg.lowerLast + 1
          /\ seg.lowerLast + 1 <= Len(low)
      BY <1>2, <1>6
    <3> QED
      BY <3>1, <3>2, <3>3
  <2> QED
    BY <1>2, <1>3, <2>1, <2>2
<1>9. segs[Len(segs)].tokLast = Len(all)
  BY <1>3, <1>4
<1>10. Laid(segs, all, low)
  BY <1>3, <1>4, <1>6, <1>7, <1>8, <1>9 DEF Laid
<1> QED
  BY <1>6, <1>10 DEF segs, all, low, half, one

-----------------------------------------------------------------------------
(* push_segment, and its loop over the pieces of a field.                  *)

PieceOK(p) == p.range[1] \in Nat /\ p.range[2] \in Nat /\ IsList(p.keys) /\ IsList(p.text)

(* A segment of a field is that of one piece of its text. *)
MadeOf(s, field, p) == s.field = field /\ s.first = p.range[1] /\ s.last = p.range[2]

Pushed(n, ix, field, p) ==
  /\ SegmentsOK(n)
  /\ Same(n, ix, OutsideSegments)
  /\ Len(n.segments) = Len(ix.segments) + 1
  /\ \A s \in 1 .. Len(ix.segments) : n.segments[s] = ix.segments[s]
  /\ MadeOf(n.segments[Len(ix.segments) + 1], field, p)
  /\ n.segments[Len(ix.segments) + 1].lowerFirst = Len(ix.lower) + 1
  /\ Len(ix.lower) <= Len(n.lower)

LEMMA PushSegmentIs ==
  ASSUME NEW ix, SegmentsOK(ix), NEW field, NEW p, PieceOK(p), NEW falsey
  PROVE  Pushed(PushSegment(ix, field, p.range, p.keys, p.text, RawTokens(p.text), falsey), ix, field, p)
<1> DEFINE seg == Len(ix.segments) + 1
           raw == RawTokens(p.text)
           words == WordsOf(raw)
           keyToks == KeyTokens(p.keys, falsey, seg)
           textToks == TextTokens(raw, Flags(words), seg)
           toks == keyToks \o textToks
           lower == LowerText(p.keys, p.text)
           at == Len(ix.tokens) + Len(keyToks)
           dates == DateTokens(raw, at, seg) \o TextualDates(words, at, seg)
           s == Segment(ix, field, p.range, p.keys, toks, lower)
           n == PushSegment(ix, field, p.range, p.keys, p.text, RawTokens(p.text), falsey)
<1>1. n = SegmentRead(ix, seg, field, p.range, p.keys, keyToks, textToks, raw, lower)
  BY DEF PushSegment
<1> HIDE DEF n
<1>2. IsList(p.keys) /\ IsList(p.text)
  BY DEF PieceOK
<1>3. IsList(raw)
  BY <1>2, RawTokensList
<1> HIDE DEF raw
<1>4. IsList(words)
  BY <1>3, WordsOfList
<1>5. IsList(keyToks)
  BY <1>2, KeyTokensList
<1> HIDE DEF keyToks
<1>6. IsList(textToks)
  BY <1>3, TextTokensList
<1> HIDE DEF textToks
<1>7. IsList(toks)
  BY <1>5, <1>6, ConcatLists
<1>8. IsList(lower)
  BY <1>2, LowerTextList
<1> HIDE DEF lower
<1>9. DatesOK(dates)
  <2>1. DatesOK(DateTokens(raw, at, seg))
    BY <1>3, DateTokensOK
  <2>2. DatesOK(TextualDates(words, at, seg))
    BY <1>4, TextualDatesOK
  <2> QED
    BY <2>1, <2>2, DatesConcat
<1> HIDE DEF at, seg
<1>a. dates = DateTokens(raw, at, seg) \o TextualDates(WordsOf(raw), at, seg)
  OBVIOUS
<1> HIDE DEF dates
<1>b. at = Len(ix.tokens) + Len(keyToks)
  BY DEF at
<1>c. Shaped(ix)
  BY DEF SegmentsOK
<1>d. s = Segment(ix, field, p.range, p.keys, keyToks \o textToks, lower)
  OBVIOUS
<1> HIDE DEF s, words
<1>10. SegmentIn(n, ix, seg, field, p.range, p.keys, keyToks, textToks, raw, lower, at, dates)
  BY <1>1, <1>a, <1>b, <1>c, SegmentReadIs
<1>11. /\ s.field = field /\ s.first = p.range[1] /\ s.last = p.range[2]
       /\ s.tokFirst = Len(ix.tokens) + 1 /\ s.tokLast = Len(ix.tokens) + Len(toks)
       /\ s.lowerFirst = Len(ix.lower) + 1 /\ s.lowerLast = Len(ix.lower) + Len(lower)
  BY <1>d DEF Segment
<1>12. /\ n.segments = Append(ix.segments, s)
       /\ n.lower = ix.lower \o lower \o <<"\n">>
       /\ n.tokens = ix.tokens \o toks
       /\ Shaped(n) /\ Same(n, ix, OutsideSegments)
  BY <1>10, <1>d DEF SegmentIn
<1> HIDE DEF toks
<1>13. Laid(ix.segments, ix.tokens, ix.lower)
  BY DEF SegmentsOK
<1>14. /\ Laid(Append(ix.segments, s), ix.tokens \o toks, ix.lower \o lower \o <<"\n">>)
       /\ Len(ix.lower \o lower \o <<"\n">>) = Len(ix.lower) + Len(lower) + 1
  BY <1>7, <1>8, <1>11, <1>13, LaidOn
<1>15. Laid(n.segments, n.tokens, n.lower) /\ Len(n.lower) = Len(ix.lower) + Len(lower) + 1
  BY <1>12, <1>14
<1>16. FactsOK(n)
  <2>1. FactsOK(ix)
    BY DEF SegmentsOK
  <2>2. NumbersOK(n.numbers)
    <3>1. n.numbers = ix.numbers \o Numerals(raw, at, seg)
      BY <1>10 DEF SegmentIn
    <3>2. NumbersOK(Numerals(raw, at, seg))
      BY <1>3, NumeralsOK
    <3> QED
      BY <3>1, <3>2, <2>1, NumbersConcat DEF FactsOK
  <2>3. DurationsOK(n.durations)
    <3>1. n.durations = ix.durations \o Durations(raw, words, at, seg)
      BY <1>10 DEF SegmentIn, words
    <3>2. DurationsOK(Durations(raw, words, at, seg))
      BY <1>3, <1>4, DurationsAreOK
    <3> QED
      BY <3>1, <3>2, <2>1, DurationsConcat DEF FactsOK
  <2>4. DatesOK(n.dates)
    <3>1. n.dates = ix.dates \o dates
      BY <1>10 DEF SegmentIn
    <3> QED
      BY <3>1, <1>9, <2>1, DatesConcat DEF FactsOK
  <2>5. ReferenceOK(n.reference)
    <3>1. n.reference = Reference(ix.reference, dates, words, at, p.keys)
      BY <1>10 DEF SegmentIn, words
    <3> QED
      BY <3>1, <1>9, <2>1, ReferenceStaysOK DEF FactsOK
  <2> QED
    BY <2>2, <2>3, <2>4, <2>5 DEF FactsOK
<1>17. /\ Len(n.segments) = Len(ix.segments) + 1
       /\ \A k \in 1 .. Len(ix.segments) : n.segments[k] = ix.segments[k]
       /\ n.segments[Len(ix.segments) + 1] = s
  <2>1. IsList(ix.segments)
    BY <1>13 DEF Laid
  <2> QED
    BY <1>12, <2>1, AppendLists
<1>18. Len(ix.lower) <= Len(n.lower)
  <2>1. Len(ix.lower) \in Nat /\ Len(lower) \in Nat
    BY <1>8, <1>13, ListDomain DEF Laid
  <2> QED
    BY <1>15, <2>1
<1>19. Pushed(n, ix, field, p)
  BY <1>11, <1>12, <1>15, <1>16, <1>17, <1>18 DEF Pushed, MadeOf, SegmentsOK
<1> QED
  BY <1>19 DEF n

-----------------------------------------------------------------------------
PushStep(field, falsey, r, acc, p) ==
  PushSegment(acc, field, p.range, p.keys, p.text, RawTokens(p.text), falsey)
PushLoop == INSTANCE Folding WITH Step <- PushStep, Good <- Whatever

PushedTo(n, ix, field, pieces, i) ==
  /\ SegmentsOK(n)
  /\ Same(n, ix, OutsideSegments)
  /\ Len(n.segments) = Len(ix.segments) + i
  /\ \A s \in 1 .. Len(ix.segments) : n.segments[s] = ix.segments[s]
  /\ \A j \in 1 .. i : /\ MadeOf(n.segments[Len(ix.segments) + j], field, pieces[j])
                       /\ n.segments[Len(ix.segments) + j].lowerFirst >= Len(ix.lower) + 1
  /\ Len(ix.lower) <= Len(n.lower)

LEMMA PushedFurther ==
  ASSUME NEW ix, SegmentsOK(ix), NEW field, NEW pieces, NEW i \in Nat, NEW a, NEW b,
         PushedTo(a, ix, field, pieces, i), Pushed(b, a, field, pieces[i + 1])
  PROVE  PushedTo(b, ix, field, pieces, i + 1)
<1> DEFINE n == Len(ix.segments)
           m == Len(a.segments)
<1>1. n \in Nat /\ Len(ix.lower) \in Nat /\ Len(a.lower) \in Nat /\ Len(b.lower) \in Nat
  BY ListDomain DEF SegmentsOK, Laid, PushedTo, Pushed
<1>2. m = n + i
  BY DEF PushedTo
<1>3. Same(b, ix, OutsideSegments)
  BY DEF Same, PushedTo, Pushed
<1>4. Len(b.segments) = n + (i + 1)
  <2>1. Len(b.segments) = m + 1
    BY DEF Pushed
  <2> HIDE DEF m, n
  <2> QED
    BY <1>1, <1>2, <2>1
<1>5. ASSUME NEW s \in 1 .. n PROVE b.segments[s] = ix.segments[s]
  <2>1. s \in 1 .. m
    BY <1>1, <1>2
  <2> QED
    BY <2>1 DEF PushedTo, Pushed
<1>6. ASSUME NEW j \in 1 .. i + 1
      PROVE  /\ MadeOf(b.segments[n + j], field, pieces[j])
             /\ b.segments[n + j].lowerFirst >= Len(ix.lower) + 1
  <2>1. CASE j \in 1 .. i
    <3>1. n + j \in 1 .. m
      BY <1>1, <1>2, <2>1
    <3>2. b.segments[n + j] = a.segments[n + j]
      BY <3>1 DEF Pushed
    <3> QED
      BY <2>1, <3>2 DEF PushedTo
  <2>2. CASE j = i + 1
    <3>1. n + j = m + 1
      <4> HIDE DEF m, n
      <4> QED
        BY <1>1, <1>2, <2>2
    <3>2. MadeOf(b.segments[m + 1], field, pieces[j]) /\ b.segments[m + 1].lowerFirst = Len(a.lower) + 1
      BY <2>2 DEF Pushed
    <3>3. Len(ix.lower) <= Len(a.lower)
      BY DEF PushedTo
    <3> HIDE DEF m
    <3>4. b.segments[m + 1].lowerFirst >= Len(ix.lower) + 1
      BY <1>1, <3>2, <3>3
    <3> QED
      BY <3>1, <3>2, <3>4
  <2> QED
    BY <2>1, <2>2
<1>7. Len(ix.lower) <= Len(b.lower)
  <2>1. Len(ix.lower) <= Len(a.lower) /\ Len(a.lower) <= Len(b.lower)
    BY DEF PushedTo, Pushed
  <2> QED
    BY <1>1, <2>1
<1>8. SegmentsOK(b)
  BY DEF Pushed
<1> QED
  BY <1>3, <1>4, <1>5, <1>6, <1>7, <1>8 DEF PushedTo

LEMMA PushSegmentsIs ==
  ASSUME NEW ix, SegmentsOK(ix), NEW field, NEW pieces, IsList(pieces), NEW falsey,
         \A j \in DOMAIN pieces : PieceOK(pieces[j])
  PROVE  PushedTo(PushSegments(ix, field, pieces, falsey), ix, field, pieces, Len(pieces))
<1> DEFINE n == Len(pieces)
<1>1. n \in Nat /\ DOMAIN pieces = 1 .. n
  BY ListDomain
<1>2. PushSegments(ix, field, pieces, falsey) = PushLoop!Fold(field, falsey, 0, ix, pieces)
  BY DEF PushSegments, PushLoop!Fold, FoldLeft, MapThenFoldSet,
         Max, PushLoop!Greatest, PushStep
<1> HIDE DEF n
<1>3. PICK acc : PushLoop!Accumulates(acc, field, falsey, 0, ix, n, pieces)
  BY <1>1, PushLoop!Accumulators
<1> DEFINE T == {i \in Nat : i <= n => PushedTo(acc[i], ix, field, pieces, i)}
<1>4. 0 \in T
  <2>1. acc[0] = ix
    BY <1>3 DEF PushLoop!Accumulates
  <2>2. Len(ix.segments) \in Nat /\ Len(ix.lower) \in Nat
    BY ListDomain DEF SegmentsOK, Laid
  <2>3. PushedTo(ix, ix, field, pieces, 0)
    BY <2>2 DEF PushedTo, Same
  <2> QED
    BY <2>1, <2>3
<1>5. ASSUME NEW i \in Nat, i \in T PROVE i + 1 \in T
  <2>1. SUFFICES ASSUME i + 1 <= n PROVE PushedTo(acc[i + 1], ix, field, pieces, i + 1)
    OBVIOUS
  <2>2. i + 1 \in 1 .. n /\ (i + 1) - 1 = i /\ PushedTo(acc[i], ix, field, pieces, i)
    BY <1>1, <2>1, <1>5
  <2>3. acc[i + 1] = PushStep(field, falsey, 0, acc[i], pieces[i + 1])
    BY <1>3, <2>2 DEF PushLoop!Accumulates
  <2>4. Pushed(acc[i + 1], acc[i], field, pieces[i + 1])
    <3>1. SegmentsOK(acc[i]) /\ PieceOK(pieces[i + 1])
      BY <1>1, <2>2 DEF PushedTo
    <3> QED
      BY <2>3, <3>1, PushSegmentIs DEF PushStep
  <2> QED
    BY <2>2, <2>4, PushedFurther
<1> HIDE DEF T
<1>6. n \in T
  BY <1>1, <1>4, <1>5, PushLoop!SetInduction
<1> QED
  BY <1>1, <1>2, <1>3, <1>6 DEF T, n, PushLoop!Accumulates

-----------------------------------------------------------------------------
(* The text of a field, its pieces, and the words of its key.              *)

RangesOK(text, ranges) ==
  /\ ranges \in Seq(Nat \X Nat)
  /\ \A n \in DOMAIN ranges : /\ 1 <= ranges[n][1] /\ ranges[n][1] <= ranges[n][2]
                              /\ ranges[n][2] <= Len(text)

RangesFor(f) ==
  IF f.value.type = "text" THEN SegmentRanges(f.value.text) ELSE <<<<1, Len(FieldText(f.value))>>>>

LEMMA TextIsList ==
  ASSUME NEW text \in Texts
  PROVE  IsList(text)
  BY TypedIsList DEF Texts

LEMMA ScalarText ==
  ASSUME NEW v \in Scalars
  PROVE  /\ IsList(FieldText(v))
         /\ v.type = "text" => FieldText(v) = v.text /\ v.text \in Texts
         /\ v.type # "text" => Len(FieldText(v)) = 1
<1>1. CASE v \in [type : {"text"}, text : Texts]
  <2>1. v.type = "text" /\ v.text \in Texts
    BY <1>1
  <2>2. FieldText(v) = v.text
    BY <2>1 DEF FieldText
  <2> QED
    BY <2>1, <2>2, TextIsList
<1>2. CASE v \in [type : {"number"}, number : Glyphs]
  <2>1. v.type = "number"
    BY <1>2
  <2>2. FieldText(v) = <<v.number>>
    BY <2>1 DEF FieldText
  <2> QED
    BY <2>1, <2>2, SingleList
<1>3. CASE v \in [type : {"bool"}, bool : BOOLEAN]
  <2> DEFINE w == IF v.bool THEN "true" ELSE "false"
  <2>1. v.type = "bool"
    BY <1>3
  <2>2. FieldText(v) = <<w>>
    BY <2>1 DEF FieldText
  <2> HIDE DEF w
  <2> QED
    BY <2>1, <2>2, SingleList
<1>4. CASE v = Null
  <2>1. v.type = "null"
    BY <1>4 DEF Null
  <2>2. FieldText(v) = <<"null">>
    BY <2>1 DEF FieldText
  <2> QED
    BY <2>1, <2>2, SingleList
<1> QED
  BY <1>1, <1>2, <1>3, <1>4 DEF Scalars

LEMMA RangesForOK ==
  ASSUME NEW f \in Places
  PROVE  /\ RangesOK(FieldText(f.value), RangesFor(f))
         /\ f.value.type = "text" => Covers(f.value.text, RangesFor(f), 1, Len(f.value.text))
<1> DEFINE v == f.value
           text == FieldText(v)
           ranges == RangesFor(f)
<1>1. v \in Scalars
  BY DEF Places
<1> HIDE DEF v
<1>2. /\ IsList(text)
      /\ v.type = "text" => text = v.text /\ v.text \in Texts
      /\ v.type # "text" => Len(text) = 1
  BY <1>1, ScalarText
<1>3. ranges = IF v.type = "text" THEN SegmentRanges(v.text) ELSE <<<<1, Len(text)>>>>
  BY DEF RangesFor, v
<1> HIDE DEF ranges
<1>4. CASE v.type = "text"
  <2>1. Covers(text, ranges, 1, Len(text))
    BY <1>2, <1>3, <1>4, SegmentRangesCover
  <2>2. ranges \in Seq(Nat \X Nat) /\ \A n \in DOMAIN ranges : 1 <= ranges[n][1] /\ ranges[n][2] <= Len(text) /\ ranges[n][1] <= ranges[n][2]
    BY <2>1 DEF Covers, Within2, Tight
  <2> HIDE DEF text
  <2>3. RangesOK(text, ranges)
    BY <2>2 DEF RangesOK
  <2> QED
    BY <1>2, <1>4, <2>1, <2>3 DEF ranges, text, v
<1>5. CASE v.type # "text"
  <2> HIDE DEF text
  <2>1. ranges = <<<<1, 1>>>>
    BY <1>2, <1>3, <1>5
  <2> DEFINE r == <<1, 1>>
  <2>2. r \in Nat \X Nat /\ r[1] = 1 /\ r[2] = 1
    OBVIOUS
  <2> HIDE DEF r
  <2>3. ranges = <<r>>
    BY <2>1 DEF r
  <2>4. ranges \in Seq(Nat \X Nat) /\ DOMAIN ranges = {1} /\ ranges[1] = r
    BY <2>2, <2>3
  <2>5. RangesOK(text, ranges)
    BY <1>2, <1>5, <2>2, <2>4 DEF RangesOK
  <2> QED
    BY <1>5, <2>5 DEF ranges, text, v
<1> QED
  BY <1>4, <1>5

LEMMA LastComponentList ==
  ASSUME NEW path, IsList(path)
  PROVE  IsList(LastComponent(path))
<1> DEFINE P == {0} \cup {k \in DOMAIN path : path[k] = "."}
           n == Len(path)
           m == Max(P)
<1>1. n \in Nat /\ DOMAIN path = 1 .. n
  BY ListDomain
<1>2. P \in SUBSET Int /\ P # {} /\ \A x \in P : 0 <= x /\ x <= n
  BY <1>1
<1>3. LastComponent(path) = SubSeq(path, 1 + m, n)
  BY DEF LastComponent
<1> HIDE DEF P, n
<1>4. m \in P
  <2>1. n \in Int /\ \A x \in P : x <= n
    BY <1>1, <1>2
  <2>2. Max(P) \in P
    BY <1>2, <2>1, MaxOf
  <2> QED
    BY <2>2
<1> HIDE DEF m
<1>5. 1 + m \in Int /\ 1 <= 1 + m /\ 1 + m <= n + 1 /\ n <= n /\ n \in Int
  BY <1>1, <1>2, <1>4
<1> DEFINE a == 1 + m
<1>6. a \in Int /\ 1 <= a /\ a <= n + 1
  BY <1>5
<1> HIDE DEF a
<1>7. IsList(SubSeq(path, a, n))
  BY <1>5, <1>6, SubList DEF n
<1> QED
  BY <1>3, <1>7 DEF a

LEMMA FieldKeyWordsList ==
  ASSUME NEW f \in Places
  PROVE  IsList(FieldKeyWords(f))
<1>1. f.key \in Texts /\ f.path \in Texts
  BY DEF Places
<1>2. IsList(f.key) /\ IsList(f.path)
  BY <1>1, TextIsList
<1>3. IsList(KeyWords(f.key))
  BY <1>2, KeyWordsList
<1>4. IsList(KeyWords(LastComponent(f.path)))
  BY <1>2, LastComponentList, KeyWordsList
<1> QED
  BY <1>3, <1>4 DEF FieldKeyWords

(* The pieces of a field: its ranges, or nothing but its key words. *)
PiecesFit(pieces, ranges) ==
  /\ IsList(pieces)
  /\ \A j \in DOMAIN pieces : PieceOK(pieces[j])
  /\ ranges # <<>> => Len(pieces) = Len(ranges) /\ \A j \in DOMAIN ranges : pieces[j].range = ranges[j]
  /\ ranges = <<>> => \A j \in DOMAIN pieces : pieces[j].range[1] = 1 /\ pieces[j].range[2] = 0

LEMMA PiecesAreOK ==
  ASSUME NEW f \in Places, NEW text, IsList(text), NEW ranges, RangesOK(text, ranges)
  PROVE  PiecesFit(Pieces(f, text, ranges), ranges)
<1> DEFINE keys == FieldKeyWords(f)
           pieces == Pieces(f, text, ranges)
<1>1. IsList(keys)
  BY FieldKeyWordsList
<1>2. Len(text) \in Nat /\ IsList(<<>>)
  BY ListDomain, EmptyIsList
<1>3. CASE ranges # <<>>
  <2>1. pieces = [n \in DOMAIN ranges |->
          [range |-> ranges[n], keys |-> IF n = 1 THEN FieldKeyWords(f) ELSE <<>>,
           text |-> SubSeq(text, ranges[n][1], ranges[n][2])]]
    BY <1>3 DEF Pieces
  <2>2. IsList(ranges)
    BY TypedIsList DEF RangesOK
  <2> HIDE DEF pieces, keys
  <2>3. pieces = [n \in DOMAIN ranges |-> pieces[n]]
    BY <2>1
  <2>4. IsList(pieces) /\ Len(pieces) = Len(ranges) /\ DOMAIN pieces = DOMAIN ranges
    BY <2>2, <2>3, MadeFrom
  <2>5. ASSUME NEW j \in DOMAIN ranges
        PROVE  PieceOK(pieces[j]) /\ pieces[j].range = ranges[j]
    <3> DEFINE a == ranges[j][1]
               b == ranges[j][2]
               p == pieces[j]
    <3>1. p.range = ranges[j] /\ p.keys \in {keys, <<>>} /\ p.text = SubSeq(text, a, b)
      BY <2>1 DEF keys
    <3>2. a \in Nat /\ b \in Nat /\ 1 <= a /\ a <= b /\ b <= Len(text)
      BY RangeElement DEF RangesOK
    <3> HIDE DEF a, b, p
    <3>3. a \in Int /\ b \in Int /\ a <= b + 1
      BY <3>2
    <3>4. IsList(SubSeq(text, a, b))
      BY <3>2, <3>3, SubList
    <3>5. p.range[1] \in Nat /\ p.range[2] \in Nat
      BY <3>1, <3>2 DEF a, b
    <3>6. PieceOK(p)
      BY <1>1, <1>2, <3>1, <3>4, <3>5 DEF PieceOK
    <3> QED
      BY <3>1, <3>6 DEF p
  <2>6. PiecesFit(pieces, ranges)
    BY <1>3, <2>4, <2>5 DEF PiecesFit
  <2> QED
    BY <2>6 DEF pieces
<1>4. CASE ranges = <<>> /\ keys = <<>>
  <2>1. pieces = <<>>
    BY <1>4 DEF Pieces
  <2> HIDE DEF pieces
  <2>2. PiecesFit(pieces, ranges)
    BY <1>2, <1>4, <2>1 DEF PiecesFit
  <2> QED
    BY <2>2 DEF pieces
<1>5. CASE ranges = <<>> /\ keys # <<>>
  <2> DEFINE r == <<1, 0>>
             p == [range |-> r, keys |-> FieldKeyWords(f), text |-> <<>>]
             t == <<p>>
  <2>1. pieces = t
    BY <1>5 DEF Pieces
  <2>2. r[1] = 1 /\ r[2] = 0
    OBVIOUS
  <2> HIDE DEF r, keys
  <2>3. p.range = r /\ p.keys = keys /\ p.text = <<>>
    BY DEF keys
  <2> HIDE DEF p
  <2>4. PieceOK(p)
    BY <1>1, <1>2, <2>2, <2>3 DEF PieceOK
  <2>5. IsList(t) /\ DOMAIN t = {1} /\ t[1] = p
    BY SingleList
  <2> HIDE DEF t, pieces
  <2>6. PiecesFit(pieces, ranges)
    BY <1>5, <2>1, <2>2, <2>3, <2>4, <2>5 DEF PiecesFit
  <2> QED
    BY <2>6 DEF pieces
<1> QED
  BY <1>3, <1>4, <1>5

-----------------------------------------------------------------------------
(* The index with one more field.                                          *)

FieldWritten(n, before, ix, f, text) ==
  /\ Shaped(n)
  /\ n.offsets = Append(ix.offsets, Len(before.lower) + 1)
  /\ n.fields = Append(ix.fields, Field(f, text, Len(before.segments) + 1, Len(ix.segments)))
  /\ Same(n, ix, IndexNames \ {"offsets", "paths", "keys", "fields"})

LEMMA FieldAddedIs ==
  ASSUME NEW before, NEW ix, Shaped(ix), NEW field, NEW f, NEW text
  PROVE  FieldWritten(FieldAdded(before, ix, field, f, text), before, ix, f, text)
<1> DEFINE a == Append(ix.offsets, Len(before.lower) + 1)
           b == [p \in DOMAIN ix.paths \cup {f.path} |-> IF p = f.path THEN field ELSE ix.paths[p]]
           c == FoldLeft(LAMBDA acc, w : Push(acc, Stem(w), field), ix.keys, PathWords(f.path))
           d == Append(ix.fields, Field(f, text, Len(before.segments) + 1, Len(ix.segments)))
           n == FieldAdded(before, ix, field, f, text)
<1>1. n = [ix EXCEPT !.offsets = a, !.paths = b, !.keys = c, !.fields = d]
  BY DEF FieldAdded
<1> HIDE DEF a, b, c, d, n
<1>2. Shaped(n) /\ n.offsets = a /\ n.fields = d
  BY <1>1 DEF Shaped, IndexNames
<1>3. Same(n, ix, IndexNames \ {"offsets", "paths", "keys", "fields"})
  BY <1>1 DEF Shaped, IndexNames, Same
<1> QED
  BY <1>2, <1>3 DEF a, d, n, FieldWritten

-----------------------------------------------------------------------------
(* The ranges of the segments of a field that have text. *)
RangesIn(segments, f) ==
  [s \in {n \in {m \in DOMAIN segments : segments[m].field = f} : segments[n].first <= segments[n].last} |->
     <<segments[s].first, segments[s].last>>]

(* Where the fields begin, and that their segments lie between. *)
Owned(segments, offsets, length) ==
  /\ IsList(offsets)
  /\ \A f \in DOMAIN offsets : offsets[f] \in Nat /\ 1 <= offsets[f] /\ offsets[f] <= length + 1
  /\ \A f, g \in DOMAIN offsets : f <= g => offsets[f] <= offsets[g]
  /\ \A s \in DOMAIN segments :
       /\ segments[s].field \in DOMAIN offsets
       /\ offsets[segments[s].field] <= segments[s].lowerFirst
       /\ \A f \in DOMAIN offsets : f > segments[s].field => segments[s].lowerLast + 1 < offsets[f]

FieldFits(f) == f.path \in Texts /\ f.value \in Scalars /\ f.text = FieldText(f.value)

FieldsOK(ix) ==
  /\ SegmentsOK(ix)
  /\ Owned(ix.segments, ix.offsets, Len(ix.lower))
  /\ IsList(ix.fields) /\ Len(ix.fields) = Len(ix.offsets)
  /\ \A f \in DOMAIN ix.fields :
       /\ FieldFits(ix.fields[f])
       /\ ix.fields[f].value.type = "text" => CoversText(RangesIn(ix.segments, f), ix.fields[f].text)

LEMMA OwnedFurther ==
  ASSUME NEW before, SegmentsOK(before), NEW offsets, Owned(before.segments, offsets, Len(before.lower)),
         NEW field, field = Len(offsets) + 1, NEW pieces, NEW i \in Nat, NEW after,
         PushedTo(after, before, field, pieces, i)
  PROVE  Owned(after.segments, Append(offsets, Len(before.lower) + 1), Len(after.lower))
<1> DEFINE n == Len(offsets)
           l == Len(before.lower)
           m == Len(after.lower)
           at == l + 1
           os == Append(offsets, at)
           k == Len(before.segments)
           segs == after.segments
<1>1. /\ IsList(offsets)
      /\ \A f \in DOMAIN offsets : offsets[f] \in Nat /\ 1 <= offsets[f] /\ offsets[f] <= l + 1
      /\ \A f, g \in DOMAIN offsets : f <= g => offsets[f] <= offsets[g]
  BY DEF Owned
<1>2. /\ Laid(before.segments, before.tokens, before.lower)
      /\ Laid(after.segments, after.tokens, after.lower)
  BY DEF PushedTo, SegmentsOK
<1>3. /\ n \in Nat /\ DOMAIN offsets = 1 .. n /\ l \in Nat /\ m \in Nat /\ k \in Nat
      /\ DOMAIN before.segments = 1 .. k
      /\ l <= m /\ Len(segs) = k + i /\ DOMAIN segs = 1 .. k + i
  <2>1. /\ IsList(before.segments) /\ IsList(before.lower) /\ IsList(after.segments) /\ IsList(after.lower)
    BY <1>2 DEF Laid
  <2>2. Len(segs) = k + i /\ l <= m
    BY DEF PushedTo
  <2> QED
    BY <1>1, <2>1, <2>2, ListDomain
<1>4. /\ IsList(os) /\ DOMAIN os = 1 .. n + 1
      /\ \A f \in 1 .. n : os[f] = offsets[f]
      /\ os[n + 1] = at
  <2> HIDE DEF at
  <2> QED
    BY <1>1, AppendLists
<1> HIDE DEF os
<1>5. ASSUME NEW f \in DOMAIN os PROVE os[f] \in Nat /\ 1 <= os[f] /\ os[f] <= m + 1 /\ os[f] <= at
  <2>1. CASE f \in 1 .. n
    <3>1. os[f] = offsets[f] /\ offsets[f] \in Nat /\ 1 <= offsets[f] /\ offsets[f] <= l + 1
      BY <1>1, <1>3, <1>4, <2>1
    <3> HIDE DEF l, m
    <3> QED
      BY <3>1, <1>3
  <2>2. CASE f = n + 1
    <3>1. os[f] = l + 1
      BY <1>4, <2>2
    <3> HIDE DEF l, m
    <3> QED
      BY <3>1, <1>3
  <2> HIDE DEF n
  <2> QED
    BY <1>3, <1>4, <2>1, <2>2
<1>6. ASSUME NEW f \in DOMAIN os, NEW g \in DOMAIN os, f <= g PROVE os[f] <= os[g]
  <2>1. CASE g \in 1 .. n
    <3>1. f \in 1 .. n
      BY <1>3, <1>4, <1>6, <2>1
    <3> QED
      BY <1>1, <1>3, <1>4, <1>6, <2>1, <3>1
  <2>2. CASE g = n + 1
    BY <1>4, <1>5, <2>2
  <2> HIDE DEF n
  <2> QED
    BY <1>3, <1>4, <2>1, <2>2
<1>7. ASSUME NEW s \in DOMAIN segs
      PROVE  /\ segs[s].field \in DOMAIN os
             /\ os[segs[s].field] <= segs[s].lowerFirst
             /\ \A f \in DOMAIN os : f > segs[s].field => segs[s].lowerLast + 1 < os[f]
  <2>1. CASE s \in 1 .. k
    <3> DEFINE b == before.segments[s]
               w == b.field
    <3>1. segs[s] = b
      BY <2>1 DEF PushedTo
    <3>2. /\ b.lowerLast + 1 <= l /\ b.lowerFirst \in Nat /\ b.lowerLast \in Nat
      BY <1>2, <1>3, <2>1 DEF Laid
    <3>3. /\ w \in DOMAIN offsets /\ offsets[w] <= b.lowerFirst
          /\ \A f \in DOMAIN offsets : f > w => b.lowerLast + 1 < offsets[f]
      BY <1>3, <2>1 DEF Owned
    <3>4. w \in 1 .. n /\ w \in DOMAIN os /\ os[w] = offsets[w]
      BY <1>3, <1>4, <3>3
    <3>5. ASSUME NEW f \in DOMAIN os, f > w PROVE b.lowerLast + 1 < os[f]
      <4>1. CASE f \in 1 .. n
        BY <1>3, <1>4, <3>3, <3>5, <4>1
      <4>2. CASE f = n + 1
        <5>1. os[f] = l + 1
          BY <1>4, <4>2
        <5> HIDE DEF l, b
        <5> QED
          BY <1>3, <3>2, <5>1
      <4> HIDE DEF n
      <4> QED
        BY <1>3, <1>4, <4>1, <4>2
    <3> QED
      BY <3>1, <3>3, <3>4, <3>5
  <2>2. CASE s \in k + 1 .. k + i
    <3> DEFINE j == s - k
    <3>1. j \in 1 .. i /\ k + j = s
      <4> HIDE DEF k
      <4> QED
        BY <1>3, <2>2
    <3> HIDE DEF j
    <3>2. segs[s].field = field /\ segs[s].lowerFirst >= l + 1
      BY <3>1 DEF PushedTo, MadeOf
    <3>3. field = n + 1 /\ field \in DOMAIN os /\ os[field] = l + 1
      BY <1>3, <1>4
    <3>4. segs[s].lowerFirst \in Nat
      BY <1>2 DEF Laid
    <3>5. os[field] <= segs[s].lowerFirst
      BY <1>3, <3>2, <3>3, <3>4
    <3>6. \A f \in DOMAIN os : ~(f > field)
      BY <1>3, <1>4
    <3> HIDE DEF segs
    <3> QED
      BY <3>2, <3>3, <3>5, <3>6
  <2>3. s \in 1 .. k \/ s \in k + 1 .. k + i
    <3> HIDE DEF k
    <3> QED
      BY <1>3
  <2> QED
    BY <2>1, <2>2, <2>3
<1>8. Owned(segs, os, m)
  BY <1>4, <1>5, <1>6, <1>7 DEF Owned
<1> QED
  BY <1>8 DEF os

-----------------------------------------------------------------------------
(* What a segment covers in the index it is added to, and in every later   *)
(* one.                                                                    *)

LEMMA RangesAt ==
  ASSUME NEW segments, NEW f
  PROVE  /\ \A s : s \in DOMAIN RangesIn(segments, f) <=>
                     s \in DOMAIN segments /\ segments[s].field = f /\ segments[s].first <= segments[s].last
         /\ \A s \in DOMAIN RangesIn(segments, f) :
              RangesIn(segments, f)[s][1] = segments[s].first /\ RangesIn(segments, f)[s][2] = segments[s].last
  BY DEF RangesIn

(* What covers a text covers it when its ranges are numbered from elsewhere. *)
LEMMA CoverMoved ==
  ASSUME NEW text, IsList(text), NEW ranges, Covers(text, ranges, 1, Len(text)), NEW n \in Nat, NEW R,
         \A s \in DOMAIN R : \E j \in DOMAIN ranges : s = n + j,
         \A j \in DOMAIN ranges :
           n + j \in DOMAIN R /\ R[n + j][1] = ranges[j][1] /\ R[n + j][2] = ranges[j][2]
  PROVE  CoversText(R, text)
<1>1. DOMAIN ranges \subseteq Nat
  BY DEF Covers
<1>2. ASSUME NEW s \in DOMAIN R
      PROVE  /\ R[s][1] <= R[s][2]
             /\ text[R[s][1]] \notin Spaces /\ text[R[s][2]] \notin Spaces
             /\ Size(text, R[s][1], R[s][2]) <= MaxSegment
  <2>1. PICK j \in DOMAIN ranges : s = n + j
    OBVIOUS
  <2>2. R[s][1] = ranges[j][1] /\ R[s][2] = ranges[j][2]
    BY <2>1
  <2>3. Tight(text, ranges[j])
    BY DEF Covers, Within2
  <2> QED
    BY <2>2, <2>3 DEF Tight
<1>3. ASSUME NEW s \in DOMAIN R, NEW t \in DOMAIN R, s < t PROVE R[s][2] < R[t][1]
  <2>1. PICK j \in DOMAIN ranges : s = n + j
    OBVIOUS
  <2>2. PICK k \in DOMAIN ranges : t = n + k
    OBVIOUS
  <2>3. j < k
    BY <1>1, <1>3, <2>1, <2>2
  <2>4. ranges[j][2] < ranges[k][1]
    BY <2>3 DEF Covers, Ordered
  <2> QED
    BY <2>1, <2>2, <2>4
<1>4. ASSUME NEW k \in DOMAIN text, text[k] \notin Spaces PROVE \E s \in DOMAIN R : k \in R[s][1] .. R[s][2]
  <2>1. k \in 1 .. Len(text)
    BY ListDomain
  <2>2. PICK j \in DOMAIN ranges : k \in ranges[j][1] .. ranges[j][2]
    BY <1>4, <2>1 DEF Covers, Reached
  <2>3. n + j \in DOMAIN R /\ R[n + j][1] = ranges[j][1] /\ R[n + j][2] = ranges[j][2]
    OBVIOUS
  <2>4. k \in R[n + j][1] .. R[n + j][2]
    BY <2>2, <2>3
  <2> QED
    BY <2>3, <2>4
<1> QED
  BY <1>2, <1>3, <1>4 DEF CoversText

(* A field's pieces leave the ranges of the other fields alone.            *)
RangesStill(before, after, field) ==
  \A f : f # field => RangesIn(after.segments, f) = RangesIn(before.segments, f)

LEMMA OthersCoveredStill ==
  ASSUME NEW before, SegmentsOK(before), NEW field, NEW pieces, NEW i \in Nat, NEW after,
         PushedTo(after, before, field, pieces, i)
  PROVE  RangesStill(before, after, field)
<1> SUFFICES ASSUME NEW f, f # field PROVE RangesIn(after.segments, f) = RangesIn(before.segments, f)
  BY DEF RangesStill
<1> DEFINE k == Len(before.segments)
           old == before.segments
           new == after.segments
           P == {n \in {m \in DOMAIN old : old[m].field = f} : old[n].first <= old[n].last}
           Q == {n \in {m \in DOMAIN new : new[m].field = f} : new[n].first <= new[n].last}
<1>1. /\ k \in Nat /\ DOMAIN old = 1 .. k /\ DOMAIN new = 1 .. k + i
  <2>1. IsList(old) /\ IsList(new) /\ Len(new) = k + i
    BY DEF PushedTo, SegmentsOK, Laid
  <2> QED
    BY <2>1, ListDomain
<1>2. \A s \in 1 .. k : new[s] = old[s]
  BY DEF PushedTo
<1>3. ASSUME NEW s \in DOMAIN new, new[s].field = f PROVE s \in 1 .. k
  <2>1. SUFFICES ASSUME s \in k + 1 .. k + i PROVE FALSE
    <3> HIDE DEF k, old, new
    <3> QED
      BY <1>1
  <2> DEFINE j == s - k
  <2>2. j \in 1 .. i /\ k + j = s
    <3> HIDE DEF k, new
    <3> QED
      BY <1>1, <2>1
  <2> HIDE DEF j
  <2>3. new[s].field = field
    BY <2>2 DEF PushedTo, MadeOf
  <2> QED
    BY <1>3, <2>3
<1> HIDE DEF k, old, new
<1>4. P = Q
  BY <1>1, <1>2, <1>3
<1>5. \A s \in P : new[s] = old[s]
  BY <1>1, <1>2
<1>6. RangesIn(old, f) = [s \in P |-> <<old[s].first, old[s].last>>]
  BY DEF RangesIn
<1>7. RangesIn(new, f) = [s \in Q |-> <<new[s].first, new[s].last>>]
  BY DEF RangesIn
<1> HIDE DEF P, Q
<1>8. RangesIn(new, f) = RangesIn(old, f)
  BY <1>4, <1>5, <1>6, <1>7
<1> QED
  BY <1>8 DEF old, new

LEMMA CoveredNew ==
  ASSUME NEW before, SegmentsOK(before), NEW field, NEW ranges, NEW pieces, PiecesFit(pieces, ranges),
         NEW after, PushedTo(after, before, field, pieces, Len(pieces)),
         \A s \in DOMAIN before.segments : before.segments[s].field # field,
         NEW text, IsList(text), Covers(text, ranges, 1, Len(text)),
         \A j \in DOMAIN ranges : ranges[j][1] <= ranges[j][2]
  PROVE  CoversText(RangesIn(after.segments, field), text)
<1> DEFINE k == Len(before.segments)
           i == Len(pieces)
           old == before.segments
           new == after.segments
           R == RangesIn(new, field)
<1>1. /\ k \in Nat /\ i \in Nat /\ DOMAIN old = 1 .. k /\ DOMAIN new = 1 .. k + i /\ DOMAIN pieces = 1 .. i
  <2>1. IsList(old) /\ IsList(new) /\ Len(new) = k + i /\ IsList(pieces)
    BY DEF PushedTo, SegmentsOK, Laid, PiecesFit
  <2> QED
    BY <2>1, ListDomain
<1>2. \A s \in 1 .. k : new[s] = old[s] /\ new[s].field # field
  BY <1>1 DEF PushedTo
<1>3. \A j \in 1 .. i : /\ new[k + j].field = field
                        /\ new[k + j].first = pieces[j].range[1]
                        /\ new[k + j].last = pieces[j].range[2]
  BY DEF PushedTo, MadeOf
<1>4. IsList(ranges)
  BY TypedIsList DEF Covers
<1>5. ASSUME NEW j \in DOMAIN ranges
      PROVE  /\ j \in 1 .. i
             /\ new[k + j].first = ranges[j][1] /\ new[k + j].last = ranges[j][2]
  <2>1. ranges # <<>>
    BY <1>5, EmptyIsList, <1>4
  <2>2. DOMAIN ranges = 1 .. i /\ pieces[j].range = ranges[j]
    BY <1>4, <2>1, ListDomain DEF PiecesFit
  <2> QED
    BY <1>3, <2>2
<1>6. ASSUME NEW j \in 1 .. i, pieces[j].range[1] <= pieces[j].range[2] PROVE j \in DOMAIN ranges
  <2>1. ranges # <<>>
    <3>1. SUFFICES ASSUME ranges = <<>> PROVE FALSE
      OBVIOUS
    <3>2. pieces[j].range[1] = 1 /\ pieces[j].range[2] = 0
      BY <1>1, <3>1 DEF PiecesFit
    <3> QED
      BY <1>6, <3>2
  <2> QED
    BY <1>1, <1>4, <2>1, ListDomain DEF PiecesFit
<1> HIDE DEF k, i, old, new
<1>7. /\ \A s : s \in DOMAIN R <=> s \in DOMAIN new /\ new[s].field = field /\ new[s].first <= new[s].last
      /\ \A s \in DOMAIN R : R[s][1] = new[s].first /\ R[s][2] = new[s].last
  BY RangesAt
<1> HIDE DEF R
<1>8. ASSUME NEW s \in DOMAIN R PROVE \E j \in DOMAIN ranges : s = k + j
  <2>1. s \in 1 .. k + i /\ new[s].field = field /\ new[s].first <= new[s].last
    BY <1>1, <1>7
  <2>2. s \notin 1 .. k
    BY <1>2, <2>1
  <2> DEFINE j == s - k
  <2>3. j \in 1 .. i /\ s = k + j
    BY <1>1, <2>1, <2>2
  <2> HIDE DEF j
  <2>4. pieces[j].range[1] <= pieces[j].range[2]
    BY <1>3, <2>1, <2>3
  <2> QED
    BY <1>6, <2>3, <2>4
<1>9. ASSUME NEW j \in DOMAIN ranges
      PROVE  k + j \in DOMAIN R /\ R[k + j][1] = ranges[j][1] /\ R[k + j][2] = ranges[j][2]
  <2>1. j \in 1 .. i /\ k + j \in 1 .. k + i
    BY <1>1, <1>5
  <2>2. new[k + j].field = field /\ new[k + j].first <= new[k + j].last
    BY <1>3, <1>5, <2>1
  <2>3. k + j \in DOMAIN R
    BY <1>1, <1>7, <2>1, <2>2
  <2> QED
    BY <1>5, <1>7, <2>3
<1>10. CoversText(R, text)
  BY <1>1, <1>8, <1>9, CoverMoved
<1> QED
  BY <1>10 DEF R, new

-----------------------------------------------------------------------------
(* add_field keeps what the index is.                                      *)

LEMMA AddFieldKeeps ==
  ASSUME NEW ix, FieldsOK(ix), NEW f \in Places
  PROVE  FieldsOK(AddField(ix, f)) /\ Len(AddField(ix, f).fields) = Len(ix.fields) + 1
<1> DEFINE text == FieldText(f.value)
           ranges == RangesFor(f)
           pieces == Pieces(f, text, ranges)
           field == Len(ix.fields) + 1
           falsey == Falsey(f.value)
           mid == PushSegments(ix, field, pieces, falsey)
           n == AddField(ix, f)
           i == Len(pieces)
           new == Field(f, text, Len(ix.segments) + 1, Len(mid.segments))
           at == Len(ix.lower) + 1
<1>1. n = FieldAdded(ix, mid, field, f, text)
  BY DEF AddField, RangesFor
<1> HIDE DEF n
<1>2. f.path \in Texts /\ f.value \in Scalars
  BY DEF Places
<1>3. IsList(text)
  BY <1>2, ScalarText
<1>4. RangesOK(text, ranges) /\ (f.value.type = "text" => Covers(f.value.text, ranges, 1, Len(f.value.text)))
  BY RangesForOK
<1>5. f.value.type = "text" => text = f.value.text
  BY <1>2, ScalarText
<1> HIDE DEF ranges, text
<1>6. PiecesFit(pieces, ranges)
  BY <1>3, <1>4, PiecesAreOK
<1> HIDE DEF pieces
<1>7. SegmentsOK(ix) /\ Owned(ix.segments, ix.offsets, Len(ix.lower))
      /\ IsList(ix.fields) /\ Len(ix.fields) = Len(ix.offsets)
  BY DEF FieldsOK
<1>8. i \in Nat
  BY <1>6, ListDomain DEF PiecesFit
<1> HIDE DEF field, falsey
<1>9. PushedTo(mid, ix, field, pieces, i)
  <2>1. IsList(pieces) /\ \A j \in DOMAIN pieces : PieceOK(pieces[j])
    BY <1>6 DEF PiecesFit
  <2> QED
    BY <1>7, <2>1, PushSegmentsIs
<1> HIDE DEF mid
<1>9a. \A k : k # field => RangesIn(mid.segments, k) = RangesIn(ix.segments, k)
  <2>1. RangesStill(ix, mid, field)
    <3> HIDE DEF i
    <3> QED
      BY <1>7, <1>8, <1>9, OthersCoveredStill
  <2> QED
    BY <2>1 DEF RangesStill
<1>10. SegmentsOK(mid) /\ Same(mid, ix, OutsideSegments)
  BY <1>9 DEF PushedTo
<1>11. FieldWritten(n, ix, mid, f, text)
  <2>1. Shaped(mid)
    BY <1>10 DEF SegmentsOK
  <2> QED
    BY <1>1, <2>1, FieldAddedIs
<1>12. mid.fields = ix.fields /\ mid.offsets = ix.offsets
  BY <1>10 DEF Same, OutsideSegments
<1>13. /\ Shaped(n) /\ n.offsets = Append(ix.offsets, at) /\ n.fields = Append(ix.fields, new)
       /\ n.segments = mid.segments /\ n.tokens = mid.tokens /\ n.lower = mid.lower
       /\ n.numbers = mid.numbers /\ n.dates = mid.dates /\ n.durations = mid.durations
       /\ n.reference = mid.reference
  BY <1>11, <1>12 DEF FieldWritten, Same, IndexNames
<1>14. SegmentsOK(n)
  <2>1. Laid(mid.segments, mid.tokens, mid.lower) /\ FactsOK(mid)
    BY <1>10 DEF SegmentsOK
  <2>2. FactsOK(n)
    BY <1>13, <2>1 DEF FactsOK
  <2> QED
    BY <1>13, <2>1, <2>2 DEF SegmentsOK
<1>15. Owned(n.segments, n.offsets, Len(n.lower))
  <2>1. field = Len(ix.offsets) + 1
    BY <1>7 DEF field
  <2>2. Owned(mid.segments, Append(ix.offsets, Len(ix.lower) + 1), Len(mid.lower))
    BY <1>7, <1>8, <1>9, <2>1, OwnedFurther
  <2> QED
    BY <1>13, <2>2
<1>16. new.path = f.path /\ new.value = f.value /\ new.text = text
  BY DEF Field
<1> HIDE DEF new, at
<1> DEFINE m == Len(ix.fields)
<1>17. /\ IsList(n.fields) /\ Len(n.fields) = m + 1 /\ DOMAIN n.fields = 1 .. m + 1
       /\ \A k \in 1 .. m : n.fields[k] = ix.fields[k]
       /\ n.fields[m + 1] = new
  BY <1>7, <1>13, AppendLists
<1>18. m \in Nat /\ DOMAIN ix.fields = 1 .. m /\ DOMAIN ix.offsets = 1 .. m
       /\ field = m + 1
  <2>1. IsList(ix.offsets)
    BY <1>7 DEF Owned
  <2> QED
    BY <1>7, <2>1, ListDomain DEF field
<1>19. Len(n.offsets) = m + 1
  <2>1. IsList(ix.offsets)
    BY <1>7 DEF Owned
  <2> QED
    BY <1>7, <1>13, <2>1, AppendLists
<1>20. ASSUME NEW k \in DOMAIN n.fields
       PROVE  /\ FieldFits(n.fields[k])
              /\ n.fields[k].value.type = "text" => CoversText(RangesIn(n.segments, k), n.fields[k].text)
  <2>1. CASE k \in 1 .. m
    <3>1. n.fields[k] = ix.fields[k]
      BY <1>17, <2>1
    <3>2. /\ FieldFits(ix.fields[k])
          /\ ix.fields[k].value.type = "text" => CoversText(RangesIn(ix.segments, k), ix.fields[k].text)
      BY <1>18, <2>1 DEF FieldsOK
    <3>3. k # field
      BY <1>18, <2>1
    <3>4. RangesIn(mid.segments, k) = RangesIn(ix.segments, k)
      BY <1>9a, <3>3
    <3> QED
      BY <1>13, <3>1, <3>2, <3>4
  <2>2. CASE k = m + 1
    <3>1. n.fields[k] = new
      BY <1>17, <2>2
    <3>2. FieldFits(new)
      BY <1>2, <1>16 DEF FieldFits, text
    <3>3. ASSUME f.value.type = "text" PROVE CoversText(RangesIn(mid.segments, field), text)
      <4>1. Covers(text, ranges, 1, Len(text))
        BY <1>4, <1>5, <3>3
      <4>2. \A s \in DOMAIN ix.segments : ix.segments[s].field # field
        <5>1. \A s \in DOMAIN ix.segments : ix.segments[s].field \in DOMAIN ix.offsets
          BY <1>7 DEF Owned
        <5> QED
          BY <1>18, <5>1
      <4>3. \A j \in DOMAIN ranges : ranges[j][1] <= ranges[j][2]
        BY <1>4 DEF RangesOK
      <4> HIDE DEF i
      <4>4. PushedTo(mid, ix, field, pieces, Len(pieces))
        BY <1>9 DEF i
      <4> QED
        BY <1>3, <1>6, <1>7, <4>1, <4>2, <4>3, <4>4, CoveredNew
    <3> QED
      BY <1>13, <1>16, <1>18, <2>2, <3>1, <3>2, <3>3
  <2> HIDE DEF m
  <2> QED
    BY <1>17, <1>18, <2>1, <2>2
<1>21. FieldsOK(n)
  BY <1>14, <1>15, <1>17, <1>19, <1>20 DEF FieldsOK
<1> QED
  BY <1>17, <1>21 DEF n

LEMMA EmptyFieldsOK ==
  FieldsOK(EmptyIndex) /\ \A b \in BOOLEAN : FieldsOK([EmptyIndex EXCEPT !.plain = b])
<1> DEFINE Bare(n) ==
             /\ Shaped(n) /\ n.segments = <<>> /\ n.tokens = <<>> /\ n.lower = <<>>
             /\ n.offsets = <<>> /\ n.fields = <<>>
             /\ n.numbers = <<>> /\ n.dates = <<>> /\ n.durations = <<>> /\ n.reference = NoDate
<1>1. ASSUME NEW n, Bare(n) PROVE FieldsOK(n)
  <2>1. IsList(<<>>) /\ DOMAIN <<>> = {} /\ Len(<<>>) = 0
    BY EmptyIsList
  <2>2. Laid(n.segments, n.tokens, n.lower)
    BY <1>1, <2>1 DEF Laid
  <2>3. FactsOK(n)
    BY <1>1, <2>1 DEF FactsOK, NumbersOK, DurationsOK, DatesOK, ReferenceOK
  <2>4. Owned(n.segments, n.offsets, Len(n.lower))
    BY <1>1, <2>1 DEF Owned
  <2> QED
    BY <1>1, <2>1, <2>2, <2>3, <2>4 DEF FieldsOK, SegmentsOK
<1>2. Bare(EmptyIndex)
  BY DEF EmptyIndex, Shaped, IndexNames
<1>3. ASSUME NEW b \in BOOLEAN PROVE Bare([EmptyIndex EXCEPT !.plain = b])
  BY DEF EmptyIndex, Shaped, IndexNames
<1> HIDE DEF Bare
<1> QED
  BY <1>1, <1>2, <1>3

-----------------------------------------------------------------------------
(* finish writes what the index was for, and changes no segment.           *)

(* finish writes the arrays and, once today is known, the relative dates.  *)
Finished(n, ix) ==
  /\ Shaped(n)
  /\ Same(n, ix, IndexNames \ {"arrays", "dates"})
  /\ n.dates = IF ix.reference = NoDate THEN ix.dates ELSE ix.dates \o RelativeDates(ix)

LEMMA FinishIs ==
  ASSUME NEW ix, Shaped(ix), NEW arrays
  PROVE  Finished(Finish(ix, arrays), ix)
<1> DEFINE a == [k \in DOMAIN arrays |->
                   [path |-> arrays[k].path, length |-> arrays[k].length,
                    keyTerms |-> [n \in DOMAIN KeyWords(arrays[k].key) |->
                                    Stem(KeyWords(arrays[k].key)[n])]]]
           b == IF ix.reference = NoDate THEN ix.dates ELSE ix.dates \o RelativeDates(ix)
           n == Finish(ix, arrays)
<1>1. n = [ix EXCEPT !.arrays = a, !.dates = b]
  BY DEF Finish
<1> HIDE DEF a, b, n
<1>2. Shaped(n) /\ n.dates = b
  BY <1>1 DEF Shaped, IndexNames
<1>3. Same(n, ix, IndexNames \ {"arrays", "dates"})
  BY <1>1 DEF Shaped, IndexNames, Same
<1> QED
  BY <1>2, <1>3 DEF b, n, Finished

(* What a day has for its date, if it has one. *)
LEMMA FromDaysValid ==
  ASSUME NEW days, FromDays(days) # NoDate
  PROVE  ValidDate(FromDays(days))
<1>1. PICK y, m, d : FromDays(days) = DateOf(y, m, d)
  BY DEF FromDays, InEra, InYear, Civil
<1> QED
  BY <1>1, DateOfValid

Tellable(ix) ==
  {n \in DOMAIN ix.durations : ix.durations[n].kind \in {"Ago", "Later"} /\ DayOf(ix, ix.durations[n]) # NoDate}
ToldOf(ix) == Chosen(ix.durations, Tellable(ix))
SpanOf(ix, d) == DateSpan(d.token, d.seg, DayOf(ix, d))

LEMMA RelativeDatesAre ==
  ASSUME NEW ix, IsList(ix.durations)
  PROVE  /\ IsList(RelativeDates(ix))
         /\ \A k \in DOMAIN RelativeDates(ix) : \E j \in Tellable(ix) :
              RelativeDates(ix)[k] = SpanOf(ix, ix.durations[j])
         /\ \A j \in Tellable(ix) : SpanOf(ix, ix.durations[j]) \in ToSet(RelativeDates(ix))
<1> DEFINE t == ToldOf(ix)
           r == RelativeDates(ix)
           P == Tellable(ix)
           s == ix.durations
           m == Len(s)
<1>1. r = [n \in DOMAIN t |-> SpanOf(ix, t[n])]
  BY DEF RelativeDates, ToldOf, Tellable, SpanOf
<1>2. t = Chosen(s, P) /\ P \subseteq DOMAIN s
  BY DEF ToldOf, Tellable
<1> HIDE DEF t, r, P
<1>3. m \in Nat /\ DOMAIN s = 1 .. m
  BY ListDomain
<1> HIDE DEF m, s
<1>4. IsList(t) /\ ToSet(t) = {s[k] : k \in P \cap (1 .. m)}
  BY <1>2, <1>3, ChosenIs
<1>5. IsList(r) /\ DOMAIN r = DOMAIN t
  <2>1. r = [n \in DOMAIN t |-> r[n]]
    BY <1>1
  <2> QED
    BY <1>4, <2>1, MadeFrom
<1>6. ASSUME NEW k \in DOMAIN r PROVE \E j \in P : r[k] = SpanOf(ix, s[j])
  <2>1. t[k] \in ToSet(t)
    BY <1>5 DEF ToSet
  <2>2. PICK j \in P : t[k] = s[j]
    BY <1>4, <2>1
  <2> QED
    BY <1>1, <1>5, <2>2
<1>7. ASSUME NEW j \in P PROVE SpanOf(ix, s[j]) \in ToSet(r)
  <2>1. s[j] \in ToSet(t)
    BY <1>2, <1>3, <1>4
  <2>2. PICK k \in DOMAIN t : t[k] = s[j]
    BY <2>1 DEF ToSet
  <2>3. r[k] = SpanOf(ix, s[j])
    BY <1>1, <2>2
  <2> QED
    BY <1>5, <2>2, <2>3 DEF ToSet
<1> QED
  BY <1>5, <1>6, <1>7 DEF r, P, s

LEMMA RelativeDatesOK ==
  ASSUME NEW ix, IsList(ix.durations)
  PROVE  DatesOK(RelativeDates(ix))
<1>1. ASSUME NEW k \in DOMAIN RelativeDates(ix) PROVE ValidDate(RelativeDates(ix)[k].date)
  <2>1. PICK j \in Tellable(ix) : RelativeDates(ix)[k] = SpanOf(ix, ix.durations[j])
    BY RelativeDatesAre
  <2> DEFINE d == ix.durations[j]
  <2>2. DayOf(ix, d) # NoDate
    BY <2>1 DEF Tellable
  <2> HIDE DEF d
  <2>3. ValidDate(DayOf(ix, d))
    BY <2>2, FromDaysValid DEF DayOf
  <2>4. SpanOf(ix, d).date = DayOf(ix, d)
    BY DEF SpanOf, DateSpan
  <2> QED
    BY <2>1, <2>3, <2>4 DEF d
<1> QED
  BY <1>1, RelativeDatesAre DEF DatesOK

(* The index keeps its shape when it is finished. *)
LEMMA FinishKeeps ==
  ASSUME NEW ix, FieldsOK(ix), NEW arrays
  PROVE  FieldsOK(Finish(ix, arrays)) /\ Finished(Finish(ix, arrays), ix)
<1> DEFINE n == Finish(ix, arrays)
<1>1. SegmentsOK(ix) /\ Shaped(ix) /\ FactsOK(ix)
  BY DEF FieldsOK, SegmentsOK
<1>2. Finished(n, ix)
  BY <1>1, FinishIs
<1> HIDE DEF n
<1>3. /\ Shaped(n) /\ n.segments = ix.segments /\ n.tokens = ix.tokens /\ n.lower = ix.lower
      /\ n.fields = ix.fields /\ n.offsets = ix.offsets /\ n.numbers = ix.numbers
      /\ n.durations = ix.durations /\ n.reference = ix.reference
  BY <1>2 DEF Finished, Same, IndexNames
<1>4. DatesOK(n.dates)
  <2>1. DatesOK(ix.dates) /\ IsList(ix.durations)
    BY <1>1 DEF FactsOK, DurationsOK
  <2>2. DatesOK(RelativeDates(ix))
    BY <2>1, RelativeDatesOK
  <2>3. DatesOK(ix.dates \o RelativeDates(ix))
    BY <2>1, <2>2, DatesConcat
  <2> QED
    BY <1>2, <2>1, <2>3 DEF Finished
<1>5. FactsOK(n)
  BY <1>1, <1>3, <1>4 DEF FactsOK
<1>6. SegmentsOK(n)
  BY <1>1, <1>3, <1>5 DEF SegmentsOK
<1>7. FieldsOK(n)
  BY <1>3, <1>6 DEF FieldsOK
<1> QED
  BY <1>2, <1>7 DEF n

(* What a finished index tells of the durations: the same before and after. *)
ToldAll(ix) ==
  ix.reference # NoDate => ToSet(RelativeDates(ix)) \subseteq ToSet(ix.dates)

LEMMA FinishTells ==
  ASSUME NEW ix, FieldsOK(ix), NEW arrays
  PROVE  ToldAll(Finish(ix, arrays))
<1> DEFINE n == Finish(ix, arrays)
<1>1. FieldsOK(ix) /\ Finished(n, ix)
  BY FinishKeeps
<1> HIDE DEF n
<1>2. n.durations = ix.durations /\ n.reference = ix.reference
  BY <1>1 DEF Finished, Same, IndexNames
<1>3. \A d : DayOf(n, d) = DayOf(ix, d)
  BY <1>2 DEF DayOf
<1>4. RelativeDates(n) = RelativeDates(ix)
  BY <1>2, <1>3 DEF RelativeDates
<1>5. IsList(ix.dates) /\ IsList(ix.durations)
  BY <1>1 DEF FieldsOK, SegmentsOK, FactsOK, DatesOK, DurationsOK
<1>6. IsList(RelativeDates(ix))
  BY <1>5, RelativeDatesAre
<1>7. ToSet(ix.dates \o RelativeDates(ix)) = ToSet(ix.dates) \cup ToSet(RelativeDates(ix))
  BY <1>5, <1>6, ConcatLists
<1>8. ToldAll(n)
  BY <1>1, <1>2, <1>4, <1>7 DEF ToldAll, Finished
<1> QED
  BY <1>8 DEF n

(* The lengths of the arrays of the state. *)
ArraysOK(ix) == \A k \in DOMAIN ix.arrays : ix.arrays[k].length \in Nat

LEMMA FinishArrays ==
  ASSUME NEW ix, Shaped(ix), NEW arrays \in Seq(Sizes)
  PROVE  ArraysOK(Finish(ix, arrays))
<1> DEFINE a == [k \in DOMAIN arrays |->
                   [path |-> arrays[k].path, length |-> arrays[k].length,
                    keyTerms |-> [n \in DOMAIN KeyWords(arrays[k].key) |->
                                    Stem(KeyWords(arrays[k].key)[n])]]]
           b == IF ix.reference = NoDate THEN ix.dates ELSE ix.dates \o RelativeDates(ix)
           n == Finish(ix, arrays)
<1>1. n = [ix EXCEPT !.arrays = a, !.dates = b]
  BY DEF Finish
<1>2. DOMAIN a = DOMAIN arrays /\ \A k \in DOMAIN arrays : a[k].length = arrays[k].length
  OBVIOUS
<1>3. \A k \in DOMAIN arrays : arrays[k].length \in Nat
  <2>1. \A k \in DOMAIN arrays : arrays[k] \in Sizes
    OBVIOUS
  <2> QED
    BY <2>1 DEF Sizes
<1> HIDE DEF a, b, n
<1>4. n.arrays = a
  BY <1>1 DEF Shaped, IndexNames
<1> QED
  BY <1>2, <1>3, <1>4 DEF ArraysOK, n

-----------------------------------------------------------------------------
(* The handlers of the documents keep the invariant.                       *)

(* Between its handlers: the index is one that has been built, no further  *)
(* than the walk goes; and every answer is that of a question and of the   *)
(* finished index.                                                         *)
AnswersOK ==
  /\ IsList(views) /\ IsList(answers) /\ Len(views) = Len(answers)
  /\ Len(answers) <= Len(request.questions)
  /\ \A k \in DOMAIN answers : /\ views[k] = View(request.questions[k], idx)
                               /\ answers[k] = Answered(views[k])

DocumentsInv ==
  /\ request \in Requests
  /\ stage \in {"posted", "rejected", "indexing", "answering", "answered"}
  /\ stage \in {"posted", "rejected"} => Len(idx.fields) = 0 /\ flat = Walked(<<>>, <<>>)
  /\ flat.fields \in Seq(Places)
  /\ stage \notin {"posted", "rejected"} => flat = Flattened(request.state)
  /\ FieldsOK(idx)
  /\ Len(idx.fields) <= Len(flat.fields)
  /\ Read => ToldAll(idx) /\ ArraysOK(idx)
  /\ ~Read => answers = <<>> /\ views = <<>>
  /\ AnswersOK

LEMMA RequestForm ==
  ASSUME NEW r \in Requests
  PROVE  r.state \in JsonValues /\ IsList(r.questions)
<1>1. r \in [model : STRING, state : JsonValues, questions : Seq(ChoiceQuestions \cup OtherQuestions)]
  BY DocumentsAssumption
<1> DEFINE S == ChoiceQuestions \cup OtherQuestions
<1>2. r.state \in JsonValues /\ r.questions \in Seq(S)
  BY <1>1
<1> HIDE DEF S
<1>3. IsList(r.questions)
  BY <1>2, TypedIsList
<1> QED
  BY <1>2, <1>3

LEMMA NoAnswersOK ==
  ASSUME NEW r, IsList(r.questions)
  PROVE  IsList(<<>>) /\ Len(<<>>) = 0 /\ DOMAIN <<>> = {} /\ 0 <= Len(r.questions)
<1>1. Len(r.questions) \in Nat
  BY ListDomain
<1> QED
  BY <1>1, EmptyIsList

LEMMA DocumentsStart == DocumentsInit => DocumentsInv
<1> SUFFICES ASSUME DocumentsInit PROVE DocumentsInv
  OBVIOUS
<1>1. request \in Requests /\ stage = "posted" /\ flat = Walked(<<>>, <<>>) /\ idx = EmptyIndex
      /\ views = <<>> /\ answers = <<>>
  BY DEF DocumentsInit
<1>2. idx.fields = <<>> /\ flat.fields = <<>>
  BY <1>1 DEF EmptyIndex, Walked
<1>3. Len(idx.fields) = 0 /\ flat.fields \in Seq(Places) /\ Len(idx.fields) <= Len(flat.fields)
  <2>1. <<>> \in Seq(Places) /\ Len(<<>>) = 0
    OBVIOUS
  <2> QED
    BY <1>2, <2>1
<1>4. FieldsOK(idx)
  BY <1>1, EmptyFieldsOK
<1>5. AnswersOK
  BY <1>1, RequestForm, NoAnswersOK DEF AnswersOK
<1> QED
  BY <1>1, <1>3, <1>4, <1>5 DEF DocumentsInv, Read

(* What a handler that answers nothing leaves to be shown.                 *)
LEMMA UnansweredOK ==
  ASSUME DocumentsInv, stage \in {"posted", "indexing"}, UNCHANGED <<request, views, answers>>
  PROVE  AnswersOK' /\ answers' = <<>> /\ views' = <<>> /\ request' \in Requests
<1>1. answers = <<>> /\ views = <<>> /\ request \in Requests
  BY DEF DocumentsInv, Read
<1>2. answers' = <<>> /\ views' = <<>> /\ request' = request
  BY <1>1
<1>3. IsList(request.questions)
  BY <1>1, RequestForm
<1> QED
  BY <1>1, <1>2, <1>3, NoAnswersOK DEF AnswersOK

LEMMA RejectKeeps == DocumentsInv /\ Reject => DocumentsInv'
<1> SUFFICES ASSUME DocumentsInv, Reject PROVE DocumentsInv'
  OBVIOUS
<1>1. stage = "posted" /\ stage' = "rejected" /\ UNCHANGED <<request, flat, idx, views, answers>>
  BY DEF Reject
<1>2. AnswersOK' /\ answers' = <<>> /\ views' = <<>> /\ request' \in Requests
  BY <1>1, UnansweredOK
<1> QED
  BY <1>1, <1>2 DEF DocumentsInv, Read

LEMMA AcceptKeeps == DocumentsInv /\ Accept => DocumentsInv'
<1> SUFFICES ASSUME DocumentsInv, Accept PROVE DocumentsInv'
  OBVIOUS
<1> DEFINE b == request.state.type = "text"
<1>1. /\ stage = "posted" /\ stage' = "indexing" /\ UNCHANGED <<request, views, answers>>
      /\ flat' = Flattened(request.state) /\ idx' = [EmptyIndex EXCEPT !.plain = b]
  BY DEF Accept
<1>2. AnswersOK' /\ answers' = <<>> /\ views' = <<>> /\ request' \in Requests
  BY <1>1, UnansweredOK
<1>3. request \in Requests /\ request' = request
  BY <1>1 DEF DocumentsInv
<1>4. WalkedOK(flat')
  BY <1>1, <1>3, RequestForm, FlattenedTyped
<1>5. b \in BOOLEAN
  OBVIOUS
<1> HIDE DEF b
<1>6. FieldsOK(idx')
  BY <1>1, <1>5, EmptyFieldsOK
<1>7. idx'.fields = <<>>
  BY <1>1 DEF EmptyIndex
<1>8. flat'.fields \in Seq(Places) /\ Len(flat'.fields) \in Nat /\ Len(idx'.fields) = 0
  BY <1>4, <1>7 DEF WalkedOK
<1> QED
  BY <1>1, <1>2, <1>3, <1>6, <1>8 DEF DocumentsInv, Read

LEMMA AddNextFieldKeeps == DocumentsInv /\ AddNextField => DocumentsInv'
<1> SUFFICES ASSUME DocumentsInv, AddNextField PROVE DocumentsInv'
  OBVIOUS
<1> DEFINE m == Len(idx.fields)
           l == Len(flat.fields)
           f == flat.fields[m + 1]
<1>1. /\ stage = "indexing" /\ stage' = "indexing" /\ UNCHANGED <<request, flat, views, answers>>
      /\ m < l /\ idx' = AddField(idx, f)
  BY DEF AddNextField
<1>2. AnswersOK' /\ answers' = <<>> /\ views' = <<>> /\ request' \in Requests
  BY <1>1, UnansweredOK
<1>3. FieldsOK(idx) /\ flat.fields \in Seq(Places) /\ flat = Flattened(request.state)
  BY <1>1 DEF DocumentsInv
<1>4. m \in Nat /\ l \in Nat
  BY <1>3, ListDomain DEF FieldsOK
<1>5. f \in Places
  <2>1. m + 1 \in 1 .. l
    BY <1>1, <1>4
  <2> QED
    BY <1>3, <2>1
<1> HIDE DEF f
<1>6. FieldsOK(idx') /\ Len(idx'.fields) = m + 1
  BY <1>1, <1>3, <1>5, AddFieldKeeps
<1>7. Len(idx'.fields) <= Len(flat'.fields)
  <2>1. flat' = flat
    BY <1>1
  <2> HIDE DEF m
  <2> QED
    BY <1>1, <1>4, <1>6, <2>1
<1> QED
  BY <1>1, <1>2, <1>3, <1>6, <1>7 DEF DocumentsInv, Read

LEMMA FinishIndexKeeps == DocumentsInv /\ FinishIndex => DocumentsInv'
<1> SUFFICES ASSUME DocumentsInv, FinishIndex PROVE DocumentsInv'
  OBVIOUS
<1>1. /\ stage = "indexing" /\ stage' = "answering" /\ UNCHANGED <<request, flat, views, answers>>
      /\ idx' = Finish(idx, flat.arrays)
  BY DEF FinishIndex
<1>2. AnswersOK' /\ answers' = <<>> /\ views' = <<>> /\ request' \in Requests
  BY <1>1, UnansweredOK
<1>3. /\ FieldsOK(idx) /\ flat.fields \in Seq(Places) /\ flat = Flattened(request.state)
      /\ Len(idx.fields) <= Len(flat.fields)
  BY <1>1 DEF DocumentsInv
<1>4. FieldsOK(idx') /\ Finished(idx', idx) /\ ToldAll(idx')
  BY <1>1, <1>3, FinishKeeps, FinishTells
<1>5. idx'.fields = idx.fields
  BY <1>4 DEF Finished, Same, IndexNames
<1>6. flat.arrays \in Seq(Sizes)
  <2>1. request \in Requests
    BY DEF DocumentsInv
  <2> QED
    BY <1>3, <2>1, RequestForm, FlattenedTyped DEF WalkedOK
<1>7. ArraysOK(idx')
  BY <1>1, <1>3, <1>6, FinishArrays DEF FieldsOK, SegmentsOK
<1> QED
  BY <1>1, <1>2, <1>3, <1>4, <1>5, <1>7 DEF DocumentsInv, Read

LEMMA AnswerKeeps == DocumentsInv /\ Answer => DocumentsInv'
<1> SUFFICES ASSUME DocumentsInv, Answer PROVE DocumentsInv'
  OBVIOUS
<1> DEFINE m == Len(answers)
           l == Len(request.questions)
           v == View(request.questions[m + 1], idx)
<1>1. /\ stage = "answering" /\ stage' \in {"answering", "answered"} /\ UNCHANGED <<request, flat, idx>>
      /\ m < l /\ views' = Append(views, v) /\ answers' = Append(answers, Answered(v))
  BY DEF Answer
<1>2. request \in Requests /\ AnswersOK /\ IsList(views) /\ IsList(answers) /\ Len(views) = m
  BY DEF DocumentsInv, AnswersOK
<1>3. m \in Nat /\ l \in Nat /\ DOMAIN answers = 1 .. m
  BY <1>2, RequestForm, ListDomain
<1>4. \A w : Answered(w)' = Answered(w)
  BY <1>1 DEF Answered
<1>5. v = View(request.questions[m + 1], idx)
  OBVIOUS
<1> DEFINE a == Answered(v)
<1>6. /\ IsList(views') /\ Len(views') = m + 1
      /\ (\A k \in 1 .. m : views'[k] = views[k]) /\ views'[m + 1] = v
  <2> HIDE DEF v
  <2> QED
    BY <1>1, <1>2, AppendLists
<1>7. /\ IsList(answers') /\ Len(answers') = m + 1 /\ DOMAIN answers' = 1 .. m + 1
      /\ (\A k \in 1 .. m : answers'[k] = answers[k]) /\ answers'[m + 1] = a
  <2>1. answers' = Append(answers, a)
    BY <1>1
  <2> HIDE DEF a
  <2> QED
    BY <1>2, <2>1, AppendLists
<1> HIDE DEF v
<1>8. ASSUME NEW k \in DOMAIN answers'
      PROVE  views'[k] = View(request.questions[k], idx) /\ answers'[k] = Answered(views'[k])
  <2>1. CASE k \in 1 .. m
    BY <1>2, <1>3, <1>6, <1>7, <2>1 DEF AnswersOK
  <2>2. CASE k = m + 1
    BY <1>5, <1>6, <1>7, <2>2
  <2> HIDE DEF m
  <2> QED
    BY <1>3, <1>7, <2>1, <2>2
<1>9. Len(answers') <= l
  <2> HIDE DEF m, l
  <2> QED
    BY <1>1, <1>3, <1>7
<1>10. AnswersOK'
  <2> HIDE DEF l
  <2>1. request' = request /\ idx' = idx
    BY <1>1
  <2>2. Len(answers') <= Len(request'.questions)
    BY <1>9, <2>1 DEF l
  <2>3. Len(views') = Len(answers')
    BY <1>6, <1>7
  <2> QED
    BY <1>4, <1>6, <1>7, <1>8, <2>1, <2>2, <2>3 DEF AnswersOK
<1> QED
  BY <1>1, <1>10 DEF DocumentsInv, Read

(* The invariant by which the theorems of the documents are proved.        *)
THEOREM DocumentsInvariant == DocumentsSpec => []DocumentsInv
<1>1. DocumentsInv /\ [DocumentsNext]_vars => DocumentsInv'
  <2> SUFFICES ASSUME DocumentsInv, [DocumentsNext]_vars PROVE DocumentsInv'
    OBVIOUS
  <2>1. CASE Reject
    BY <2>1, RejectKeeps
  <2>2. CASE Accept
    BY <2>2, AcceptKeeps
  <2>3. CASE AddNextField
    BY <2>3, AddNextFieldKeeps
  <2>4. CASE FinishIndex
    BY <2>4, FinishIndexKeeps
  <2>5. CASE Answer
    BY <2>5, AnswerKeeps
  <2>6. CASE UNCHANGED vars
    BY <2>6 DEF vars, DocumentsInv, AnswersOK, Read, Answered
  <2> QED
    BY <2>1, <2>2, <2>3, <2>4, <2>5, <2>6 DEF DocumentsNext
<1> QED
  BY <1>1, DocumentsStart, PTL DEF DocumentsSpec

-----------------------------------------------------------------------------
LEMMA CoverHolds == DocumentsInv => SegmentsCoverText
<1> SUFFICES ASSUME DocumentsInv PROVE SegmentsCoverText
  OBVIOUS
<1>1. FieldsOK(idx)
  BY DEF DocumentsInv
<1>2. \A f : RangesOfField(f) = RangesIn(idx.segments, f)
  BY DEF RangesOfField, SegmentsOf, RangesIn
<1>3. Laid(idx.segments, idx.tokens, idx.lower)
  BY <1>1 DEF FieldsOK, SegmentsOK
<1>4. \A f \in DOMAIN idx.fields : idx.fields[f].value.type = "text" =>
        CoversText(RangesOfField(f), idx.fields[f].text)
  BY <1>1, <1>2 DEF FieldsOK
<1>5. \A s \in DOMAIN idx.segments :
        idx.segments[s].tokFirst = IF s = 1 THEN 1 ELSE idx.segments[s - 1].tokLast + 1
  BY <1>3 DEF Laid
<1> QED
  BY <1>4, <1>5 DEF SegmentsCoverText

(* The segments of a text field cover it, in order and within the limit,   *)
(* and the tokens of the segments follow one another (segment_ranges,      *)
(* chunk_long and push_segment).                                           *)
THEOREM TextsAreCovered == DocumentsSpec => []SegmentsCoverText
  BY DocumentsInvariant, CoverHolds, PTL

LEMMA OwnerFound ==
  ASSUME DocumentsInv, NEW pos \in DOMAIN idx.lower, SegmentAt(idx, pos) # 0
  PROVE  LET owner == idx.segments[SegmentAt(idx, pos)].field
         IN  /\ owner \in FieldsAt(idx, pos)
             /\ \A f \in FieldsAt(idx, pos) \ {owner} : SegmentsOf(f) = {}
<1> DEFINE at == {s \in DOMAIN idx.segments :
                    pos \in idx.segments[s].lowerFirst .. idx.segments[s].lowerLast}
           s == SegmentAt(idx, pos)
           os == idx.offsets
           segs == idx.segments
           k == Len(segs)
           owner == segs[s].field
           n == Len(os)
           here == {f \in DOMAIN os : os[f] = pos}
           low == {f \in DOMAIN os : os[f] < pos}
<1>1. Laid(segs, idx.tokens, idx.lower) /\ Owned(segs, os, Len(idx.lower))
  BY DEF DocumentsInv, FieldsOK, SegmentsOK
<1>2. k \in Nat /\ DOMAIN segs = 1 .. k /\ n \in Nat /\ DOMAIN os = 1 .. n
      /\ DOMAIN idx.lower = 1 .. Len(idx.lower) /\ Len(idx.lower) \in Nat
  BY <1>1, ListDomain DEF Laid, Owned
<1>3. s \in at
  <2>1. s = IF at = {} THEN 0 ELSE Max(at)
    BY DEF SegmentAt
  <2>2. at \in SUBSET Int /\ k \in Int
    <3> HIDE DEF k
    <3> QED
      BY <1>2
  <2>a. \A x \in at : x <= k
    <3> HIDE DEF k
    <3> QED
      BY <1>2
  <2> HIDE DEF at, s, k
  <2>3. s # 0
    BY DEF s
  <2> QED
    BY <2>1, <2>2, <2>a, <2>3, MaxOf
<1>4. s \in DOMAIN segs /\ segs[s].lowerFirst <= pos /\ pos <= segs[s].lowerLast
  <2> HIDE DEF s
  <2>1. s \in DOMAIN segs /\ pos \in segs[s].lowerFirst .. segs[s].lowerLast
    BY <1>3
  <2> QED
    BY <2>1
<1> HIDE DEF s
<1>5. /\ owner \in DOMAIN os /\ os[owner] <= segs[s].lowerFirst
      /\ \A f \in DOMAIN os : f > owner => segs[s].lowerLast + 1 < os[f]
  BY <1>1, <1>4 DEF Owned
<1>6. segs[s].lowerFirst \in Nat /\ segs[s].lowerLast \in Nat
  BY <1>1, <1>4 DEF Laid
<1>7. pos \in Nat /\ \A f \in DOMAIN os : os[f] \in Nat /\ 1 <= os[f]
  <2>1. pos \in 1 .. Len(idx.lower)
    BY <1>2
  <2> QED
    BY <1>1, <2>1 DEF Owned
<1>8. \A f \in DOMAIN os : f > owner => pos < os[f]
  BY <1>4, <1>5, <1>6, <1>7
<1>9. os[owner] <= pos
  BY <1>4, <1>5, <1>6, <1>7
<1>10. \A f, g \in DOMAIN os : f <= g => os[f] <= os[g]
  BY <1>1 DEF Owned
<1>11. FieldsAt(idx, pos) = IF here # {} THEN here ELSE {Max({1} \cup low)}
  BY DEF FieldsAt
<1>12. CASE here # {}
  <2>1. PICK f \in here : TRUE
    BY <1>12
  <2>2. f <= owner
    BY <1>2, <1>5, <1>7, <1>8, <2>1
  <2>3. os[owner] = pos
    BY <1>2, <1>5, <1>7, <1>9, <1>10, <2>1, <2>2
  <2>4. owner \in here
    BY <1>5, <2>3
  <2>5. ASSUME NEW g \in here \ {owner} PROVE SegmentsOf(g) = {}
    <3>1. g < owner
      BY <1>2, <1>5, <1>7, <1>8
    <3>2. SUFFICES ASSUME NEW t \in DOMAIN segs, segs[t].field = g PROVE FALSE
      BY DEF SegmentsOf
    <3>3. os[g] <= segs[t].lowerFirst /\ segs[t].lowerLast + 1 < os[owner]
      BY <1>1, <1>5, <3>1, <3>2 DEF Owned
    <3>4. segs[t].lowerFirst \in Nat /\ segs[t].lowerLast \in Nat /\ segs[t].lowerFirst <= segs[t].lowerLast + 1
      BY <1>1 DEF Laid
    <3>5. os[g] = pos
      OBVIOUS
    <3> QED
      BY <1>7, <2>3, <3>3, <3>4, <3>5
  <2> QED
    BY <1>11, <1>12, <2>4, <2>5 DEF s
<1>13. CASE here = {}
  <2>1. owner \in low
    BY <1>5, <1>7, <1>9, <1>13
  <2>2. \A f \in low : f <= owner
    BY <1>2, <1>5, <1>7, <1>8
  <2> DEFINE lows == {1} \cup low
  <2>3. lows \in SUBSET Int /\ owner \in lows /\ owner \in Int
    <3> HIDE DEF n
    <3> QED
      BY <1>2, <1>5, <2>1
  <2>4. \A x \in lows : x <= owner
    <3> HIDE DEF n
    <3> QED
      BY <1>2, <1>5, <2>2
  <2> HIDE DEF lows, low, here
  <2>5. Max(lows) = owner
    <3> HIDE DEF owner
    <3>1. Max(lows) \in lows /\ \A y \in lows : y <= Max(lows)
      BY <2>3, <2>4, MaxOf
    <3> DEFINE x == Max(lows)
    <3>2. x \in Int /\ x <= owner /\ owner <= x
      BY <2>3, <2>4, <3>1
    <3> HIDE DEF x
    <3>3. x = owner
      BY <2>3, <3>2
    <3> QED
      BY <3>3 DEF x
  <2>6. FieldsAt(idx, pos) = {owner}
    BY <1>11, <1>13, <2>5 DEF lows
  <2> QED
    BY <2>6 DEF s
<1> QED
  BY <1>12, <1>13

LEMMA OwnersHold == DocumentsInv => OffsetsFindOwner
  BY OwnerFound DEF OffsetsFindOwner

(* A binary search by position among the fields finds the field of the     *)
(* segment there, or only others that have no segment (field_at and        *)
(* segment_at of the index).                                               *)
THEOREM PlacesAreOwned == DocumentsSpec => []OffsetsFindOwner
  BY DocumentsInvariant, OwnersHold, PTL

-----------------------------------------------------------------------------
(* A set written as a list; shifted positions.                             *)

(* A set written as a list, each of its members once. *)
Enumerates(s, S) ==
  /\ IsList(s) /\ ToSet(s) = S
  /\ \A i, j \in DOMAIN s : s[i] = s[j] => i = j

LEMMA EnumeratedSet ==
  ASSUME NEW S, IsFiniteSet(S)
  PROVE  Enumerates(SetToSeq(S), S)
<1> DEFINE n == Cardinality(S)
           D == 1 .. n
           s == SetToSeq(S)
<1>1. n \in Nat /\ \E f : f \in Bijection(D, S)
  BY FS_CardinalityType DEF ExistsBijection
<1>2. \E f \in [D -> S] : IsInjective(f)
  BY <1>1 DEF Bijection, Injection, IsInjective
<1>3. s \in [D -> S] /\ IsInjective(s)
  BY <1>2 DEF SetToSeq
<1>4. IsFiniteSet(D) /\ Cardinality(D) = n
  <2>1. 1 \in Int /\ n \in Int
    BY <1>1
  <2> HIDE DEF n
  <2>2. IsFiniteSet(1 .. n) /\ Cardinality(1 .. n) = IF 1 > n THEN 0 ELSE n - 1 + 1
    BY <2>1, FS_Interval
  <2> QED
    BY <1>1, <2>1, <2>2
<1> HIDE DEF s
<1>5. s \in Injection(D, S)
  BY <1>3 DEF Injection, IsInjective
<1>6. s \in Surjection(D, S)
  <2> HIDE DEF D
  <2> QED
    BY <1>4, <1>5, FS_Injection
<1>7. DOMAIN s = D /\ s = [k \in D |-> s[k]]
  BY <1>3
<1>8. IsList(s)
  <2> HIDE DEF n
  <2> QED
    BY <1>1, <1>7, ListForm
<1>9. ToSet(s) = S
  <2>1. \A k \in DOMAIN s : s[k] \in S
    BY <1>3
  <2>2. \A x \in S : \E k \in D : s[k] = x
    BY <1>6 DEF Surjection
  <2> QED
    BY <1>7, <2>1, <2>2 DEF ToSet
<1> QED
  BY <1>3, <1>8, <1>9 DEF Enumerates, IsInjective, s

LEMMA ImageIsFinite ==
  ASSUME NEW n \in Nat, NEW S \in SUBSET (1 .. n), NEW f
  PROVE  IsFiniteSet({f[k] : k \in S})
<1> DEFINE T == {f[k] : k \in S}
           g == [k \in S |-> f[k]]
<1>1. IsFiniteSet(S)
  <2>1. 1 \in Int /\ n \in Int
    OBVIOUS
  <2> QED
    BY <2>1, FS_Interval, FS_Subset
<1>2. g \in [S -> T] /\ \A t \in T : \E k \in S : g[k] = t
  OBVIOUS
<1> HIDE DEF g, T
<1>3. g \in Surjection(S, T)
  BY <1>2 DEF Surjection
<1>4. IsFiniteSet(T)
  BY <1>1, <1>3, FS_Surjection
<1> QED
  BY <1>4 DEF T

(* Positions counted from elsewhere are as many. *)
LEMMA ShiftedCount ==
  ASSUME NEW n \in Nat, NEW l \in Nat, NEW E \in SUBSET (1 .. l)
  PROVE  Cardinality({n + k : k \in E}) = Cardinality(E)
<1> DEFINE T == {n + k : k \in E}
           g == [k \in E |-> n + k]
<1>1. IsFiniteSet(E)
  <2>1. 1 \in Int /\ l \in Int
    OBVIOUS
  <2> QED
    BY <2>1, FS_Interval, FS_Subset
<1>2. g \in [E -> T] /\ \A t \in T : \E k \in E : g[k] = t
  OBVIOUS
<1>3. \A a, b \in E : g[a] = g[b] => a = b
  <2>1. \A a \in E : a \in Int
    OBVIOUS
  <2> QED
    BY <2>1
<1> HIDE DEF g, T
<1>4. g \in Surjection(E, T) /\ g \in Injection(E, T)
  BY <1>2, <1>3 DEF Surjection, Injection, IsInjective
<1>5. Cardinality(T) = Cardinality(E)
  BY <1>1, <1>4, FS_Surjection
<1> QED
  BY <1>5 DEF T

-----------------------------------------------------------------------------
(* Where each term stands: the positions push_segment notes.               *)

ListAt(f, t) == IF t \in DOMAIN f THEN f[t] ELSE <<>>
CountAt(f, t) == IF t \in DOMAIN f THEN f[t] ELSE 0

Grown(n, f, k, v) ==
  /\ DOMAIN n = DOMAIN f \cup {k}
  /\ ListAt(n, k) = Append(ListAt(f, k), v)
  /\ \A t : t # k => ListAt(n, t) = ListAt(f, t)

LEMMA PushIs ==
  ASSUME NEW f, NEW k, NEW v
  PROVE  Grown(Push(f, k, v), f, k, v)
<1> DEFINE n == Push(f, k, v)
           a == IF k \in DOMAIN f THEN Append(f[k], v) ELSE <<v>>
<1>1. n = [x \in DOMAIN f \cup {k} |-> IF x # k THEN f[x] ELSE a]
  BY DEF Push
<1>2. a = Append(ListAt(f, k), v)
  <2>1. Append(<<>>, v) = <<v>>
    OBVIOUS
  <2> QED
    BY <2>1 DEF ListAt
<1> HIDE DEF n, a
<1>3. DOMAIN n = DOMAIN f \cup {k} /\ n[k] = a /\ \A x \in DOMAIN f : x # k => n[x] = f[x]
  BY <1>1
<1>4. ListAt(n, k) = a
  BY <1>3 DEF ListAt
<1>5. ASSUME NEW t, t # k PROVE ListAt(n, t) = ListAt(f, t)
  BY <1>3, <1>5 DEF ListAt
<1>6. Grown(n, f, k, v)
  BY <1>2, <1>3, <1>4, <1>5 DEF Grown
<1> QED
  BY <1>6 DEF n

(* Where a term stands as evidence among the first tokens of a segment. *)
Occurs(toks, i, t) == {k \in 1 .. i : IsEvidence(toks[k]) /\ toks[k].term = t}

PlaceStep(toks, b, r, f, k) == IF IsEvidence(toks[k]) THEN Push(f, toks[k].term, b + k) ELSE f
PlaceLoop == INSTANCE Folding WITH Step <- PlaceStep, Good <- Whatever

PlacedAt(w, w0, b, E) == IsList(w) /\ ToSet(w) = ToSet(w0) \cup {b + k : k \in E}
Placed(f, f0, b, toks, i) ==
  \A t : /\ t \in DOMAIN f <=> t \in DOMAIN f0 \/ Occurs(toks, i, t) # {}
         /\ PlacedAt(ListAt(f, t), ListAt(f0, t), b, Occurs(toks, i, t))

LEMMA OccursNext ==
  ASSUME NEW toks, NEW i \in Nat, NEW t
  PROVE  Occurs(toks, i + 1, t) =
           Occurs(toks, i, t) \cup (IF IsEvidence(toks[i + 1]) /\ toks[i + 1].term = t THEN {i + 1} ELSE {})
<1>1. 1 .. i + 1 = (1 .. i) \cup {i + 1}
  OBVIOUS
<1> QED
  BY <1>1 DEF Occurs

LEMMA PlacedFurther ==
  ASSUME NEW f0, NEW b, NEW toks, NEW i \in Nat, NEW f, Placed(f, f0, b, toks, i)
  PROVE  Placed(PlaceStep(toks, b, 0, f, i + 1), f0, b, toks, i + 1)
<1> DEFINE m == i + 1
           g == PlaceStep(toks, b, 0, f, m)
<1>a. ASSUME NEW t
      PROVE  /\ IsEvidence(toks[m]) /\ toks[m].term = t => Occurs(toks, m, t) = Occurs(toks, i, t) \cup {m}
             /\ ~(IsEvidence(toks[m]) /\ toks[m].term = t) => Occurs(toks, m, t) = Occurs(toks, i, t)
  <2>1. Occurs(toks, m, t) =
          Occurs(toks, i, t) \cup (IF IsEvidence(toks[m]) /\ toks[m].term = t THEN {m} ELSE {})
    BY OccursNext
  <2> HIDE DEF m
  <2> QED
    BY <2>1
<1>1. CASE ~IsEvidence(toks[m])
  <2>1. g = f
    BY <1>1 DEF PlaceStep
  <2> HIDE DEF m, g
  <2>2. \A t : Occurs(toks, m, t) = Occurs(toks, i, t)
    BY <1>1, <1>a
  <2>3. Placed(g, f0, b, toks, m)
    BY <2>1, <2>2 DEF Placed
  <2> QED
    BY <2>3 DEF g, m
<1>2. CASE IsEvidence(toks[m])
  <2> DEFINE u == toks[m].term
             v == b + m
  <2>1. g = Push(f, u, v)
    BY <1>2 DEF PlaceStep
  <2> HIDE DEF m, g, v
  <2>2. /\ DOMAIN g = DOMAIN f \cup {u}
        /\ ListAt(g, u) = Append(ListAt(f, u), v)
        /\ \A t : t # u => ListAt(g, t) = ListAt(f, t)
    <3>1. Grown(Push(f, u, v), f, u, v)
      BY PushIs
    <3>2. Grown(g, f, u, v)
      BY <2>1, <3>1
    <3> HIDE DEF u
    <3> QED
      BY <3>2 DEF Grown
  <2>3. Occurs(toks, m, u) = Occurs(toks, i, u) \cup {m} /\ \A t : t # u => Occurs(toks, m, t) = Occurs(toks, i, t)
    BY <1>2, <1>a
  <2> HIDE DEF u
  <2>4. ASSUME NEW t
        PROVE  /\ t \in DOMAIN g <=> t \in DOMAIN f0 \/ Occurs(toks, m, t) # {}
               /\ PlacedAt(ListAt(g, t), ListAt(f0, t), b, Occurs(toks, m, t))
    <3>1. /\ t \in DOMAIN f <=> t \in DOMAIN f0 \/ Occurs(toks, i, t) # {}
          /\ PlacedAt(ListAt(f, t), ListAt(f0, t), b, Occurs(toks, i, t))
      BY DEF Placed
    <3>2. CASE t # u
      BY <2>2, <2>3, <3>1, <3>2
    <3>3. CASE t = u
      <4> DEFINE w == ListAt(f, u)
                 E == Occurs(toks, i, u)
      <4>1. IsList(w) /\ ToSet(w) = ToSet(ListAt(f0, u)) \cup {b + k : k \in E}
        BY <3>1, <3>3 DEF PlacedAt
      <4> HIDE DEF w, E
      <4>2. IsList(Append(w, v)) /\ ToSet(Append(w, v)) = ToSet(w) \cup {v}
        BY <4>1, AppendLists
      <4>3. {b + k : k \in E \cup {m}} = {b + k : k \in E} \cup {v}
        BY DEF v
      <4>4. PlacedAt(Append(w, v), ListAt(f0, u), b, E \cup {m})
        BY <4>1, <4>2, <4>3 DEF PlacedAt
      <4>5. Occurs(toks, m, u) # {} /\ u \in DOMAIN g
        BY <2>2, <2>3
      <4> QED
        BY <2>2, <2>3, <3>3, <4>4, <4>5 DEF w, E
    <3> QED
      BY <3>2, <3>3
  <2>5. Placed(g, f0, b, toks, m)
    BY <2>4 DEF Placed
  <2> QED
    BY <2>5 DEF g, m
<1> QED
  BY <1>1, <1>2

PlacedIn(f, b, toks) ==
  FoldLeft(LAMBDA g, k : IF IsEvidence(toks[k]) THEN Push(g, toks[k].term, b + k) ELSE g,
           f, [k \in DOMAIN toks |-> k])

LEMMA PlacedInIs ==
  ASSUME NEW f, \A t : IsList(ListAt(f, t)), NEW b, NEW toks, IsList(toks)
  PROVE  Placed(PlacedIn(f, b, toks), f, b, toks, Len(toks))
<1> DEFINE n == Len(toks)
           s == [k \in DOMAIN toks |-> k]
<1>1. n \in Nat /\ DOMAIN toks = 1 .. n /\ DOMAIN s = 1 .. n /\ \A k \in 1 .. n : s[k] = k
  BY ListDomain
<1> HIDE DEF n
<1>2. PlacedIn(f, b, toks) = PlaceLoop!Fold(toks, b, 0, f, s)
  BY DEF PlacedIn, PlaceLoop!Fold, FoldLeft, MapThenFoldSet, Max, PlaceLoop!Greatest, PlaceStep
<1> HIDE DEF s
<1>3. PICK acc : PlaceLoop!Accumulates(acc, toks, b, 0, f, n, s)
  BY <1>1, PlaceLoop!Accumulators
<1> DEFINE T == {i \in Nat : i <= n => Placed(acc[i], f, b, toks, i)}
<1>4. 0 \in T
  <2>1. acc[0] = f
    BY <1>3 DEF PlaceLoop!Accumulates
  <2>2. \A t : Occurs(toks, 0, t) = {}
    BY DEF Occurs
  <2>3. {b + k : k \in {}} = {}
    OBVIOUS
  <2>4. Placed(f, f, b, toks, 0)
    BY <2>2, <2>3 DEF Placed, PlacedAt
  <2> QED
    BY <2>1, <2>4
<1>5. ASSUME NEW i \in Nat, i \in T PROVE i + 1 \in T
  <2>1. SUFFICES ASSUME i + 1 <= n PROVE Placed(acc[i + 1], f, b, toks, i + 1)
    OBVIOUS
  <2>2. i + 1 \in 1 .. n /\ (i + 1) - 1 = i /\ Placed(acc[i], f, b, toks, i) /\ s[i + 1] = i + 1
    BY <1>1, <2>1, <1>5
  <2>3. acc[i + 1] = PlaceStep(toks, b, 0, acc[i], i + 1)
    BY <1>3, <2>2 DEF PlaceLoop!Accumulates
  <2> QED
    BY <2>2, <2>3, PlacedFurther
<1> HIDE DEF T
<1>6. n \in T
  BY <1>1, <1>4, <1>5, PlaceLoop!SetInduction
<1> QED
  BY <1>1, <1>2, <1>3, <1>6 DEF T, n, PlaceLoop!Accumulates

-----------------------------------------------------------------------------
(* The postings of a segment, and their counts added up.                   *)

-----------------------------------------------------------------------------
(* The postings of one segment: one for each term that stands in it. *)
PostStep(seg, tf, r, p, t) == Push(p, t, <<seg, tf[t]>>)
PostLoop == INSTANCE Folding WITH Step <- PostStep, Good <- Whatever

PostedAt(l, l0, here, x) == l = IF here THEN Append(l0, x) ELSE l0

Posted(p, p0, seg, tf, S) ==
  \A t : /\ t \in DOMAIN p <=> t \in DOMAIN p0 \/ t \in S
         /\ PostedAt(ListAt(p, t), ListAt(p0, t), t \in S, <<seg, tf[t]>>)

LEMMA PostedFurther ==
  ASSUME NEW p0, NEW seg, NEW tf, NEW S, NEW p, Posted(p, p0, seg, tf, S), NEW u, u \notin S
  PROVE  Posted(PostStep(seg, tf, 0, p, u), p0, seg, tf, S \cup {u})
<1> DEFINE x == <<seg, tf[u]>>
           n == PostStep(seg, tf, 0, p, u)
<1>1. Grown(n, p, u, x)
  BY PushIs DEF PostStep
<1> HIDE DEF n
<1>2. ASSUME NEW t
      PROVE  /\ t \in DOMAIN n <=> t \in DOMAIN p0 \/ t \in S \cup {u}
             /\ PostedAt(ListAt(n, t), ListAt(p0, t), t \in S \cup {u}, <<seg, tf[t]>>)
  <2>1. /\ t \in DOMAIN p <=> t \in DOMAIN p0 \/ t \in S
        /\ PostedAt(ListAt(p, t), ListAt(p0, t), t \in S, <<seg, tf[t]>>)
    BY DEF Posted
  <2>2. CASE t = u
    <3>1. ListAt(p, u) = ListAt(p0, u)
      BY <2>1, <2>2 DEF PostedAt
    <3>2. ListAt(n, u) = Append(ListAt(p0, u), x)
      BY <1>1, <3>1 DEF Grown
    <3>3. u \in DOMAIN n
      BY <1>1 DEF Grown
    <3> QED
      BY <2>2, <3>2, <3>3 DEF PostedAt
  <2>3. CASE t # u
    <3>1. ListAt(n, t) = ListAt(p, t) /\ (t \in DOMAIN n <=> t \in DOMAIN p)
      BY <1>1, <2>3 DEF Grown
    <3> HIDE DEF x
    <3> QED
      BY <2>1, <2>3, <3>1 DEF PostedAt
  <2> QED
    BY <2>2, <2>3
<1>3. Posted(n, p0, seg, tf, S \cup {u})
  BY <1>2 DEF Posted
<1> QED
  BY <1>3 DEF n

PostedIn(p, seg, tf) == FoldLeft(LAMBDA q, t : Push(q, t, <<seg, tf[t]>>), p, SetToSeq(DOMAIN tf))

LEMMA PostedInIs ==
  ASSUME NEW p, NEW seg, NEW tf, IsFiniteSet(DOMAIN tf)
  PROVE  Posted(PostedIn(p, seg, tf), p, seg, tf, DOMAIN tf)
<1> DEFINE s == SetToSeq(DOMAIN tf)
           n == Len(s)
           Terms(i) == {s[k] : k \in 1 .. i}
<1>1. Enumerates(s, DOMAIN tf)
  BY EnumeratedSet
<1>2. PostedIn(p, seg, tf) = PostLoop!Fold(seg, tf, 0, p, s)
  BY DEF PostedIn, PostLoop!Fold, FoldLeft, MapThenFoldSet, Max, PostLoop!Greatest, PostStep
<1> HIDE DEF s
<1>3. n \in Nat /\ DOMAIN s = 1 .. n
  BY <1>1, ListDomain DEF Enumerates
<1> HIDE DEF n
<1>4. PICK acc : PostLoop!Accumulates(acc, seg, tf, 0, p, n, s)
  BY <1>3, PostLoop!Accumulators
<1> DEFINE T == {i \in Nat : i <= n => Posted(acc[i], p, seg, tf, Terms(i))}
<1>5. 0 \in T
  <2>1. acc[0] = p
    BY <1>4 DEF PostLoop!Accumulates
  <2>2. Terms(0) = {}
    OBVIOUS
  <2>3. Posted(p, p, seg, tf, {})
    BY DEF Posted, PostedAt
  <2> HIDE DEF Terms
  <2> QED
    BY <2>1, <2>2, <2>3
<1>6. ASSUME NEW i \in Nat, i \in T PROVE i + 1 \in T
  <2>1. SUFFICES ASSUME i + 1 <= n PROVE Posted(acc[i + 1], p, seg, tf, Terms(i + 1))
    OBVIOUS
  <2> DEFINE u == s[i + 1]
             S == Terms(i)
  <2>2. i + 1 \in 1 .. n /\ (i + 1) - 1 = i /\ Posted(acc[i], p, seg, tf, S)
    BY <1>3, <2>1, <1>6
  <2>3. acc[i + 1] = PostStep(seg, tf, 0, acc[i], u)
    BY <1>4, <2>2 DEF PostLoop!Accumulates
  <2>4. Terms(i + 1) = S \cup {u}
    <3>1. 1 .. i + 1 = (1 .. i) \cup {i + 1}
      OBVIOUS
    <3> QED
      BY <3>1
  <2>5. u \notin S
    <3>1. \A k \in 1 .. i : k \in DOMAIN s /\ k # i + 1
      BY <1>3, <2>1
    <3>2. i + 1 \in DOMAIN s
      BY <1>3, <2>2
    <3> QED
      BY <1>1, <3>1, <3>2 DEF Enumerates
  <2> HIDE DEF u, S
  <2>6. Posted(PostStep(seg, tf, 0, acc[i], u), p, seg, tf, S \cup {u})
    BY <2>2, <2>5, PostedFurther
  <2> HIDE DEF Terms
  <2> QED
    BY <2>3, <2>4, <2>6
<1>7. Terms(n) = DOMAIN tf
  BY <1>1, <1>3 DEF Enumerates, ToSet
<1> HIDE DEF T, Terms
<1>8. n \in T
  BY <1>3, <1>5, <1>6, PostLoop!SetInduction
<1> QED
  BY <1>2, <1>3, <1>4, <1>7, <1>8 DEF T, PostLoop!Accumulates

-----------------------------------------------------------------------------
(* The counts of a term's postings, added up. *)
TallyStep(p, q, r, m, x) == m + x[2]
TallyLoop == INSTANCE Folding WITH Step <- TallyStep, Good <- Whatever

Tally(p) == FoldLeft(LAMBDA n, x : n + x[2], 0, p)

LEMMA TallyIsLoop ==
  ASSUME NEW p
  PROVE  Tally(p) = TallyLoop!Fold(0, 0, 0, 0, p)
  BY DEF Tally, TallyLoop!Fold, FoldLeft, MapThenFoldSet, Max, TallyLoop!Greatest, TallyStep

LEMMA TallyOfLonger ==
  ASSUME NEW p, IsList(p), NEW x
  PROVE  Tally(Append(p, x)) = Tally(p) + x[2]
<1> DEFINE n == Len(p)
           l == Append(p, x)
<1>1. n \in Nat /\ DOMAIN p = 1 .. n
  BY ListDomain
<1>2. IsList(l) /\ Len(l) = n + 1 /\ l[n + 1] = x /\ \A i \in 1 .. n : l[i] = p[i]
  BY AppendLists
<1> HIDE DEF l, n
<1>3. DOMAIN l = 1 .. n + 1
  BY <1>2, ListDomain
<1>4. TallyLoop!Fold(0, 0, 0, 0, l) = TallyStep(0, 0, 0, TallyLoop!Fold(0, 0, 0, 0, p), l[n + 1])
  BY <1>1, <1>2, <1>3, TallyLoop!FoldOfLonger
<1>5. Tally(l) = Tally(p) + x[2]
  BY <1>2, <1>4, TallyIsLoop DEF TallyStep
<1> QED
  BY <1>5 DEF l

LEMMA TallyOfNone == Tally(<<>>) = 0
<1>1. 0 \in Nat /\ DOMAIN <<>> = 1 .. 0
  OBVIOUS
<1>2. PICK acc : TallyLoop!Accumulates(acc, 0, 0, 0, 0, 0, <<>>)
  BY <1>1, TallyLoop!Accumulators
<1> QED
  BY <1>2, TallyIsLoop DEF TallyLoop!Accumulates

-----------------------------------------------------------------------------
(* One term when a segment is added.                                       *)

-----------------------------------------------------------------------------
(* What the index keeps of one term: the tokens w where it stands, its     *)
(* postings p and its count g, over n tokens.                              *)
InSpan(S, s) == {x \in S : x \in s.tokFirst .. s.tokLast}

Span(s, n) == s.tokFirst \in Nat /\ s.tokLast \in Nat /\ s.tokLast <= n
SpansFit(segments, n) == \A k \in DOMAIN segments : Span(segments[k], n)

PostingOK(segments, S, x) ==
  /\ x[1] \in DOMAIN segments /\ x[2] \in Nat
  /\ x[2] = Cardinality(InSpan(S, segments[x[1]])) % TfLimit

TermOK(segments, n, w, p, g) ==
  /\ IsList(w) /\ \A x \in ToSet(w) : x \in 1 .. n
  /\ IsList(p) /\ \A k \in DOMAIN p : PostingOK(segments, ToSet(w), p[k])
  /\ \A k \in 1 .. Len(p) - 1 : p[k][1] < p[k + 1][1]
  /\ Tally(p) = g /\ g \in Nat

LEMMA CountBelow ==
  ASSUME NEW c \in Nat
  PROVE  c % TfLimit \in Nat
<1>1. TfLimit \in Nat /\ TfLimit > 0
  BY IndexAssumption
<1> QED
  BY <1>1

Shifted(n, E) == {n + k : k \in E}

Ahead(E) == \A k \in E : k \in Int /\ 1 <= k
Below(S, n) == \A x \in S : x \in 1 .. n
After(s, n, E) ==
  /\ n \in Nat /\ s.tokFirst = n + 1 /\ s.tokLast \in Int
  /\ \A k \in E : k \in Int /\ 1 <= k /\ n + k <= s.tokLast

(* The older segments hold what they held. *)
LEMMA SpanKept ==
  ASSUME NEW n \in Nat, NEW s, Span(s, n), NEW S, NEW E, Ahead(E)
  PROVE  InSpan(S \cup Shifted(n, E), s) = InSpan(S, s)
<1>1. \A k \in E : n + k \notin s.tokFirst .. s.tokLast
  <2>1. TAKE k \in E
  <2>2. k \in Int /\ k >= 1
    BY DEF Ahead
  <2>3. s.tokLast \in Int /\ s.tokLast <= n
    BY DEF Span
  <2> QED
    BY <2>2, <2>3
<1> QED
  BY <1>1 DEF InSpan, Shifted

(* The new one holds the tokens that were added. *)
LEMMA SpanNew ==
  ASSUME NEW n, NEW s, NEW E, After(s, n, E), NEW S, Below(S, n)
  PROVE  InSpan(S \cup Shifted(n, E), s) = Shifted(n, E)
<1>1. \A x \in S : x \notin s.tokFirst .. s.tokLast
  BY DEF After, Below
<1>2. \A k \in E : n + k \in s.tokFirst .. s.tokLast
  BY DEF After
<1> QED
  BY <1>1, <1>2 DEF InSpan, Shifted

NewPosting(segments, E) == <<Len(segments) + 1, Cardinality(E) % TfLimit>>

LEMMA TermFurther ==
  ASSUME NEW segments, IsList(segments), NEW n \in Nat, SpansFit(segments, n),
         NEW w, NEW p, NEW g, TermOK(segments, n, w, p, g),
         NEW l \in Nat, NEW E \in SUBSET (1 .. l), NEW s, s.tokFirst = n + 1, s.tokLast = n + l,
         NEW w2, PlacedAt(w2, w, n, E),
         NEW p2, PostedAt(p2, p, E # {}, NewPosting(segments, E)),
         NEW g2, g2 = g + (IF E # {} THEN Cardinality(E) % TfLimit ELSE 0)
  PROVE  TermOK(Append(segments, s), n + l, w2, p2, g2)
<1> DEFINE m == Len(segments)
           segs == Append(segments, s)
           c == Cardinality(E) % TfLimit
           S == ToSet(w)
           S2 == ToSet(w2)
           x == NewPosting(segments, E)
<1>e. Ahead(E) /\ After(s, n, E)
  BY DEF Ahead, After
<1>1. m \in Nat /\ DOMAIN segments = 1 .. m
  BY ListDomain
<1>2. DOMAIN segs = 1 .. m + 1 /\ segs[m + 1] = s /\ \A k \in 1 .. m : segs[k] = segments[k]
  BY AppendLists
<1>3. Cardinality(E) \in Nat /\ c \in Nat
  <2>1. IsFiniteSet(E)
    <3>1. 1 \in Int /\ l \in Int
      OBVIOUS
    <3> QED
      BY <3>1, FS_Interval, FS_Subset
  <2>2. Cardinality(E) \in Nat
    BY <2>1, FS_CardinalityType
  <2> QED
    BY <2>2, CountBelow
<1>4. x[1] = m + 1 /\ x[2] = c
  BY DEF NewPosting
<1> HIDE DEF m, segs, c, x
<1>5. /\ IsList(w) /\ \A k \in S : k \in 1 .. n
      /\ IsList(p) /\ \A k \in DOMAIN p : PostingOK(segments, S, p[k])
      /\ \A k \in 1 .. Len(p) - 1 : p[k][1] < p[k + 1][1]
      /\ Tally(p) = g /\ g \in Nat
  BY DEF TermOK
<1>6. IsList(w2) /\ S2 = S \cup Shifted(n, E)
  BY DEF PlacedAt, Shifted
<1> HIDE DEF S, S2
<1>7. \A k \in S2 : k \in 1 .. n + l
  BY <1>5, <1>6 DEF Shifted
<1>8. \A k \in DOMAIN p : PostingOK(segs, S2, p[k])
  <2>1. TAKE k \in DOMAIN p
  <2> DEFINE j == p[k][1]
             t == segments[j]
  <2>2. j \in 1 .. m /\ p[k][2] \in Nat /\ p[k][2] = Cardinality(InSpan(S, t)) % TfLimit
    BY <1>1, <1>5 DEF PostingOK
  <2>3. Span(t, n) /\ segs[j] = t /\ j \in DOMAIN segs
    BY <1>1, <1>2, <2>2 DEF SpansFit
  <2> HIDE DEF t
  <2>4. InSpan(S2, t) = InSpan(S, t)
    <3>1. InSpan(S \cup Shifted(n, E), t) = InSpan(S, t)
      BY <1>e, <2>3, SpanKept
    <3> QED
      BY <1>6, <3>1
  <2> QED
    BY <2>2, <2>3, <2>4 DEF PostingOK
<1>9. CASE E = {}
  <2>1. p2 = p /\ g2 = g
    BY <1>5, <1>9 DEF PostedAt
  <2>2. TermOK(segs, n + l, w2, p2, g2)
    BY <1>5, <1>6, <1>7, <1>8, <2>1 DEF TermOK, S2
  <2> QED
    BY <2>2 DEF segs
<1>10. CASE E # {}
  <2> DEFINE q == Len(p)
  <2>1. p2 = Append(p, x) /\ g2 = g + c
    BY <1>10 DEF PostedAt, x, c
  <2>2. q \in Nat /\ DOMAIN p = 1 .. q
    BY <1>5, ListDomain
  <2>3. /\ IsList(p2) /\ Len(p2) = q + 1 /\ DOMAIN p2 = 1 .. q + 1 /\ p2[q + 1] = x
        /\ \A k \in 1 .. q : p2[k] = p[k]
    BY <1>5, <2>1, AppendLists
  <2> HIDE DEF q
  <2>4. PostingOK(segs, S2, x)
    <3>1. InSpan(S2, s) = Shifted(n, E)
      <4>1. InSpan(S \cup Shifted(n, E), s) = Shifted(n, E)
        <5>1. Below(S, n)
          BY <1>5 DEF Below
        <5> QED
          BY <1>e, <5>1, SpanNew
      <4> QED
        BY <1>6, <4>1
    <3>2. Cardinality(InSpan(S2, s)) = Cardinality(E)
      BY <3>1, ShiftedCount DEF Shifted
    <3>3. m + 1 \in DOMAIN segs
      BY <1>1, <1>2
    <3> QED
      BY <1>2, <1>3, <1>4, <3>2, <3>3 DEF PostingOK, c
  <2>5. \A k \in DOMAIN p2 : PostingOK(segs, S2, p2[k])
    <3>1. TAKE k \in DOMAIN p2
    <3>2. k \in 1 .. q \/ k = q + 1
      BY <2>2, <2>3
    <3> QED
      BY <1>8, <2>2, <2>3, <2>4, <3>2
  <2>6. ASSUME NEW k \in 1 .. Len(p2) - 1 PROVE p2[k][1] < p2[k + 1][1]
    <3>1. k \in 1 .. q /\ p2[k] = p[k]
      BY <2>2, <2>3
    <3>2. CASE k = q
      <4>1. p2[k + 1] = x
        BY <2>3, <3>2
      <4>2. p[k][1] \in 1 .. m
        BY <1>1, <1>5, <2>2, <3>1 DEF PostingOK
      <4> QED
        BY <1>1, <1>4, <3>1, <4>1, <4>2
    <3>3. CASE k # q
      <4>1. k \in 1 .. q - 1 /\ k + 1 \in 1 .. q
        BY <2>2, <3>1, <3>3
      <4>2. k \in 1 .. Len(p) - 1
        BY <4>1 DEF q
      <4> QED
        BY <1>5, <2>3, <3>1, <4>1, <4>2
    <3> QED
      BY <3>2, <3>3
  <2>7. Tally(p2) = g2 /\ g2 \in Nat
    BY <1>3, <1>4, <1>5, <2>1, TallyOfLonger
  <2>8. TermOK(segs, n + l, w2, p2, g2)
    BY <1>6, <1>7, <2>3, <2>5, <2>6, <2>7 DEF TermOK, S2
  <2> QED
    BY <2>8 DEF segs
<1> QED
  BY <1>9, <1>10

-----------------------------------------------------------------------------
(* All terms when a segment is added.                                      *)

TermsOK(ix) ==
  /\ SpansFit(ix.segments, Len(ix.tokens))
  /\ DOMAIN ix.postings = DOMAIN ix.globalTf /\ DOMAIN ix.termTokens = DOMAIN ix.globalTf
  /\ \A t : TermOK(ix.segments, Len(ix.tokens), ListAt(ix.termTokens, t), ListAt(ix.postings, t),
                   CountAt(ix.globalTf, t))

(* The terms of one more segment, of the tokens toks. *)
TermsIn(n, ix, seg, toks) ==
  /\ n.termTokens = PlacedIn(ix.termTokens, Len(ix.tokens), toks)
  /\ n.postings = PostedIn(ix.postings, seg, TermCounts(toks))
  /\ n.globalTf = GlobalCounts(ix.globalTf, TermCounts(toks))

CountOf(toks, t) == Cardinality(Occurs(toks, Len(toks), t)) % TfLimit

CountsTerms(tf, toks) ==
  /\ IsFiniteSet(DOMAIN tf)
  /\ \A t : t \in DOMAIN tf <=> Occurs(toks, Len(toks), t) # {}
  /\ \A t \in DOMAIN tf : tf[t] = CountOf(toks, t)

LEMMA TermCountsIs ==
  ASSUME NEW toks, IsList(toks)
  PROVE  CountsTerms(TermCounts(toks), toks)
<1> DEFINE l == Len(toks)
           tf == TermCounts(toks)
           J == {j \in DOMAIN toks : IsEvidence(toks[j])}
           T == {toks[k].term : k \in J}
           f == [k \in 1 .. l |-> toks[k].term]
<1>1. l \in Nat /\ DOMAIN toks = 1 .. l
  BY ListDomain
<1>2. tf = [t \in T |-> Cardinality({k \in DOMAIN toks : IsEvidence(toks[k]) /\ toks[k].term = t}) % TfLimit]
  BY DEF TermCounts
<1>3. \A t : {k \in DOMAIN toks : IsEvidence(toks[k]) /\ toks[k].term = t} = Occurs(toks, l, t)
  BY <1>1 DEF Occurs
<1>4. J \in SUBSET (1 .. l)
  BY <1>1
<1>5. \A t : t \in T <=> Occurs(toks, l, t) # {}
  <2>1. TAKE t
  <2>2. t \in T <=> \E k \in DOMAIN toks : IsEvidence(toks[k]) /\ toks[k].term = t
    OBVIOUS
  <2> HIDE DEF T
  <2> QED
    BY <1>1, <2>2 DEF Occurs
<1>6. T = {f[k] : k \in J}
  BY <1>4
<1> HIDE DEF f, J, T, l, tf
<1>7. IsFiniteSet(T)
  BY <1>1, <1>4, <1>6, ImageIsFinite
<1>8. DOMAIN tf = T /\ \A t \in T : tf[t] = Cardinality(Occurs(toks, l, t)) % TfLimit
  BY <1>2, <1>3
<1>9. CountsTerms(tf, toks)
  BY <1>5, <1>7, <1>8 DEF CountsTerms, CountOf, l
<1> QED
  BY <1>9 DEF tf

LEMMA TermsFurther ==
  ASSUME NEW ix, TermsOK(ix), IsList(ix.segments), IsList(ix.tokens), NEW toks, IsList(toks),
         NEW s, s.tokFirst = Len(ix.tokens) + 1, s.tokLast = Len(ix.tokens) + Len(toks),
         NEW n, n.segments = Append(ix.segments, s), n.tokens = ix.tokens \o toks,
         TermsIn(n, ix, Len(ix.segments) + 1, toks)
  PROVE  TermsOK(n)
<1> DEFINE m == Len(ix.tokens)
           l == Len(toks)
           tf == TermCounts(toks)
           seg == Len(ix.segments) + 1
           Old(t) == TermOK(ix.segments, m, ListAt(ix.termTokens, t), ListAt(ix.postings, t),
                            CountAt(ix.globalTf, t))
<1>1. m \in Nat /\ l \in Nat /\ Len(n.tokens) = m + l
  BY ListDomain, ConcatLists
<1>2. SpansFit(ix.segments, m) /\ \A t : Old(t)
  BY DEF TermsOK
<1>3. DOMAIN ix.postings = DOMAIN ix.globalTf /\ DOMAIN ix.termTokens = DOMAIN ix.globalTf
  BY DEF TermsOK
<1>4. CountsTerms(tf, toks)
  BY TermCountsIs
<1>5. Placed(n.termTokens, ix.termTokens, m, toks, l)
  <2>1. \A t : IsList(ListAt(ix.termTokens, t))
    BY <1>2 DEF TermOK
  <2>2. Placed(PlacedIn(ix.termTokens, m, toks), ix.termTokens, m, toks, l)
    <3> HIDE DEF m
    <3> QED
      BY <2>1, PlacedInIs
  <2> QED
    BY <2>2 DEF TermsIn
<1>6. Posted(n.postings, ix.postings, seg, tf, DOMAIN tf)
  <2>1. n.postings = PostedIn(ix.postings, seg, tf)
    BY DEF TermsIn
  <2>2. IsFiniteSet(DOMAIN tf)
    BY <1>4 DEF CountsTerms
  <2> HIDE DEF tf, seg
  <2> QED
    BY <2>1, <2>2, PostedInIs
<1>7. /\ DOMAIN n.globalTf = DOMAIN ix.globalTf \cup DOMAIN tf
      /\ \A t : CountAt(n.globalTf, t) = CountAt(ix.globalTf, t) + CountAt(tf, t)
  <2> DEFINE g == ix.globalTf
             h == n.globalTf
  <2>1. h = [t \in DOMAIN g \cup DOMAIN tf |->
               (IF t \in DOMAIN g THEN g[t] ELSE 0) + (IF t \in DOMAIN tf THEN tf[t] ELSE 0)]
    BY DEF TermsIn, GlobalCounts
  <2> HIDE DEF g, h, tf
  <2>2. DOMAIN h = DOMAIN g \cup DOMAIN tf
    BY <2>1
  <2>3. ASSUME NEW t PROVE CountAt(h, t) = CountAt(g, t) + CountAt(tf, t)
    <3>1. CASE t \in DOMAIN g \cup DOMAIN tf
      BY <2>1, <3>1 DEF CountAt
    <3>2. CASE t \notin DOMAIN g \cup DOMAIN tf
      BY <2>2, <3>2 DEF CountAt
    <3> QED
      BY <3>1, <3>2
  <2> QED
    BY <2>2, <2>3 DEF g, h
<1> HIDE DEF tf
<1>8. \A t : t \in DOMAIN tf <=> Occurs(toks, l, t) # {}
  BY <1>4 DEF CountsTerms
<1>9. DOMAIN n.postings = DOMAIN n.globalTf /\ DOMAIN n.termTokens = DOMAIN n.globalTf
  <2>1. \A t : t \in DOMAIN n.postings <=> t \in DOMAIN ix.postings \/ t \in DOMAIN tf
    BY <1>6 DEF Posted
  <2>2. \A t : t \in DOMAIN n.termTokens <=> t \in DOMAIN ix.termTokens \/ t \in DOMAIN tf
    BY <1>5, <1>8 DEF Placed
  <2> QED
    BY <1>3, <1>7, <2>1, <2>2
<1>10. ASSUME NEW t
       PROVE  TermOK(n.segments, m + l, ListAt(n.termTokens, t), ListAt(n.postings, t), CountAt(n.globalTf, t))
  <2> DEFINE E == Occurs(toks, l, t)
             w == ListAt(ix.termTokens, t)
             p == ListAt(ix.postings, t)
             g == CountAt(ix.globalTf, t)
             w2 == ListAt(n.termTokens, t)
             p2 == ListAt(n.postings, t)
             g2 == CountAt(n.globalTf, t)
  <2>1. E \in SUBSET (1 .. l)
    BY DEF Occurs
  <2>2. TermOK(ix.segments, m, w, p, g)
    BY <1>2
  <2>3. PlacedAt(w2, w, m, E)
    BY <1>5 DEF Placed
  <2>4. t \in DOMAIN tf <=> E # {}
    BY <1>8
  <2>5. t \in DOMAIN tf => tf[t] = Cardinality(E) % TfLimit
    BY <1>4 DEF CountsTerms, CountOf
  <2>6. PostedAt(p2, p, t \in DOMAIN tf, <<seg, tf[t]>>)
    BY <1>6 DEF Posted
  <2>7. PostedAt(p2, p, E # {}, NewPosting(ix.segments, E))
    <3> HIDE DEF p, p2, E
    <3>1. CASE t \in DOMAIN tf
      BY <2>4, <2>5, <2>6, <3>1 DEF PostedAt, NewPosting
    <3>2. CASE t \notin DOMAIN tf
      BY <2>4, <2>6, <3>2 DEF PostedAt
    <3> QED
      BY <3>1, <3>2
  <2>8. g2 = g + (IF E # {} THEN Cardinality(E) % TfLimit ELSE 0)
    <3>1. g2 = g + CountAt(tf, t)
      BY <1>7
    <3>2. CountAt(tf, t) = IF E # {} THEN Cardinality(E) % TfLimit ELSE 0
      BY <2>4, <2>5 DEF CountAt
    <3> HIDE DEF g, g2, E
    <3> QED
      BY <3>1, <3>2
  <2> HIDE DEF E, w, p, g, w2, p2, g2
  <2>9. m \in Nat /\ s.tokFirst = m + 1 /\ s.tokLast = m + l
    BY <1>1
  <2> HIDE DEF m, l
  <2>10. TermOK(Append(ix.segments, s), m + l, w2, p2, g2)
    BY <1>1, <1>2, <2>1, <2>2, <2>3, <2>7, <2>8, <2>9, TermFurther
  <2> QED
    BY <2>10 DEF w2, p2, g2
<1>11. SpansFit(n.segments, m + l)
  <2> DEFINE k == Len(ix.segments)
  <2>1. k \in Nat /\ DOMAIN ix.segments = 1 .. k
    BY ListDomain
  <2>2. /\ DOMAIN n.segments = 1 .. k + 1 /\ n.segments[k + 1] = s
        /\ \A i \in 1 .. k : n.segments[i] = ix.segments[i]
    BY AppendLists
  <2> HIDE DEF k
  <2>3. ASSUME NEW i \in DOMAIN n.segments PROVE Span(n.segments[i], m + l)
    <3>1. CASE i \in 1 .. k
      <4>1. Span(ix.segments[i], m)
        BY <1>2, <2>1, <3>1 DEF SpansFit
      <4>2. n.segments[i] = ix.segments[i]
        BY <2>2, <3>1
      <4> DEFINE u == ix.segments[i]
      <4> HIDE DEF m, l, u
      <4>3. Span(u, m + l)
        <5>1. u.tokFirst \in Nat /\ u.tokLast \in Nat /\ u.tokLast <= m
          BY <4>1 DEF Span, u
        <5> QED
          BY <1>1, <5>1 DEF Span
      <4> QED
        BY <4>2, <4>3 DEF u
    <3>2. CASE i = k + 1
      <4>1. s.tokFirst = m + 1 /\ s.tokLast = m + l
        OBVIOUS
      <4> HIDE DEF m, l
      <4> QED
        BY <1>1, <2>2, <3>2, <4>1 DEF Span
    <3> QED
      BY <2>1, <2>2, <3>1, <3>2
  <2> QED
    BY <2>3 DEF SpansFit
<1> QED
  BY <1>1, <1>9, <1>10, <1>11 DEF TermsOK

-----------------------------------------------------------------------------
(* push_segment keeps what the index says of terms.                        *)

(* What WithTokens makes of the terms, and that nothing else does. *)
LEMMA TokensTerms ==
  ASSUME NEW ix, Shaped(ix), NEW seg, NEW toks
  PROVE  TermsIn(WithTokens(ix, seg, toks, TermCounts(toks)), ix, seg, toks)
<1> DEFINE tf == TermCounts(toks)
           b == PlacedIn(ix.termTokens, Len(ix.tokens), toks)
           d == PostedIn(ix.postings, seg, tf)
           e == GlobalCounts(ix.globalTf, tf)
           a == ix.tokens \o toks
           c == FoldLeft(LAMBDA bb, tok :
                               IF /\ "DIRECTIVE" \in tok.flags
                                  /\ HasContent(tok.kind) /\ "FUNC" \notin tok.attrs
                               THEN BagOf!BagAdd(bb, tok.term) ELSE bb, ix.directiveTokens, toks)
           n == WithTokens(ix, seg, toks, tf)
<1> HIDE DEF tf
<1>1. n = [ix EXCEPT !.tokens = a, !.termTokens = b, !.directiveTokens = c, !.postings = d, !.globalTf = e]
  BY DEF WithTokens, PlacedIn, PostedIn
<1> HIDE DEF a, b, c, d, e, n
<1>2. n.termTokens = b /\ n.postings = d /\ n.globalTf = e
  BY <1>1 DEF Shaped, IndexNames
<1>3. TermsIn(n, ix, seg, toks)
  BY <1>2 DEF b, d, e, tf, TermsIn
<1> QED
  BY <1>3 DEF n, tf

LEMMA ReadTerms ==
  ASSUME NEW ix, Shaped(ix), NEW seg, NEW field, NEW range, NEW keyWords, NEW keyToks, NEW textToks,
         NEW raw, NEW lower
  PROVE  TermsIn(SegmentRead(ix, seg, field, range, keyWords, keyToks, textToks, raw, lower),
                 ix, seg, keyToks \o textToks)
<1> DEFINE toks == keyToks \o textToks
           s == Segment(ix, field, range, keyWords, toks, lower)
           pairs == Bigrams(textToks)
           words == WordsOf(raw)
           at == Len(ix.tokens) + Len(keyToks)
           dates == DateTokens(raw, at, seg) \o TextualDates(words, at, seg)
           a == WithSegment(ix, s, lower, pairs)
           b == WithFacts(a, seg, raw, words, at, keyWords, dates)
           n == SegmentRead(ix, seg, field, range, keyWords, keyToks, textToks, raw, lower)
<1>1. n = WithTokens(b, seg, toks, TermCounts(toks))
  BY DEF SegmentRead
<1> HIDE DEF n, dates, at
<1>2. b = WithFacts(a, seg, raw, words, at, keyWords, dates)
  BY DEF b
<1> HIDE DEF b
<1>3. a = WithSegment(ix, s, lower, pairs)
  BY DEF a
<1> HIDE DEF a, s, pairs, words, toks
<1>4. SegmentWritten(a, ix, s, lower)
  BY <1>3, WithSegmentIs
<1>5. FactsWritten(b, a, seg, raw, words, at, keyWords, dates)
  BY <1>2, <1>4, WithFactsIs DEF SegmentWritten
<1>6. TermsIn(n, b, seg, toks)
  BY <1>1, <1>5, TokensTerms DEF FactsWritten
<1>7. /\ b.tokens = ix.tokens /\ b.termTokens = ix.termTokens
      /\ b.postings = ix.postings /\ b.globalTf = ix.globalTf
  <2>1. /\ a.tokens = ix.tokens /\ a.termTokens = ix.termTokens
        /\ a.postings = ix.postings /\ a.globalTf = ix.globalTf
    BY <1>4 DEF SegmentWritten, Same, IndexNames
  <2>2. /\ b.tokens = a.tokens /\ b.termTokens = a.termTokens
        /\ b.postings = a.postings /\ b.globalTf = a.globalTf
    BY <1>5 DEF FactsWritten, Same, IndexNames
  <2> QED
    BY <2>1, <2>2
<1>8. TermsIn(n, ix, seg, toks)
  BY <1>6, <1>7 DEF TermsIn
<1> QED
  BY <1>8 DEF n, toks

LEMMA PushTerms ==
  ASSUME NEW ix, SegmentsOK(ix), TermsOK(ix), NEW field, NEW p, PieceOK(p), NEW falsey
  PROVE  TermsOK(PushSegment(ix, field, p.range, p.keys, p.text, RawTokens(p.text), falsey))
<1> DEFINE seg == Len(ix.segments) + 1
           raw == RawTokens(p.text)
           words == WordsOf(raw)
           keyToks == KeyTokens(p.keys, falsey, seg)
           textToks == TextTokens(raw, Flags(words), seg)
           toks == keyToks \o textToks
           lower == LowerText(p.keys, p.text)
           at == Len(ix.tokens) + Len(keyToks)
           dates == DateTokens(raw, at, seg) \o TextualDates(words, at, seg)
           s == Segment(ix, field, p.range, p.keys, toks, lower)
           n == PushSegment(ix, field, p.range, p.keys, p.text, RawTokens(p.text), falsey)
<1>1. n = SegmentRead(ix, seg, field, p.range, p.keys, keyToks, textToks, raw, lower)
  BY DEF PushSegment
<1> HIDE DEF n
<1>2. IsList(p.keys) /\ IsList(p.text)
  BY DEF PieceOK
<1>3. IsList(raw)
  BY <1>2, RawTokensList
<1> HIDE DEF raw
<1>4. IsList(words)
  BY <1>3, WordsOfList
<1>5. IsList(keyToks)
  BY <1>2, KeyTokensList
<1> HIDE DEF keyToks
<1>6. IsList(textToks)
  BY <1>3, TextTokensList
<1> HIDE DEF textToks
<1>7. IsList(toks)
  BY <1>5, <1>6, ConcatLists
<1>a. dates = DateTokens(raw, at, seg) \o TextualDates(WordsOf(raw), at, seg)
  OBVIOUS
<1>b. at = Len(ix.tokens) + Len(keyToks)
  OBVIOUS
<1> HIDE DEF at, seg, dates, lower
<1>c. Shaped(ix)
  BY DEF SegmentsOK
<1>d. s = Segment(ix, field, p.range, p.keys, keyToks \o textToks, lower)
  OBVIOUS
<1> HIDE DEF s, words
<1>8. SegmentIn(n, ix, seg, field, p.range, p.keys, keyToks, textToks, raw, lower, at, dates)
  BY <1>1, <1>a, <1>b, <1>c, SegmentReadIs
<1>9. s.tokFirst = Len(ix.tokens) + 1 /\ s.tokLast = Len(ix.tokens) + Len(toks)
  BY <1>d DEF Segment
<1>10. n.segments = Append(ix.segments, s) /\ n.tokens = ix.tokens \o toks
  BY <1>8, <1>d DEF SegmentIn
<1>11. TermsIn(n, ix, seg, toks)
  BY <1>1, <1>c, ReadTerms
<1> HIDE DEF toks
<1>12. TermsIn(n, ix, Len(ix.segments) + 1, toks)
  BY <1>11 DEF seg
<1>13. IsList(ix.segments) /\ IsList(ix.tokens)
  BY DEF SegmentsOK, Laid
<1>14. TermsOK(n)
  BY <1>7, <1>9, <1>10, <1>12, <1>13, TermsFurther
<1> QED
  BY <1>14 DEF n

-----------------------------------------------------------------------------
(* The terms of the documents.                                             *)

LEMMA PushAllTerms ==
  ASSUME NEW ix, SegmentsOK(ix), TermsOK(ix), NEW field, NEW pieces, IsList(pieces), NEW falsey,
         \A j \in DOMAIN pieces : PieceOK(pieces[j])
  PROVE  TermsOK(PushSegments(ix, field, pieces, falsey))
<1> DEFINE n == Len(pieces)
<1>1. n \in Nat /\ DOMAIN pieces = 1 .. n
  BY ListDomain
<1>2. PushSegments(ix, field, pieces, falsey) = PushLoop!Fold(field, falsey, 0, ix, pieces)
  BY DEF PushSegments, PushLoop!Fold, FoldLeft, MapThenFoldSet,
         Max, PushLoop!Greatest, PushStep
<1> HIDE DEF n
<1>3. PICK acc : PushLoop!Accumulates(acc, field, falsey, 0, ix, n, pieces)
  BY <1>1, PushLoop!Accumulators
<1> DEFINE T == {i \in Nat : i <= n => SegmentsOK(acc[i]) /\ TermsOK(acc[i])}
<1>4. 0 \in T
  <2>1. acc[0] = ix
    BY <1>3 DEF PushLoop!Accumulates
  <2> QED
    BY <2>1
<1>5. ASSUME NEW i \in Nat, i \in T PROVE i + 1 \in T
  <2>1. SUFFICES ASSUME i + 1 <= n PROVE SegmentsOK(acc[i + 1]) /\ TermsOK(acc[i + 1])
    OBVIOUS
  <2> DEFINE a == acc[i]
             p == pieces[i + 1]
  <2>2. i + 1 \in 1 .. n /\ (i + 1) - 1 = i /\ SegmentsOK(a) /\ TermsOK(a)
    BY <1>1, <2>1, <1>5
  <2>3. acc[i + 1] = PushSegment(a, field, p.range, p.keys, p.text, RawTokens(p.text), falsey)
    BY <1>3, <2>2 DEF PushLoop!Accumulates, PushStep
  <2>4. PieceOK(p)
    BY <1>1, <2>2
  <2> HIDE DEF a, p
  <2> DEFINE b == PushSegment(a, field, p.range, p.keys, p.text, RawTokens(p.text), falsey)
  <2>5. Pushed(b, a, field, p)
    BY <2>2, <2>4, PushSegmentIs
  <2>6. TermsOK(b)
    BY <2>2, <2>4, PushTerms
  <2> HIDE DEF b
  <2>7. SegmentsOK(b)
    BY <2>5 DEF Pushed
  <2> QED
    BY <2>3, <2>6, <2>7 DEF b
<1> HIDE DEF T
<1>6. n \in T
  BY <1>1, <1>4, <1>5, PushLoop!SetInduction
<1> QED
  BY <1>1, <1>2, <1>3, <1>6 DEF T, PushLoop!Accumulates

TermNames == {"segments", "tokens", "termTokens", "postings", "globalTf"}

LEMMA SameTerms ==
  ASSUME NEW n, NEW ix, Same(n, ix, TermNames), TermsOK(ix)
  PROVE  TermsOK(n)
<1>1. /\ n.segments = ix.segments /\ n.tokens = ix.tokens /\ n.termTokens = ix.termTokens
      /\ n.postings = ix.postings /\ n.globalTf = ix.globalTf
  BY DEF Same, TermNames
<1> QED
  BY <1>1 DEF TermsOK

LEMMA AddFieldTerms ==
  ASSUME NEW ix, FieldsOK(ix), TermsOK(ix), NEW f \in Places
  PROVE  TermsOK(AddField(ix, f))
<1> DEFINE text == FieldText(f.value)
           ranges == RangesFor(f)
           pieces == Pieces(f, text, ranges)
           field == Len(ix.fields) + 1
           falsey == Falsey(f.value)
           mid == PushSegments(ix, field, pieces, falsey)
           n == AddField(ix, f)
<1>1. n = FieldAdded(ix, mid, field, f, text)
  BY DEF AddField, RangesFor
<1> HIDE DEF n
<1>2. f.path \in Texts /\ f.value \in Scalars
  BY DEF Places
<1>3. IsList(text)
  BY <1>2, ScalarText
<1>4. RangesOK(text, ranges)
  BY RangesForOK
<1> HIDE DEF ranges, text
<1>5. PiecesFit(pieces, ranges)
  BY <1>3, <1>4, PiecesAreOK
<1> HIDE DEF pieces
<1>6. IsList(pieces) /\ \A j \in DOMAIN pieces : PieceOK(pieces[j])
  BY <1>5 DEF PiecesFit
<1>7. SegmentsOK(ix)
  BY DEF FieldsOK
<1> HIDE DEF field, falsey
<1>8. TermsOK(mid)
  BY <1>6, <1>7, PushAllTerms
<1>9. Shaped(mid)
  <2>1. PushedTo(mid, ix, field, pieces, Len(pieces))
    BY <1>6, <1>7, PushSegmentsIs
  <2> HIDE DEF mid
  <2> QED
    BY <2>1 DEF PushedTo, SegmentsOK
<1> HIDE DEF mid
<1>10. FieldWritten(n, ix, mid, f, text)
  BY <1>1, <1>9, FieldAddedIs
<1>11. Same(n, mid, TermNames)
  BY <1>10 DEF FieldWritten, Same, IndexNames, TermNames
<1>12. TermsOK(n)
  BY <1>8, <1>11, SameTerms
<1> QED
  BY <1>12 DEF n

LEMMA FinishTerms ==
  ASSUME NEW ix, Shaped(ix), TermsOK(ix), NEW arrays
  PROVE  TermsOK(Finish(ix, arrays))
<1> DEFINE n == Finish(ix, arrays)
<1>1. Finished(n, ix)
  BY FinishIs
<1> HIDE DEF n
<1>2. Same(n, ix, TermNames)
  BY <1>1 DEF Finished, Same, IndexNames, TermNames
<1>3. TermsOK(n)
  BY <1>2, SameTerms
<1> QED
  BY <1>3 DEF n

LEMMA EmptyTerms ==
  TermsOK(EmptyIndex) /\ \A b \in BOOLEAN : TermsOK([EmptyIndex EXCEPT !.plain = b])
<1> DEFINE Bare(n) ==
             /\ n.segments = <<>> /\ n.tokens = <<>> /\ n.termTokens = <<>>
             /\ n.postings = <<>> /\ n.globalTf = <<>>
<1>1. ASSUME NEW n, Bare(n) PROVE TermsOK(n)
  <2>1. IsList(<<>>) /\ DOMAIN <<>> = {} /\ Len(<<>>) = 0 /\ ToSet(<<>>) = {}
    BY EmptyIsList DEF ToSet
  <2>2. \A t : ListAt(<<>>, t) = <<>> /\ CountAt(<<>>, t) = 0
    BY <2>1 DEF ListAt, CountAt
  <2>3. TermOK(<<>>, 0, <<>>, <<>>, 0)
    BY <2>1, TallyOfNone DEF TermOK
  <2>4. SpansFit(<<>>, 0)
    BY <2>1 DEF SpansFit
  <2> QED
    BY <1>1, <2>1, <2>2, <2>3, <2>4 DEF TermsOK
<1>2. Bare(EmptyIndex)
  BY DEF EmptyIndex
<1>3. \A b \in BOOLEAN : Bare([EmptyIndex EXCEPT !.plain = b])
  BY DEF EmptyIndex
<1> HIDE DEF Bare
<1> QED
  BY <1>1, <1>2, <1>3

-----------------------------------------------------------------------------
LEMMA TermsStart == DocumentsInit => TermsOK(idx)
<1> SUFFICES ASSUME DocumentsInit PROVE TermsOK(idx)
  OBVIOUS
<1>1. idx = EmptyIndex
  BY DEF DocumentsInit
<1> QED
  BY <1>1, EmptyTerms

LEMMA TermsKept == DocumentsInv /\ TermsOK(idx) /\ [DocumentsNext]_vars => TermsOK(idx')
<1> SUFFICES ASSUME DocumentsInv, TermsOK(idx), [DocumentsNext]_vars PROVE TermsOK(idx')
  OBVIOUS
<1>1. FieldsOK(idx)
  BY DEF DocumentsInv
<1>2. CASE Accept
  <2> DEFINE b == request.state.type = "text"
  <2>1. idx' = [EmptyIndex EXCEPT !.plain = b] /\ b \in BOOLEAN
    BY <1>2 DEF Accept
  <2> HIDE DEF b
  <2> QED
    BY <2>1, EmptyTerms
<1>3. CASE AddNextField
  <2> DEFINE m == Len(idx.fields)
             l == Len(flat.fields)
             f == flat.fields[m + 1]
  <2>1. m < l /\ idx' = AddField(idx, f)
    BY <1>3 DEF AddNextField
  <2>2. flat.fields \in Seq(Places) /\ IsList(idx.fields)
    BY <1>1 DEF DocumentsInv, FieldsOK
  <2>3. m \in Nat /\ l \in Nat
    BY <2>2, ListDomain
  <2>4. m + 1 \in 1 .. l
    BY <2>1, <2>3
  <2>5. f \in Places
    BY <2>2, <2>4
  <2> HIDE DEF f
  <2> QED
    BY <1>1, <2>1, <2>5, AddFieldTerms
<1>4. CASE FinishIndex
  <2>1. idx' = Finish(idx, flat.arrays)
    BY <1>4 DEF FinishIndex
  <2>2. Shaped(idx)
    BY <1>1 DEF FieldsOK, SegmentsOK
  <2> QED
    BY <2>1, <2>2, FinishTerms
<1>5. CASE UNCHANGED idx
  BY <1>5
<1>6. Reject \/ Answer \/ UNCHANGED vars => UNCHANGED idx
  BY DEF Reject, Answer, vars
<1> QED
  BY <1>2, <1>3, <1>4, <1>5, <1>6 DEF DocumentsNext

(* No segment is so long that the count of a term in it would wrap around. *)
SegmentsShort ==
  \A s \in DOMAIN idx.segments : idx.segments[s].tokLast - idx.segments[s].tokFirst + 1 < TfLimit

LEMMA CountsAreTrue ==
  ASSUME NEW S, NEW s, s.tokFirst \in Nat, s.tokLast \in Nat, s.tokLast - s.tokFirst + 1 < TfLimit
  PROVE  Cardinality(InSpan(S, s)) % TfLimit = Cardinality(InSpan(S, s))
<1> DEFINE a == s.tokFirst
           b == s.tokLast
           I == InSpan(S, s)
           c == Cardinality(I)
<1>1. a \in Int /\ b \in Int /\ b - a + 1 < TfLimit /\ TfLimit \in Nat /\ TfLimit > 0
  BY IndexAssumption
<1>2. I \subseteq a .. b
  BY DEF InSpan
<1> HIDE DEF a, b, I
<1>3. IsFiniteSet(a .. b) /\ Cardinality(a .. b) = IF a > b THEN 0 ELSE b - a + 1
  BY <1>1, FS_Interval
<1>4. c \in Nat /\ c <= Cardinality(a .. b)
  BY <1>2, <1>3, FS_Subset, FS_CardinalityType
<1> HIDE DEF c
<1>5. c \in Nat /\ c < TfLimit
  BY <1>1, <1>3, <1>4
<1>6. c % TfLimit = c
  BY <1>1, <1>5
<1> QED
  BY <1>6 DEF c, I

LEMMA TermsAgree == TermsOK(idx) /\ SegmentsShort => PostingsAgree
<1> SUFFICES ASSUME TermsOK(idx), SegmentsShort PROVE PostingsAgree
  OBVIOUS
<1>1. /\ SpansFit(idx.segments, Len(idx.tokens))
      /\ DOMAIN idx.postings = DOMAIN idx.globalTf /\ DOMAIN idx.termTokens = DOMAIN idx.globalTf
  BY DEF TermsOK
<1>2. ASSUME NEW t \in DOMAIN idx.globalTf
      PROVE  /\ \A k \in 1 .. Len(idx.postings[t]) - 1 : idx.postings[t][k][1] < idx.postings[t][k + 1][1]
             /\ Tally(idx.postings[t]) = idx.globalTf[t]
             /\ \A k \in DOMAIN idx.postings[t] :
                  idx.postings[t][k][2] =
                    Cardinality(InSpan(ToSet(idx.termTokens[t]), idx.segments[idx.postings[t][k][1]]))
  <2> DEFINE p == idx.postings[t]
             w == idx.termTokens[t]
             g == idx.globalTf[t]
             n == Len(idx.tokens)
  <2>1. TermOK(idx.segments, n, w, p, g)
    <3>1. TermOK(idx.segments, n, ListAt(idx.termTokens, t), ListAt(idx.postings, t), CountAt(idx.globalTf, t))
      BY DEF TermsOK
    <3>2. ListAt(idx.termTokens, t) = w /\ ListAt(idx.postings, t) = p /\ CountAt(idx.globalTf, t) = g
      BY <1>1 DEF ListAt, CountAt
    <3> QED
      BY <3>1, <3>2
  <2> HIDE DEF p, w, g, n
  <2>2. ASSUME NEW k \in DOMAIN p PROVE p[k][2] = Cardinality(InSpan(ToSet(w), idx.segments[p[k][1]]))
    <3> DEFINE s == idx.segments[p[k][1]]
               S == ToSet(w)
    <3>1. p[k][1] \in DOMAIN idx.segments /\ p[k][2] = Cardinality(InSpan(S, s)) % TfLimit
      BY <2>1 DEF TermOK, PostingOK
    <3>2. s.tokFirst \in Nat /\ s.tokLast \in Nat
      BY <1>1, <3>1 DEF SpansFit, Span
    <3>3. s.tokLast - s.tokFirst + 1 < TfLimit
      BY <3>1 DEF SegmentsShort
    <3> HIDE DEF s, S
    <3> QED
      BY <3>1, <3>2, <3>3, CountsAreTrue DEF S, s
  <2>3. (\A k \in 1 .. Len(p) - 1 : p[k][1] < p[k + 1][1]) /\ Tally(p) = g
    BY <2>1 DEF TermOK
  <2> QED
    BY <2>2, <2>3 DEF p, w, g
<1> QED
  BY <1>1, <1>2 DEF PostingsAgree, Tally, InSpan

(* push_segment: what the index says of a term in its postings, in its     *)
(* count and in the places where it stands is one and the same, as long as *)
(* no segment reaches the 65,536 tokens at which a u16 count wraps.        *)
THEOREM TermsAreCounted == DocumentsSpec => [](SegmentsShort => PostingsAgree)
<1>1. DocumentsInit => DocumentsInv /\ TermsOK(idx)
  BY DocumentsStart, TermsStart
<1>2. DocumentsInv /\ TermsOK(idx) => (SegmentsShort => PostingsAgree)
  BY TermsAgree
<1>3. DocumentsInv /\ TermsOK(idx) /\ [DocumentsNext]_vars => TermsOK(idx)'
  BY TermsKept
<1> QED
  BY <1>1, <1>2, <1>3, DocumentsInvariant, PTL DEF DocumentsSpec

-----------------------------------------------------------------------------
(* Part four.  Validation and the types.                                   *)

(* Validation: the first problem of a list of checks, and the types of     *)
(* the documents.                                                          *)

(* A list of checks, each with the problem it makes. *)
CheckOK(c) == c[2].status \in {404, 413, 422}
ChecksOK(checks) == IsList(checks) /\ \A k \in DOMAIN checks : CheckOK(checks[k])

FlatStep(p, q, r, acc, x) == acc \o x
FlatGood(p, q, r, acc) == ChecksOK(acc)
FlatLoop == INSTANCE Folding WITH Step <- FlatStep, Good <- FlatGood

LEMMA ChecksConcat ==
  ASSUME NEW a, ChecksOK(a), NEW b, ChecksOK(b)
  PROVE  ChecksOK(a \o b)
<1>1. IsList(a) /\ IsList(b)
  BY DEF ChecksOK
<1>2. IsList(a \o b) /\ ToSet(a \o b) = ToSet(a) \cup ToSet(b)
  BY <1>1, ConcatLists
<1>3. ASSUME NEW k \in DOMAIN (a \o b) PROVE CheckOK((a \o b)[k])
  <2>1. (a \o b)[k] \in ToSet(a) \cup ToSet(b)
    BY <1>2 DEF ToSet
  <2> QED
    BY <2>1 DEF ChecksOK, ToSet
<1> QED
  BY <1>2, <1>3 DEF ChecksOK

LEMMA OneCheck ==
  ASSUME NEW a, CheckOK(a)
  PROVE  ChecksOK(<<a>>)
<1> DEFINE s == <<a>>
<1>1. s \in Seq({a}) /\ \A k \in DOMAIN s : s[k] = a
  OBVIOUS
<1> HIDE DEF s
<1>2. IsList(s)
  BY <1>1, TypedIsList
<1>3. ChecksOK(s)
  BY <1>1, <1>2 DEF ChecksOK
<1> QED
  BY <1>3 DEF s

LEMMA TwoChecks ==
  ASSUME NEW a, CheckOK(a), NEW b, CheckOK(b)
  PROVE  ChecksOK(<<a, b>>)
<1> DEFINE s == <<a, b>>
<1>1. s \in Seq({a, b}) /\ \A k \in DOMAIN s : s[k] = a \/ s[k] = b
  OBVIOUS
<1> HIDE DEF s
<1>2. IsList(s)
  BY <1>1, TypedIsList
<1>3. ChecksOK(s)
  BY <1>1, <1>2 DEF ChecksOK
<1> QED
  BY <1>3 DEF s

LEMMA FourChecks ==
  ASSUME NEW a, CheckOK(a), NEW b, CheckOK(b), NEW c, CheckOK(c), NEW d, CheckOK(d)
  PROVE  ChecksOK(<<a, b, c, d>>)
<1> DEFINE s == <<a, b, c, d>>
<1>1. s \in Seq({a, b, c, d}) /\ \A k \in DOMAIN s : s[k] = a \/ s[k] = b \/ s[k] = c \/ s[k] = d
  OBVIOUS
<1> HIDE DEF s
<1>2. IsList(s)
  BY <1>1, TypedIsList
<1>3. ChecksOK(s)
  BY <1>1, <1>2 DEF ChecksOK
<1> QED
  BY <1>3 DEF s

Flattens(g, seqs) ==
  g = [i \in 1 .. Len(seqs) |-> IF i = 1 THEN seqs[i] ELSE g[i - 1] \o seqs[i]]

LEMMA EmptyThen ==
  ASSUME NEW s, IsList(s)
  PROVE  <<>> \o s = s
  BY DEF IsList

LEMMA FlattensExists ==
  ASSUME NEW seqs, IsList(seqs), \A k \in DOMAIN seqs : IsList(seqs[k])
  PROVE  \E g : Flattens(g, seqs)
<1> DEFINE n == Len(seqs)
<1>1. n \in Nat /\ DOMAIN seqs = 1 .. n
  BY ListDomain
<1> HIDE DEF n
<1>2. PICK acc : FlatLoop!Accumulates(acc, 0, 0, 0, <<>>, n, seqs)
  BY <1>1, FlatLoop!Accumulators
<1>3. acc[0] = <<>> /\ \A i \in 1 .. n : acc[i] = acc[i - 1] \o seqs[i]
  BY <1>2 DEF FlatLoop!Accumulates, FlatStep
<1> DEFINE g == [i \in 1 .. n |-> acc[i]]
<1>4. ASSUME NEW i \in 1 .. n PROVE g[i] = IF i = 1 THEN seqs[i] ELSE g[i - 1] \o seqs[i]
  <2>1. CASE i = 1
    <3>a. 1 \in 1 .. n /\ 1 - 1 = 0
      BY <2>1
    <3>1. acc[1] = <<>> \o seqs[1]
      <4>1. acc[1] = acc[1 - 1] \o seqs[1]
        BY <1>3, <3>a
      <4> QED
        BY <1>3, <3>a, <4>1
    <3>2. IsList(seqs[1])
      BY <1>1, <2>1
    <3> QED
      BY <2>1, <3>1, <3>2, EmptyThen
  <2>2. CASE i # 1
    <3>1. i - 1 \in 1 .. n
      BY <1>1, <2>2
    <3> QED
      BY <1>3, <2>2, <3>1
  <2> QED
    BY <2>1, <2>2
<1>5. g = [i \in 1 .. n |-> IF i = 1 THEN seqs[i] ELSE g[i - 1] \o seqs[i]]
  <2>1. g = [i \in 1 .. n |-> g[i]]
    OBVIOUS
  <2> HIDE DEF g
  <2> QED
    BY <1>4, <2>1
<1> QED
  BY <1>5 DEF Flattens, n

(* Checks gathered from lists of checks. *)
LEMMA ChecksFlattened ==
  ASSUME NEW seqs, IsList(seqs), \A k \in DOMAIN seqs : ChecksOK(seqs[k])
  PROVE  ChecksOK(FlattenSeq(seqs))
<1> DEFINE n == Len(seqs)
<1>1. n \in Nat /\ DOMAIN seqs = 1 .. n
  BY ListDomain
<1>2. CASE n = 0
  <2>1. FlattenSeq(seqs) = seqs
    BY <1>2 DEF FlattenSeq
  <2>2. DOMAIN seqs = {}
    BY <1>1, <1>2
  <2> QED
    BY <2>1, <2>2 DEF ChecksOK
<1>3. CASE n # 0
  <2> DEFINE f == CHOOSE g : g = [i \in 1 .. Len(seqs) |-> IF i = 1 THEN seqs[i] ELSE g[i - 1] \o seqs[i]]
  <2>1. FlattenSeq(seqs) = f[n]
    BY <1>3 DEF FlattenSeq
  <2>2. Flattens(f, seqs)
    BY FlattensExists DEF Flattens, ChecksOK
  <2> HIDE DEF f
  <2>3. \A i \in 1 .. n : f[i] = IF i = 1 THEN seqs[i] ELSE f[i - 1] \o seqs[i]
    BY <2>2 DEF Flattens
  <2> HIDE DEF n
  <2> DEFINE S == {m \in Nat : m \in 1 .. n => ChecksOK(f[m])}
  <2>4. 0 \in S
    OBVIOUS
  <2>5. ASSUME NEW m \in Nat, m \in S PROVE m + 1 \in S
    <3>1. SUFFICES ASSUME m + 1 \in 1 .. n PROVE ChecksOK(f[m + 1])
      OBVIOUS
    <3>2. ChecksOK(seqs[m + 1])
      BY <1>1, <3>1
    <3>3. CASE m = 0
      BY <2>3, <3>1, <3>2, <3>3
    <3>4. CASE m # 0
      <4>1. m \in 1 .. n /\ (m + 1) - 1 = m /\ m + 1 # 1
        BY <1>1, <3>1, <3>4
      <4>2. ChecksOK(f[m]) /\ f[m + 1] = f[m] \o seqs[m + 1]
        BY <2>3, <2>5, <3>1, <4>1
      <4> QED
        BY <3>2, <4>2, ChecksConcat
    <3> QED
      BY <3>3, <3>4
  <2> HIDE DEF S
  <2>6. n \in S
    BY <1>1, <2>4, <2>5, FlatLoop!SetInduction
  <2> QED
    BY <1>1, <1>3, <2>1, <2>6 DEF S
<1> QED
  BY <1>2, <1>3

LEMMA ChecksMade ==
  ASSUME NEW s, IsList(s), NEW t, t = [k \in DOMAIN s |-> t[k]], \A k \in DOMAIN s : ChecksOK(t[k])
  PROVE  ChecksOK(FlattenSeq(t))
<1>1. IsList(t) /\ DOMAIN t = DOMAIN s
  BY MadeFrom
<1> QED
  BY <1>1, ChecksFlattened

-----------------------------------------------------------------------------
InvalidOf(b, field) == <<b, Invalid(field)>>

LEMMA InvalidCheck ==
  ASSUME NEW b, NEW field
  PROVE  CheckOK(<<b, Invalid(field)>>)
  BY DEF CheckOK, Invalid, Problem

LEMMA EntryChecksOK ==
  ASSUME NEW v, NEW field
  PROVE  ChecksOK(EntryChecks(v, field))
<1> DEFINE a == Depth(v) > Limit.depth
           b == ApproxBytes(v) > Limit.questionBytes
<1>1. EntryChecks(v, field) = <<<<a, Invalid(field)>>, <<b, Invalid(field)>>>>
  BY DEF EntryChecks
<1> HIDE DEF a, b
<1> QED
  BY <1>1, InvalidCheck, TwoChecks

LEMMA AllEntryChecksOK ==
  ASSUME NEW values, IsList(values), NEW field
  PROVE  ChecksOK(AllEntryChecks(values, field))
<1> DEFINE t == [k \in DOMAIN values |-> EntryChecks(values[k], field)]
<1>1. AllEntryChecks(values, field) = FlattenSeq(t)
  BY DEF AllEntryChecks
<1>2. t = [k \in DOMAIN values |-> t[k]] /\ \A k \in DOMAIN values : t[k] = EntryChecks(values[k], field)
  OBVIOUS
<1> HIDE DEF t
<1>3. \A k \in DOMAIN values : ChecksOK(t[k])
  BY <1>2, EntryChecksOK
<1>4. ChecksOK(FlattenSeq(t))
  BY <1>2, <1>3, ChecksMade
<1> QED
  BY <1>1, <1>4

LEMMA CriteriaChecksOK ==
  ASSUME NEW q, q.kind \in {"choice", "score", "noul"}, IsList(q.criteria), NEW at
  PROVE  ChecksOK(CriteriaChecks(q, at))
<1> DEFINE all == AllEntryChecks(q.criteria, at)
<1>0. ChecksOK(all)
  BY AllEntryChecksOK
<1> HIDE DEF all
<1>1. CASE q.kind = "noul"
  <2> DEFINE b == q.instructions = Null /\ q.criteria = <<>>
             one == <<<<b, Invalid(<<"instructions">>)>>>>
  <2>1. CriteriaChecks(q, at) = all \o one
    BY <1>1 DEF CriteriaChecks, all
  <2>2. ChecksOK(one)
    <3> HIDE DEF b
    <3> QED
      BY InvalidCheck, OneCheck
  <2> HIDE DEF one
  <2> QED
    BY <1>0, <2>1, <2>2, ChecksConcat
<1>2. CASE q.kind = "choice"
  <2> DEFINE a == Len(q.criteria) < Limit.minOptions
             b == Len(q.criteria) > Limit.maxOptions
             e(k) == q.criteria[k].key = <<>>
             l(k) == Bytes(q.criteria[k].key) > Limit.keyBytes
             t == [k \in DOMAIN q.criteria |->
                    <<<<e(k), Invalid(at)>>, <<l(k), Invalid(at)>>>> \o EntryChecks(q.criteria[k].value, at)]
             two == <<<<a, Invalid(at)>>, <<b, Invalid(at)>>>>
  <2>1. CriteriaChecks(q, at) = two \o FlattenSeq(t)
    BY <1>2 DEF CriteriaChecks
  <2>2. ChecksOK(two)
    <3> HIDE DEF a, b
    <3> QED
      BY InvalidCheck, TwoChecks
  <2>3. t = [k \in DOMAIN q.criteria |-> t[k]]
    OBVIOUS
  <2>4. ASSUME NEW k \in DOMAIN q.criteria PROVE ChecksOK(t[k])
    <3> DEFINE x == e(k)
               y == l(k)
               u == <<<<x, Invalid(at)>>, <<y, Invalid(at)>>>>
               w == EntryChecks(q.criteria[k].value, at)
    <3>1. t[k] = u \o w
      OBVIOUS
    <3>2. ChecksOK(u)
      <4> HIDE DEF x, y
      <4> QED
        BY InvalidCheck, TwoChecks
    <3>3. ChecksOK(w)
      BY EntryChecksOK
    <3> HIDE DEF u, w, t
    <3> QED
      BY <3>1, <3>2, <3>3, ChecksConcat
  <2> HIDE DEF two, t
  <2>5. ChecksOK(FlattenSeq(t))
    BY <2>3, <2>4, ChecksMade
  <2> QED
    BY <2>1, <2>2, <2>5, ChecksConcat
<1>3. CASE q.kind = "score"
  <2> DEFINE a == Len(q.criteria) < Limit.minLevels
             b == Len(q.criteria) > Limit.maxLevels
             two == <<<<a, Invalid(at)>>, <<b, Invalid(at)>>>>
  <2>1. CriteriaChecks(q, at) = two \o all
    BY <1>3 DEF CriteriaChecks, all
  <2>2. ChecksOK(two)
    <3> HIDE DEF a, b
    <3> QED
      BY InvalidCheck, TwoChecks
  <2> HIDE DEF two
  <2> QED
    BY <1>0, <2>1, <2>2, ChecksConcat
<1> QED
  BY <1>1, <1>2, <1>3

LEMMA QuestionChecksOK ==
  ASSUME NEW q \in ChoiceQuestions \cup OtherQuestions
  PROVE  ChecksOK(QuestionChecks(q))
<1>1. q.kind \in {"choice", "score", "noul"} /\ IsList(q.criteria)
  <2>1. CASE q \in ChoiceQuestions
    <3> DEFINE S == [key : Texts, value : JsonValues]
    <3>1. q.kind = "choice" /\ q.criteria \in Seq(S)
      BY <2>1 DEF ChoiceQuestions
    <3> HIDE DEF S
    <3> QED
      BY <3>1, TypedIsList
  <2>2. CASE q \in OtherQuestions
    <3>1. q.kind \in {"score", "noul"} /\ q.criteria \in Seq(JsonValues)
      BY <2>2 DEF OtherQuestions
    <3> QED
      BY <3>1, TypedIsList
  <2> QED
    BY <2>1, <2>2
<1> DEFINE a == q.id = <<>>
           b == Bytes(q.id) > Limit.keyBytes
           two == <<<<a, Invalid(<<"questions">>)>>, <<b, Invalid(<<"questions">>)>>>>
           e == EntryChecks(q.instructions, <<"instructions">>)
           c == CriteriaChecks(q, <<"criteria">>)
<1>2. QuestionChecks(q) = two \o e \o c
  BY DEF QuestionChecks
<1>3. ChecksOK(two)
  <2> HIDE DEF a, b
  <2> QED
    BY InvalidCheck, TwoChecks
<1>4. ChecksOK(e)
  BY EntryChecksOK
<1>5. ChecksOK(c)
  BY <1>1, CriteriaChecksOK
<1> HIDE DEF two, e, c
<1> DEFINE f == two \o e
<1>6. ChecksOK(f)
  BY <1>3, <1>4, ChecksConcat
<1>7. QuestionChecks(q) = f \o c
  BY <1>2
<1> HIDE DEF f
<1> QED
  BY <1>5, <1>6, <1>7, ChecksConcat

LEMMA FirstProblemOK ==
  ASSUME NEW checks, ChecksOK(checks)
  PROVE  FirstProblem(checks).status \in {0, 404, 413, 422}
<1> DEFINE P == {k \in DOMAIN checks : checks[k][1]}
           failed == Chosen(checks, P)
           n == Len(checks)
<1>1. FirstProblem(checks) = IF failed = <<>> THEN NoProblem ELSE failed[1][2]
  BY DEF FirstProblem
<1>2. NoProblem.status = 0
  BY DEF NoProblem, Problem
<1>3. n \in Nat /\ DOMAIN checks = 1 .. n
  BY ListDomain DEF ChecksOK
<1> HIDE DEF P
<1>4. ASSUME failed # <<>> PROVE CheckOK(failed[1])
  <2> HIDE DEF n
  <2>1. IsList(failed)
    BY <1>3, ChosenIs
  <2>2. 1 \in DOMAIN failed
    <3> HIDE DEF failed
    <3>1. Len(failed) \in Nat /\ DOMAIN failed = 1 .. Len(failed) /\ failed = [k \in 1 .. Len(failed) |-> failed[k]]
      BY <2>1, ListDomain
    <3>2. Len(failed) # 0
      <4>1. SUFFICES ASSUME Len(failed) = 0 PROVE FALSE
        OBVIOUS
      <4> QED
        BY <1>4, <3>1, <4>1
    <3> QED
      BY <3>1, <3>2
  <2>3. PICK j \in P \cap (1 .. n) : failed[1] = checks[j]
    BY <1>3, <2>2, ChosenElement
  <2> QED
    BY <1>3, <2>3 DEF ChecksOK
<1> HIDE DEF failed
<1> QED
  BY <1>1, <1>2, <1>4 DEF CheckOK

LEMMA StateChecksOK ==
  ASSUME NEW state
  PROVE  ChecksOK(StateChecks(state))
<1> DEFINE a == state.type \notin {"text", "object", "array"}
           b == Depth(state) > Limit.depth
           c == ApproxBytes(state) > Limit.stateBytes
           d == Leaves(state) > Limit.leaves
<1>1. StateChecks(state) = <<<<a, Invalid(<<"state">>)>>, <<b, Invalid(<<"state">>)>>,
                             <<c, TooLarge>>, <<d, TooLarge>>>>
  BY DEF StateChecks
<1> HIDE DEF a, b, c, d
<1>2. CheckOK(<<c, TooLarge>>) /\ CheckOK(<<d, TooLarge>>)
  BY DEF CheckOK, TooLarge, Problem
<1> QED
  BY <1>1, <1>2, InvalidCheck, FourChecks

(* The checks of a request: those of its model, its state, the number of   *)
(* its questions, and of each question.                                    *)
Verifies(v, a, states, b, c) ==
  /\ ChecksOK(a) /\ ChecksOK(states) /\ ChecksOK(b) /\ ChecksOK(c)
  /\ v = FirstProblem(((a \o states) \o b) \o c)

LEMMA ChecksJoined ==
  ASSUME NEW v, NEW a, NEW states, NEW b, NEW c, Verifies(v, a, states, b, c)
  PROVE  /\ ChecksOK(((a \o states) \o b) \o c)
         /\ ToSet(states) \subseteq ToSet(((a \o states) \o b) \o c)
<1> DEFINE x == a \o states
           y == x \o b
           z == y \o c
<1>0. ChecksOK(a) /\ ChecksOK(states) /\ ChecksOK(b) /\ ChecksOK(c)
  BY DEF Verifies
<1>1. ChecksOK(x) /\ ToSet(x) = ToSet(a) \cup ToSet(states)
  BY <1>0, ChecksConcat, ConcatLists DEF ChecksOK
<1> HIDE DEF x
<1>2. ChecksOK(y) /\ ToSet(y) = ToSet(x) \cup ToSet(b)
  BY <1>0, <1>1, ChecksConcat, ConcatLists DEF ChecksOK
<1> HIDE DEF y
<1>3. ChecksOK(z) /\ ToSet(z) = ToSet(y) \cup ToSet(c)
  BY <1>0, <1>2, ChecksConcat, ConcatLists DEF ChecksOK
<1> HIDE DEF z
<1>4. ChecksOK(z) /\ ToSet(states) \subseteq ToSet(z)
  BY <1>1, <1>2, <1>3
<1> QED
  BY <1>4 DEF x, y, z

LEMMA VerdictChecks ==
  ASSUME NEW r \in Requests
  PROVE  \E a, b, c : Verifies(Verdict(r), a, StateChecks(r.state), b, c)
<1> DEFINE qs == r.questions
           a == r.model = ""
           b == r.model \notin KnownModels
           c == qs = <<>>
           d == Len(qs) > Limit.questions
           first == <<<<a, Invalid(<<"model">>)>>, <<b, Problem(404, <<"model">>)>>>>
           states == StateChecks(r.state)
           second == <<<<c, Invalid(<<"questions">>)>>, <<d, Invalid(<<"questions">>)>>>>
           t == [k \in DOMAIN qs |-> QuestionChecks(qs[k])]
           rest == FlattenSeq(t)
<1>1. Verdict(r) = FirstProblem(first \o states \o second \o rest)
  BY DEF Verdict
<1>2. ChecksOK(first)
  <2> HIDE DEF a, b
  <2>1. CheckOK(<<b, Problem(404, <<"model">>)>>)
    BY DEF CheckOK, Problem
  <2> QED
    BY <2>1, InvalidCheck, TwoChecks
<1>3. ChecksOK(states)
  BY StateChecksOK
<1>4. ChecksOK(second)
  <2> HIDE DEF c, d
  <2> QED
    BY InvalidCheck, TwoChecks
<1>5. ChecksOK(rest)
  <2>1. qs \in Seq(ChoiceQuestions \cup OtherQuestions)
    BY DocumentsAssumption
  <2>2. IsList(qs)
    BY RequestForm
  <2>3. \A k \in DOMAIN qs : qs[k] \in ChoiceQuestions \cup OtherQuestions
    <3> DEFINE S == ChoiceQuestions \cup OtherQuestions
    <3> HIDE DEF S, qs
    <3>1. qs \in Seq(S)
      BY <2>1 DEF S
    <3>2. \A k \in DOMAIN qs : qs[k] \in S
      BY <3>1
    <3> QED
      BY <3>2 DEF S
  <2>4. t = [k \in DOMAIN qs |-> t[k]] /\ \A k \in DOMAIN qs : t[k] = QuestionChecks(qs[k])
    OBVIOUS
  <2> HIDE DEF t, qs
  <2>5. \A k \in DOMAIN qs : ChecksOK(t[k])
    BY <2>3, <2>4, QuestionChecksOK
  <2> QED
    BY <2>2, <2>4, <2>5, ChecksMade
<1> HIDE DEF first, states, second, rest
<1>6. Verdict(r) = FirstProblem(((first \o states) \o second) \o rest)
  BY <1>1
<1>7. Verifies(Verdict(r), first, states, second, rest)
  BY <1>2, <1>3, <1>4, <1>5, <1>6 DEF Verifies
<1> QED
  BY <1>7 DEF states

LEMMA VerdictStatus ==
  ASSUME NEW r \in Requests
  PROVE  Verdict(r).status \in {0, 404, 413, 422}
<1>1. PICK a, b, c : Verifies(Verdict(r), a, StateChecks(r.state), b, c)
  BY VerdictChecks
<1> DEFINE z == ((a \o StateChecks(r.state)) \o b) \o c
<1>2. ChecksOK(z) /\ Verdict(r) = FirstProblem(z)
  BY <1>1, ChecksJoined DEF Verifies
<1> HIDE DEF z
<1> QED
  BY <1>2, FirstProblemOK

-----------------------------------------------------------------------------
VerdictOK == verdict.status \in {0, 404, 413, 422}

LEMMA VerdictKept == DocumentsInv /\ VerdictOK /\ [DocumentsNext]_vars => VerdictOK'
<1> SUFFICES ASSUME DocumentsInv, VerdictOK, [DocumentsNext]_vars PROVE VerdictOK'
  OBVIOUS
<1>1. CASE Reject
  <2>1. request \in Requests /\ verdict' = Verdict(request)
    BY <1>1 DEF Reject, DocumentsInv
  <2> QED
    BY <2>1, VerdictStatus DEF VerdictOK
<1>2. CASE ~Reject
  <2>1. UNCHANGED verdict
    BY <1>2 DEF DocumentsNext, Accept, AddNextField, FinishIndex, Answer, vars
  <2> QED
    BY <2>1 DEF VerdictOK
<1> QED
  BY <1>1, <1>2

LEMMA WindowRange ==
  ASSUME NEW ix, NEW view
  PROVE  WindowCheck(ix, view) \in -1 .. 1
<1> DEFINE b == Max(Elapsed(ix, view)) <= Min(Spans(ix, view, "Window"))
           w == IF b THEN 1 ELSE -1
<1>1. w \in -1 .. 1
  <2> HIDE DEF b
  <2> QED
    OBVIOUS
<1>2. WindowCheck(ix, view) = 0 \/ WindowCheck(ix, view) = w
  BY DEF WindowCheck
<1> HIDE DEF w
<1> QED
  BY <1>1, <1>2

LEMMA TypeHolds == DocumentsInv /\ VerdictOK => DocumentsTypeOK
<1> SUFFICES ASSUME DocumentsInv, VerdictOK PROVE DocumentsTypeOK
  OBVIOUS
<1>1. /\ request \in Requests /\ stage \in {"posted", "rejected", "indexing", "answering", "answered"}
      /\ Len(idx.fields) <= Len(flat.fields) /\ Len(views) = Len(answers)
  BY DEF DocumentsInv, AnswersOK
<1>2. ASSUME NEW s \in DOMAIN idx.segments PROVE FieldOf(idx, [seg |-> s]) \in DOMAIN idx.fields
  <2>1. idx.segments[s].field \in DOMAIN idx.offsets
    BY DEF DocumentsInv, FieldsOK, Owned
  <2>2. DOMAIN idx.offsets = DOMAIN idx.fields
    <3>1. IsList(idx.fields) /\ IsList(idx.offsets) /\ Len(idx.fields) = Len(idx.offsets)
      BY DEF DocumentsInv, FieldsOK, Owned
    <3> QED
      BY <3>1, ListDomain
  <2>3. [seg |-> s].seg = s
    OBVIOUS
  <2> QED
    BY <2>1, <2>2, <2>3 DEF FieldOf
<1>3. ASSUME NEW k \in DOMAIN answers PROVE answers[k].window \in -1 .. 1
  <2>1. answers[k] = Answered(views[k])
    BY DEF DocumentsInv, AnswersOK
  <2>2. Answered(views[k]).window = WindowCheck(idx, views[k])
    BY DEF Answered
  <2> QED
    BY <2>1, <2>2, WindowRange
<1> QED
  BY <1>1, <1>2, <1>3 DEF DocumentsTypeOK, VerdictOK

(* Type correctness of the documents.                                      *)
THEOREM DocumentsTyped == DocumentsSpec => []DocumentsTypeOK
<1>1. DocumentsInit => VerdictOK
  BY DEF DocumentsInit, VerdictOK, NoProblem, Problem
<1> QED
  BY <1>1, VerdictKept, TypeHolds, DocumentsInvariant, PTL DEF DocumentsSpec

-----------------------------------------------------------------------------
(* Part five.  The resolvers.                                              *)

(* What the resolvers are asked and which of them answers.                 *)

(* The names of what the resolvers say. *)
Named2(r, name) == r = Unresolved \/ r.name = name

LEMMA AgreedNamed ==
  ASSUME NEW name, NEW view, NEW outcomes
  PROVE  Named2(Agreed(name, view, outcomes), name)
  BY DEF Named2, Agreed, Resolved

LEMMA EnumNamed ==
  ASSUME NEW view, NEW ix
  PROVE  Named2(EnumExtraction(view, ix), "enum_extraction")
<1>1. ASSUME NEW hits, NEW winners PROVE Named2(EnumWinner(hits, winners), "enum_extraction")
  <2> DEFINE l == [k \in DOMAIN hits |-> IF k \in winners THEN Strong
                                       ELSE (Partial * hits[k]) \div Max(ToSet(hits))]
  <2>1. EnumWinner(hits, winners) = Unresolved \/ EnumWinner(hits, winners) = Resolved("enum_extraction", l)
    BY DEF EnumWinner
  <2> HIDE DEF l
  <2> QED
    BY <2>1 DEF Named2, Resolved
<1>2. \A hits : \E winners : EnumHits(hits) = EnumWinner(hits, winners)
  BY DEF EnumHits
<1>3. \A hits : Named2(EnumHits(hits), "enum_extraction")
  BY <1>1, <1>2
<1> DEFINE h == [k \in DOMAIN view.criteria |-> LiteralHit(ix, view, view.criteria[k])]
<1>4. EnumExtraction(view, ix) = Unresolved \/ EnumExtraction(view, ix) = EnumHits(h)
  BY DEF EnumExtraction
<1> HIDE DEF h
<1> QED
  BY <1>3, <1>4 DEF Named2

LEMMA LevelsNamed ==
  ASSUME NEW view, NEW ix
  PROVE  Named2(NumericLevels(view, ix), "numeric_range")
<1>1. ASSUME NEW ranges, NEW values, NEW levels
      PROVE  Named2(LevelsOfValues(ranges, values, levels), "numeric_range")
  BY DEF LevelsOfValues, Named2, Resolved
<1>2. ASSUME NEW ranges, NEW numbers
      PROVE  Named2(LevelsMeasured(ranges, numbers), "numeric_range")
  <2> DEFINE v == [k \in DOMAIN numbers |-> numbers[k].number.value]
             l == {LevelOf(ranges, numbers[k].number.value) : k \in DOMAIN numbers}
  <2>1. LevelsMeasured(ranges, numbers) = LevelsOfValues(ranges, v, l)
    BY DEF LevelsMeasured
  <2> HIDE DEF v, l
  <2> QED
    BY <1>1, <2>1
<1>3. ASSUME NEW ranges, NEW found
      PROVE  Named2(LevelsRanged(view, ix, ranges, found), "numeric_range")
  BY <1>2 DEF LevelsRanged, Named2
<1> QED
  BY <1>3 DEF NumericLevels

LEMMA ReferenceNamed ==
  ASSUME NEW view, NEW ix
  PROVE  Named2(ReferenceEquality(view, ix), "reference_equality")
<1>1. ASSUME NEW cited, NEW present PROVE Named2(Matched(cited, present), "reference_equality")
  <2>1. CASE cited = {}
    BY <2>1 DEF Matched, Named2
  <2>2. CASE cited # {} /\ present = cited
    BY <2>2 DEF Matched, Named2, Resolved
  <2>3. CASE cited # {} /\ present # cited /\ present = {}
    BY <2>3 DEF Matched, Named2, Resolved
  <2>4. CASE cited # {} /\ present # cited /\ present # {}
    BY <2>4 DEF Matched, Named2
  <2> QED
    BY <2>1, <2>2, <2>3, <2>4
<1>2. ASSUME NEW cited PROVE Named2(CitedIn(ix, view, cited), "reference_equality")
  BY <1>1 DEF CitedIn
<1>3. ReferenceEquality(view, ix) = Unresolved \/ ReferenceEquality(view, ix) = CitedIn(ix, view, Cited(view))
  BY DEF ReferenceEquality
<1> QED
  BY <1>2, <1>3 DEF Named2

LEMMA BooleanNamed ==
  ASSUME NEW view, NEW ix
  PROVE  Named2(BooleanField(view, ix), "boolean_field")
<1> DEFINE o == {ix.fields[f].value.bool : f \in NamedBooleans(ix, view)}
<1>1. BooleanField(view, ix) = Unresolved \/ BooleanField(view, ix) = Agreed("boolean_field", view, o)
  BY DEF BooleanField
<1> HIDE DEF o
<1> QED
  BY <1>1, AgreedNamed DEF Named2

LEMMA ComparisonNamed ==
  ASSUME NEW view, NEW ix, NEW c
  PROVE  Named2(NumericComparison(view, ix, c), "numeric_comparison")
<1> DEFINE o == {Compare(c.cmp, v, c.value) : v \in Quantities(ix, view, c)}
<1>1. \/ NumericComparison(view, ix, c) = Unresolved
      \/ NumericComparison(view, ix, c) = Agreed("numeric_comparison", view, o)
  BY DEF NumericComparison
<1> HIDE DEF o
<1> QED
  BY <1>1, AgreedNamed DEF Named2

LEMMA DateNamed ==
  ASSUME NEW view, NEW ix, NEW words
  PROVE  Named2(DateComparison(view, ix, words), "date_comparison")
<1>1. ASSUME NEW cmp, NEW asked, NEW inclusive
      PROVE  Named2(DateResolved(view, ix, cmp, asked, inclusive), "date_comparison")
  <2> DEFINE o == {DateOutcome(cmp, d.date, asked, inclusive) :
                     d \in {s \in ToSet(ix.dates) : InFocus(view, FieldOf(ix, s))}}
  <2>1. \/ DateResolved(view, ix, cmp, asked, inclusive) = Unresolved
        \/ DateResolved(view, ix, cmp, asked, inclusive) = Agreed("date_comparison", view, o)
    BY DEF DateResolved
  <2> HIDE DEF o
  <2> QED
    BY <2>1, AgreedNamed DEF Named2
<1>2. ASSUME NEW at PROVE Named2(DateCompared(view, ix, words, at), "date_comparison")
  <2>1. CASE at = {}
    BY <2>1 DEF DateCompared, Named2
  <2>2. CASE at # {}
    <3> DEFINE k == Min(at)
               said == {words[j] : j \in Max({1, k - 4}) .. k - 1}
               b == \/ said \cap {"by", "until"} # {}
                    \/ HasAny(JoinedWords(words), {"or before", "or after", "or later", "or earlier"})
               cmp == DateComparator(said)
               asked == DateAt(view.raw, words, k)
    <3>1. DateCompared(view, ix, words, at) = DateResolved(view, ix, cmp, asked, b)
      BY <2>2 DEF DateCompared
    <3> HIDE DEF k, said, b, cmp, asked
    <3> QED
      BY <1>1, <3>1
  <2> QED
    BY <2>1, <2>2
<1> DEFINE at == {k \in DOMAIN words : DateAt(view.raw, words, k) # NoDate}
<1>3. DateComparison(view, ix, words) = DateCompared(view, ix, words, at)
  BY DEF DateComparison
<1> HIDE DEF at
<1> QED
  BY <1>2, <1>3

(* Which resolver an answer of a name comes from. *)
LEMMA OnlyComparison ==
  ASSUME NEW view, NEW ix, view.kind \in {"choice", "score", "noul"},
         Resolve(view, ix).name = "numeric_comparison"
  PROVE  /\ Resolve(view, ix) = NumericComparison(view, ix, ParseComparison(view.raw))
         /\ NumericComparison(view, ix, ParseComparison(view.raw)) # Unresolved
<1> DEFINE a == EnumExtraction(view, ix)
           b == NumericLevels(view, ix)
           c == ReferenceEquality(view, ix)
           d == BooleanField(view, ix)
           e == NumericComparison(view, ix, ParseComparison(view.raw))
           f == DateComparison(view, ix, WordsOf(view.raw))
           r == Resolve(view, ix)
<1>1. /\ Named2(a, "enum_extraction") /\ Named2(b, "numeric_range") /\ Named2(c, "reference_equality")
      /\ Named2(d, "boolean_field") /\ Named2(f, "date_comparison")
  BY EnumNamed, LevelsNamed, ReferenceNamed, BooleanNamed, DateNamed
<1>2. /\ view.kind = "choice" => r = OrElse(a, b)
      /\ view.kind = "score" => r = b
      /\ view.kind = "noul" => r = OrElse(c, OrElse(d, OrElse(e, f)))
  BY DEF Resolve
<1>3. Unresolved.name = "none"
  BY DEF Unresolved
<1>4. r.name = "numeric_comparison"
  OBVIOUS
<1> HIDE DEF a, b, c, d, e, f, r
<1>5. r = e /\ e # Unresolved
  BY <1>1, <1>2, <1>3, <1>4 DEF Named2, OrElse
<1> QED
  BY <1>5 DEF r, e

LEMMA OnlyLevels ==
  ASSUME NEW view, NEW ix, view.kind \in {"choice", "score", "noul"},
         Resolve(view, ix).name = "numeric_range"
  PROVE  Resolve(view, ix) = NumericLevels(view, ix) /\ NumericLevels(view, ix) # Unresolved
<1> DEFINE a == EnumExtraction(view, ix)
           b == NumericLevels(view, ix)
           c == ReferenceEquality(view, ix)
           d == BooleanField(view, ix)
           e == NumericComparison(view, ix, ParseComparison(view.raw))
           f == DateComparison(view, ix, WordsOf(view.raw))
           r == Resolve(view, ix)
<1>1. /\ Named2(a, "enum_extraction") /\ Named2(b, "numeric_range") /\ Named2(c, "reference_equality")
      /\ Named2(d, "boolean_field") /\ Named2(f, "date_comparison") /\ Named2(e, "numeric_comparison")
  BY EnumNamed, LevelsNamed, ReferenceNamed, BooleanNamed, DateNamed, ComparisonNamed
<1>2. /\ view.kind = "choice" => r = OrElse(a, b)
      /\ view.kind = "score" => r = b
      /\ view.kind = "noul" => r = OrElse(c, OrElse(d, OrElse(e, f)))
  BY DEF Resolve
<1>3. Unresolved.name = "none"
  BY DEF Unresolved
<1>4. r.name = "numeric_range"
  OBVIOUS
<1> HIDE DEF a, b, c, d, e, f, r
<1>5. r = b /\ b # Unresolved
  BY <1>1, <1>2, <1>3, <1>4 DEF Named2, OrElse
<1> QED
  BY <1>5 DEF r, b

LEMMA QuestionOfAnswer ==
  ASSUME DocumentsInv, NEW k \in DOMAIN answers
  PROVE  /\ answers[k] = Answered(views[k]) /\ FieldsOK(idx) /\ ArraysOK(idx)
         /\ \E q \in ChoiceQuestions \cup OtherQuestions : views[k] = View(q, idx)
<1>1. answers # <<>>
  BY EmptyIsList
<1>2. Read /\ request \in Requests /\ AnswersOK /\ ArraysOK(idx) /\ FieldsOK(idx)
  BY <1>1 DEF DocumentsInv
<1>3. answers[k] = Answered(views[k]) /\ views[k] = View(request.questions[k], idx)
  BY <1>2 DEF AnswersOK
<1>4. k \in DOMAIN request.questions
  <2>1. DOMAIN answers = 1 .. Len(answers) /\ DOMAIN request.questions = 1 .. Len(request.questions)
        /\ Len(answers) \in Nat /\ Len(request.questions) \in Nat
    BY <1>2, RequestForm, ListDomain DEF AnswersOK
  <2>2. Len(answers) <= Len(request.questions)
    BY <1>2 DEF AnswersOK
  <2> DEFINE m == Len(answers)
             l == Len(request.questions)
  <2> HIDE DEF m, l
  <2>3. k \in 1 .. m /\ DOMAIN request.questions = 1 .. l /\ m <= l /\ m \in Nat /\ l \in Nat
    BY <2>1, <2>2 DEF m, l
  <2> QED
    BY <2>3
<1> DEFINE S == ChoiceQuestions \cup OtherQuestions
           qs == request.questions
<1>5. qs \in Seq(S)
  BY <1>2, DocumentsAssumption
<1>6. k \in DOMAIN qs
  BY <1>4
<1> HIDE DEF S, qs
<1>7. qs[k] \in S
  BY <1>5, <1>6
<1> QED
  BY <1>2, <1>3, <1>7 DEF S, qs

LEMMA KindOfAnswer ==
  ASSUME DocumentsInv, NEW k \in DOMAIN answers
  PROVE  /\ views[k].kind \in {"choice", "score", "noul"}
         /\ answers[k].resolved = Resolve(views[k], idx)
         /\ FieldsOK(idx) /\ ArraysOK(idx)
<1>1. PICK q \in ChoiceQuestions \cup OtherQuestions : views[k] = View(q, idx)
  BY QuestionOfAnswer
<1>2. q.kind \in {"choice", "score", "noul"}
  BY DEF ChoiceQuestions, OtherQuestions
<1>3. View(q, idx).kind = q.kind
  BY DEF View, ViewSaid, Viewed
<1>4. answers[k] = Answered(views[k]) /\ FieldsOK(idx) /\ ArraysOK(idx)
  BY QuestionOfAnswer
<1> QED
  BY <1>1, <1>2, <1>3, <1>4 DEF Answered

-----------------------------------------------------------------------------
(* Complementary questions about numbers.                                  *)

LEMMA ComparisonValue ==
  ASSUME NEW raw
  PROVE  ParseComparison(raw).value \in Int
<1>1. NoComparison.value \in Int
  BY DEF NoComparison
<1>2. ASSUME NEW k PROVE ComparisonAt(raw, k).value \in Int
  <2> DEFINE n == ParseNumber(raw[k].word, raw[k].kind)
             cmp == ComparatorOf(JoinedWords(WordsOf(SubSeq(raw, 1, k - 1))))
             unit == IF UnitAfter(raw, k) \in FunctionWords \cup {"total"} THEN "" ELSE UnitAfter(raw, k)
  <2>1. n.value \in Int
    BY NumberValue
  <2>2. ComparisonAt(raw, k) = IF cmp = "none" THEN NoComparison
                               ELSE [cmp |-> cmp, value |-> n.value, kind |-> n.kind, unit |-> unit]
    BY DEF ComparisonAt
  <2> HIDE DEF n, cmp, unit
  <2> QED
    BY <1>1, <2>1, <2>2
<1> DEFINE at == {k \in DOMAIN raw : IsThreshold(raw, k)}
<1>3. ParseComparison(raw) = IF at = {} THEN NoComparison ELSE ComparisonAt(raw, Min(at))
  BY DEF ParseComparison
<1> HIDE DEF at
<1> QED
  BY <1>1, <1>2, <1>3

LEMMA QuantitiesAreNumbers ==
  ASSUME NEW ix, FieldsOK(ix), ArraysOK(ix), NEW view, NEW c
  PROVE  Quantities(ix, view, c) \subseteq Int
<1>1. \A n \in ToSet(ix.numbers) : n.number.value \in Int
  BY DEF FieldsOK, SegmentsOK, FactsOK, NumbersOK, ToSet
<1>2. \A a \in ToSet(ix.arrays) : 100 * a.length \in Int
  <2>1. \A a \in ToSet(ix.arrays) : a.length \in Nat
    BY DEF ArraysOK, ToSet
  <2>2. \A n \in Nat : 100 * n \in Int
    OBVIOUS
  <2> QED
    BY <2>1, <2>2
<1>3. ArrayLengths(ix, c) \subseteq Int
  <2> DEFINE S == {b \in ToSet(ix.arrays) : Stem(c.unit) \in ToSet(b.keyTerms)}
  <2>1. ArrayLengths(ix, c) \subseteq {100 * a.length : a \in S}
    BY DEF ArrayLengths
  <2>2. S \subseteq ToSet(ix.arrays)
    OBVIOUS
  <2> HIDE DEF S
  <2> QED
    BY <1>2, <2>1, <2>2
<1>4. ValuesOf(Comparable(ix, view, c)) \subseteq Int
  BY <1>1 DEF ValuesOf, Comparable
<1>5. ValuesOf(BareAmounts(ix, view, c)) \subseteq Int
  BY <1>1 DEF ValuesOf, BareAmounts
<1> QED
  BY <1>3, <1>4, <1>5 DEF Quantities

(* What is compared depends on the focus, the kind and the unit. *)
LEMMA QuantitiesSame ==
  ASSUME NEW ix, NEW v, NEW w, v.focus = w.focus, NEW a, NEW b, a.kind = b.kind, a.unit = b.unit
  PROVE  Quantities(ix, v, a) = Quantities(ix, w, b)
<1>1. \A f : InFocus(v, f) <=> InFocus(w, f)
  BY DEF InFocus
<1>2. ArrayLengths(ix, a) = ArrayLengths(ix, b)
  BY DEF ArrayLengths
<1>3. Comparable(ix, v, a) = Comparable(ix, w, b)
  BY <1>1 DEF Comparable
<1>4. BareAmounts(ix, v, a) = BareAmounts(ix, w, b)
  BY <1>1 DEF BareAmounts
<1> QED
  BY <1>2, <1>3, <1>4 DEF Quantities

LEMMA ComplementCompares ==
  ASSUME NEW a, a \in DOMAIN Complement, NEW v \in Int, NEW t \in Int
  PROVE  /\ Compare(a, v, t) \in BOOLEAN
         /\ Compare(Complement[a], v, t) = ~Compare(a, v, t)
<1>1. a \in {"Gt", "Le", "Lt", "Ge"}
  BY DEF Complement
<1>2. CASE a = "Gt"
  <2>1. Complement[a] = "Le"
    BY <1>2 DEF Complement
  <2> QED
    BY <1>2, <2>1 DEF Compare
<1>3. CASE a = "Le"
  <2>1. Complement[a] = "Gt"
    BY <1>3 DEF Complement
  <2> QED
    BY <1>3, <2>1 DEF Compare
<1>4. CASE a = "Lt"
  <2>1. Complement[a] = "Ge"
    BY <1>4 DEF Complement
  <2> QED
    BY <1>4, <2>1 DEF Compare
<1>5. CASE a = "Ge"
  <2>1. Complement[a] = "Lt"
    BY <1>5 DEF Complement
  <2> QED
    BY <1>5, <2>1 DEF Compare
<1> QED
  BY <1>1, <1>2, <1>3, <1>4, <1>5

LEMMA OneOutcome ==
  ASSUME NEW o \in SUBSET BOOLEAN, Cardinality(o) = 1
  PROVE  o = {TRUE} \/ o = {FALSE}
<1> DEFINE pair == {TRUE} \cup {FALSE}
<1>1. IsFiniteSet({TRUE})
  BY FS_Singleton
<1>2. IsFiniteSet(pair)
  BY <1>1, FS_AddElement
<1>3. o \in SUBSET pair
  OBVIOUS
<1> HIDE DEF pair
<1>4. IsFiniteSet(o)
  BY <1>2, <1>3, FS_Subset
<1>5. PICK x : o = {x}
  BY <1>4, FS_Singleton
<1>6. x \in BOOLEAN
  BY <1>5
<1>7. CASE x
  <2>1. x = TRUE
    BY <1>7, <1>6
  <2> QED
    BY <1>5, <2>1
<1>8. CASE ~x
  <2>1. x = FALSE
    BY <1>8, <1>6
  <2> QED
    BY <1>5, <2>1
<1> QED
  BY <1>7, <1>8

(* A resolver's answer to a question with one outcome, and to its opposite. *)
LEMMA OppositeAnswers ==
  ASSUME NEW name, NEW v, NEW w, v.negated = w.negated, v.negated \in BOOLEAN,
         NEW o \in SUBSET BOOLEAN, NEW p \in SUBSET BOOLEAN,
         o # {}, \A b \in BOOLEAN : b \in o <=> (~b) \in p,
         Agreed(name, v, o) # Unresolved, Agreed(name, w, p) # Unresolved
  PROVE  Agreed(name, v, o) # Agreed(name, w, p)
<1>1. Cardinality(o) = 1 /\ Cardinality(p) = 1
  BY DEF Agreed
<1>2. (o = {TRUE} \/ o = {FALSE}) /\ (p = {TRUE} \/ p = {FALSE})
  BY <1>1, OneOutcome
<1>3. (o = {TRUE}) # (p = {TRUE})
  BY <1>2
<1> DEFINE x == (o = {TRUE}) # v.negated
           y == (p = {TRUE}) # w.negated
<1>4. (x /\ ~y) \/ (~x /\ y)
  BY <1>3
<1>5. /\ Agreed(name, v, o) = Resolved(name, <<IF x THEN Sure ELSE -Sure>>)
      /\ Agreed(name, w, p) = Resolved(name, <<IF y THEN Sure ELSE -Sure>>)
  BY <1>1 DEF Agreed
<1> HIDE DEF x, y
<1>6. \A m, n : m # n => Resolved(name, <<m>>) # Resolved(name, <<n>>)
  <2> TAKE m, n
  <2>1. Resolved(name, <<m>>).logits[1] = m /\ Resolved(name, <<n>>).logits[1] = n
    BY DEF Resolved
  <2> QED
    BY <2>1
<1>7. (IF x THEN Sure ELSE -Sure) # (IF y THEN Sure ELSE -Sure)
  <2>1. Sure # -Sure
    BY DEF Sure
  <2>2. CASE x /\ ~y
    BY <2>1, <2>2
  <2>3. CASE ~x /\ y
    BY <2>1, <2>3
  <2> QED
    BY <1>4, <2>2, <2>3
<1> QED
  BY <1>5, <1>6, <1>7

LEMMA ComplementsApart ==
  ASSUME DocumentsInv, NEW j \in DOMAIN answers, NEW k \in DOMAIN answers,
         Fired(j, "numeric_comparison"), Fired(k, "numeric_comparison"),
         Complementary(ParseComparison(views[j].raw), ParseComparison(views[k].raw)),
         views[j].focus = views[k].focus, views[j].negated = views[k].negated
  PROVE  answers[j].resolved # answers[k].resolved
<1> DEFINE v == views[j]
           w == views[k]
           a == ParseComparison(v.raw)
           b == ParseComparison(w.raw)
           q == Quantities(idx, v, a)
           o == {Compare(a.cmp, x, a.value) : x \in Quantities(idx, v, a)}
           p == {Compare(b.cmp, x, b.value) : x \in Quantities(idx, w, b)}
           name == "numeric_comparison"
<1>1. FieldsOK(idx) /\ ArraysOK(idx)
  BY KindOfAnswer
<1>2. /\ answers[j].resolved = NumericComparison(v, idx, a) /\ NumericComparison(v, idx, a) # Unresolved
      /\ answers[k].resolved = NumericComparison(w, idx, b) /\ NumericComparison(w, idx, b) # Unresolved
  BY KindOfAnswer, OnlyComparison DEF Fired
<1>3. /\ NumericComparison(v, idx, a) = Agreed(name, v, o)
      /\ NumericComparison(w, idx, b) = Agreed(name, w, p)
  BY <1>2 DEF NumericComparison
<1>4. /\ a.cmp \in DOMAIN Complement /\ b.cmp = Complement[a.cmp]
      /\ a.value = b.value /\ a.kind = b.kind /\ a.unit = b.unit
  BY DEF Complementary
<1>5. a.value \in Int /\ q \subseteq Int
  BY <1>1, ComparisonValue, QuantitiesAreNumbers
<1>6. Quantities(idx, w, b) = q
  <2> HIDE DEF a, b, v, w
  <2>1. v.focus = w.focus
    BY DEF v, w
  <2> QED
    BY <1>4, <2>1, QuantitiesSame
<1>7. v.negated = w.negated /\ v.negated \in BOOLEAN
  <2>1. v.negated \in BOOLEAN
    <3>1. answers # <<>> /\ AnswersOK
      BY EmptyIsList DEF DocumentsInv
    <3>2. v = View(request.questions[j], idx)
      BY <3>1 DEF AnswersOK
    <3> HIDE DEF v
    <3>3. \A x : View(x, idx).negated \in BOOLEAN
      BY DEF View, ViewSaid, Viewed, QuestionNegated
    <3> QED
      BY <3>2, <3>3
  <2> QED
    BY <2>1
<1> DEFINE t == a.value
           c == a.cmp
<1>8. o = {Compare(c, x, t) : x \in q} /\ p = {Compare(Complement[c], x, t) : x \in q}
  <2>1. b.value = t /\ b.cmp = Complement[c]
    BY <1>4
  <2> QED
    BY <1>6, <2>1
<1>9. t \in Int /\ c \in DOMAIN Complement
  BY <1>4, <1>5
<1> HIDE DEF o, p, q, t, c, a, b, v, w, name
<1>10. \A x \in q : /\ Compare(c, x, t) \in BOOLEAN
                    /\ Compare(Complement[c], x, t) = ~Compare(c, x, t)
  BY <1>5, <1>9, ComplementCompares
<1>11. o \in SUBSET BOOLEAN /\ p \in SUBSET BOOLEAN
  BY <1>8, <1>10
<1> DEFINE F(x) == Compare(c, x, t)
           G(x) == Compare(Complement[c], x, t)
<1>a. o = {F(x) : x \in q} /\ p = {G(x) : x \in q}
  BY <1>8
<1>b. \A x \in q : F(x) \in BOOLEAN /\ G(x) \in BOOLEAN /\ (G(x) <=> ~F(x))
  BY <1>10
<1> HIDE DEF F, G
<1>c. \A z : (z \in o <=> \E x \in q : z = F(x)) /\ (z \in p <=> \E x \in q : z = G(x))
  BY <1>a
<1>d. \A x \in q : (F(x) = TRUE /\ G(x) = FALSE) \/ (F(x) = FALSE /\ G(x) = TRUE)
  BY <1>b
<1>e. TRUE # FALSE
  OBVIOUS
<1>12. \A z \in BOOLEAN : z \in o <=> (~z) \in p
  <2>1. TRUE \in o <=> FALSE \in p
    BY <1>c, <1>d, <1>e, Zenon
  <2>2. FALSE \in o <=> TRUE \in p
    BY <1>c, <1>d, <1>e, Zenon
  <2>3. ~TRUE = FALSE /\ ~FALSE = TRUE
    OBVIOUS
  <2>4. ASSUME NEW z \in BOOLEAN PROVE z = TRUE \/ z = FALSE
    OBVIOUS
  <2> SUFFICES ASSUME NEW z \in BOOLEAN PROVE z \in o <=> (~z) \in p
    OBVIOUS
  <2>5. CASE z = TRUE
    BY <2>1, <2>3, <2>5
  <2>6. CASE z = FALSE
    BY <2>2, <2>3, <2>6
  <2> QED
    BY <2>4, <2>5, <2>6
<1>13. o # {}
  <2>1. SUFFICES ASSUME o = {} PROVE FALSE
    OBVIOUS
  <2>2. Cardinality(o) = 0
    BY <2>1, FS_EmptySet
  <2>3. Agreed(name, v, o) = Unresolved
    BY <2>2 DEF Agreed
  <2> QED
    BY <1>2, <1>3, <2>3
<1> QED
  BY <1>2, <1>3, <1>7, <1>11, <1>12, <1>13, OppositeAnswers

LEMMA ComplementsHold == DocumentsInv => ComplementsDisagree
  BY ComplementsApart DEF ComplementsDisagree

(* Questions that are each other's complement, about the same fields, are  *)
(* never answered alike by the comparison of numbers (numeric_comparison). *)
THEOREM ComplementsAreApart == DocumentsSpec => []ComplementsDisagree
  BY DocumentsInvariant, ComplementsHold, PTL

-----------------------------------------------------------------------------
(* Numbers and ranges as they are written in options.                      *)

LEMMA ValueText ==
  ASSUME NEW v \in JsonValues, v.type = "text"
  PROVE  v.text \in Texts
<1>0. Nesting \in Nat
  BY JsonAssumption
<1>1. CASE Nesting = 0
  <2>1. IsScalar(v)
    BY <1>1, LevelForm DEF JsonValues
  <2> QED
    BY <2>1 DEF IsScalar
<1>2. CASE Nesting # 0
  <2> DEFINE n == Nesting - 1
  <2>1. n \in Nat /\ n + 1 = Nesting
    BY <1>0, <1>2
  <2> HIDE DEF n
  <2>2. v \in JsonTo[n + 1] /\ n + 1 <= Nesting
    BY <2>1, <1>0 DEF JsonValues
  <2>3. InnerOf(v, JsonTo[n])
    BY <2>1, <2>2, LevelForm
  <2> QED
    BY <2>3 DEF InnerOf, IsScalar
<1> QED
  BY <1>1, <1>2

LEMMA PositionsBounds ==
  ASSUME NEW s, IsList(s), NEW P \in SUBSET (DOMAIN s), P # {}
  PROVE  /\ Min(P) \in 1 .. Len(s) /\ Max(P) \in 1 .. Len(s) /\ Min(P) <= Max(P)
         /\ Min(P) \in P /\ Max(P) \in P
<1> DEFINE n == Len(s)
<1>1. n \in Nat /\ DOMAIN s = 1 .. n
  BY ListDomain
<1> HIDE DEF n
<1>2. P \in SUBSET Int /\ 1 \in Int /\ n \in Int
  BY <1>1
<1>3. \A x \in P : 1 <= x
  BY <1>1
<1>4. \A x \in P : x <= n
  BY <1>1
<1>5. Min(P) \in P /\ \A x \in P : Min(P) <= x
  BY <1>2, <1>3, MinOf
<1>6. Max(P) \in P /\ \A x \in P : x <= Max(P)
  BY <1>2, <1>4, MaxOf
<1> QED
  BY <1>1, <1>5, <1>6 DEF n

LEMMA TrimmedList ==
  ASSUME NEW text, IsList(text), NEW S
  PROVE  IsList(Trimmed(text, S))
<1> DEFINE kept == {k \in DOMAIN text : text[k] \notin S}
           a == Min(kept)
           b == Max(kept)
<1>1. Trimmed(text, S) = IF kept = {} THEN <<>> ELSE SubSeq(text, a, b)
  BY DEF Trimmed
<1>2. CASE kept = {}
  BY <1>1, <1>2, EmptyIsList
<1>3. CASE kept # {}
  <2>1. kept \in SUBSET (DOMAIN text)
    OBVIOUS
  <2>2. a \in 1 .. Len(text) /\ b \in 1 .. Len(text) /\ a <= b /\ Len(text) \in Nat
    <3> HIDE DEF kept
    <3> QED
      BY <1>3, <2>1, PositionsBounds, ListDomain
  <2> DEFINE n == Len(text)
  <2> HIDE DEF a, b, kept, n
  <2>3. a \in Int /\ b \in Int /\ 1 <= a /\ b <= n /\ a <= b + 1
    BY <2>2 DEF n
  <2>4. IsList(SubSeq(text, a, b))
    BY <2>3, SubList DEF n
  <2> QED
    BY <1>1, <1>3, <2>4
<1> QED
  BY <1>2, <1>3

LEMMA SpacedList ==
  ASSUME NEW text, IsList(text)
  PROVE  IsList(Spaced(text))
<1> DEFINE t == [k \in DOMAIN text |-> IF text[k] \in Spaces \cup {"_", "-"} THEN " " ELSE text[k]]
           P == {k \in DOMAIN t : t[k] # " " \/ (k > 1 /\ t[k - 1] # " ")}
           kept == Positions(t, P)
           u == Spaced(text)
<1>1. u = [n \in DOMAIN kept |-> t[kept[n]]]
  BY DEF Spaced
<1>2. t = [k \in DOMAIN text |-> t[k]]
  OBVIOUS
<1> HIDE DEF t, P, u
<1>3. IsList(t)
  BY <1>2, MadeFrom
<1> DEFINE n == Len(t)
<1>4. n \in Nat /\ DOMAIN t = 1 .. n
  BY <1>3, ListDomain
<1> HIDE DEF n
<1>5. IsList(kept)
  BY <1>4, PositionsAre
<1> HIDE DEF kept
<1>6. u = [k \in DOMAIN kept |-> u[k]]
  BY <1>1
<1>7. IsList(u)
  BY <1>5, <1>6, MadeFrom
<1> QED
  BY <1>7 DEF u

LEMMA LiteralList ==
  ASSUME NEW text, IsList(text)
  PROVE  IsList(Literal(text))
<1> DEFINE a == LoweredAll(text)
           b == Trimmed(a, Spaces)
           S == {"\"", "'", ".", ",", ";"}
           c == Trimmed(b, S)
           d == Spaced(c)
           T == {" "}
           e == Trimmed(d, T)
<1>1. Literal(text) = e
  BY DEF Literal
<1>2. IsList(a)
  BY LoweredAllList
<1> HIDE DEF a, S, T
<1>3. IsList(b)
  BY <1>2, TrimmedList
<1> HIDE DEF b
<1>4. IsList(c)
  BY <1>3, TrimmedList
<1> HIDE DEF c
<1>5. IsList(d)
  BY <1>4, SpacedList
<1> HIDE DEF d
<1>6. IsList(e)
  BY <1>5, TrimmedList
<1> QED
  BY <1>1, <1>6

-----------------------------------------------------------------------------
(* A range has a bound at least, and bounds are numbers.                   *)
BoundOK(b) == b = <<>> \/ b[1] \in Int
RangeOK(r) == r = NoRange \/ (BoundOK(r.lo) /\ BoundOK(r.hi) /\ (r.lo # <<>> \/ r.hi # <<>>))

LEMMA IntervalOK ==
  ASSUME NEW lo, NEW hi, BoundOK(lo), BoundOK(hi), lo # <<>> \/ hi # <<>>, NEW a, NEW b, NEW kind, NEW unit
  PROVE  RangeOK(Interval(lo, hi, a, b, kind, unit))
  BY DEF Interval, RangeOK

LEMMA OneOK ==
  ASSUME NEW v \in Int
  PROVE  BoundOK(<<v>>) /\ <<v>> # <<>>
<1>1. <<v>>[1] = v /\ Len(<<v>>) = 1 /\ Len(<<>>) = 0
  OBVIOUS
<1>2. <<v>> # <<>>
  BY <1>1
<1> QED
  BY <1>1, <1>2 DEF BoundOK

LEMMA OneBoundOK ==
  ASSUME NEW a \in Int, NEW kind, NEW unit, NEW joined, NEW plus
  PROVE  RangeOK(OneBound(a, kind, unit, joined, plus))
<1> DEFINE lower == HasAny(joined, LowerCues)
           upper == HasAny(joined, UpperCues) \/ plus
           li == HasAny(joined, LowerInclusive)
           ui == HasAny(joined, UpperInclusive) \/ plus
           x == Interval(<<>>, <<a>>, FALSE, li, kind, unit)
           y == Interval(<<a>>, <<>>, ui, FALSE, kind, unit)
           z == Interval(<<a>>, <<a>>, TRUE, TRUE, kind, unit)
           r == OneBound(a, kind, unit, joined, plus)
<1>1. /\ lower /\ ~upper => r = x
      /\ upper /\ ~lower => r = y
      /\ ~(lower /\ ~upper) /\ ~(upper /\ ~lower) => r = z
  BY DEF OneBound
<1> DEFINE one == <<a>>
<1>2. BoundOK(one) /\ one # <<>> /\ BoundOK(<<>>)
  BY OneOK DEF BoundOK
<1>3. x = Interval(<<>>, one, FALSE, li, kind, unit) /\ y = Interval(one, <<>>, ui, FALSE, kind, unit)
      /\ z = Interval(one, one, TRUE, TRUE, kind, unit)
  OBVIOUS
<1> HIDE DEF one, lower, upper, li, ui, x, y, z, r
<1>4. RangeOK(x) /\ RangeOK(y) /\ RangeOK(z)
  BY <1>2, <1>3, IntervalOK
<1>5. RangeOK(r)
  BY <1>1, <1>4
<1> QED
  BY <1>5 DEF r

LEMMA RangedOK ==
  ASSUME NEW raw, NEW nums, NumbersOK(nums), NEW words
  PROVE  RangeOK(Ranged(raw, nums, words))
<1> DEFINE kind == FirstKind([k \in DOMAIN nums |-> nums[k].number.kind])
           unit == UnitAfter(raw, nums[Len(nums)].token)
           a == nums[1].number.value
           b == nums[2].number.value
           n == Len(nums)
           two == Interval(<<Min({a, b})>>, <<Max({a, b})>>, TRUE, TRUE, kind, unit)
           joined == JoinedWords(words)
           plus == \E k \in DOMAIN raw : Includes(raw[k].word, "+")
           one == OneBound(a, kind, unit, joined, plus)
           r == Ranged(raw, nums, words)
<1>1. r = IF nums = <<>> \/ Len(words) > MaxRangeWords THEN NoRange
          ELSE IF n > 1 THEN two ELSE one
  BY DEF Ranged
<1>2. n \in Nat /\ DOMAIN nums = 1 .. n /\ (nums # <<>> => n # 0)
  <2>1. IsList(nums)
    BY DEF NumbersOK
  <2>2. nums \in Seq(ToSet(nums))
    BY <2>1 DEF IsList
  <2> HIDE DEF kind, unit, a, b, two, joined, plus, one, r
  <2> QED
    BY <2>1, <2>2, ListDomain
<1>3. ASSUME nums # <<>> PROVE a \in Int
  <2>1. 1 \in DOMAIN nums
    <3> HIDE DEF n
    <3> QED
      BY <1>2, <1>3
  <2> QED
    BY <2>1 DEF NumbersOK
<1>4. ASSUME n > 1 PROVE b \in Int
  <2>1. 2 \in DOMAIN nums
    <3> HIDE DEF n
    <3> QED
      BY <1>2, <1>4
  <2> QED
    BY <2>1 DEF NumbersOK
<1> HIDE DEF r, n
<1>5. ASSUME nums # <<>> PROVE RangeOK(one)
  <2> HIDE DEF a, kind, unit, joined, plus
  <2> QED
    BY <1>3, <1>5, OneBoundOK
<1>6. ASSUME nums # <<>>, n > 1 PROVE RangeOK(two)
  <2> DEFINE x == Min({a, b})
             y == Max({a, b})
             lo == <<x>>
             hi == <<y>>
  <2>1. x \in Int /\ y \in Int
    <3>1. a \in Int /\ b \in Int
      BY <1>3, <1>4, <1>6
    <3> HIDE DEF a, b
    <3>2. x = (IF a <= b THEN a ELSE b) /\ y = (IF a <= b THEN b ELSE a)
      BY <3>1, MinOfTwo, MaxOfTwo
    <3> QED
      BY <3>1, <3>2
  <2> HIDE DEF x, y, kind, unit
  <2>2. BoundOK(lo) /\ lo # <<>> /\ BoundOK(hi)
    BY <2>1, OneOK
  <2>3. two = Interval(lo, hi, TRUE, TRUE, kind, unit)
    BY DEF x, y
  <2> HIDE DEF lo, hi, two
  <2> QED
    BY <2>2, <2>3, IntervalOK
<1> HIDE DEF one, two
<1>7. RangeOK(r)
  BY <1>1, <1>5, <1>6 DEF RangeOK
<1> QED
  BY <1>7 DEF r

LEMMA ParseRangeOK ==
  ASSUME NEW raw, IsList(raw)
  PROVE  RangeOK(ParseRange(raw))
<1> DEFINE nums == Numerals(raw, 0, 0)
           words == WordsOf(SelectSeq(raw, LAMBDA t : t.kind = "Word"))
<1>1. ParseRange(raw) = Ranged(raw, nums, words)
  BY DEF ParseRange
<1>2. NumbersOK(nums)
  BY NumeralsOK
<1> HIDE DEF nums, words
<1> QED
  BY <1>1, <1>2, RangedOK

LEMMA CriterionRange ==
  ASSUME NEW e, IsList(e.key), e.value \in JsonValues, NEW named
  PROVE  RangeOK(Criterion(e, named).range)
<1> DEFINE own == IF e.value.type = "text" THEN RawTokens(LoweredAll(e.value.text)) ELSE <<>>
           lit == Literal(e.key)
           name == RawTokens(lit)
           a == ParseRange(own)
           b == ParseRange(name)
<1>1. Criterion(e, named).range = RangeOrElse(a, b)
  BY DEF Criterion
<1>2. IsList(own)
  <2>1. ASSUME e.value.type = "text" PROVE IsList(RawTokens(LoweredAll(e.value.text)))
    <3>1. IsList(e.value.text)
      BY <2>1, ValueText, TextIsList
    <3> DEFINE low == LoweredAll(e.value.text)
    <3>2. IsList(low)
      BY <3>1, LoweredAllList
    <3> HIDE DEF low
    <3>3. IsList(RawTokens(low))
      BY <3>2, RawTokensList
    <3> QED
      BY <3>3 DEF low
  <2> QED
    BY <2>1, EmptyIsList
<1>3. IsList(lit)
  BY LiteralList
<1> HIDE DEF own, lit
<1>4. IsList(name)
  BY <1>3, RawTokensList
<1> HIDE DEF name
<1>5. RangeOK(a) /\ RangeOK(b)
  BY <1>2, <1>4, ParseRangeOK
<1> HIDE DEF a, b
<1> QED
  BY <1>1, <1>5 DEF RangeOrElse

-----------------------------------------------------------------------------
(* Levels: what a number loses to a level's range.                         *)

LEMMA QuotientNat ==
  ASSUME NEW a \in Nat, NEW s \in Nat, s > 0
  PROVE  a \div s \in Nat
  BY SMT

LEMMA AbsNat ==
  ASSUME NEW n \in Int
  PROVE  Abs(n) \in Nat
  BY DEF Abs

LEMMA OutsideNat ==
  ASSUME NEW r, RangeOK(r), r # NoRange, NEW v \in Int
  PROVE  Outside(r, v) \in Nat
<1> DEFINE a == r.lo[1]
           b == r.hi[1]
           A == InRange(r, v)
           B == r.lo # <<>> /\ ~AtLeast(v, r.lo, TRUE)
           C == r.hi # <<>> /\ ~AtMost(v, r.hi, TRUE)
           x == a - v
           y == v - b
           o == Outside(r, v)
<1>1. o = CASE A -> 0 [] B -> x [] C -> y [] OTHER -> 0
  BY Zenon DEF Outside
<1>2. B => a \in Int /\ ~(v > a) /\ v # a
  BY DEF RangeOK, BoundOK, AtLeast
<1>3. C => b \in Int /\ ~(v < b) /\ v # b
  BY DEF RangeOK, BoundOK, AtMost
<1> HIDE DEF a, b, A, B, C
<1>4. (B => x \in Nat) /\ (C => y \in Nat)
  BY <1>2, <1>3
<1> HIDE DEF x, y, o
<1>5. o = 0 \/ (B /\ o = x) \/ (C /\ o = y)
  BY <1>1
<1>6. o \in Nat
  BY <1>4, <1>5
<1> QED
  BY <1>6 DEF o

LEMMA LossNat ==
  ASSUME NEW r, RangeOK(r), r # NoRange, NEW v \in Int, NEW most \in Nat
  PROVE  Loss(r, v, most) \in Nat
<1> DEFINE b == IF r.lo # <<>> THEN r.lo[1] ELSE r.hi[1]
           w == Abs(b)
           scale == Max({100, w})
           o == Outside(r, v)
           l == Loss(r, v, most)
<1>1. l = IF o >= scale THEN most ELSE (o * most) \div scale
  BY DEF Loss
<1>2. b \in Int
  BY DEF RangeOK, BoundOK
<1> HIDE DEF b
<1>3. w \in Nat
  BY <1>2, AbsNat
<1> HIDE DEF w
<1>4. scale = (IF 100 <= w THEN w ELSE 100)
  BY <1>3, MaxOfTwo
<1>5. scale \in Nat /\ scale > 0
  BY <1>3, <1>4
<1>6. o \in Nat
  BY OutsideNat
<1> HIDE DEF scale, o, l
<1>7. o * most \in Nat
  BY <1>6
<1>8. (o * most) \div scale \in Nat
  BY <1>5, <1>7, QuotientNat
<1>9. l \in Nat
  BY <1>1, <1>8
<1> QED
  BY <1>9 DEF l

-----------------------------------------------------------------------------
(* The levels of a question. *)
LEMMA NamedOK ==
  ASSUME NEW q \in ChoiceQuestions \cup OtherQuestions, NEW k \in DOMAIN q.criteria
  PROVE  IsList(Named(q, k).key) /\ Named(q, k).value \in JsonValues
<1>1. CASE q \in ChoiceQuestions
  <2> DEFINE S == [key : Texts, value : JsonValues]
             c == q.criteria
  <2>1. c \in Seq(S) /\ q.kind = "choice"
    BY <1>1 DEF ChoiceQuestions
  <2>2. Named(q, k) = c[k]
    BY <2>1 DEF Named
  <2>3. k \in DOMAIN c
    OBVIOUS
  <2>4. c[k] \in S
    <3> HIDE DEF S, c
    <3> QED
      BY <2>1, <2>3
  <2>5. Named(q, k).key \in Texts /\ Named(q, k).value \in JsonValues
    BY <2>2, <2>4
  <2> QED
    BY <2>5, TextIsList
<1>2. CASE q \in OtherQuestions
  <2> DEFINE c == q.criteria
             n == Named(q, k)
             g == LevelNames[k]
             h == IF k = 1 THEN "true" ELSE "false"
             x == <<g>>
             y == <<h>>
  <2>1. c \in Seq(JsonValues) /\ q.kind \in {"score", "noul"}
    BY <1>2 DEF OtherQuestions
  <2>2. n = Entry(x, c[k]) \/ n = Entry(y, c[k])
    BY <2>1 DEF Named
  <2>3. k \in DOMAIN c
    OBVIOUS
  <2>4. IsList(x) /\ IsList(y)
    <3> HIDE DEF g, h
    <3> QED
      BY SingleList
  <2>5. c[k] \in JsonValues
    <3> HIDE DEF c, x, y, n
    <3> QED
      BY <2>1, <2>3
  <2> HIDE DEF c, x, y, n
  <2>6. IsList(n.key) /\ n.value \in JsonValues
    BY <2>2, <2>4, <2>5 DEF Entry
  <2> QED
    BY <2>6 DEF n
<1> QED
  BY <1>1, <1>2

LevelRangesOK(ranges) == IsList(ranges) /\ \A k \in DOMAIN ranges : RangeOK(ranges[k])

LEMMA ViewRanges ==
  ASSUME NEW q \in ChoiceQuestions \cup OtherQuestions, NEW ix
  PROVE  LevelRangesOK(RangesOf(View(q, ix)))
<1> DEFINE v == View(q, ix)
           c == v.criteria
           r == RangesOf(v)
           named == q.kind = "choice"
           qc == q.criteria
<1>1. c = [k \in DOMAIN qc |-> Criterion(Named(q, k), named)]
  BY DEF View, ViewSaid, Viewed
<1>2. r = [k \in DOMAIN c |-> c[k].range]
  BY DEF RangesOf
<1>3. IsList(qc)
  <2>1. qc \in Seq([key : Texts, value : JsonValues]) \/ qc \in Seq(JsonValues)
    BY DEF ChoiceQuestions, OtherQuestions
  <2> QED
    BY <2>1, TypedIsList
<1>4. \A k \in DOMAIN qc : RangeOK(Criterion(Named(q, k), named).range)
  <2> TAKE k \in DOMAIN qc
  <2> DEFINE e == Named(q, k)
  <2>1. IsList(e.key) /\ e.value \in JsonValues
    BY NamedOK
  <2> HIDE DEF e, named
  <2>2. RangeOK(Criterion(e, named).range)
    BY <2>1, CriterionRange
  <2> QED
    BY <2>2 DEF e
<1> HIDE DEF v, c, r, qc, named
<1>5. r = [k \in DOMAIN qc |-> r[k]] /\ DOMAIN r = DOMAIN qc
  BY <1>1, <1>2
<1>6. IsList(r)
  BY <1>3, <1>5, MadeFrom
<1>7. \A k \in DOMAIN r : RangeOK(r[k])
  BY <1>1, <1>2, <1>4
<1> QED
  BY <1>6, <1>7 DEF LevelRangesOK, r, v

(* One level for all numbers holds them all. *)
LEMMA LevelHolds ==
  ASSUME NEW ranges, IsList(ranges), NEW v, LevelOf(ranges, v) # 0
  PROVE  /\ LevelOf(ranges, v) \in DOMAIN ranges
         /\ HasRange(ranges[LevelOf(ranges, v)]) /\ InRange(ranges[LevelOf(ranges, v)], v)
<1> DEFINE P == {k \in DOMAIN ranges : HasRange(ranges[k]) /\ InRange(ranges[k], v)}
           l == LevelOf(ranges, v)
<1>1. l = IF P = {} THEN 0 ELSE Min(P)
  BY DEF LevelOf
<1>2. P # {} /\ l = Min(P)
  BY <1>1
<1>3. P \in SUBSET (DOMAIN ranges)
  OBVIOUS
<1>4. Min(P) \in P
  <2> HIDE DEF P
  <2> QED
    BY <1>2, <1>3, PositionsBounds
<1>5. l \in P
  BY <1>2, <1>4
<1> HIDE DEF l
<1>6. l \in DOMAIN ranges /\ HasRange(ranges[l]) /\ InRange(ranges[l], v)
  BY <1>5
<1> QED
  BY <1>6 DEF l

LEMMA OneLevel ==
  ASSUME NEW S, IsFiniteSet(S), Cardinality(S) = 1
  PROVE  \E x : S = {x}
  BY FS_Singleton

LEMMA TopOfLevels ==
  ASSUME NEW ranges, LevelRangesOK(ranges), NEW level \in DOMAIN ranges, NEW v \in Int
  PROVE  TopOf(LevelLogits(ranges, level, v)) = {level}
<1> DEFINE l == LevelLogits(ranges, level, v)
<1>1. DOMAIN l = DOMAIN ranges /\ l[level] = 6000
  BY DEF LevelLogits, Strong
<1>2. ASSUME NEW k \in DOMAIN ranges, k # level PROVE l[k] \in Int /\ l[k] < 6000
  <2> DEFINE x == Loss(ranges[k], v, Partial)
  <2>1. l[k] = IF HasRange(ranges[k]) THEN -x ELSE -2000
    BY <1>2 DEF LevelLogits, Partial
  <2>2. CASE HasRange(ranges[k])
    <3>1. Partial \in Nat /\ RangeOK(ranges[k]) /\ ranges[k] # NoRange
      BY <2>2 DEF LevelRangesOK, Partial, HasRange
    <3>2. x \in Nat
      BY <3>1, LossNat
    <3> HIDE DEF x, l
    <3> QED
      BY <2>1, <2>2, <3>2
  <2>3. CASE ~HasRange(ranges[k])
    <3> HIDE DEF x, l
    <3> QED
      BY <2>1, <2>3
  <2> QED
    BY <2>2, <2>3
<1> HIDE DEF l
<1>3. TopOf(l) = {k \in DOMAIN l : \A j \in DOMAIN l : l[j] <= l[k]}
  BY DEF TopOf
<1>4. \A j \in DOMAIN l : l[j] <= l[level]
  BY <1>1, <1>2
<1>5. \A k \in DOMAIN l : k # level => ~(l[level] <= l[k])
  BY <1>1, <1>2
<1>6. TopOf(l) = {level}
  BY <1>1, <1>3, <1>4, <1>5
<1> QED
  BY <1>6 DEF l

-----------------------------------------------------------------------------
(* The level that is picked, and why no other.                             *)

LEMMA MeasuredOK ==
  ASSUME NEW ix, FieldsOK(ix), NEW view, NEW kind, NEW unit
  PROVE  /\ IsList(Measured(ix, view, kind, unit))
         /\ \A k \in DOMAIN Measured(ix, view, kind, unit) :
              Measured(ix, view, kind, unit)[k].number.value \in Int
<1> DEFINE s == ix.numbers
           P == {k \in DOMAIN ix.numbers : IsMeasure(ix, view, kind, unit, ix.numbers[k])}
           m == Measured(ix, view, kind, unit)
           n == Len(s)
<1>1. m = Chosen(s, P)
  BY DEF Measured
<1>2. IsList(s) /\ \A k \in DOMAIN s : s[k].number.value \in Int
  BY DEF FieldsOK, SegmentsOK, FactsOK, NumbersOK
<1>3. n \in Nat /\ DOMAIN s = 1 .. n
  BY <1>2, ListDomain
<1> HIDE DEF s, P, n, m
<1>4. IsList(m)
  BY <1>1, <1>3, ChosenIs
<1>5. \A k \in DOMAIN m : \E j \in P \cap (1 .. n) : m[k] = s[j]
  BY <1>1, <1>3, ChosenElement
<1>6. \A k \in DOMAIN m : m[k].number.value \in Int
  BY <1>2, <1>3, <1>5
<1> QED
  BY <1>4, <1>6 DEF m

(* A level for all measured numbers: it holds them, and no other is as good. *)
Holds(ranges, numbers, logits) ==
  \E level \in DOMAIN ranges :
    /\ TopOf(logits) = {level}
    /\ \A n \in ToSet(numbers) : InRange(ranges[level], n.number.value)

LEMMA LevelsHold ==
  ASSUME NEW ranges, LevelRangesOK(ranges), NEW numbers, IsList(numbers),
         \A k \in DOMAIN numbers : numbers[k].number.value \in Int,
         LevelsMeasured(ranges, numbers) # Unresolved
  PROVE  Holds(ranges, numbers, LevelsMeasured(ranges, numbers).logits)
<1> DEFINE values == [k \in DOMAIN numbers |-> numbers[k].number.value]
           levels == {LevelOf(ranges, numbers[k].number.value) : k \in DOMAIN numbers}
           level == Min(levels)
           v == values[1]
           r == LevelsMeasured(ranges, numbers)
<1>1. r = IF Cardinality(levels) # 1 \/ 0 \in levels THEN Unresolved
          ELSE Resolved("numeric_range", LevelLogits(ranges, level, v))
  BY DEF LevelsMeasured, LevelsOfValues
<1>2. /\ Cardinality(levels) = 1 /\ 0 \notin levels
      /\ r.logits = LevelLogits(ranges, level, v)
  BY <1>1 DEF Resolved
<1> DEFINE len == Len(numbers)
<1>3. len \in Nat /\ DOMAIN numbers = 1 .. len
  BY ListDomain
<1>4. IsFiniteSet(levels)
  <2> DEFINE g == [k \in DOMAIN numbers |-> LevelOf(ranges, numbers[k].number.value)]
             D == DOMAIN numbers
             J == {g[k] : k \in D}
  <2>1. IsFiniteSet(1 .. len)
    <3> HIDE DEF len
    <3> QED
      BY <1>3, FS_Interval
  <2>2. IsFiniteSet(D)
    BY <1>3, <2>1
  <2>3. levels = J
    OBVIOUS
  <2>5. g \in Surjection(D, J)
    <3>1. g \in [D -> J] /\ \A y \in J : \E k \in D : g[k] = y
      OBVIOUS
    <3> QED
      BY <3>1 DEF Surjection
  <2> HIDE DEF g, D, J
  <2>4. IsFiniteSet(J)
    BY <2>2, <2>5, FS_Surjection
  <2> QED
    BY <2>3, <2>4
<1>5. PICK x : levels = {x}
  BY <1>2, <1>4, OneLevel
<1>6. \A k \in DOMAIN numbers : LevelOf(ranges, numbers[k].number.value) = x
  BY <1>5
<1>7. 1 \in DOMAIN numbers /\ x # 0
  <2>1. PICK k \in DOMAIN numbers : x = LevelOf(ranges, numbers[k].number.value)
    BY <1>5
  <2>2. 1 \in 1 .. len
    <3> HIDE DEF len
    <3> QED
      BY <1>3, <2>1
  <2> QED
    BY <1>2, <1>3, <1>5, <2>2
<1>8. v \in Int
  BY <1>7
<1>9. IsList(ranges)
  BY DEF LevelRangesOK
<1>10. \A k \in DOMAIN numbers : x \in DOMAIN ranges /\ InRange(ranges[x], numbers[k].number.value)
  <2> TAKE k \in DOMAIN numbers
  <2> DEFINE w == numbers[k].number.value
  <2>1. LevelOf(ranges, w) = x
    BY <1>6
  <2> HIDE DEF w
  <2>2. LevelOf(ranges, w) \in DOMAIN ranges /\ InRange(ranges[LevelOf(ranges, w)], w)
    BY <1>7, <1>9, <2>1, LevelHolds
  <2> QED
    BY <2>1, <2>2 DEF w
<1>11. x \in DOMAIN ranges
  BY <1>7, <1>10
<1>12. level = x
  <2>1. x \in Nat
    <3>1. DOMAIN ranges = 1 .. Len(ranges) /\ Len(ranges) \in Nat
      BY <1>9, ListDomain
    <3> QED
      BY <1>11, <3>1
  <2>2. level = Min({x})
    BY <1>5
  <2>3. Min({x}) \in {x}
    <3> DEFINE S == {x}
    <3>1. S \in SUBSET Int /\ S # {} /\ x \in Int
      BY <2>1
    <3>2. \A y \in S : x <= y
      BY <2>1
    <3> HIDE DEF S
    <3>3. Min(S) \in S
      BY <3>1, <3>2, MinOf
    <3> QED
      BY <3>3 DEF S
  <2> HIDE DEF level
  <2> QED
    BY <2>2, <2>3
<1> HIDE DEF level, v, levels, values, r
<1>13. TopOf(r.logits) = {x}
  BY <1>2, <1>8, <1>11, <1>12, TopOfLevels
<1>14. \A n \in ToSet(numbers) : InRange(ranges[x], n.number.value)
  BY <1>10 DEF ToSet
<1>15. Holds(ranges, numbers, r.logits)
  BY <1>11, <1>13, <1>14 DEF Holds
<1> QED
  BY <1>15 DEF r

LEMMA LevelsAnswer ==
  ASSUME DocumentsInv, NEW k \in DOMAIN answers, answers[k].resolved.name = "numeric_range"
  PROVE  LET ranges == RangesOf(views[k])
             found == SelectSeq(ranges, HasRange)
         IN  Holds(ranges, Measured(idx, views[k], LevelKind(found), LevelUnit(found)), answers[k].resolved.logits)
<1> DEFINE v == views[k]
           ranges == RangesOf(v)
           found == SelectSeq(ranges, HasRange)
           kind == LevelKind(found)
           unit == LevelUnit(found)
           m == Measured(idx, v, kind, unit)
           r == answers[k].resolved
<1>1. v.kind \in {"choice", "score", "noul"} /\ r = Resolve(v, idx) /\ FieldsOK(idx)
  BY KindOfAnswer
<1>2. r = NumericLevels(v, idx) /\ r # Unresolved
  <2>1. r.name = "numeric_range"
    OBVIOUS
  <2> HIDE DEF v, r
  <2> QED
    BY <1>1, <2>1, OnlyLevels
<1>3. NumericLevels(v, idx) = LevelsRanged(v, idx, ranges, found)
  BY DEF NumericLevels
<1>4. PICK q \in ChoiceQuestions \cup OtherQuestions : v = View(q, idx)
  BY QuestionOfAnswer
<1>5. LevelRangesOK(ranges)
  BY <1>4, ViewRanges
<1> HIDE DEF ranges, found, v, r
<1>6. LevelsRanged(v, idx, ranges, found) = Unresolved \/ LevelsRanged(v, idx, ranges, found) = LevelsMeasured(ranges, m)
  BY DEF LevelsRanged
<1>7. r = LevelsMeasured(ranges, m) /\ LevelsMeasured(ranges, m) # Unresolved
  BY <1>2, <1>3, <1>6
<1> HIDE DEF kind, unit
<1>8. IsList(m) /\ \A j \in DOMAIN m : m[j].number.value \in Int
  BY <1>1, MeasuredOK
<1> HIDE DEF m
<1>9. Holds(ranges, m, r.logits)
  BY <1>5, <1>7, <1>8, LevelsHold
<1> QED
  BY <1>9 DEF m, kind, unit, ranges, found, r, v

LEMMA LevelsHoldNumbers == DocumentsInv => LevelsHoldTheirNumbers
<1> SUFFICES ASSUME DocumentsInv PROVE LevelsHoldTheirNumbers
  OBVIOUS
<1> QED
  BY LevelsAnswer DEF LevelsHoldTheirNumbers, Fired, Holds

(* A level is picked only when every number that is meant lies in its      *)
(* range, and then no other level has as good a logit: numeric_levels, for *)
(* any levels, any state and any numbers.                                  *)
THEOREM LevelsHoldNumbersAlways == DocumentsSpec => []LevelsHoldTheirNumbers
  BY DocumentsInvariant, LevelsHoldNumbers, PTL

-----------------------------------------------------------------------------
(* Part six.  The calendar and paths.                                      *)

(* The first and the last day of the calendar and the days between.        *)

(* The calendar goes from its first day to its last, day after day. *)
DayNumber(d) == DaysFromEpoch(d)

ThatDay(d, y, m, n) ==
  /\ y \in Int /\ 1 <= y /\ y <= 9999
  /\ m \in 1 .. 12
  /\ n \in Int /\ 1 <= n /\ n <= DaysInMonth(y, m)
  /\ d = <<y, m, n>>

LEMMA YearRange ==
  ASSUME NEW y \in 1 .. 9999
  PROVE  y \in Int /\ 1 <= y /\ y <= 9999
  BY SMT

Years == 1 .. 9999

LEMMA IsThatDay ==
  ASSUME NEW d, NEW y, NEW m, NEW n, y \in Years, m \in 1 .. 12, n \in 1 .. DaysInMonth(y, m), d = <<y, m, n>>
  PROVE  ThatDay(d, y, m, n)
<1> DEFINE l == DaysInMonth(y, m)
<1>1. y \in Int /\ 1 <= y /\ y <= 9999
  BY YearRange, SMT DEF Years
<1>2. l \in 28 .. 31
  BY <1>1, MonthAtMost, SMT
<1>3. n \in 1 .. l
  BY SMT
<1> HIDE DEF l
<1>4. n \in Int /\ 1 <= n /\ n <= l
  BY <1>2, <1>3, SMT
<1> QED
  BY <1>1, <1>4, SMT DEF ThatDay, l

LEMMA PartsOfDate ==
  ASSUME NEW d, ValidDate(d)
  PROVE  \E y, m, n : ThatDay(d, y, m, n)
<1> DEFINE y == d[1]
           m == d[2]
           n == d[3]
           M == 1 .. 12
<1>1. y \in Years
  <2>1. d[1] \in 1 .. 9999
    BY SMTT(30) DEF ValidDate
  <2> QED
    BY <2>1, SMTT(30) DEF Years
<1>2. m \in M
  BY SMTT(30) DEF ValidDate
<1>3. n \in 1 .. DaysInMonth(y, m)
  BY SMTT(30) DEF ValidDate
<1>4. d = <<y, m, n>>
  BY SMTT(30) DEF ValidDate
<1> HIDE DEF y, m, n
<1>5. ThatDay(d, y, m, n)
  BY <1>1, <1>2, <1>3, <1>4, IsThatDay, Zenon
<1> QED
  BY <1>5, Zenon

LEMMA MadeDate ==
  ASSUME NEW y, NEW m, NEW n, NEW d, ThatDay(d, y, m, n)
  PROVE  ValidDate(d)
<1> DEFINE l == DaysInMonth(y, m)
<1>1. y \in Int /\ 1 <= y /\ y <= 9999 /\ m \in 1 .. 12 /\ n \in Int /\ 1 <= n /\ n <= l /\ d = <<y, m, n>>
  BY SMTT(30) DEF ThatDay
<1>2. l \in 28 .. 31
  BY <1>1, MonthAtMost, SMTT(30)
<1>3. d[1] = y /\ d[2] = m /\ d[3] = n
  BY <1>1, SMTT(30)
<1> HIDE DEF l
<1>4. n \in 1 .. l
  BY <1>1, <1>2, SMTT(30)
<1>5. y \in 1 .. 9999
  BY <1>1, YearIn, SMTT(30)
<1> QED
  BY <1>1, <1>3, <1>4, <1>5, SMTT(30) DEF ValidDate, l

LEMMA DayInt ==
  ASSUME NEW y \in Int, NEW m \in 1 .. 12, NEW n \in Int
  PROVE  DaysFromEpoch(<<y, m, n>>) \in Int
<1> DEFINE z == MarchYear(y, m)
           k == March(m)
           doy == DayOfMarchYear(m, n)
           a == YearDays(z)
<1>2. DaysFromEpoch(<<y, m, n>>) = a + doy - 719468
  BY Days, SMT
<1>3. z \in Int /\ k \in Int
  BY SMT DEF MarchYear, March
<1>4. doy = (153 * k + 2) \div 5 + n - 1
  BY DEF DayOfMarchYear
<1> HIDE DEF z, k
<1>5. a \in Int
  BY <1>3, SMT DEF YearDays
<1>6. doy \in Int
  BY <1>3, <1>4, SMT
<1> HIDE DEF a, doy
<1> QED
  BY <1>2, <1>5, <1>6, SMT

LEMMA DayNumberInt ==
  ASSUME NEW d, ValidDate(d)
  PROVE  DayNumber(d) \in Int
<1>1. PICK y, m, n : ThatDay(d, y, m, n)
  BY PartsOfDate, Zenon
<1>2. y \in Int /\ m \in 1 .. 12 /\ n \in Int /\ d = <<y, m, n>>
  BY <1>1, SMT DEF ThatDay
<1> QED
  BY <1>2, DayInt, SMT DEF DayNumber

LEMMA CornersValid == ValidDate(FirstDate) /\ ValidDate(LastDate)
<1>1. DaysInMonth(1, 1) = 31 /\ DaysInMonth(9999, 12) = 31
  BY SMT DEF DaysInMonth
<1>2. ThatDay(FirstDate, 1, 1, 1) /\ ThatDay(LastDate, 9999, 12, 31)
  BY <1>1, SMT DEF ThatDay, FirstDate, LastDate
<1> QED
  BY <1>2, MadeDate, SMT

LEMMA LastYear ==
  ASSUME NEW z \in Int, 0 <= z, z <= 9998
  PROVE  YearDays(z) <= YearDays(9999) - 62
<1> DEFINE a == z \div 4
           b == z \div 100
           c == z \div 400
<1>1. a \in Int /\ b \in Int /\ c \in Int /\ a <= 2499 /\ c <= b
  BY SMT
<1>2. YearDays(z) = 365 * z + a - b + c
  BY DEF YearDays
<1>3. YearDays(9999) = 3652059
  BY SMT DEF YearDays
<1> HIDE DEF a, b, c
<1> QED
  BY <1>1, <1>2, <1>3, SMT

LEMMA DayOfMarchAtMost ==
  ASSUME NEW m \in 1 .. 12, NEW n \in Int, 1 <= n, n <= 31
  PROVE  /\ DayOfMarchYear(m, n) \in Int
         /\ DayOfMarchYear(m, n) <= 367
         /\ m > 2 => DayOfMarchYear(m, n) <= 305
<1> DEFINE k == March(m)
           t == (153 * k + 2) \div 5
<1>1. k \in 0 .. 11 /\ (m > 2 => k <= 9)
  BY SMT DEF March
<1> HIDE DEF k
<1>2. t \in Int /\ t <= 337 /\ (k <= 9 => t <= 275)
  BY <1>1, SMT
<1>3. DayOfMarchYear(m, n) = t + n - 1
  BY SMT DEF DayOfMarchYear, k
<1> HIDE DEF t
<1> QED
  BY <1>1, <1>2, <1>3, SMT

LEMMA LastDay == DayNumber(LastDate) = YearDays(9999) + 305 - 719468
<1>1. DayOfMarchYear(12, 31) = 305 /\ MarchYear(9999, 12) = 9999
  BY SMT DEF DayOfMarchYear, March, MarchYear
<1>2. 9999 \in Int /\ 12 \in 1 .. 12 /\ 31 \in Int
  BY SMT
<1>3. DaysFromEpoch(<<9999, 12, 31>>) = YearDays(MarchYear(9999, 12)) + DayOfMarchYear(12, 31) - 719468
  BY <1>2, Days, SMT
<1> QED
  BY <1>1, <1>3, SMT DEF DayNumber, LastDate

LEMMA BeforeLast ==
  ASSUME NEW d, ValidDate(d)
  PROVE  DayNumber(d) <= DayNumber(LastDate)
<1>1. PICK y, m, n : ThatDay(d, y, m, n)
  BY PartsOfDate, Zenon
<1> DEFINE z == MarchYear(y, m)
           doy == DayOfMarchYear(m, n)
           l == DaysInMonth(y, m)
           a == YearDays(z)
           b == YearDays(9999)
<1>2. y \in Int /\ 1 <= y /\ y <= 9999 /\ m \in 1 .. 12 /\ n \in Int /\ 1 <= n /\ n <= l /\ d = <<y, m, n>>
  BY <1>1, SMT DEF ThatDay
<1>3. n <= 31
  <2>1. l \in 28 .. 31
    BY <1>2, MonthAtMost, SMT
  <2> HIDE DEF l
  <2> QED
    BY <1>2, <2>1, SMT
<1>4. z \in Int /\ 0 <= z /\ z <= 9999 /\ (z = 9999 => m > 2)
  BY <1>2, SMT DEF MarchYear
<1>5. DayNumber(d) = a + doy - 719468
  BY <1>2, Days, SMT DEF DayNumber
<1>6. doy \in Int /\ doy <= 367 /\ (m > 2 => doy <= 305)
  BY <1>2, <1>3, DayOfMarchAtMost, SMT
<1>7. b \in Int /\ a \in Int
  BY <1>4, SMT DEF YearDays
<1>8. DayNumber(LastDate) = b + 305 - 719468
  BY LastDay, SMT
<1>9. z # 9999 => a <= b - 62
  <2> HIDE DEF z, b
  <2>2. z # 9999 => z <= 9998
    BY <1>4, SMT
  <2> QED
    BY <1>4, <2>2, LastYear, SMT DEF b
<1>10. z = 9999 => a = b
  BY SMT
<1> HIDE DEF a, b, z, doy
<1>11. CASE z = 9999
  BY <1>4, <1>5, <1>6, <1>7, <1>8, <1>10, <1>11, SMT
<1>12. CASE z # 9999
  BY <1>5, <1>6, <1>7, <1>8, <1>9, <1>12, SMT
<1> QED
  BY <1>11, <1>12

-----------------------------------------------------------------------------
(* Going from day to day by the calendar and by the number of the day.     *)

LEMMA NextDay ==
  ASSUME NEW d, ValidDate(d), DayNumber(d) # DayNumber(LastDate)
  PROVE  ValidDate(DayAfter(d)) /\ DayNumber(DayAfter(d)) = DayNumber(d) + 1
<1>1. PICK y, m, n : ThatDay(d, y, m, n)
  BY PartsOfDate, Zenon
<1> DEFINE l == DaysInMonth(y, m)
           t == DayAfter(d)
<1>2. y \in Int /\ 1 <= y /\ y <= 9999 /\ m \in 1 .. 12 /\ n \in Int /\ 1 <= n /\ n <= l /\ d = <<y, m, n>>
  BY <1>1, SMT DEF ThatDay
<1>3. l \in 28 .. 31
  BY <1>2, MonthAtMost, SMT
<1>4. DaysFromEpoch(t) = DaysFromEpoch(d) + 1
  <2>1. DaysFromEpoch(DayAfter(<<y, m, n>>)) = DaysFromEpoch(<<y, m, n>>) + 1
    BY <1>2, DayAfterNext, SMT
  <2> QED
    BY <1>2, <2>1, SMT
<1>5. t = IF n < l THEN <<y, m, n + 1>> ELSE IF m < 12 THEN <<y, m + 1, 1>> ELSE <<y + 1, 1, 1>>
  BY <1>2, SMT DEF DayAfter
<1>6. ValidDate(t)
  <2>1. CASE n < l
    <3>1. ThatDay(t, y, m, n + 1)
      <4> HIDE DEF t, l
      <4>1. t = <<y, m, n + 1>> /\ n + 1 \in Int /\ 1 <= n + 1 /\ n + 1 <= l
        BY <1>2, <1>3, <1>5, <2>1, SMT
      <4> QED
        BY <1>2, <4>1, SMT DEF ThatDay, l
    <3> QED
      BY <3>1, MadeDate, Zenon
  <2>2. CASE ~(n < l) /\ m < 12
    <3> DEFINE k == m + 1
               j == DaysInMonth(y, k)
    <3>1. k \in 1 .. 12
      BY <1>2, <2>2, SMT
    <3> HIDE DEF k
    <3>2. j \in 28 .. 31
      BY <1>2, <3>1, MonthAtMost, SMT
    <3>3. t = <<y, k, 1>>
      <4> HIDE DEF t, l
      <4> QED
        BY <1>5, <2>2, SMT DEF k
    <3> HIDE DEF j
    <3>4. 1 \in Int /\ 1 <= 1 /\ 1 <= j
      BY <3>2, SMT
    <3>5. ThatDay(t, y, k, 1)
      BY <1>2, <3>1, <3>3, <3>4, SMT DEF ThatDay, j
    <3> QED
      BY <3>5, MadeDate, Zenon
  <2>3. CASE ~(n < l) /\ ~(m < 12)
    <3> DEFINE k == y + 1
               j == DaysInMonth(k, 1)
    <3>1. m = 12
      BY <1>2, <2>3, SMT
    <3>2. l = 31
      BY <1>2, <3>1, MonthLength, SMT
    <3>3. n = 31
      <4> HIDE DEF l
      <4> QED
        BY <1>2, <2>3, <3>2, SMT
    <3>4. y # 9999
      BY <1>2, <3>1, <3>3, SMT DEF LastDate
    <3>5. k \in Int /\ 1 <= k /\ k <= 9999 /\ 1 \in 1 .. 12
      BY <1>2, <3>4, SMT
    <3>6. t = <<k, 1, 1>>
      <4> HIDE DEF t, l
      <4> QED
        BY <1>5, <2>3, SMT DEF k
    <3> HIDE DEF k
    <3>7. j \in 28 .. 31
      BY <3>5, MonthAtMost, SMT
    <3> HIDE DEF j
    <3>8. 1 \in Int /\ 1 <= 1 /\ 1 <= j
      BY <3>7, SMT
    <3>9. ThatDay(t, k, 1, 1)
      BY <3>5, <3>6, <3>8, SMT DEF ThatDay, j
    <3> QED
      BY <3>9, MadeDate, Zenon
  <2> QED
    BY <2>1, <2>2, <2>3
<1> HIDE DEF t
<1> QED
  BY <1>4, <1>6, SMT DEF DayNumber, t

-----------------------------------------------------------------------------
(* Days later: day after day, as far as the calendar goes. *)
DayStep(p, q, r, day, k) == DayAfter(day)
DayLoop == INSTANCE Folding WITH Step <- DayStep, Good <- Whatever

CountTo(n) == [k \in 1 .. n |-> k]

LEMMA LaterIsLoop ==
  ASSUME NEW d, NEW n
  PROVE  LaterDay(d, n) = DayLoop!Fold(0, 0, 0, d, CountTo(n))
  BY DEF LaterDay, CountTo, DayLoop!Fold, FoldLeft, MapThenFoldSet, Max, DayLoop!Greatest, DayStep

LEMMA LaterNone ==
  ASSUME NEW d
  PROVE  LaterDay(d, 0) = d
<1> DEFINE s == CountTo(0)
<1>1. 0 \in Nat /\ DOMAIN s = 1 .. 0
  BY DEF CountTo
<1> HIDE DEF s
<1>2. PICK acc : DayLoop!Accumulates(acc, 0, 0, 0, d, 0, s)
  BY <1>1, DayLoop!Accumulators
<1>3. DayLoop!Fold(0, 0, 0, d, s) = d
  BY <1>2 DEF DayLoop!Accumulates
<1> QED
  BY <1>3, LaterIsLoop DEF s

LEMMA LaterByOne ==
  ASSUME NEW d, NEW n \in Nat
  PROVE  LaterDay(d, n + 1) = DayAfter(LaterDay(d, n))
<1> DEFINE s == CountTo(n)
           l == CountTo(n + 1)
<1>1. DOMAIN s = 1 .. n /\ DOMAIN l = 1 .. n + 1 /\ \A i \in 1 .. n : l[i] = s[i]
  BY DEF CountTo
<1> HIDE DEF s, l
<1>2. DayLoop!Fold(0, 0, 0, d, l) = DayStep(0, 0, 0, DayLoop!Fold(0, 0, 0, d, s), l[n + 1])
  BY <1>1, DayLoop!FoldOfLonger
<1>3. LaterDay(d, n) = DayLoop!Fold(0, 0, 0, d, s) /\ LaterDay(d, n + 1) = DayLoop!Fold(0, 0, 0, d, l)
  BY LaterIsLoop DEF s, l
<1> QED
  BY <1>2, <1>3 DEF DayStep

(* The day n days after d, while the calendar lasts. *)
LaterOK(d, n) ==
  DayNumber(d) + n <= DayNumber(LastDate) =>
    ValidDate(LaterDay(d, n)) /\ DayNumber(LaterDay(d, n)) = DayNumber(d) + n

LEMMA LaterDays ==
  ASSUME NEW d, ValidDate(d), NEW n \in Nat
  PROVE  LaterOK(d, n)
<1> DEFINE S == {k \in Nat : LaterOK(d, k)}
           a == DayNumber(d)
           z == DayNumber(LastDate)
<1>1. a \in Int /\ z \in Int
  BY CornersValid, DayNumberInt, Zenon
<1>2. 0 \in S
  <2>1. LaterDay(d, 0) = d
    BY LaterNone, Zenon
  <2> HIDE DEF a
  <2>2. a + 0 = a
    BY <1>1, SMT
  <2>3. LaterOK(d, 0)
    BY <2>1, <2>2, Zenon DEF LaterOK, a
  <2> QED
    BY <2>3, SMT
<1>3. ASSUME NEW k \in Nat, k \in S PROVE k + 1 \in S
  <2> DEFINE e == LaterDay(d, k)
             f == LaterDay(d, k + 1)
             b == DayNumber(e)
  <2>1. f = DayAfter(e)
    BY LaterByOne, SMT
  <2>2. a + k <= z => ValidDate(e) /\ b = a + k
    BY <1>3, SMT DEF LaterOK
  <2>3. ValidDate(e) /\ b # z => ValidDate(f) /\ DayNumber(f) = b + 1
    <3> HIDE DEF e, f
    <3> QED
      BY <2>1, NextDay, Zenon
  <2> HIDE DEF e, f, a, b, z
  <2>4. a + (k + 1) <= z => ValidDate(f) /\ DayNumber(f) = a + (k + 1)
    <3>1. SUFFICES ASSUME a + (k + 1) <= z PROVE ValidDate(f) /\ DayNumber(f) = a + (k + 1)
      OBVIOUS
    <3>2. a + k <= z /\ a + k # z /\ (a + k) + 1 = a + (k + 1)
      BY <1>1, <3>1, SMT
    <3> QED
      BY <2>2, <2>3, <3>2, SMT
  <2>5. LaterOK(d, k + 1)
    BY <2>4, SMT DEF LaterOK, a, f, z
  <2> QED
    BY <2>5, SMT
<1> HIDE DEF S
<1>4. n \in S
  BY <1>2, <1>3, DayLoop!SetInduction
<1> QED
  BY <1>4, SMT DEF S

LEMMA FromDayNumber ==
  ASSUME NEW d, ValidDate(d)
  PROVE  FromDays(DayNumber(d)) = d
<1>1. PICK y, m, n : ThatDay(d, y, m, n)
  BY PartsOfDate, Zenon
<1>2. /\ y \in Int /\ 1 <= y /\ y <= 9999 /\ m \in 1 .. 12 /\ d = <<y, m, n>>
      /\ n \in Int /\ 1 <= n /\ n <= DaysInMonth(y, m)
  BY <1>1, SMT DEF ThatDay
<1>3. FromDays(DaysFromEpoch(<<y, m, n>>)) = <<y, m, n>>
  BY <1>2, FromDaysBack, SMT
<1> QED
  BY <1>2, <1>3, SMT DEF DayNumber

-----------------------------------------------------------------------------
(* Relative dates.                                                         *)

LEMMA OnCalendarNumber ==
  ASSUME NEW x \in Int, OnCalendar(x)
  PROVE  DayNumber(FirstDate) <= x /\ x <= DayNumber(LastDate)
<1> DEFINE a == DayNumber(FirstDate)
           z == DayNumber(LastDate)
<1>1. x \in a .. z
  BY Zenon DEF OnCalendar, DayNumber
<1>2. a \in Int /\ z \in Int
  BY CornersValid, DayNumberInt, Zenon
<1> HIDE DEF a, z
<1> QED
  BY <1>1, <1>2, SMT DEF a, z

(* Every day of the calendar has its date. *)
LEMMA DateOfDayNumber ==
  ASSUME NEW x \in Int, OnCalendar(x)
  PROVE  ValidDate(FromDays(x)) /\ DayNumber(FromDays(x)) = x
<1> DEFINE a == DayNumber(FirstDate)
           z == DayNumber(LastDate)
           n == x - a
           d == LaterDay(FirstDate, n)
<1>1. a \in Int /\ z \in Int /\ a <= x /\ x <= z
  BY CornersValid, DayNumberInt, OnCalendarNumber, Zenon
<1> HIDE DEF a, z
<1>2. n \in Nat /\ a + n = x
  BY <1>1, SMT
<1> HIDE DEF n
<1>3. LaterOK(FirstDate, n)
  BY <1>2, CornersValid, LaterDays, Zenon
<1> HIDE DEF d
<1>4. ValidDate(d) /\ DayNumber(d) = x
  BY <1>1, <1>2, <1>3, Zenon DEF LaterOK, a, z, d
<1>5. FromDays(x) = d
  BY <1>4, FromDayNumber, Zenon
<1> QED
  BY <1>4, <1>5, Zenon

MovedBy(a, b, m) ==
  /\ m >= 0 => b = LaterDay(a, m)
  /\ m <= 0 => a = LaterDay(b, -m)

LEMMA LaterIs ==
  ASSUME NEW a, ValidDate(a), NEW b, ValidDate(b), NEW n \in Nat, DayNumber(b) = DayNumber(a) + n
  PROVE  b = LaterDay(a, n)
<1>1. LaterOK(a, n)
  BY LaterDays, Zenon
<1>2. DayNumber(b) <= DayNumber(LastDate)
  BY BeforeLast, Zenon
<1>3. ValidDate(LaterDay(a, n)) /\ DayNumber(LaterDay(a, n)) = DayNumber(b)
  BY <1>1, <1>2, Zenon DEF LaterOK
<1> QED
  BY <1>3, FromDayNumber, Zenon

LEMMA MovedDate ==
  ASSUME NEW a, ValidDate(a), NEW m \in Int, OnCalendar(DayNumber(a) + m)
  PROVE  ValidDate(FromDays(DayNumber(a) + m)) /\ MovedBy(a, FromDays(DayNumber(a) + m), m)
<1> DEFINE p == DayNumber(a)
           x == p + m
           b == FromDays(x)
           q == DayNumber(b)
<1>1. p \in Int
  BY DayNumberInt, Zenon
<1> HIDE DEF p
<1>2. x \in Int
  BY <1>1, SMT
<1>3. OnCalendar(x)
  BY Zenon DEF p
<1> HIDE DEF x
<1>4. ValidDate(b) /\ q = x
  BY <1>2, <1>3, DateOfDayNumber, Zenon
<1> HIDE DEF b, q
<1>5. q = p + m /\ q \in Int
  BY <1>2, <1>4, SMT DEF x
<1>6. ASSUME m >= 0 PROVE b = LaterDay(a, m)
  <2>1. m \in Nat
    BY <1>6, SMT
  <2> QED
    BY <1>4, <1>5, <2>1, LaterIs, Zenon DEF p, q
<1>7. ASSUME m <= 0 PROVE a = LaterDay(b, -m)
  <2> DEFINE n == -m
  <2>1. n \in Nat /\ p = q + n
    BY <1>1, <1>5, <1>7, SMT
  <2> HIDE DEF n
  <2>2. a = LaterDay(b, n)
    BY <1>4, <2>1, LaterIs, Zenon DEF p, q
  <2> QED
    BY <2>2, Zenon DEF n
<1>8. ValidDate(b) /\ MovedBy(a, b, m)
  BY <1>4, <1>6, <1>7, Zenon DEF MovedBy
<1> QED
  BY <1>8, Zenon DEF b, x, p

(* The date that the index tells of a duration. *)
ToldDate(ix, d) ==
  OnCalendar(DayNumber(ix.reference) + Moved(d)) =>
    \E s \in ToSet(ix.dates) :
      s.token = d.token /\ s.seg = d.seg /\ MovedBy(ix.reference, s.date, Moved(d))

LEMMA DurationTold ==
  ASSUME NEW ix, ToldAll(ix), FactsOK(ix), ix.reference # NoDate,
         NEW d \in ToSet(ix.durations), d.kind \in {"Ago", "Later"}
  PROVE  ToldDate(ix, d) /\ RoundedDays(d.days) \in Int
<1> DEFINE a == ix.reference
           r == RoundedDays(d.days)
           m == Moved(d)
           x == DayNumber(a) + m
           b == FromDays(x)
           s == SpanOf(ix, d)
<1>1. ValidDate(a)
  BY Zenon DEF FactsOK, ReferenceOK
<1>2. IsList(ix.durations)
  BY DEF FactsOK, DurationsOK
<1>3. PICK j \in DOMAIN ix.durations : d = ix.durations[j]
  BY DEF ToSet
<1>4. d.days \in Int
  BY <1>3 DEF FactsOK, DurationsOK
<1>5. r \in Int
  <2> DEFINE k == d.days
  <2> HIDE DEF k
  <2>1. (k + 2400) \div 4800 \in Int
    BY <1>4, SMT DEF k
  <2> QED
    BY <2>1, SMT DEF RoundedDays, k
<1>6. m \in Int
  <2> HIDE DEF r
  <2> QED
    BY <1>5, SMT DEF Moved, r
<1>7. DayOf(ix, d) = b
  BY Zenon DEF DayOf, DayNumber
<1>8. ASSUME OnCalendar(x) PROVE \E t \in ToSet(ix.dates) : t.token = d.token /\ t.seg = d.seg /\ MovedBy(a, t.date, m)
  <2>1. ValidDate(b) /\ MovedBy(a, b, m)
    <3> HIDE DEF a, m
    <3> QED
      BY <1>1, <1>6, <1>8, MovedDate, Zenon
  <2> HIDE DEF b, m, a, r, x
  <2>2. DayOf(ix, d) # NoDate
    BY <1>7, <2>1, NoDateIsNone, Zenon
  <2>3. j \in Tellable(ix)
    BY <1>3, <2>2 DEF Tellable
  <2>4. s \in ToSet(RelativeDates(ix))
    BY <1>2, <1>3, <2>3, RelativeDatesAre
  <2>5. s \in ToSet(ix.dates)
    BY <2>4 DEF ToldAll
  <2>6. s.token = d.token /\ s.seg = d.seg /\ s.date = b
    BY <1>7 DEF SpanOf, DateSpan
  <2> HIDE DEF s
  <2> QED
    BY <2>1, <2>5, <2>6
<1> HIDE DEF x, m, a, b, r, s
<1>9. ToldDate(ix, d)
  BY <1>8, Zenon DEF ToldDate, x, m, a
<1> QED
  BY <1>5, <1>9 DEF r

LEMMA RelativeHolds == DocumentsInv => RelativeDatesResolved
<1> SUFFICES ASSUME DocumentsInv, Read, idx.reference # NoDate, NEW d \in ToSet(idx.durations)
    PROVE  LET n == RoundedDays(d.days)
               today == DaysFromEpoch(idx.reference)
               Told(s) == s.token = d.token /\ s.seg = d.seg
           IN  /\ d.kind = "Later" /\ OnCalendar(today + n) =>
                    \E s \in ToSet(idx.dates) : Told(s) /\ DaysApart(idx.reference, s.date, n)
               /\ d.kind = "Ago" /\ OnCalendar(today - n) =>
                    \E s \in ToSet(idx.dates) : Told(s) /\ DaysApart(s.date, idx.reference, n)
  BY Zenon DEF RelativeDatesResolved
<1> DEFINE n == RoundedDays(d.days)
           a == idx.reference
           today == DayNumber(a)
<1>1. ToldAll(idx) /\ FactsOK(idx)
  BY DEF DocumentsInv, FieldsOK, SegmentsOK
<1>2. today \in Int
  BY <1>1, DayNumberInt, Zenon DEF FactsOK, ReferenceOK
<1>3. ASSUME d.kind = "Later", OnCalendar(today + n)
      PROVE  \E s \in ToSet(idx.dates) : s.token = d.token /\ s.seg = d.seg /\ DaysApart(a, s.date, n)
  <2>1. ToldDate(idx, d) /\ n \in Int /\ Moved(d) = n
    BY <1>1, <1>3, DurationTold DEF Moved
  <2> HIDE DEF n
  <2>2. PICK s \in ToSet(idx.dates) : s.token = d.token /\ s.seg = d.seg /\ MovedBy(a, s.date, n)
    BY <1>3, <2>1, Zenon DEF ToldDate
  <2>3. DaysApart(a, s.date, n)
    <3> HIDE DEF a
    <3>1. n >= 0 \/ (~(n >= 0) /\ n <= 0)
      BY <2>1, SMT
    <3> QED
      BY <2>2, <3>1, Zenon DEF DaysApart, MovedBy
  <2> QED
    BY <2>2, <2>3
<1>4. ASSUME d.kind = "Ago", OnCalendar(today - n)
      PROVE  \E s \in ToSet(idx.dates) : s.token = d.token /\ s.seg = d.seg /\ DaysApart(s.date, a, n)
  <2> DEFINE m == -n
  <2>1. ToldDate(idx, d) /\ n \in Int /\ Moved(d) = m
    BY <1>1, <1>4, DurationTold DEF Moved
  <2> HIDE DEF n, today
  <2>2. today + m = today - n /\ m \in Int /\ (n >= 0 => m <= 0) /\ (~(n >= 0) => m >= 0) /\ n = -m
    BY <1>2, <2>1, SMT
  <2> HIDE DEF m
  <2>3. PICK s \in ToSet(idx.dates) : s.token = d.token /\ s.seg = d.seg /\ MovedBy(a, s.date, m)
    BY <1>4, <2>1, <2>2, Zenon DEF ToldDate, today
  <2>4. DaysApart(s.date, a, n)
    <3> HIDE DEF a
    <3>1. n >= 0 => a = LaterDay(s.date, n)
      BY <2>2, <2>3, Zenon DEF MovedBy
    <3>2. ~(n >= 0) => s.date = LaterDay(a, m)
      BY <2>2, <2>3, Zenon DEF MovedBy
    <3>3. m = -n
      BY DEF m
    <3> QED
      BY <3>1, <3>2, <3>3, Zenon DEF DaysApart
  <2> QED
    BY <2>3, <2>4
<1> HIDE DEF n, a, today
<1> QED
  BY <1>3, <1>4, Zenon DEF DayNumber, n, a, today

(* "Five days ago" and "in two weeks" become the day that many days before *)
(* or after today on the calendar, and nothing else: the arithmetic of     *)
(* from_days agrees with going day by day, for every date and every        *)
(* duration whose day the calendar has.                                    *)
THEOREM RelativeDatesAreDays == DocumentsSpec => []RelativeDatesResolved
  BY DocumentsInvariant, RelativeHolds, PTL

-----------------------------------------------------------------------------
(* Paths below a path, whatever the case of their keys.                    *)

LEMMA LoweredGlyphs ==
  ASSUME NEW s, IsList(s)
  PROVE  IsList(LoweredAll(s)) /\ Len(LoweredAll(s)) = Len(s) /\ DOMAIN LoweredAll(s) = DOMAIN s
         /\ \A k \in DOMAIN s : LoweredAll(s)[k] = Lowered(s[k])
<1> DEFINE t == LoweredAll(s)
<1>1. t = [k \in DOMAIN s |-> t[k]] /\ \A k \in DOMAIN s : t[k] = Lowered(s[k])
  BY DEF LoweredAll
<1> HIDE DEF t
<1>2. IsList(t) /\ Len(t) = Len(s) /\ DOMAIN t = DOMAIN s
  BY <1>1, MadeFrom
<1> QED
  BY <1>1, <1>2 DEF t

LEMMA StartsAt ==
  ASSUME NEW s, IsList(s), NEW n \in Nat, n <= Len(s)
  PROVE  IsList(SubSeq(s, 1, n)) /\ Len(SubSeq(s, 1, n)) = n /\ \A k \in 1 .. n : SubSeq(s, 1, n)[k] = s[k]
<1> DEFINE S == ToSet(s)
<1>1. s \in Seq(S)
  BY DEF IsList
<1> HIDE DEF S
<1>2. SubSeq(s, 1, n) \in Seq(S) /\ Len(SubSeq(s, 1, n)) = n /\ \A k \in 1 .. n : SubSeq(s, 1, n)[k] = s[k]
  BY <1>1
<1> QED
  BY <1>2, TypedIsList

LEMMA SameLists ==
  ASSUME NEW s, IsList(s), NEW t, IsList(t), Len(s) = Len(t), \A k \in 1 .. Len(s) : s[k] = t[k]
  PROVE  s = t
<1>1. s = [k \in 1 .. Len(s) |-> s[k]] /\ t = [k \in 1 .. Len(t) |-> t[k]]
  BY ListDomain
<1> QED
  BY <1>1

LEMMA MarkOfPath ==
  ASSUME NEW g \in {"."} \cup ToSet(IndexGlyphs)
  PROVE  Lowered(g) = g
<1>1. Lowered(".") = "." /\ \A k \in DOMAIN IndexGlyphs : Lowered(IndexGlyphs[k]) = IndexGlyphs[k]
  BY JsonAssumption
<1> QED
  BY <1>1 DEF ToSet

LEMMA PrefixWithin ==
  ASSUME NEW p, IsList(p), NEW path, IsList(path), UnderPath(path, p)
  PROVE  Within(LoweredAll(path), LoweredAll(p))
<1> DEFINE n == Len(path)
           m == Len(p)
           a == LoweredAll(path)
           b == LoweredAll(p)
           c == SubSeq(b, 1, n)
           M == {"."} \cup ToSet(IndexGlyphs)
<1>1. n \in Nat /\ m \in Nat /\ n < m /\ SubSeq(p, 1, n) = path /\ p[n + 1] \in M
  BY ListDomain DEF UnderPath
<1>2. IsList(a) /\ Len(a) = n /\ (\A k \in 1 .. n : a[k] = Lowered(path[k]))
      /\ IsList(b) /\ Len(b) = m /\ (\A k \in 1 .. m : b[k] = Lowered(p[k]))
  BY LoweredGlyphs, ListDomain
<1> HIDE DEF n, m, a, b, M
<1>3. \A k \in 1 .. n : path[k] = p[k]
  BY <1>1, StartsAt DEF m
<1>4. IsList(c) /\ Len(c) = n /\ \A k \in 1 .. n : c[k] = b[k]
  BY <1>1, <1>2, StartsAt
<1> HIDE DEF c
<1>5. \A k \in 1 .. n : k \in 1 .. m
  BY <1>1
<1>6. \A k \in 1 .. n : c[k] = a[k]
  BY <1>2, <1>3, <1>4, <1>5
<1>7. c = a
  BY <1>2, <1>4, <1>6, SameLists
<1>8. b[n + 1] \in M
  <2>1. n + 1 \in 1 .. m
    BY <1>1
  <2> DEFINE k == n + 1
  <2> HIDE DEF k
  <2>2. b[k] = Lowered(p[k]) /\ p[k] \in M
    BY <1>1, <1>2, <2>1 DEF k
  <2>3. Lowered(p[k]) = p[k]
    BY <2>2, MarkOfPath DEF M
  <2> QED
    BY <2>2, <2>3 DEF k
<1>9. /\ 0 \in 0 .. Len(b) - Len(a)
      /\ SubSeq(b, 0 + 1, 0 + Len(a)) = a
      /\ 0 > 0 => b[0] = "."
      /\ 0 + Len(a) < Len(b) => b[0 + Len(a) + 1] \in M
  <2>1. 0 \in 0 .. Len(b) - Len(a) /\ 0 + 1 = 1 /\ 0 + Len(a) = n /\ 0 + Len(a) + 1 = n + 1 /\ ~(0 > 0)
    BY <1>1, <1>2
  <2> QED
    BY <1>7, <1>8, <2>1 DEF c
<1> QED
  BY <1>9 DEF Within, M, a, b

LEMMA SubtreeCovered == DocumentsInv => ReferenceCoversSubtree
<1> SUFFICES ASSUME DocumentsInv, NEW path \in Paths \ DOMAIN idx.paths, NEW f \in DOMAIN idx.fields,
                    UnderPath(path, idx.fields[f].path)
             PROVE  f \in FieldsForPath(idx, path)
  BY DEF ReferenceCoversSubtree
<1>1. \A g \in DOMAIN idx.fields : IsList(idx.fields[g].path)
  BY TextIsList DEF DocumentsInv, FieldsOK, FieldFits
<1>2. PICK g \in DOMAIN idx.fields : path \in PathPrefixes(idx.fields[g].path)
  BY DEF Paths
<1> DEFINE q == idx.fields[g].path
<1>3. PICK n \in 1 .. Len(q) : path = SubSeq(q, 1, n)
  BY <1>2 DEF PathPrefixes
<1>4. IsList(path) /\ path # <<>>
  <2>1. IsList(q) /\ Len(q) \in Nat
    BY <1>1, ListDomain
  <2> DEFINE m == Len(q)
  <2> HIDE DEF m, q
  <2>2. n \in Nat /\ n <= Len(q) /\ n # 0
    BY <1>3, <2>1 DEF m
  <2>3. IsList(path) /\ Len(path) = n
    BY <1>3, <2>1, <2>2, StartsAt
  <2> QED
    BY <2>2, <2>3, EmptyIsList
<1>5. Within(LoweredAll(path), LoweredAll(idx.fields[f].path))
  <2> DEFINE p == idx.fields[f].path
  <2>1. IsList(p)
    BY <1>1
  <2> HIDE DEF p
  <2> QED
    BY <1>4, <2>1, PrefixWithin DEF p
<1> QED
  BY <1>4, <1>5 DEF FieldsForPath

(* A question that names a container, by a path that is no field itself,   *)
(* is about every field below it, whatever the case of their keys:         *)
(* fields_for_path, for every state and every path.                        *)
THEOREM SubtreesAreCovered == DocumentsSpec => []ReferenceCoversSubtree
  BY DocumentsInvariant, SubtreeCovered, PTL

-----------------------------------------------------------------------------
(* Part seven.  The limits of an accepted state.                           *)

(* What an accepted request has passed.                                    *)

(* A request without a problem has passed every check. *)
LEMMA NoCheckFails ==
  ASSUME NEW checks, ChecksOK(checks), FirstProblem(checks) = NoProblem
  PROVE  \A c \in ToSet(checks) : ~c[1]
<1> DEFINE P == {k \in DOMAIN checks : checks[k][1]}
           failed == Chosen(checks, P)
           n == Len(checks)
<1>1. FirstProblem(checks) = IF failed = <<>> THEN NoProblem ELSE failed[1][2]
  BY DEF FirstProblem
<1>2. NoProblem.status = 0
  BY DEF NoProblem, Problem
<1>3. n \in Nat /\ DOMAIN checks = 1 .. n
  BY ListDomain DEF ChecksOK
<1>a. P \subseteq 1 .. n /\ \A k \in (1 .. n) \ P : ~checks[k][1]
  BY <1>3
<1> HIDE DEF P
<1>4. IsList(failed) /\ ToSet(failed) = {checks[k] : k \in P \cap (1 .. n)}
  <2> HIDE DEF n
  <2> QED
    BY <1>3, ChosenIs
<1> HIDE DEF failed
<1>5. failed = <<>>
  <2>1. SUFFICES ASSUME failed # <<>> PROVE FALSE
    OBVIOUS
  <2>2. 1 \in DOMAIN failed
    <3>1. Len(failed) \in Nat /\ DOMAIN failed = 1 .. Len(failed) /\ failed = [k \in 1 .. Len(failed) |-> failed[k]]
      BY <1>4, ListDomain
    <3>2. Len(failed) # 0
      <4>1. SUFFICES ASSUME Len(failed) = 0 PROVE FALSE
        OBVIOUS
      <4> QED
        BY <2>1, <3>1, <4>1
    <3> QED
      BY <3>1, <3>2
  <2>3. failed[1] \in ToSet(failed)
    BY <2>2 DEF ToSet
  <2>4. CheckOK(failed[1])
    BY <1>3, <1>4, <2>3 DEF ChecksOK
  <2>5. failed[1][2] = NoProblem
    BY <1>1, <2>1
  <2> QED
    BY <1>2, <2>4, <2>5 DEF CheckOK
<1>6. ToSet(failed) = {}
  BY <1>5 DEF ToSet
<1>7. P = {}
  BY <1>a, <1>4, <1>6
<1>8. \A k \in 1 .. n : ~checks[k][1]
  BY <1>7, <1>a
<1> QED
  BY <1>3, <1>8 DEF ToSet

LEMMA AcceptedWithin ==
  ASSUME NEW r \in Requests, Verdict(r) = NoProblem
  PROVE  ~(Depth(r.state) > Limit.depth) /\ ~(Leaves(r.state) > Limit.leaves)
<1>1. PICK a, b, c : Verifies(Verdict(r), a, StateChecks(r.state), b, c)
  BY VerdictChecks
<1> DEFINE s == StateChecks(r.state)
           z == ((a \o s) \o b) \o c
<1>2. ChecksOK(z) /\ ToSet(s) \subseteq ToSet(z)
  BY <1>1, ChecksJoined
<1>3. FirstProblem(z) = NoProblem
  BY <1>1 DEF Verifies
<1> HIDE DEF z
<1>4. \A d \in ToSet(s) : ~d[1]
  BY <1>2, <1>3, NoCheckFails
<1> DEFINE p == Depth(r.state) > Limit.depth
           q == Leaves(r.state) > Limit.leaves
           o == r.state.type \notin {"text", "object", "array"}
           t == ApproxBytes(r.state) > Limit.stateBytes
<1>5. s = <<<<o, Invalid(<<"state">>)>>, <<p, Invalid(<<"state">>)>>, <<t, TooLarge>>, <<q, TooLarge>>>>
  BY DEF StateChecks
<1> HIDE DEF s, p, q, o, t
<1>6. 2 \in DOMAIN s /\ 4 \in DOMAIN s /\ s[2] = <<p, Invalid(<<"state">>)>> /\ s[4] = <<q, TooLarge>>
  BY <1>5
<1>7. s[2] \in ToSet(s) /\ s[4] \in ToSet(s)
  BY <1>6 DEF ToSet
<1>8. ~s[2][1] /\ ~s[4][1]
  BY <1>4, <1>7
<1>9. ~p /\ ~q
  <2>1. s[2][1] = p /\ s[4][1] = q
    BY <1>6
  <2> QED
    BY <1>8, <2>1
<1> QED
  BY <1>9 DEF p, q

-----------------------------------------------------------------------------
(* How deep a value is and how many leaves it has.                         *)

(* How deep a value is and how many leaves it has, by the values below it. *)
SumStep(g, q, r, n, c) == n + g[c]
SumGood(p, q, r, acc) == IF r = 1 THEN acc[1] = acc[2] ELSE acc \in Nat
SumLoop == INSTANCE Folding WITH Step <- SumStep, Good <- SumGood

DepthOf(g, x) ==
  IF IsContainer(x) THEN 1 + Max({0} \cup {g[c] : c \in ToSet(Children(x))}) ELSE 0
LeavesOf(g, x) ==
  IF IsContainer(x) THEN Max({1, SumLoop!Fold(g, 0, 0, 0, Children(x))}) ELSE 1

LEMMA ChildrenBelow ==
  ASSUME NEW n \in Nat, n + 1 <= Nesting, NEW x \in JsonTo[n + 1], IsContainer(x)
  PROVE  /\ IsList(Children(x))
         /\ \A k \in DOMAIN Children(x) : Children(x)[k] \in JsonTo[n]
<1>1. InnerOf(x, JsonTo[n])
  BY LevelForm
<1>2. CASE x.type = "array"
  <2>1. x.items \in Seq(JsonTo[n]) /\ Children(x) = x.items
    BY <1>1, <1>2 DEF InnerOf, IsScalar, Children
  <2>2. \A k \in DOMAIN x.items : x.items[k] \in JsonTo[n]
    BY <2>1, ElementOfSeq
  <2> QED
    BY <2>1, <2>2, TypedIsList
<1>3. CASE x.type = "object"
  <2> DEFINE S == [key : Texts, value : JsonTo[n]]
             s == x.entries
             t == [k \in DOMAIN s |-> s[k].value]
  <2>1. s \in Seq(S) /\ Children(x) = t
    BY <1>1, <1>3 DEF InnerOf, IsScalar, Children
  <2>2. IsList(s)
    BY <2>1, TypedIsList
  <2>3. Len(s) \in Nat /\ DOMAIN s = 1 .. Len(s)
    BY <2>2, ListDomain
  <2>4. \A k \in DOMAIN s : s[k] \in S
    <3> HIDE DEF S, s
    <3> QED
      BY <2>1, ElementOfSeq
  <2>5. t = [k \in 1 .. Len(s) |-> t[k]] /\ DOMAIN t = DOMAIN s
    BY <2>3
  <2>6. \A k \in DOMAIN t : t[k] \in JsonTo[n]
    BY <2>4
  <2> HIDE DEF t, s
  <2>7. IsList(t)
    BY <2>3, <2>5, ListForm
  <2> QED
    BY <2>1, <2>6, <2>7
<1> QED
  BY <1>2, <1>3 DEF IsContainer

LEMMA ScalarValue ==
  ASSUME NEW x \in JsonTo[0]
  PROVE  ~IsContainer(x)
<1>1. IsScalar(x)
  BY LevelForm
<1> QED
  BY <1>1 DEF IsScalar, IsContainer

LEMMA DepthAgrees ==
  ASSUME NEW g, NEW h, NEW n \in Nat, n + 1 <= Nesting, NEW x \in JsonTo[n + 1],
         \A c \in JsonTo[n] : g[c] = h[c]
  PROVE  DepthOf(g, x) = DepthOf(h, x)
<1>1. CASE IsContainer(x)
  <2>1. \A c \in ToSet(Children(x)) : c \in JsonTo[n]
    BY <1>1, ChildrenBelow DEF ToSet
  <2>2. {g[c] : c \in ToSet(Children(x))} = {h[c] : c \in ToSet(Children(x))}
    BY <2>1
  <2> QED
    BY <1>1, <2>2 DEF DepthOf
<1> QED
  BY <1>1 DEF DepthOf

LEMMA LeavesAgree ==
  ASSUME NEW g, NEW h, NEW n \in Nat, n + 1 <= Nesting, NEW x \in JsonTo[n + 1],
         \A c \in JsonTo[n] : g[c] = h[c]
  PROVE  LeavesOf(g, x) = LeavesOf(h, x)
<1>1. CASE IsContainer(x)
  <2> DEFINE s == Children(x)
             m == Len(s)
  <2>1. m \in Nat /\ DOMAIN s = 1 .. m /\ \A i \in 1 .. m : s[i] \in JsonTo[n]
    BY <1>1, ChildrenBelow, ListDomain
  <2> HIDE DEF s, m
  <2>2. ASSUME NEW i \in 1 .. m, NEW a, NEW b, SumGood(0, 0, 1, <<a, b>>)
        PROVE  SumGood(0, 0, 1, <<SumStep(g, 0, 0, a, s[i]), SumStep(h, 0, 0, b, s[i])>>)
    BY <2>1, <2>2 DEF SumGood, SumStep
  <2>3. SumGood(0, 0, 1, <<0, 0>>)
    BY DEF SumGood
  <2>4. SumGood(0, 0, 1, <<SumLoop!Fold(g, 0, 0, 0, s), SumLoop!Fold(h, 0, 0, 0, s)>>)
    BY <2>1, <2>2, <2>3, SumLoop!FoldsAgree
  <2> QED
    BY <1>1, <2>4 DEF LeavesOf, SumGood, s
<1> QED
  BY <1>1 DEF LeavesOf

LEMMA DepthExists ==
  ASSUME NEW n \in Nat, n <= Nesting
  PROVE  \E g : g = [x \in JsonTo[n] |-> DepthOf(g, x)]
<1>0. Nesting \in Nat
  BY JsonAssumption
<1> DEFINE T == {k \in Nat : k <= Nesting => \E g : g = [x \in JsonTo[k] |-> DepthOf(g, x)]}
<1>1. 0 \in T
  <2> DEFINE g == [x \in JsonTo[0] |-> 0]
  <2>1. \A x \in JsonTo[0] : g[x] = DepthOf(g, x)
    BY ScalarValue DEF DepthOf
  <2>2. g = [x \in JsonTo[0] |-> g[x]]
    OBVIOUS
  <2> HIDE DEF g
  <2>3. g = [x \in JsonTo[0] |-> DepthOf(g, x)]
    BY <2>1, <2>2
  <2> QED
    BY <2>3
<1>2. ASSUME NEW k \in Nat, k \in T PROVE k + 1 \in T
  <2>1. SUFFICES ASSUME k + 1 <= Nesting PROVE \E g : g = [x \in JsonTo[k + 1] |-> DepthOf(g, x)]
    OBVIOUS
  <2>2. PICK g : g = [x \in JsonTo[k] |-> DepthOf(g, x)]
    BY <1>0, <1>2, <2>1
  <2> DEFINE h == [x \in JsonTo[k + 1] |-> DepthOf(g, x)]
  <2>3. \A c \in JsonTo[k] : h[c] = g[c]
    BY <2>1, <2>2, LevelsGrow
  <2>4. h = [x \in JsonTo[k + 1] |-> h[x]] /\ \A x \in JsonTo[k + 1] : h[x] = DepthOf(g, x)
    OBVIOUS
  <2> HIDE DEF h
  <2>5. \A x \in JsonTo[k + 1] : DepthOf(g, x) = DepthOf(h, x)
    BY <2>1, <2>3, DepthAgrees
  <2>6. h = [x \in JsonTo[k + 1] |-> DepthOf(h, x)]
    BY <2>4, <2>5
  <2> QED
    BY <2>6
<1> HIDE DEF T
<1>3. n \in T
  BY <1>1, <1>2, SumLoop!SetInduction
<1> QED
  BY <1>3 DEF T

LEMMA LeavesExist ==
  ASSUME NEW n \in Nat, n <= Nesting
  PROVE  \E g : g = [x \in JsonTo[n] |-> LeavesOf(g, x)]
<1>0. Nesting \in Nat
  BY JsonAssumption
<1> DEFINE T == {k \in Nat : k <= Nesting => \E g : g = [x \in JsonTo[k] |-> LeavesOf(g, x)]}
<1>1. 0 \in T
  <2> DEFINE g == [x \in JsonTo[0] |-> 1]
  <2>1. \A x \in JsonTo[0] : g[x] = LeavesOf(g, x)
    BY ScalarValue DEF LeavesOf
  <2>2. g = [x \in JsonTo[0] |-> g[x]]
    OBVIOUS
  <2> HIDE DEF g
  <2>3. g = [x \in JsonTo[0] |-> LeavesOf(g, x)]
    BY <2>1, <2>2
  <2> QED
    BY <2>3
<1>2. ASSUME NEW k \in Nat, k \in T PROVE k + 1 \in T
  <2>1. SUFFICES ASSUME k + 1 <= Nesting PROVE \E g : g = [x \in JsonTo[k + 1] |-> LeavesOf(g, x)]
    OBVIOUS
  <2>2. PICK g : g = [x \in JsonTo[k] |-> LeavesOf(g, x)]
    BY <1>0, <1>2, <2>1
  <2> DEFINE h == [x \in JsonTo[k + 1] |-> LeavesOf(g, x)]
  <2>3. \A c \in JsonTo[k] : h[c] = g[c]
    BY <2>1, <2>2, LevelsGrow
  <2>4. h = [x \in JsonTo[k + 1] |-> h[x]] /\ \A x \in JsonTo[k + 1] : h[x] = LeavesOf(g, x)
    OBVIOUS
  <2> HIDE DEF h
  <2>5. \A x \in JsonTo[k + 1] : LeavesOf(g, x) = LeavesOf(h, x)
    BY <2>1, <2>3, LeavesAgree
  <2>6. h = [x \in JsonTo[k + 1] |-> LeavesOf(h, x)]
    BY <2>4, <2>5
  <2> QED
    BY <2>6
<1> HIDE DEF T
<1>3. n \in T
  BY <1>1, <1>2, SumLoop!SetInduction
<1> QED
  BY <1>3 DEF T

LEMMA DepthIs ==
  \E d : \A x \in JsonValues : d[x] = Depth(x) /\ d[x] = DepthOf(d, x)
<1>1. Nesting \in Nat /\ Nesting <= Nesting /\ JsonValues = JsonTo[Nesting]
  BY JsonAssumption DEF JsonValues
<1> DEFINE w == CHOOSE g : g = [x \in JsonValues |-> DepthOf(g, x)]
<1>2. w = [x \in JsonValues |-> DepthOf(w, x)]
  BY <1>1, DepthExists
<1>3. \A x \in JsonValues : Depth(x) = w[x]
  BY DEF Depth, DepthOf
<1> HIDE DEF w
<1>4. \A x \in JsonValues : w[x] = Depth(x) /\ w[x] = DepthOf(w, x)
  BY <1>2, <1>3
<1> QED
  BY <1>4

LeavesCase(g, x) ==
  IF IsContainer(x) THEN Max({1, FoldLeft(LAMBDA n, c : n + g[c], 0, Children(x))}) ELSE 1

LEMMA LeavesCases ==
  ASSUME NEW g, NEW x
  PROVE  LeavesCase(g, x) = LeavesOf(g, x)
<1>1. FoldLeft(LAMBDA n, c : n + g[c], 0, Children(x)) = SumLoop!Fold(g, 0, 0, 0, Children(x))
  BY DEF SumLoop!Fold, FoldLeft, MapThenFoldSet, Max, SumLoop!Greatest, SumStep
<1> QED
  BY <1>1 DEF LeavesCase, LeavesOf

LEMMA LeavesAre ==
  \E l : \A x \in JsonValues : l[x] = Leaves(x) /\ l[x] = LeavesOf(l, x)
<1>1. Nesting \in Nat /\ Nesting <= Nesting /\ JsonValues = JsonTo[Nesting]
  BY JsonAssumption DEF JsonValues
<1> DEFINE w == CHOOSE g : g = [x \in JsonValues |-> LeavesOf(g, x)]
           v == CHOOSE g : g = [x \in JsonValues |-> LeavesCase(g, x)]
<1>2. w = [x \in JsonValues |-> LeavesOf(w, x)]
  BY <1>1, LeavesExist
<1>3. w = v
  <2>1. \A g : [x \in JsonValues |-> LeavesOf(g, x)] = [x \in JsonValues |-> LeavesCase(g, x)]
    BY LeavesCases
  <2>2. \A g : (g = [x \in JsonValues |-> LeavesOf(g, x)]) <=> (g = [x \in JsonValues |-> LeavesCase(g, x)])
    BY <2>1
  <2> QED
    BY <2>2
<1>4. \A x \in JsonValues : Leaves(x) = v[x]
  BY DEF Leaves, LeavesCase
<1> HIDE DEF w, v
<1>5. \A x \in JsonValues : w[x] = Leaves(x) /\ w[x] = LeavesOf(w, x)
  BY <1>2, <1>3, <1>4
<1> QED
  BY <1>5

-----------------------------------------------------------------------------
(* What a measure of the values adds up to over entries.                   *)

(* What a measure of the values adds up to over entries. *)
TotalStep(g, q, r, n, e) == n + g[e.value]
TotalLoop == INSTANCE Folding WITH Step <- TotalStep, Good <- SumGood
Total(g, s) == TotalLoop!Fold(g, 0, 0, 0, s)

Weighed(g, s) == \A k \in DOMAIN s : g[s[k].value] \in Nat

(* The sums before and after each entry. *)
Sums(acc, g, s) ==
  /\ acc[0] = 0
  /\ \A i \in 1 .. Len(s) : acc[i] = acc[i - 1] + g[s[i].value]
  /\ \A i \in 0 .. Len(s) : acc[i] \in Nat
  /\ Total(g, s) = acc[Len(s)]

LEMMA SumsOf ==
  ASSUME NEW g, NEW s, IsList(s), Weighed(g, s)
  PROVE  \E acc : Sums(acc, g, s)
<1> DEFINE n == Len(s)
<1>1. n \in Nat /\ DOMAIN s = 1 .. n
  BY ListDomain
<1> HIDE DEF n
<1>2. PICK acc : TotalLoop!Accumulates(acc, g, 0, 0, 0, n, s)
  BY <1>1, TotalLoop!Accumulators
<1>3. acc[0] = 0 /\ (\A i \in 1 .. n : acc[i] = acc[i - 1] + g[s[i].value]) /\ Total(g, s) = acc[n]
  BY <1>2 DEF TotalLoop!Accumulates, TotalStep, Total
<1> DEFINE T == {m \in Nat : m <= n => acc[m] \in Nat}
<1>4. 0 \in T
  BY <1>3
<1>5. ASSUME NEW m \in Nat, m \in T PROVE m + 1 \in T
  <2>1. SUFFICES ASSUME m + 1 <= n PROVE acc[m + 1] \in Nat
    OBVIOUS
  <2>2. m + 1 \in 1 .. n /\ (m + 1) - 1 = m /\ acc[m] \in Nat
    BY <1>1, <1>5, <2>1
  <2>3. g[s[m + 1].value] \in Nat
    BY <1>1, <2>2 DEF Weighed
  <2>4. acc[m + 1] = acc[m] + g[s[m + 1].value]
    BY <1>3, <2>2
  <2> QED
    BY <2>2, <2>3, <2>4
<1> HIDE DEF T
<1>6. \A m \in Nat : m \in T
  BY <1>4, <1>5, TotalLoop!SetInduction
<1>7. \A i \in 0 .. n : acc[i] \in Nat
  BY <1>1, <1>6 DEF T
<1> QED
  BY <1>3, <1>7 DEF Sums, n

(* An entry more, anywhere, is its measure more. *)
Inserted(u, t, i, e) ==
  /\ IsList(u) /\ Len(u) = Len(t) + 1
  /\ \A k \in 1 .. i - 1 : u[k] = t[k]
  /\ u[i] = e
  /\ \A k \in i .. Len(t) : u[k + 1] = t[k]

(* Two lists put together. *)
EndToEnd(u, a, b) ==
  /\ IsList(u) /\ Len(u) = Len(a) + Len(b)
  /\ (\A k \in 1 .. Len(a) : u[k] = a[k]) /\ \A k \in 1 .. Len(b) : u[Len(a) + k] = b[k]

LEMMA ConcatIsEndToEnd ==
  ASSUME NEW a, NEW b, IsList(a), IsList(b)
  PROVE  EndToEnd(a \o b, a, b)
  BY ConcatLists DEF EndToEnd

LEMMA InsertedAt ==
  ASSUME NEW s, IsList(s), NEW i \in 1 .. Len(s) + 1, NEW e
  PROVE  Inserted(InsertAt(s, i, e), s, i, e)
<1> DEFINE n == Len(s)
           a == SubSeq(s, 1, i - 1)
           b == <<e>>
           c == SubSeq(s, i, n)
<1>0. n \in Nat /\ DOMAIN s = 1 .. n /\ n \in Int /\ i \in 1 .. n + 1
  BY ListDomain
<1>a. InsertAt(s, i, e) = (a \o b) \o c
  BY DEF InsertAt
<1>1. IsList(a) /\ Len(a) = i - 1 /\ \A k \in 1 .. i - 1 : a[k] = s[k]
  <2> DEFINE j == i - 1
  <2>1. 1 \in Int /\ 1 <= 1 /\ j \in Int /\ j <= Len(s) /\ 1 <= j + 1
    BY <1>0
  <2>a. j = i - 1
    OBVIOUS
  <2> HIDE DEF j
  <2>2. IsList(SubSeq(s, 1, j)) /\ Len(SubSeq(s, 1, j)) = j - 1 + 1
        /\ \A k \in 1 .. j - 1 + 1 : SubSeq(s, 1, j)[k] = s[1 + k - 1]
    <3>1. PartOf(SubSeq(s, 1, j), s, 1, j)
      BY <2>1, SubListIsPart
    <3> QED
      BY <3>1 DEF PartOf
  <2>3. j - 1 + 1 = j /\ \A k \in 1 .. j : 1 + k - 1 = k
    BY <2>1
  <2>4. IsList(SubSeq(s, 1, j)) /\ Len(SubSeq(s, 1, j)) = j /\ \A k \in 1 .. j : SubSeq(s, 1, j)[k] = s[k]
    BY <2>2, <2>3
  <2> QED
    BY <2>4 DEF j
<1>2. IsList(c) /\ Len(c) = n - i + 1 /\ \A k \in 1 .. n - i + 1 : c[k] = s[i + k - 1]
  <2>1. i \in Int /\ 1 <= i /\ n <= Len(s) /\ i <= n + 1
    BY <1>0
  <2> HIDE DEF n, a, b, c
  <2>2. PartOf(SubSeq(s, i, n), s, i, n)
    BY <1>0, <2>1, SubListIsPart
  <2>3. PartOf(c, s, i, n)
    BY <2>2 DEF c
  <2> QED
    BY <2>3 DEF PartOf
<1>3. IsList(b) /\ Len(b) = 1 /\ b[1] = e
  BY SingleList
<1> HIDE DEF a, b, c, n
<1> DEFINE d == a \o b
<1>b. EndToEnd(d, a, b)
  BY <1>1, <1>3, ConcatIsEndToEnd
<1>c. d = a \o b
  OBVIOUS
<1> HIDE DEF d
<1>4. IsList(d) /\ Len(d) = i
  BY <1>0, <1>1, <1>3, <1>b DEF EndToEnd
<1>5. (\A k \in 1 .. i - 1 : d[k] = s[k]) /\ d[i] = e
  <2>0. (i - 1) + 1 = i /\ 1 \in 1 .. 1
    BY <1>0
  <2>1. (\A k \in 1 .. i - 1 : d[k] = a[k]) /\ \A k \in 1 .. 1 : d[(i - 1) + k] = b[k]
    BY <1>1, <1>3, <1>b DEF EndToEnd
  <2>2. d[(i - 1) + 1] = b[1]
    BY <2>0, <2>1
  <2> QED
    BY <1>1, <1>3, <2>0, <2>1, <2>2
<1> DEFINE u == d \o c
<1>d. EndToEnd(u, d, c)
  BY <1>2, <1>4, ConcatIsEndToEnd
<1>e. u = d \o c
  OBVIOUS
<1> HIDE DEF u
<1>6. IsList(u) /\ Len(u) = n + 1
  BY <1>0, <1>2, <1>4, <1>d DEF EndToEnd
<1>7. (\A k \in 1 .. i : u[k] = d[k]) /\ \A k \in 1 .. n - i + 1 : u[i + k] = c[k]
  BY <1>2, <1>4, <1>d DEF EndToEnd
<1>8. \A k \in 1 .. i - 1 : u[k] = s[k]
  BY <1>0, <1>5, <1>7
<1>9. u[i] = e
  BY <1>0, <1>5, <1>7
<1>10. ASSUME NEW k \in i .. n PROVE u[k + 1] = s[k]
  <2> DEFINE j == k - i + 1
  <2>1. j \in 1 .. n - i + 1 /\ i + j = k + 1 /\ i + j - 1 = k
    BY <1>0
  <2> HIDE DEF j
  <2>2. u[i + j] = c[j] /\ c[j] = s[i + j - 1]
    BY <1>2, <1>7, <2>1
  <2> QED
    BY <2>1, <2>2
<1>11. InsertAt(s, i, e) = u
  BY <1>a, <1>c, <1>e
<1>12. Inserted(u, s, i, e)
  BY <1>6, <1>8, <1>9, <1>10 DEF Inserted, n
<1> QED
  BY <1>11, <1>12

LEMMA TotalInserted ==
  ASSUME NEW g, NEW t, IsList(t), NEW i \in 1 .. Len(t) + 1, NEW e, NEW u, Inserted(u, t, i, e),
         Weighed(g, t), g[e.value] \in Nat
  PROVE  Total(g, u) = Total(g, t) + g[e.value] /\ Weighed(g, u)
<1> DEFINE n == Len(t)
           x == g[e.value]
<1>0. n \in Nat /\ DOMAIN t = 1 .. n /\ DOMAIN u = 1 .. n + 1 /\ Len(u) = n + 1 /\ i \in 1 .. n + 1
  BY ListDomain DEF Inserted
<1>1. /\ \A k \in 1 .. i - 1 : u[k] = t[k]
      /\ u[i] = e
      /\ \A k \in i .. n : u[k + 1] = t[k]
  BY DEF Inserted
<1>2. Weighed(g, u)
  <2>1. ASSUME NEW k \in 1 .. n + 1 PROVE g[u[k].value] \in Nat
    <3>1. CASE k < i
      <4>1. k \in 1 .. i - 1 /\ k \in DOMAIN t
        BY <1>0, <3>1
      <4> QED
        BY <1>1, <4>1 DEF Weighed
    <3>2. CASE k = i
      BY <1>1, <3>2
    <3>3. CASE k > i
      <4> DEFINE j == k - 1
      <4>1. j \in i .. n /\ j \in DOMAIN t /\ j + 1 = k
        BY <1>0, <3>3
      <4> HIDE DEF j
      <4>2. u[j + 1] = t[j]
        BY <1>1, <4>1
      <4> QED
        BY <4>1, <4>2 DEF Weighed
    <3> QED
      BY <1>0, <3>1, <3>2, <3>3
  <2> QED
    BY <1>0, <2>1 DEF Weighed
<1>3. PICK a : Sums(a, g, t)
  BY SumsOf
<1>4. PICK b : Sums(b, g, u)
  BY <1>2, SumsOf DEF Inserted
<1>5. /\ a[0] = 0 /\ b[0] = 0
      /\ \A k \in 1 .. n : a[k] = a[k - 1] + g[t[k].value]
      /\ \A k \in 1 .. n + 1 : b[k] = b[k - 1] + g[u[k].value]
      /\ \A k \in 0 .. n : a[k] \in Nat
      /\ \A k \in 0 .. n + 1 : b[k] \in Nat
      /\ Total(g, t) = a[n] /\ Total(g, u) = b[n + 1]
  BY <1>0, <1>3, <1>4 DEF Sums
<1> HIDE DEF n
<1>x. x \in Nat
  OBVIOUS
<1> DEFINE T == {m \in Nat : m <= n => (m < i => b[m] = a[m]) /\ (m + 1 >= i => b[m + 1] = a[m] + x)}
<1>6. 0 \in T
  <2>1. CASE i = 1
    <3>1. 1 \in 1 .. n + 1 /\ 1 - 1 = 0 /\ u[1] = e
      BY <1>0, <1>1, <2>1
    <3>2. b[1] = b[0] + x
      BY <1>5, <3>1
    <3> HIDE DEF x
    <3>3. b[0 + 1] = a[0] + x /\ b[0] = a[0]
      BY <1>5, <1>x, <3>2
    <3> QED
      BY <2>1, <3>3
  <2>2. CASE i # 1
    <3> HIDE DEF x
    <3> QED
      BY <1>0, <1>5, <2>2
  <2> QED
    BY <2>1, <2>2
<1>7. ASSUME NEW m \in Nat, m \in T PROVE m + 1 \in T
  <2>1. SUFFICES ASSUME m + 1 <= n
                 PROVE  /\ m + 1 < i => b[m + 1] = a[m + 1]
                        /\ (m + 1) + 1 >= i => b[(m + 1) + 1] = a[m + 1] + x
    OBVIOUS
  <2>2. (m < i => b[m] = a[m]) /\ (m + 1 >= i => b[m + 1] = a[m] + x)
    BY <1>0, <1>7, <2>1
  <2> HIDE DEF T
  <2>3. m + 1 \in 1 .. n /\ m + 1 \in 1 .. n + 1 /\ (m + 1) + 1 \in 1 .. n + 1 /\ (m + 1) - 1 = m
        /\ ((m + 1) + 1) - 1 = m + 1
    BY <1>0, <2>1
  <2>4. a[m + 1] = a[m] + g[t[m + 1].value]
    BY <1>5, <2>3
  <2>5. b[m + 1] = b[m] + g[u[m + 1].value]
    BY <1>5, <2>3
  <2>6. b[(m + 1) + 1] = b[m + 1] + g[u[(m + 1) + 1].value]
    BY <1>5, <2>3
  <2>7. a[m] \in Nat /\ a[m + 1] \in Nat /\ b[m + 1] \in Nat /\ g[t[m + 1].value] \in Nat
    <3>1. m \in 0 .. n /\ m + 1 \in 0 .. n /\ m + 1 \in 0 .. n + 1 /\ m + 1 \in DOMAIN t
      BY <1>0, <2>3
    <3>2. g[t[m + 1].value] \in Nat
      BY <3>1 DEF Weighed
    <3> QED
      BY <1>5, <3>1, <3>2
  <2>8. ASSUME m + 1 < i PROVE b[m + 1] = a[m + 1]
    <3>1. m + 1 \in 1 .. i - 1 /\ m < i
      BY <1>0, <2>8
    <3> QED
      BY <1>1, <2>2, <2>4, <2>5, <3>1
  <2>9. ASSUME (m + 1) + 1 >= i PROVE b[(m + 1) + 1] = a[m + 1] + x
    <3>1. CASE (m + 1) + 1 = i
      <4>1. m + 1 < i /\ u[(m + 1) + 1] = e
        BY <1>0, <1>1, <3>1
      <4> QED
        BY <2>6, <2>8, <4>1
    <3>2. CASE (m + 1) + 1 # i
      <4>1. m + 1 \in i .. n /\ m + 1 >= i
        BY <1>0, <2>3, <2>9, <3>2
      <4>2. u[(m + 1) + 1] = t[m + 1]
        BY <1>1, <4>1
      <4>3. b[(m + 1) + 1] = (a[m] + x) + g[t[m + 1].value]
        BY <2>2, <2>6, <4>1, <4>2
      <4> HIDE DEF x
      <4> QED
        BY <1>x, <2>4, <2>7, <4>3
    <3> QED
      BY <3>1, <3>2
  <2> QED
    BY <2>8, <2>9
<1> HIDE DEF T
<1>8. n \in T
  BY <1>0, <1>6, <1>7, TotalLoop!SetInduction
<1>9. b[n + 1] = a[n] + x
  BY <1>0, <1>8 DEF T
<1> QED
  BY <1>2, <1>5, <1>9

-----------------------------------------------------------------------------
(* Sorting entries changes no sum over them.                               *)

(* Sorting entries changes no sum over them. *)
Resorted(u, g, total) == IsList(u) /\ Weighed(g, u) /\ Total(g, u) = total

LEMMA InsertedTotal ==
  ASSUME NEW g, NEW t, NEW total, Resorted(t, g, total), NEW e, g[e.value] \in Nat
  PROVE  Resorted(Insert(t, e), g, total + g[e.value])
<1> DEFINE K == {k \in DOMAIN t : ~KeyBefore(e.key, t[k].key)}
           i == 1 + Cardinality(K)
           u == InsertAt(t, i, e)
<1>0. IsList(t) /\ Weighed(g, t) /\ Total(g, t) = total
  BY DEF Resorted
<1>1. Len(t) \in Nat /\ DOMAIN t = 1 .. Len(t)
  BY <1>0, ListDomain
<1>2. Insert(t, e) = u
  BY DEF Insert
<1>3. K \in SUBSET (1 .. Len(t))
  BY <1>1
<1> HIDE DEF K
<1>4. Cardinality(K) \in 0 .. Len(t)
  BY <1>1, <1>3, CountUpTo
<1>5. i \in 1 .. Len(t) + 1
  BY <1>1, <1>4
<1> HIDE DEF i
<1>6. Inserted(u, t, i, e)
  BY <1>0, <1>5, InsertedAt
<1> HIDE DEF u
<1>7. Total(g, u) = Total(g, t) + g[e.value] /\ Weighed(g, u)
  BY <1>0, <1>5, <1>6, TotalInserted
<1> QED
  BY <1>0, <1>2, <1>6, <1>7 DEF Resorted, Inserted

LEMMA NoTotal ==
  ASSUME NEW g
  PROVE  Resorted(<<>>, g, 0)
<1>1. IsList(<<>>) /\ Weighed(g, <<>>)
  BY EmptyIsList DEF Weighed
<1>2. PICK a : Sums(a, g, <<>>)
  BY <1>1, SumsOf
<1>3. Total(g, <<>>) = 0
  BY <1>2, EmptyIsList DEF Sums
<1> QED
  BY <1>1, <1>3 DEF Resorted

LEMMA TotalSorted ==
  ASSUME NEW g, NEW s, IsList(s), Weighed(g, s)
  PROVE  Resorted(InKeyOrder(s), g, Total(g, s))
<1> DEFINE n == Len(s)
<1>1. n \in Nat /\ DOMAIN s = 1 .. n
  BY ListDomain
<1>2. PICK a : Sums(a, g, s)
  BY SumsOf
<1>3. a[0] = 0 /\ (\A k \in 1 .. n : a[k] = a[k - 1] + g[s[k].value]) /\ Total(g, s) = a[n]
  BY <1>2 DEF Sums
<1> HIDE DEF n
<1>4. InKeyOrder(s) = InsertLoop!Fold(0, 0, 0, <<>>, s)
  BY DEF InKeyOrder, InsertLoop!Fold, FoldLeft, MapThenFoldSet,
         Max, InsertLoop!Greatest, InsertStep
<1>5. PICK acc : InsertLoop!Accumulates(acc, 0, 0, 0, <<>>, n, s)
  BY <1>1, InsertLoop!Accumulators
<1>6. acc[0] = <<>> /\ (\A k \in 1 .. n : acc[k] = Insert(acc[k - 1], s[k])) /\ InKeyOrder(s) = acc[n]
  BY <1>4, <1>5 DEF InsertLoop!Accumulates, InsertStep
<1> DEFINE T == {m \in Nat : m <= n => Resorted(acc[m], g, a[m])}
<1>7. 0 \in T
  BY <1>3, <1>6, NoTotal
<1>8. ASSUME NEW m \in Nat, m \in T PROVE m + 1 \in T
  <2>1. SUFFICES ASSUME m + 1 <= n PROVE Resorted(acc[m + 1], g, a[m + 1])
    OBVIOUS
  <2>2. m + 1 \in 1 .. n /\ (m + 1) - 1 = m /\ Resorted(acc[m], g, a[m])
    BY <1>1, <1>8, <2>1
  <2>3. g[s[m + 1].value] \in Nat
    BY <1>1, <2>2 DEF Weighed
  <2>4. acc[m + 1] = Insert(acc[m], s[m + 1])
    BY <1>6, <2>2
  <2>5. a[m + 1] = a[m] + g[s[m + 1].value]
    BY <1>3, <2>2
  <2> QED
    BY <2>2, <2>3, <2>4, <2>5, InsertedTotal
<1> HIDE DEF T
<1>9. n \in T
  BY <1>1, <1>7, <1>8, InsertLoop!SetInduction
<1> QED
  BY <1>1, <1>3, <1>6, <1>9 DEF T

(* The sums of a measure over the children of a value. *)
ChildSums(acc, g, s) ==
  /\ acc[0] = 0
  /\ \A i \in 1 .. Len(s) : acc[i] = acc[i - 1] + g[s[i]]
  /\ \A i \in 0 .. Len(s) : acc[i] \in Nat
  /\ SumLoop!Fold(g, 0, 0, 0, s) = acc[Len(s)]

LEMMA ChildSumsOf ==
  ASSUME NEW g, NEW s, IsList(s), \A k \in DOMAIN s : g[s[k]] \in Nat
  PROVE  \E acc : ChildSums(acc, g, s)
<1> DEFINE n == Len(s)
<1>1. n \in Nat /\ DOMAIN s = 1 .. n
  BY ListDomain
<1> HIDE DEF n
<1>2. PICK acc : SumLoop!Accumulates(acc, g, 0, 0, 0, n, s)
  BY <1>1, SumLoop!Accumulators
<1>3. acc[0] = 0 /\ (\A i \in 1 .. n : acc[i] = acc[i - 1] + g[s[i]]) /\ SumLoop!Fold(g, 0, 0, 0, s) = acc[n]
  BY <1>2 DEF SumLoop!Accumulates, SumStep
<1> DEFINE T == {m \in Nat : m <= n => acc[m] \in Nat}
<1>4. 0 \in T
  BY <1>3
<1>5. ASSUME NEW m \in Nat, m \in T PROVE m + 1 \in T
  <2>1. SUFFICES ASSUME m + 1 <= n PROVE acc[m + 1] \in Nat
    OBVIOUS
  <2>2. m + 1 \in 1 .. n /\ (m + 1) - 1 = m /\ acc[m] \in Nat
    BY <1>1, <1>5, <2>1
  <2>3. g[s[m + 1]] \in Nat
    BY <1>1, <2>2
  <2>4. acc[m + 1] = acc[m] + g[s[m + 1]]
    BY <1>3, <2>2
  <2> QED
    BY <2>2, <2>3, <2>4
<1> HIDE DEF T
<1>6. \A m \in Nat : m \in T
  BY <1>4, <1>5, SumLoop!SetInduction
<1>7. \A i \in 0 .. n : acc[i] \in Nat
  BY <1>1, <1>6 DEF T
<1> QED
  BY <1>3, <1>7 DEF ChildSums, n

LEMMA ChildrenOfEntries ==
  ASSUME NEW g, NEW s, IsList(s), NEW t, IsList(t), Len(t) = Len(s),
         \A k \in DOMAIN s : t[k] = s[k].value /\ g[t[k]] \in Nat
  PROVE  Weighed(g, s) /\ SumLoop!Fold(g, 0, 0, 0, t) = Total(g, s)
<1> DEFINE n == Len(s)
<1>1. n \in Nat /\ DOMAIN s = 1 .. n /\ DOMAIN t = 1 .. n
  BY ListDomain
<1>2. Weighed(g, s) /\ \A k \in DOMAIN t : g[t[k]] \in Nat
  BY <1>1 DEF Weighed
<1>3. PICK a : Sums(a, g, s)
  BY <1>2, SumsOf
<1>4. PICK b : ChildSums(b, g, t)
  BY <1>2, ChildSumsOf
<1>5. /\ a[0] = 0 /\ b[0] = 0
      /\ \A k \in 1 .. n : a[k] = a[k - 1] + g[s[k].value]
      /\ \A k \in 1 .. n : b[k] = b[k - 1] + g[t[k]]
      /\ Total(g, s) = a[n] /\ SumLoop!Fold(g, 0, 0, 0, t) = b[n]
  BY <1>1, <1>3, <1>4 DEF Sums, ChildSums
<1> HIDE DEF n
<1> DEFINE T == {m \in Nat : m <= n => a[m] = b[m]}
<1>6. 0 \in T
  BY <1>5
<1>7. ASSUME NEW m \in Nat, m \in T PROVE m + 1 \in T
  <2>1. SUFFICES ASSUME m + 1 <= n PROVE a[m + 1] = b[m + 1]
    OBVIOUS
  <2>2. m + 1 \in 1 .. n /\ (m + 1) - 1 = m /\ a[m] = b[m]
    BY <1>1, <1>7, <2>1
  <2>3. t[m + 1] = s[m + 1].value
    BY <1>1, <2>2
  <2>4. a[m + 1] = a[m] + g[s[m + 1].value] /\ b[m + 1] = b[m] + g[t[m + 1]]
    BY <1>5, <2>2
  <2> QED
    BY <2>2, <2>3, <2>4
<1> HIDE DEF T
<1>8. n \in T
  BY <1>1, <1>6, <1>7, SumLoop!SetInduction
<1> QED
  BY <1>1, <1>2, <1>5, <1>8 DEF T

-----------------------------------------------------------------------------
(* The measures of a container, and a walk beside another.                 *)

LEMMA ChildWithin ==
  ASSUME NEW g, NEW s, IsList(s), \A k \in DOMAIN s : g[s[k]] \in Nat
  PROVE  \E b \in Nat : \A c \in ToSet(s) : g[c] \in Nat /\ g[c] <= b
<1> DEFINE n == Len(s)
<1>1. n \in Nat /\ DOMAIN s = 1 .. n
  BY ListDomain
<1>2. PICK a : ChildSums(a, g, s)
  BY ChildSumsOf
<1>3. (\A k \in 1 .. n : a[k] = a[k - 1] + g[s[k]]) /\ \A k \in 0 .. n : a[k] \in Nat
  BY <1>2 DEF ChildSums
<1> HIDE DEF n
<1> DEFINE T == {m \in Nat : m <= n => \A k \in 1 .. m : g[s[k]] <= a[m]}
<1>4. 0 \in T
  OBVIOUS
<1>5. ASSUME NEW m \in Nat, m \in T PROVE m + 1 \in T
  <2>1. SUFFICES ASSUME m + 1 <= n, NEW k \in 1 .. m + 1 PROVE g[s[k]] <= a[m + 1]
    OBVIOUS
  <2>2. /\ m + 1 \in 1 .. n /\ (m + 1) - 1 = m /\ m \in 0 .. n
        /\ \A j \in 1 .. m : g[s[j]] <= a[m]
    BY <1>1, <1>5, <2>1
  <2>3. g[s[m + 1]] \in Nat /\ g[s[k]] \in Nat /\ a[m] \in Nat
    <3>1. k \in 1 .. n /\ m + 1 \in DOMAIN s /\ k \in DOMAIN s
      BY <1>1, <2>1
    <3> QED
      BY <1>3, <2>2, <3>1
  <2>4. a[m + 1] = a[m] + g[s[m + 1]]
    BY <1>3, <2>2
  <2>5. CASE k = m + 1
    BY <2>3, <2>4, <2>5
  <2>6. CASE k # m + 1
    <3>1. k \in 1 .. m
      BY <2>1, <2>6
    <3>2. g[s[k]] <= a[m]
      BY <2>2, <3>1
    <3> QED
      BY <2>3, <2>4, <3>2
  <2> QED
    BY <2>5, <2>6
<1> HIDE DEF T
<1>6. n \in T
  BY <1>1, <1>4, <1>5, SumLoop!SetInduction
<1>7. a[n] \in Nat /\ \A k \in 1 .. n : g[s[k]] \in Nat /\ g[s[k]] <= a[n]
  <2>1. a[n] \in Nat /\ \A k \in 1 .. n : g[s[k]] <= a[n]
    BY <1>1, <1>3, <1>6 DEF T
  <2>2. \A k \in 1 .. n : g[s[k]] \in Nat
    BY <1>1
  <2> QED
    BY <2>1, <2>2
<1> QED
  BY <1>1, <1>7 DEF ToSet

(* The measures of a value exceed those of what it holds.                  *)
Measures(d, l) ==
  \A x \in JsonValues : /\ d[x] = Depth(x) /\ d[x] = DepthOf(d, x)
                        /\ l[x] = Leaves(x) /\ l[x] = LeavesOf(l, x)

Outdone(d, l, x) ==
  IsContainer(x) =>
    /\ \A k \in DOMAIN Children(x) : d[Children(x)[k]] + 1 <= d[x]
    /\ SumLoop!Fold(l, 0, 0, 0, Children(x)) \in Nat
    /\ SumLoop!Fold(l, 0, 0, 0, Children(x)) <= l[x]

Gauged(d, l, x) == d[x] \in Nat /\ l[x] \in Nat /\ 1 <= l[x] /\ Outdone(d, l, x)

LEMMA ContainerMeasured ==
  ASSUME NEW d, NEW l, NEW x, d[x] = DepthOf(d, x), l[x] = LeavesOf(l, x), IsContainer(x),
         IsList(Children(x)),
         \A k \in DOMAIN Children(x) : d[Children(x)[k]] \in Nat /\ l[Children(x)[k]] \in Nat
  PROVE  Gauged(d, l, x)
<1> DEFINE s == Children(x)
           D == {d[c] : c \in ToSet(s)}
           S == {0} \cup D
           sum == SumLoop!Fold(l, 0, 0, 0, s)
<1>1. d[x] = 1 + Max(S) /\ l[x] = Max({1, sum})
  BY DEF DepthOf, LeavesOf
<1> HIDE DEF s
<1>s. IsList(s) /\ \A k \in DOMAIN s : d[s[k]] \in Nat /\ l[s[k]] \in Nat
  BY DEF s
<1>2. PICK b \in Nat : \A c \in ToSet(s) : d[c] \in Nat /\ d[c] <= b
  BY <1>s, ChildWithin
<1>3. S \in SUBSET Int /\ S # {} /\ \A y \in S : y \in Nat /\ y <= b
  BY <1>2
<1>4. \A k \in DOMAIN s : d[s[k]] \in S
  BY DEF ToSet
<1> HIDE DEF S
<1>5. Max(S) \in S /\ \A y \in S : y <= Max(S)
  <2>1. \A y \in S : y <= b
    BY <1>3
  <2> QED
    BY <1>3, <2>1, MaxOf
<1> DEFINE m == Max(S)
<1>6. m \in Nat /\ d[x] = 1 + m /\ \A k \in DOMAIN s : d[s[k]] <= m
  BY <1>1, <1>3, <1>4, <1>5
<1> HIDE DEF m
<1>7. d[x] \in Nat /\ \A k \in DOMAIN s : d[s[k]] + 1 <= d[x]
  BY <1>s, <1>6
<1>8. sum \in Nat
  <2>1. PICK a : ChildSums(a, l, s)
    BY <1>s, ChildSumsOf
  <2>2. Len(s) \in 0 .. Len(s)
    BY <1>s, ListDomain
  <2> QED
    BY <2>1, <2>2 DEF ChildSums
<1> HIDE DEF sum
<1>9. l[x] = IF 1 <= sum THEN sum ELSE 1
  BY <1>1, <1>8, MaxOfTwo
<1>10. l[x] \in Nat /\ 1 <= l[x] /\ sum <= l[x]
  BY <1>8, <1>9
<1> QED
  BY <1>7, <1>8, <1>10 DEF Gauged, Outdone, sum, s

LEMMA AllMeasured ==
  ASSUME NEW d, NEW l, Measures(d, l), NEW n \in Nat, n <= Nesting
  PROVE  \A x \in JsonTo[n] : Gauged(d, l, x)
<1>0. Nesting \in Nat
  BY JsonAssumption
<1>1. \A m \in 0 .. Nesting : \A x \in JsonTo[m] : d[x] = DepthOf(d, x) /\ l[x] = LeavesOf(l, x)
  BY LevelsWithin DEF Measures
<1> DEFINE T == {m \in Nat : m <= Nesting => \A x \in JsonTo[m] : Gauged(d, l, x)}
<1>2. 0 \in T
  <2>1. ASSUME NEW x \in JsonTo[0] PROVE Gauged(d, l, x)
    <3>1. ~IsContainer(x) /\ 0 \in 0 .. Nesting
      BY <1>0, ScalarValue
    <3>2. d[x] = 0 /\ l[x] = 1
      BY <1>1, <3>1 DEF DepthOf, LeavesOf
    <3> QED
      BY <3>1, <3>2 DEF Gauged, Outdone
  <2> QED
    BY <2>1
<1>3. ASSUME NEW m \in Nat, m \in T PROVE m + 1 \in T
  <2>1. SUFFICES ASSUME m + 1 <= Nesting, NEW x \in JsonTo[m + 1] PROVE Gauged(d, l, x)
    OBVIOUS
  <2>2. m + 1 \in 0 .. Nesting /\ m \in 0 .. Nesting /\ \A y \in JsonTo[m] : Gauged(d, l, y)
    BY <1>0, <1>3, <2>1
  <2>3. d[x] = DepthOf(d, x) /\ l[x] = LeavesOf(l, x)
    BY <1>1, <2>2
  <2>4. CASE IsContainer(x)
    <3>1. IsList(Children(x)) /\ \A k \in DOMAIN Children(x) : Children(x)[k] \in JsonTo[m]
      BY <2>1, <2>4, ChildrenBelow
    <3>2. \A k \in DOMAIN Children(x) : d[Children(x)[k]] \in Nat /\ l[Children(x)[k]] \in Nat
      BY <2>2, <3>1 DEF Gauged
    <3> QED
      BY <2>3, <2>4, <3>1, <3>2, ContainerMeasured
  <2>5. CASE ~IsContainer(x)
    <3>1. d[x] = 0 /\ l[x] = 1
      BY <2>3, <2>5 DEF DepthOf, LeavesOf
    <3> QED
      BY <2>5, <3>1 DEF Gauged, Outdone
  <2> QED
    BY <2>4, <2>5
<1> HIDE DEF T
<1>4. n \in T
  BY <1>2, <1>3, SumLoop!SetInduction
<1> QED
  BY <1>4 DEF T

-----------------------------------------------------------------------------
(* A walk within limits: of the number of fields and of their depth.       *)
WalkBound(w, total, deep) ==
  /\ IsList(w.fields) /\ Len(w.fields) <= total
  /\ \A k \in DOMAIN w.fields : w.fields[k].depth \in Nat /\ w.fields[k].depth <= deep

LEMMA BesideBound ==
  ASSUME NEW a, NEW t \in Nat, NEW deep \in Nat, WalkBound(a, t, deep), NEW b, NEW u \in Nat,
         NEW below \in Nat, WalkBound(b, u, below), below <= deep
  PROVE  WalkBound(Beside(a, b), t + u, deep)
<1> DEFINE p == a.fields
           q == b.fields
           v == p \o q
<1>1. /\ IsList(p) /\ Len(p) <= t /\ \A k \in DOMAIN p : p[k].depth \in Nat /\ p[k].depth <= deep
      /\ IsList(q) /\ Len(q) <= u /\ \A k \in DOMAIN q : q[k].depth \in Nat /\ q[k].depth <= below
  BY DEF WalkBound
<1>2. Beside(a, b).fields = v
  BY DEF Beside, Walked
<1> HIDE DEF p, q
<1>3. IsList(v) /\ Len(v) = Len(p) + Len(q) /\ ToSet(v) = ToSet(p) \cup ToSet(q)
  BY <1>1, ConcatLists
<1>4. Len(p) \in Nat /\ Len(q) \in Nat
  BY <1>1, ListDomain
<1> HIDE DEF v
<1>5. Len(v) <= t + u
  BY <1>1, <1>3, <1>4
<1>6. \A f \in ToSet(p) : f.depth \in Nat /\ f.depth <= deep
  BY <1>1 DEF ToSet
<1>7. \A f \in ToSet(q) : f.depth \in Nat /\ f.depth <= deep
  <2>1. \A k \in DOMAIN q : q[k].depth \in Nat /\ q[k].depth <= deep
    BY <1>1
  <2> QED
    BY <2>1 DEF ToSet
<1>8. \A k \in DOMAIN v : v[k].depth \in Nat /\ v[k].depth <= deep
  <2>1. \A k \in DOMAIN v : v[k] \in ToSet(v)
    BY DEF ToSet
  <2> QED
    BY <2>1, <1>3, <1>6, <1>7
<1> QED
  BY <1>2, <1>3, <1>5, <1>8 DEF WalkBound

LEMMA NothingBound ==
  ASSUME NEW deep, NEW arrays
  PROVE  WalkBound(Walked(<<>>, arrays), 0, deep)
<1>1. Walked(<<>>, arrays).fields = <<>>
  BY DEF Walked
<1> QED
  BY <1>1, EmptyIsList DEF WalkBound

-----------------------------------------------------------------------------
(* What a walk makes of each kind of value.                                *)

(* Every walk makes no more fields than its value has leaves, and none     *)
(* deeper than its value.                                                  *)
NodeBound(w, d, l, y) == WalkBound(w[y], l[y.value], y.depth + d[y.value])

LEMMA DeeperAtMost ==
  ASSUME NEW y \in Nodes
  PROVE  y.depth \in Nat /\ Deeper(y.depth) \in Nat /\ Deeper(y.depth) <= y.depth + 1
<1>1. y.depth \in 0 .. DepthLimit /\ DepthLimit \in Nat
  BY JsonAssumption DEF Nodes
<1>2. Deeper(y.depth) \in 0 .. DepthLimit /\ (y.depth < DepthLimit => Deeper(y.depth) = y.depth + 1)
  BY <1>1, DeeperInRange
<1> QED
  BY <1>1, <1>2

(* A child's walk is within what is left for it. *)
LEMMA ChildBound ==
  ASSUME NEW w, NEW d, NEW l, NEW y \in Nodes, NEW c, c.depth = Deeper(y.depth),
         d[c.value] \in Nat, l[c.value] \in Nat, d[y.value] \in Nat, d[c.value] + 1 <= d[y.value],
         NodeBound(w, d, l, c),
         NEW a, NEW t \in Nat, WalkBound(a, t, y.depth + d[y.value])
  PROVE  WalkBound(Beside(a, w[c]), t + l[c.value], y.depth + d[y.value])
<1> DEFINE deep == y.depth + d[y.value]
           below == c.depth + d[c.value]
           u == l[c.value]
<1>1. deep \in Nat /\ below \in Nat /\ below <= deep
  BY DeeperAtMost
<1>2. WalkBound(w[c], u, below) /\ WalkBound(a, t, deep) /\ u \in Nat
  BY DEF NodeBound
<1> HIDE DEF deep, below, u
<1>3. WalkBound(Beside(a, w[c]), t + u, deep)
  BY <1>1, <1>2, BesideBound
<1> QED
  BY <1>3 DEF deep, u

LEMMA WithinMore ==
  ASSUME NEW a, NEW t \in Nat, NEW u \in Nat, t <= u, NEW deep, WalkBound(a, t, deep)
  PROVE  WalkBound(a, u, deep)
<1>1. Len(a.fields) \in Nat
  BY ListDomain DEF WalkBound
<1> QED
  BY <1>1 DEF WalkBound

LEMMA ObjectBound ==
  ASSUME NEW w, NEW d, NEW l, NEW n \in Nat, n + 1 <= Nesting, NEW y \in LevelNodes(n + 1), y \in Nodes,
         y.value.type = "object", w[y] = WalkOf(w, y), Gauged(d, l, y.value),
         \A x \in JsonTo[n] : Gauged(d, l, x),
         \A c \in LevelNodes(n) : NodeBound(w, d, l, c)
  PROVE  NodeBound(w, d, l, y)
<1> DEFINE v == y.value
           entries == v.entries
           s == InKeyOrder(entries)
           m == Len(s)
           kids == Children(v)
           base == Walked(<<>>, <<>>)
           deep == y.depth + d[v]
<1>0. v \in JsonTo[n + 1] /\ IsContainer(v) /\ Gauged(d, l, v)
  BY DEF LevelNodes, IsContainer
<1>1. /\ IsList(entries) /\ IsList(s) /\ m \in Nat /\ DOMAIN s = 1 .. m
      /\ SortedTo(entries, Len(entries), s)
  BY EntriesList, ListDomain, InKeyOrderIs
<1>2. kids = [k \in DOMAIN entries |-> entries[k].value]
  BY DEF Children
<1>3. IsList(kids) /\ \A k \in DOMAIN kids : kids[k] \in JsonTo[n]
  BY <1>0, ChildrenBelow
<1>4. /\ d[v] \in Nat /\ l[v] \in Nat
      /\ \A k \in DOMAIN kids : d[kids[k]] + 1 <= d[v]
      /\ SumLoop!Fold(l, 0, 0, 0, kids) \in Nat /\ SumLoop!Fold(l, 0, 0, 0, kids) <= l[v]
  BY <1>0 DEF Gauged, Outdone
<1>w. w[y] = MemberLoop!Fold(w, y, 0, base, s)
  BY DEF WalkOf
<1>5. \A i \in 1 .. m : s[i] \in ToSet(s)
  BY <1>1 DEF ToSet
<1>6. \A i \in 1 .. m : Member(y, s[i]) \in LevelNodes(n)
  BY <1>5, MemberBelow
<1> HIDE DEF v, entries, s, m, kids, base, deep
<1>7. Len(entries) \in Nat /\ DOMAIN entries = 1 .. Len(entries) /\ DOMAIN kids = DOMAIN entries
  BY <1>1, <1>2, ListDomain
<1>8. Len(kids) = Len(entries)
  BY <1>3, <1>7, ListDomain
<1>9. \A k \in DOMAIN entries : kids[k] = entries[k].value /\ l[kids[k]] \in Nat
  BY <1>2, <1>3, <1>7 DEF Gauged
<1>10. Weighed(l, entries) /\ SumLoop!Fold(l, 0, 0, 0, kids) = Total(l, entries)
  BY <1>1, <1>3, <1>8, <1>9, ChildrenOfEntries
<1>11. Resorted(s, l, Total(l, entries))
  BY <1>1, <1>10, TotalSorted DEF s
<1>12. Weighed(l, s) /\ Total(l, s) \in Nat /\ Total(l, s) <= l[v]
  BY <1>4, <1>10, <1>11 DEF Resorted
<1>13. PICK a : Sums(a, l, s)
  BY <1>1, <1>12, SumsOf
<1>14. /\ a[0] = 0 /\ (\A k \in 1 .. m : a[k] = a[k - 1] + l[s[k].value])
       /\ (\A k \in 0 .. m : a[k] \in Nat) /\ Total(l, s) = a[m]
  BY <1>13 DEF Sums, m
<1>15. PICK acc : MemberLoop!Accumulates(acc, w, y, 0, base, m, s)
  BY <1>1, MemberLoop!Accumulators
<1>16. acc[0] = base /\ (\A k \in 1 .. m : acc[k] = Beside(acc[k - 1], w[Member(y, s[k])])) /\ w[y] = acc[m]
  BY <1>15, <1>w DEF MemberLoop!Accumulates, MemberStep
<1>17. ASSUME NEW k \in 1 .. m
       PROVE  /\ Member(y, s[k]).depth = Deeper(y.depth) /\ Member(y, s[k]).value = s[k].value
              /\ d[s[k].value] \in Nat /\ l[s[k].value] \in Nat /\ d[s[k].value] + 1 <= d[v]
              /\ NodeBound(w, d, l, Member(y, s[k]))
  <2>1. Member(y, s[k]).depth = Deeper(y.depth) /\ Member(y, s[k]).value = s[k].value
    BY DEF Member, Node
  <2>2. s[k].value \in JsonTo[n] /\ NodeBound(w, d, l, Member(y, s[k]))
    BY <1>6, <2>1 DEF LevelNodes
  <2>3. d[s[k].value] \in Nat /\ l[s[k].value] \in Nat
    BY <2>2 DEF Gauged
  <2>4. PICK j \in 1 .. Len(entries) : s[k] = entries[j]
    BY <1>1, <1>5 DEF SortedTo
  <2>5. d[s[k].value] + 1 <= d[v]
    BY <1>4, <1>7, <1>9, <2>4
  <2> QED
    BY <2>1, <2>2, <2>3, <2>5
<1> DEFINE T == {k \in Nat : k <= m => WalkBound(acc[k], a[k], deep)}
<1>18. 0 \in T
  BY <1>14, <1>16, NothingBound DEF base
<1>19. ASSUME NEW k \in Nat, k \in T PROVE k + 1 \in T
  <2>1. SUFFICES ASSUME k + 1 <= m PROVE WalkBound(acc[k + 1], a[k + 1], deep)
    OBVIOUS
  <2>2. k + 1 \in 1 .. m /\ k \in 0 .. m /\ (k + 1) - 1 = k /\ WalkBound(acc[k], a[k], deep)
    BY <1>1, <1>19, <2>1
  <2> DEFINE c == Member(y, s[k + 1])
             t == a[k]
             b == acc[k]
  <2>3. /\ c.depth = Deeper(y.depth) /\ c.value = s[k + 1].value
        /\ d[c.value] \in Nat /\ l[c.value] \in Nat /\ d[c.value] + 1 <= d[y.value]
        /\ NodeBound(w, d, l, c)
    BY <1>17, <2>2 DEF v
  <2>4. t \in Nat /\ acc[k + 1] = Beside(b, w[c]) /\ a[k + 1] = t + l[c.value]
    BY <1>14, <1>16, <2>2, <2>3
  <2>5. WalkBound(b, t, y.depth + d[y.value]) /\ d[y.value] \in Nat
    BY <1>4, <2>2 DEF deep, v
  <2> HIDE DEF c, t, b
  <2>6. WalkBound(Beside(b, w[c]), t + l[c.value], y.depth + d[y.value])
    BY <2>3, <2>4, <2>5, ChildBound
  <2> QED
    BY <2>4, <2>6 DEF deep, v
<1> HIDE DEF T
<1>20. m \in T
  BY <1>1, <1>18, <1>19, MemberLoop!SetInduction
<1>21. WalkBound(w[y], a[m], deep) /\ a[m] \in Nat /\ a[m] <= l[v]
  BY <1>1, <1>12, <1>14, <1>16, <1>20 DEF T
<1>22. WalkBound(w[y], l[v], deep)
  <2> DEFINE t == a[m]
             u == l[v]
  <2>1. t \in Nat /\ u \in Nat /\ t <= u /\ WalkBound(w[y], t, deep)
    BY <1>4, <1>21
  <2> HIDE DEF t, u
  <2>2. WalkBound(w[y], u, deep)
    BY <2>1, WithinMore
  <2> QED
    BY <2>2 DEF u
<1> QED
  BY <1>22 DEF NodeBound, deep, v

LEMMA ArrayBound ==
  ASSUME NEW w, NEW d, NEW l, NEW n \in Nat, n + 1 <= Nesting, NEW y \in LevelNodes(n + 1), y \in Nodes,
         y.value.type = "array", w[y] = WalkOf(w, y), Gauged(d, l, y.value),
         \A x \in JsonTo[n] : Gauged(d, l, x),
         \A c \in LevelNodes(n) : NodeBound(w, d, l, c)
  PROVE  NodeBound(w, d, l, y)
<1> DEFINE v == y.value
           kids == v.items
           s == [k \in DOMAIN kids |-> k]
           m == Len(kids)
           base == Walked(<<>>, <<ArrayAt(y)>>)
           deep == y.depth + d[v]
<1>0. v \in JsonTo[n + 1] /\ IsContainer(v) /\ Gauged(d, l, v) /\ Children(v) = kids
  BY DEF LevelNodes, IsContainer, Children
<1>1. /\ IsList(kids) /\ m \in Nat /\ DOMAIN kids = 1 .. m
      /\ DOMAIN s = 1 .. m /\ \A i \in 1 .. m : s[i] = i
  BY EntriesList, ListDomain
<1>3. \A k \in DOMAIN kids : kids[k] \in JsonTo[n]
  BY <1>0, ChildrenBelow
<1>4. /\ d[v] \in Nat /\ l[v] \in Nat
      /\ \A k \in DOMAIN kids : d[kids[k]] + 1 <= d[v]
      /\ SumLoop!Fold(l, 0, 0, 0, kids) \in Nat /\ SumLoop!Fold(l, 0, 0, 0, kids) <= l[v]
  BY <1>0 DEF Gauged, Outdone
<1>w. w[y] = ItemLoop!Fold(w, y, 0, base, s)
  BY DEF WalkOf
<1>6. \A i \in 1 .. m : Item(y, i) \in LevelNodes(n) /\ Item(y, i).value = kids[i]
                        /\ Item(y, i).depth = Deeper(y.depth)
  BY <1>1, ItemBelow DEF Item, Node
<1> HIDE DEF v, kids, s, m, base, deep
<1>9. \A k \in DOMAIN kids : d[kids[k]] \in Nat /\ l[kids[k]] \in Nat
  BY <1>3 DEF Gauged
<1>13. PICK a : ChildSums(a, l, kids)
  BY <1>1, <1>9, ChildSumsOf
<1>14. /\ a[0] = 0 /\ (\A k \in 1 .. m : a[k] = a[k - 1] + l[kids[k]])
       /\ (\A k \in 0 .. m : a[k] \in Nat) /\ SumLoop!Fold(l, 0, 0, 0, kids) = a[m]
  BY <1>13 DEF ChildSums, m
<1>15. PICK acc : ItemLoop!Accumulates(acc, w, y, 0, base, m, s)
  BY <1>1, ItemLoop!Accumulators
<1>16. acc[0] = base /\ (\A k \in 1 .. m : acc[k] = Beside(acc[k - 1], w[Item(y, k)])) /\ w[y] = acc[m]
  BY <1>1, <1>15, <1>w DEF ItemLoop!Accumulates, ItemStep
<1> DEFINE T == {k \in Nat : k <= m => WalkBound(acc[k], a[k], deep)}
<1>18. 0 \in T
  BY <1>14, <1>16, NothingBound DEF base
<1>19. ASSUME NEW k \in Nat, k \in T PROVE k + 1 \in T
  <2>1. SUFFICES ASSUME k + 1 <= m PROVE WalkBound(acc[k + 1], a[k + 1], deep)
    OBVIOUS
  <2>2. k + 1 \in 1 .. m /\ k \in 0 .. m /\ (k + 1) - 1 = k /\ WalkBound(acc[k], a[k], deep)
    BY <1>1, <1>19, <2>1
  <2> DEFINE c == Item(y, k + 1)
             t == a[k]
             b == acc[k]
  <2>3. /\ c.depth = Deeper(y.depth) /\ c.value = kids[k + 1] /\ c \in LevelNodes(n)
        /\ NodeBound(w, d, l, c)
    BY <1>6, <2>2
  <2>7. d[c.value] \in Nat /\ l[c.value] \in Nat /\ d[c.value] + 1 <= d[y.value]
    <3>1. k + 1 \in DOMAIN kids
      BY <1>1, <2>2
    <3> HIDE DEF c
    <3> QED
      BY <1>4, <1>9, <2>3, <3>1 DEF v
  <2>4. t \in Nat /\ acc[k + 1] = Beside(b, w[c]) /\ a[k + 1] = t + l[c.value]
    BY <1>14, <1>16, <2>2, <2>3
  <2>5. WalkBound(b, t, y.depth + d[y.value]) /\ d[y.value] \in Nat
    BY <1>4, <2>2 DEF deep, v
  <2> HIDE DEF c, t, b
  <2>6. WalkBound(Beside(b, w[c]), t + l[c.value], y.depth + d[y.value])
    BY <2>3, <2>4, <2>5, <2>7, ChildBound
  <2> QED
    BY <2>4, <2>6 DEF deep, v
<1> HIDE DEF T
<1>20. m \in T
  BY <1>1, <1>18, <1>19, ItemLoop!SetInduction
<1>21. WalkBound(w[y], a[m], deep) /\ a[m] \in Nat /\ a[m] <= l[v]
  BY <1>1, <1>4, <1>14, <1>16, <1>20 DEF T
<1>22. WalkBound(w[y], l[v], deep)
  <2> DEFINE t == a[m]
             u == l[v]
  <2>1. t \in Nat /\ u \in Nat /\ t <= u /\ WalkBound(w[y], t, deep)
    BY <1>4, <1>21
  <2> HIDE DEF t, u
  <2>2. WalkBound(w[y], u, deep)
    BY <2>1, WithinMore
  <2> QED
    BY <2>2 DEF u
<1> QED
  BY <1>22 DEF NodeBound, deep, v

LEMMA LeafBound ==
  ASSUME NEW w, NEW d, NEW l, NEW y \in Nodes, Gauged(d, l, y.value), w[y] = Walked(<<y>>, <<>>)
  PROVE  NodeBound(w, d, l, y)
<1> DEFINE s == <<y>>
<1>1. IsList(s) /\ Len(s) = 1 /\ DOMAIN s = 1 .. 1 /\ s[1] = y
  BY SingleList, ListDomain
<1>2. w[y].fields = s
  BY DEF Walked
<1> HIDE DEF s
<1>3. y.depth \in Nat /\ d[y.value] \in Nat /\ l[y.value] \in Nat /\ 1 <= l[y.value]
  BY DeeperAtMost DEF Gauged
<1>4. \A k \in DOMAIN s : s[k].depth \in Nat /\ s[k].depth <= y.depth + d[y.value]
  BY <1>1, <1>3
<1> QED
  BY <1>1, <1>2, <1>3, <1>4 DEF NodeBound, WalkBound

-----------------------------------------------------------------------------
(* Accepted states.                                                        *)

LEMMA AllBound ==
  ASSUME NEW w, \A y \in Nodes : w[y] = Walk(y) /\ w[y] = WalkOf(w, y),
         NEW d, NEW l, Measures(d, l)
  PROVE  \A y \in Nodes : NodeBound(w, d, l, y)
<1>0. Nesting \in Nat /\ Nesting <= Nesting /\ Nodes = LevelNodes(Nesting)
  BY JsonAssumption DEF Nodes, LevelNodes, JsonValues
<1>1. \A n \in 0 .. Nesting : LevelNodes(n) \subseteq Nodes
  BY LevelsWithin DEF Nodes, LevelNodes
<1>2. \A n \in Nat : n <= Nesting => \A x \in JsonTo[n] : Gauged(d, l, x)
  BY AllMeasured
<1> DEFINE T == {n \in Nat : n <= Nesting => \A y \in LevelNodes(n) : NodeBound(w, d, l, y)}
<1>3. 0 \in T
  <2>1. ASSUME NEW y \in LevelNodes(0) PROVE NodeBound(w, d, l, y)
    <3>1. 0 \in 0 .. Nesting /\ 0 \in Nat /\ 0 <= Nesting
      BY <1>0
    <3>2. y \in Nodes /\ y.value.type # "object" /\ y.value.type # "array" /\ y.value \in JsonTo[0]
      BY <3>1, <1>1, ScalarNode DEF LevelNodes
    <3>3. w[y] = Walked(<<y>>, <<>>)
      BY <3>2 DEF WalkOf
    <3>4. Gauged(d, l, y.value)
      BY <1>2, <3>1, <3>2
    <3> QED
      BY <3>2, <3>3, <3>4, LeafBound
  <2> QED
    BY <2>1
<1>4. ASSUME NEW n \in Nat, n \in T PROVE n + 1 \in T
  <2>1. SUFFICES ASSUME n + 1 <= Nesting, NEW y \in LevelNodes(n + 1) PROVE NodeBound(w, d, l, y)
    OBVIOUS
  <2>2. n <= Nesting /\ n + 1 \in Nat /\ n + 1 \in 0 .. Nesting /\ \A c \in LevelNodes(n) : NodeBound(w, d, l, c)
    BY <1>0, <1>4, <2>1
  <2>3. y \in Nodes /\ w[y] = WalkOf(w, y) /\ y.value \in JsonTo[n + 1]
    BY <1>1, <2>1, <2>2 DEF LevelNodes
  <2>4. Gauged(d, l, y.value) /\ \A x \in JsonTo[n] : Gauged(d, l, x)
    BY <1>2, <2>1, <2>2, <2>3
  <2>5. CASE y.value.type = "object"
    BY <2>1, <2>2, <2>3, <2>4, <2>5, ObjectBound
  <2>6. CASE y.value.type = "array"
    BY <2>1, <2>2, <2>3, <2>4, <2>6, ArrayBound
  <2>7. CASE y.value.type # "object" /\ y.value.type # "array"
    <3>1. w[y] = Walked(<<y>>, <<>>)
      BY <2>3, <2>7 DEF WalkOf
    <3> QED
      BY <2>3, <2>4, <3>1, LeafBound
  <2> QED
    BY <2>5, <2>6, <2>7
<1> HIDE DEF T
<1>5. Nesting \in T
  BY <1>0, <1>3, <1>4, MemberLoop!SetInduction
<1> QED
  BY <1>0, <1>5 DEF T

(* What the walk makes of a value is bounded by what validation measures   *)
(* of it.                                                                  *)
THEOREM MeasuresBoundWalks ==
  ASSUME NEW state \in JsonValues
  PROVE  /\ Depth(state) \in Nat /\ Leaves(state) \in Nat
         /\ WalkBound(Flattened(state), Leaves(state), Depth(state))
<1>1. PICK w : \A y \in Nodes : w[y] = Walk(y) /\ w[y] = WalkOf(w, y)
  BY WalkIs
<1>2. PICK d : \A x \in JsonValues : d[x] = Depth(x) /\ d[x] = DepthOf(d, x)
  BY DepthIs
<1>3. PICK l : \A x \in JsonValues : l[x] = Leaves(x) /\ l[x] = LeavesOf(l, x)
  BY LeavesAre
<1>4. Measures(d, l)
  BY <1>2, <1>3 DEF Measures
<1> DEFINE y == Node(<<>>, <<>>, state, 0)
<1>5. y \in Nodes /\ y.value = state /\ y.depth = 0
  BY JsonAssumption DEF Node, Nodes, Texts
<1>6. Flattened(state) = Walk(y)
  BY DEF Flattened
<1> HIDE DEF y
<1>7. NodeBound(w, d, l, y) /\ w[y] = Flattened(state)
  BY <1>1, <1>4, <1>5, <1>6, AllBound
<1>8. Depth(state) \in Nat /\ Leaves(state) \in Nat
  <2>1. Nesting \in Nat /\ Nesting <= Nesting /\ state \in JsonTo[Nesting]
    BY JsonAssumption DEF JsonValues
  <2>2. Gauged(d, l, state)
    BY <1>4, <2>1, AllMeasured
  <2> QED
    BY <1>2, <1>3, <2>2 DEF Gauged
<1>9. WalkBound(Flattened(state), l[state], 0 + d[state])
  BY <1>5, <1>7 DEF NodeBound
<1>10. l[state] = Leaves(state) /\ d[state] = Depth(state) /\ 0 + d[state] = Depth(state)
  BY <1>2, <1>3, <1>8
<1> QED
  BY <1>8, <1>9, <1>10

Validated == stage \notin {"posted", "rejected"} => Verdict(request) = NoProblem

LEMMA ValidatedKept == Validated /\ [DocumentsNext]_vars => Validated'
<1> SUFFICES ASSUME Validated, [DocumentsNext]_vars PROVE Validated'
  OBVIOUS
<1>1. CASE Accept
  BY <1>1 DEF Accept, Validated
<1>2. CASE Reject
  BY <1>2 DEF Reject, Validated
<1>3. CASE AddNextField \/ FinishIndex \/ Answer
  <2>1. stage \notin {"posted", "rejected"} /\ request' = request
    BY <1>3 DEF AddNextField, FinishIndex, Answer
  <2> QED
    BY <2>1 DEF Validated
<1>4. CASE UNCHANGED vars
  BY <1>4 DEF vars, Validated
<1> QED
  BY <1>1, <1>2, <1>3, <1>4 DEF DocumentsNext

LEMMA LimitsHold == DocumentsInv /\ Validated => ValidatedWithinLimits
<1> SUFFICES ASSUME DocumentsInv, Validated, stage \notin {"posted", "rejected"}
             PROVE  /\ Len(flat.fields) <= Limit.leaves
                    /\ \A k \in DOMAIN flat.fields : flat.fields[k].depth < DepthLimit
  BY DEF ValidatedWithinLimits
<1> DEFINE state == request.state
           a == Leaves(state)
           b == Depth(state)
           p == Limit.leaves
           q == Limit.depth
<1>1. request \in Requests /\ flat = Flattened(state) /\ Verdict(request) = NoProblem
  BY DEF DocumentsInv, Validated
<1>2. state \in JsonValues
  BY <1>1, RequestForm
<1>3. a \in Nat /\ b \in Nat /\ WalkBound(flat, a, b)
  BY <1>1, <1>2, MeasuresBoundWalks
<1>4. ~(b > q) /\ ~(a > p)
  BY <1>1, AcceptedWithin
<1>5. p \in Nat /\ q \in Nat /\ q < DepthLimit /\ DepthLimit \in Nat
  BY ValidateAssumption, JsonAssumption
<1> HIDE DEF a, b, p, q
<1>6. Len(flat.fields) \in Nat /\ Len(flat.fields) <= a
  BY <1>3, ListDomain DEF WalkBound
<1>7. \A k \in DOMAIN flat.fields : flat.fields[k].depth \in Nat /\ flat.fields[k].depth <= b
  BY <1>3 DEF WalkBound
<1>8. Len(flat.fields) <= p
  BY <1>3, <1>4, <1>5, <1>6
<1>9. \A k \in DOMAIN flat.fields : flat.fields[k].depth < DepthLimit
  BY <1>3, <1>4, <1>5, <1>7
<1> QED
  BY <1>8, <1>9 DEF p

(* validate_request measures what flatten walks: an accepted state has no  *)
(* more flat fields than the limit of leaves, and the depth of none has    *)
(* saturated.                                                              *)
THEOREM AcceptedStatesAreWithinLimits == DocumentsSpec => []ValidatedWithinLimits
<1>1. DocumentsInit => Validated
  BY DEF DocumentsInit, Validated
<1> QED
  BY <1>1, ValidatedKept, LimitsHold, DocumentsInvariant, PTL DEF DocumentsSpec

=============================================================================
