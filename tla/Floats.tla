------------------------------- MODULE Floats -------------------------------
(***************************************************************************)
(* Binary floating point with a short significand.  A number is an integer *)
(* count of units, One units are 1.0, and every operation rounds its exact *)
(* result to a significand below Significands, to nearest with ties to     *)
(* even, as the f64 arithmetic of crates/core does with 2^53.  Rounding is *)
(* what matters: addition is not associative and quotients do not add up   *)
(* to one.                                                                 *)
(***************************************************************************)
EXTENDS Integers

CONSTANTS
  Significands,   \* significands there are (2^53 in f64)
  One             \* units in 1.0: the spacing of the smallest numbers is 1 / One

(* The spacing of the numbers around n units: double for every bit beyond  *)
(* those of the significand.                                               *)
Ulp[n \in Nat] == IF n < Significands THEN 1 ELSE 2 * Ulp[n \div 2]

RoundUp(quotient, rest, d) == 2 * rest > d \/ (2 * rest = d /\ quotient % 2 = 1)

Nearest(n, d, ulp) ==
  ulp * (n \div (d * ulp) + IF RoundUp(n \div (d * ulp), n % (d * ulp), d * ulp) THEN 1 ELSE 0)

(* The number nearest to n / d units. *)
Rounded(n, d) == IF n >= 0 THEN Nearest(n, d, Ulp[n \div d]) ELSE -Nearest(-n, d, Ulp[(-n) \div d])

(* Numbers that need no rounding. *)
Exact(n) == Rounded(n, 1) = n

(* 1.0 and 0.5 are numbers, and below 1.0, a power of two, the numbers are *)
(* twice as dense as above.                                                *)
ASSUME FloatAssumption ==
  /\ Significands \in Nat \ {0} /\ Significands % 2 = 0
  /\ One \in Nat \ {0}
  /\ Exact(One) /\ Exact(One \div 2)
  /\ One > Significands => Ulp[One] = 2 * Ulp[One - 1]

Plus(a, b) == Rounded(a + b, 1)
Minus(a, b) == Rounded(a - b, 1)
Times(a, b) == Rounded(a * b, One)
Over(a, b) == Rounded(a * One, b)
=============================================================================
