------------------------------ MODULE Amounts ------------------------------
(***************************************************************************)
(* parse_number of crates/core/src/text/numbers.rs: what a token is worth. *)
(*                                                                         *)
(* Spelling gives the characters of the glyphs that hold digits.  Values   *)
(* are exact, in hundredths; numbers have at most two decimals.            *)
(***************************************************************************)
EXTENDS SequencesExt, Integers

CONSTANTS
  Spelling,      \* the characters of a glyph with digits
  NumberWords,   \* number_word, in hundredths
  Currencies     \* what a currency is written with: sets of glyph characters, by code

Digit == [c \in {"0", "1", "2", "3", "4", "5", "6", "7", "8", "9"} |->
  CHOOSE n \in 0 .. 9 : <<"0", "1", "2", "3", "4", "5", "6", "7", "8", "9">>[n + 1] = c]

Whole(chars) == FoldLeft(LAMBDA n, c : 10 * n + Digit[c], 0, chars)

(* The digits and the point of s between its first digit and the first     *)
(* character that belongs to no number.                                    *)
DigitsAt(s) == {k \in DOMAIN s : s[k] \in DOMAIN Digit}
InNumber(s, k) ==
  \/ s[k] \in DOMAIN Digit \cup {","}
  \/ s[k] = "." /\ k + 1 \in DigitsAt(s)

NumberEnd(s, first) ==
  CHOOSE k \in first + 1 .. Len(s) + 1 :
    /\ \A j \in first .. k - 1 : InNumber(s, j)
    /\ k <= Len(s) => ~InNumber(s, k)

(* k, m and b multiply when nothing follows them. *)
Magnitude(s, end) ==
  IF end # Len(s) THEN 1
  ELSE CASE s[end] = "k" -> 1000
         [] s[end] = "m" -> 1000000
         [] s[end] = "b" -> 1000000000
         [] OTHER -> 1

Hundredths(core) ==
  LET point == SelectInSeq(core, LAMBDA c : c = ".")
      fraction == SubSeq(core, point + 1, Len(core))
  IN  IF point = 0 THEN 100 * Whole(core)
      ELSE 100 * Whole(SubSeq(core, 1, point - 1))
           + (IF Len(fraction) = 1 THEN 10 * Whole(fraction) ELSE Whole(fraction))

SignedCore(s, first, end) ==
  LET core == SelectSeq(SubSeq(s, first, end - 1), LAMBDA c : c # ",")
      value == Hundredths(core) * Magnitude(s, end)
  IN  IF \E k \in 1 .. first - 1 : s[k] = "-" THEN -value ELSE value

(* What the number of each glyph is worth. *)
NumericCore ==
  [g \in DOMAIN Spelling |->
     LET s == Spelling[g]
         first == CHOOSE k \in DigitsAt(s) : \A j \in DigitsAt(s) : k <= j
     IN  SignedCore(s, first, NumberEnd(s, first))]

(* Every number is worth something. *)
ASSUME AmountsAssumption ==
  /\ \A g \in DOMAIN Spelling : NumericCore[g] \in Int
  /\ \A w \in DOMAIN NumberWords : NumberWords[w] \in Int

-----------------------------------------------------------------------------
NoNumber == [value |-> 0, kind |-> "none", currency |-> "none"]
Amount(value, kind, currency) == [value |-> value, kind |-> kind, currency |-> currency]

IsOrdinal(s) == Len(s) > 2 /\ <<s[Len(s) - 1], s[Len(s)]>> \in
                  {<<"s", "t">>, <<"n", "d">>, <<"r", "d">>, <<"t", "h">>}

InCents(s) == \E k \in DOMAIN s : SubSeq(s, k, Min({k + 3, Len(s)})) = <<"c", "e", "n", "t">>

CurrencyOf(s) ==
  IF \E code \in DOMAIN Currencies : Currencies[code] \cap ToSet(s) # {}
  THEN CHOOSE code \in DOMAIN Currencies : Currencies[code] \cap ToSet(s) # {}
  ELSE "none"

ParseNumber(g, kind) ==
  IF kind = "Word"
  THEN IF g \in DOMAIN NumberWords THEN Amount(NumberWords[g], "Plain", "none") ELSE NoNumber
  ELSE IF g \notin DOMAIN Spelling THEN NoNumber
  ELSE CASE kind = "Number" ->
              Amount(NumericCore[g], IF IsOrdinal(Spelling[g]) THEN "Ordinal" ELSE "Plain", "none")
         [] kind = "Currency" ->
              Amount(IF InCents(Spelling[g]) THEN NumericCore[g] \div 100 ELSE NumericCore[g],
                     "Currency", CurrencyOf(Spelling[g]))
         [] kind = "Percent" -> Amount(NumericCore[g], "Percent", "none")
         [] OTHER -> NoNumber
=============================================================================
