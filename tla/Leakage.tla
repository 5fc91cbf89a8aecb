------------------------------ MODULE Leakage ------------------------------
(***************************************************************************)
(* The contamination scan of `sextant leakage` (cli/commands/leakage.rs):  *)
(* which texts of the training data match a text of the evaluation data,   *)
(* the ids it lists for exclusion, and its verdict.                        *)
(*                                                                         *)
(* A data record is [id, state, instructions, internal]; "internal" says   *)
(* that its file carries one of the internal markers.  Texts are opaque,   *)
(* and hashes of texts are taken to be injective.                          *)
(***************************************************************************)
EXTENDS Integers, FiniteSets

CONSTANTS
  Normal(_),   \* a text lowercased, stripped of punctuation, respaced
  Short,       \* the normalised texts of fewer than 20 bytes
  Similar,     \* pairs <<e, t>> of normalised texts that share a bucket of
               \* the locality-sensitive hash and have a Jaccard of >= 0.5
  NearOneIn    \* the verdict tolerates fewer than one near match in this
               \* many evaluation states (200 in the source)

ASSUME NearOneInAssumption == NearOneIn \in Nat \ {0}

(* The texts compared: of each record its state and its instructions,      *)
(* those too short to tell records apart left out.                         *)
TextUnits(recs) ==
  {u \in [rec : recs, kind : {"state", "instructions"}] :
     Normal(u.rec[u.kind]) \notin Short}

Text(u) == u.rec[u.kind]

(* Mutant: only the first record with a given hash is indexed *)
ExactFirst(e, T) ==
  LET all == {t \in T : Text(t) = Text(e)}
  IN  IF all = {} THEN {} ELSE {CHOOSE t \in all : TRUE}

(* The training units T with the same text as evaluation unit e, ...       *)
Exact(e, T) == {t \in T : Text(t) = Text(e)}

SameNormal(e, T) == {t \in T : Normal(Text(t)) = Normal(Text(e))}

(* ... those found by normalised text when none is found by exact text,    *)
Normalised(e, T) == {t \in SameNormal(e, T) : Exact(e, T) = {}}

(* ... and those found by similarity when none is found by either.         *)
Near(e, T) ==
  {t \in T : /\ Exact(e, T) \cup SameNormal(e, T) = {}
             /\ <<Normal(Text(e)), Normal(Text(t))>> \in Similar}

(* Only states of external evaluation files count.                         *)
ExternalStates(eval) ==
  {e \in TextUnits(eval) : e.kind = "state" /\ ~e.rec.internal}

(* The ids written with --exclusions-out.                                  *)
ExcludeIds(recs, eval) ==
  LET T == TextUnits(recs)
  IN  {t.rec.id : t \in UNION {Exact(e, T) \cup Normalised(e, T) \cup Near(e, T) :
                               e \in ExternalStates(eval)}}

NearRateOK(T, E) ==
  LET pairs == UNION {{<<e, t>> : t \in Near(e, T)} : e \in E}
  IN  NearOneIn * Cardinality(pairs) < (IF E = {} THEN 1 ELSE Cardinality(E))

(* Mutant: normalised matches are reported but do not fail the scan *)
VerdictOnExact(recs, eval) ==
  LET T == TextUnits(recs)
      E == ExternalStates(eval)
  IN  (\A e \in E : Exact(e, T) = {}) /\ NearRateOK(T, E)

(* TRUE is the verdict PASS.                                               *)
Verdict(recs, eval) ==
  LET T == TextUnits(recs)
      E == ExternalStates(eval)
  IN  /\ \A e \in E : Exact(e, T) = {} /\ Normalised(e, T) = {}
      /\ NearRateOK(T, E)
=============================================================================
