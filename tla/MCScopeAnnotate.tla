-------------------------- MODULE MCScopeAnnotate --------------------------
(***************************************************************************)
(* Two families of segments: up to NegationLength tokens over negators, a  *)
(* two-word negator, a terminator and content; up to ModalityLength tokens *)
(* with every other kind of cue.  Windows are of two content words, so     *)
(* that they run out inside a clause.                                      *)
(***************************************************************************)
EXTENDS ScopeAnnotate

CONSTANTS NegationLength, ModalityLength

Negation == {"not", "no", "fail", "to", "longer", "but", "refund"}
Modality == {"would", "like", "may", "i", "want", "if", "very", "slightly", "except", "for",
             "refund", "only", "not", ",", "5"}

Segments(V, length) == UNION {[1 .. n -> V] : n \in 1 .. length}
MCTexts == Segments(Negation, NegationLength) \cup Segments(Modality, ModalityLength)

MCWords == {"not", "no", "fail", "to", "only", "longer", "instead", "of", "but", "except",
            "for", "would", "like", "may", "i", "want", "if", "very", "slightly", "refund",
            "the", "correct", "answer", "is", "ignore", "this", "my"}
MCNegatorBigrams == {<<"no", "longer">>, <<"instead", "of">>}
MCNonNegating == {<<"not", "only">>, <<"not", "to">>}
MCRequestBigrams == {<<"would", "like">>}
MCInquiryBigrams == {<<"may", "i">>}
MCFunctionWords == {"not", "no", "to", "of", "but", "for", "would", "may", "i", "if", "very", "the"}
MCHardCues == {"not", "no", "instead", "except", "if", "very", "may"}

Done == ~More /\ UNCHANGED vars
MCSpec == ScopeInit /\ [][ScopeNext \/ Done]_vars
=============================================================================
