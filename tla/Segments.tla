------------------------------ MODULE Segments ------------------------------
(***************************************************************************)
(* segment_ranges of crates/core/src/text/segment.rs: the sentences of a   *)
(* text, and the pieces of those that are too long.                        *)
(*                                                                         *)
(* A range is the first and the last glyph of a segment.  Where the code   *)
(* cuts a run of characters without space or mark in the middle of a word, *)
(* the model cuts between two glyphs.                                      *)
(***************************************************************************)
EXTENDS Json

CONSTANTS
  Digits,          \* glyphs of digits
  Capitals,        \* glyphs that begin with a capital
  Letters,         \* glyphs of letters, the capitals included
  Abbreviations,   \* what may stand before a period inside a sentence
  MaxSegment       \* MAX_SEGMENT_CHARS, in bytes

ASSUME SegmentsAssumption ==
  /\ MaxSegment \in Nat
  /\ Capitals \subseteq Letters
  /\ Abbreviations \subseteq Seq(Letters \cup {"."})
  /\ \A g \in Glyphs : Width[g] <= MaxSegment

Spaces == {" ", "\n"}
Terminal == {".", "!", "?"}
Closing == Terminal \cup {"\"", "'", ")", "]"}
Opening == {"\"", "'", "(", "[", "-", "*", "#"}
ClauseMark == {";", ":", ","}

IsAbbreviation(word) == word \in Abbreviations \/ (Len(word) = 1 /\ Width[word[1]] = 1 /\ word[1] \in Letters)

(* The first glyph from k on that is not in S; past the end if there is none. *)
SkipOver(text, k, S) ==
  CHOOSE j \in k .. Len(text) + 1 :
    /\ \A i \in k .. j - 1 : text[i] \in S
    /\ j <= Len(text) => text[j] \notin S

(* The word that ends before position k. *)
WordBefore(text, k) ==
  LET from == CHOOSE j \in 1 .. k :
                /\ \A i \in j .. k - 1 : text[i] \in Letters \cup Digits \cup {"."}
                /\ j > 1 => text[j - 1] \notin Letters \cup Digits \cup {"."}
  IN  SubSeq(text, from, k - 1)

(* A period that ends no sentence: in a decimal, after an abbreviation. *)
InsideSentence(text, k, after) ==
  /\ text[k] = "."
  /\ \/ /\ k > 1 /\ text[k - 1] \in Digits
        /\ k < Len(text) /\ text[k + 1] \in Digits
     \/ after <= Len(text) /\ IsAbbreviation(WordBefore(text, k))

(* The run of marks that begins at k ends a sentence. *)
EndsSentence(text, k, after) ==
  /\ text[k] \in Terminal
  /\ ~InsideSentence(text, k, after)
  /\ after > Len(text) \/ text[after] \in Spaces
  /\ LET next == SkipOver(text, after, Spaces)
     IN  \/ next > Len(text)
         \/ text[k] # "."
         \/ text[next] \in Letters \cup Digits \cup Opening

-----------------------------------------------------------------------------
Size(text, first, last) == Bytes(SubSeq(text, first, last))

LastOf(text, first, last, S) == Max({first - 1} \cup {k \in first .. last : text[k] \in S})

TrimmedEnd(text, first, last) ==
  Max({first - 1} \cup {k \in first .. last : text[k] \notin Spaces})

(* Mutant: up to the clause mark after the last one that fits. *)
PieceEndTooFar(text, first, cut) ==
  LET mark == LastOf(text, first, Min({cut + 1, Len(text)}), ClauseMark)
      space == LastOf(text, first, cut, Spaces)
  IN  IF mark >= first THEN mark
      ELSE IF space > first THEN space - 1
      ELSE cut

(* Where the piece that begins at first ends: after the last clause mark   *)
(* that fits, or before the last space, or where it no longer fits.        *)
PieceEnd(text, first, cut) ==
  LET mark == LastOf(text, first, cut, ClauseMark)
      space == LastOf(text, first, cut, Spaces)
  IN  IF mark >= first THEN mark
      ELSE IF space > first THEN space - 1
      ELSE cut

Fitting(text, first, last) ==
  Max({k \in first .. last : Size(text, first, k) <= MaxSegment})

(* The loop of chunk_long: rest is where what is left begins.              *)
Cut(text, last, s, k) ==
  IF k # s.rest THEN s
  ELSE IF Size(text, k, last) <= MaxSegment
       THEN [pieces |-> Append(s.pieces, <<k, last>>), rest |-> last + 1]
  ELSE LET end == PieceEnd(text, k, Fitting(text, k, last))
       IN  [pieces |-> Append(s.pieces, <<k, TrimmedEnd(text, k, end)>>),
            rest |-> SkipOver(text, end + 1, Spaces)]

ChunkLong(text, first, last) ==
  FoldLeft(LAMBDA s, k : Cut(text, last, s, k),
           [pieces |-> <<>>, rest |-> first], [k \in 1 .. last |-> k]).pieces

(* push_range: nothing for spaces alone. *)
PushRange(text, first, last) ==
  LET begin == SkipOver(text, first, Spaces)
      end == TrimmedEnd(text, first, last)
  IN  IF begin > end THEN <<>> ELSE ChunkLong(text, begin, end)

(* The loop of segment_ranges: start is where the sentence begins, and     *)
(* what stands before it has been read.                                    *)
Split(text, s, last, start) ==
  [ranges |-> s.ranges \o PushRange(text, s.start, last), start |-> start]

ReadGlyph(text, s, k) ==
  IF k < s.start THEN s
  ELSE IF text[k] = "\n" THEN Split(text, s, k - 1, k + 1)
  ELSE LET after == SkipOver(text, k + 1, Closing)
       IN  IF EndsSentence(text, k, after) THEN Split(text, s, after - 1, after) ELSE s

Sentences(text) ==
  FoldLeft(LAMBDA s, k : ReadGlyph(text, s, k), [ranges |-> <<>>, start |-> 1], [k \in DOMAIN text |-> k])

SegmentRanges(text) == Split(text, Sentences(text), Len(text), Len(text) + 1).ranges

-----------------------------------------------------------------------------
(* The segments of a text are short, begin and end with a mark or a word,  *)
(* come in the order of the text and leave out nothing but spaces.         *)
CoversText(ranges, text) ==
  /\ \A n \in DOMAIN ranges :
       LET r == ranges[n]
       IN  /\ r[1] <= r[2]
           /\ text[r[1]] \notin Spaces /\ text[r[2]] \notin Spaces
           /\ Size(text, r[1], r[2]) <= MaxSegment
  /\ \A m, n \in DOMAIN ranges : m < n => ranges[m][2] < ranges[n][1]
  /\ \A k \in DOMAIN text : text[k] \notin Spaces =>
       \E n \in DOMAIN ranges : k \in ranges[n][1] .. ranges[n][2]
=============================================================================
