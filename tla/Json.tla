------------------------------- MODULE Json -------------------------------
(***************************************************************************)
(* JSON values as the service reads them: the estimates validation makes   *)
(* (crates/core/src/api/validate.rs) and the walk that turns a state into  *)
(* flat fields (crates/core/src/state/flatten.rs).                         *)
(*                                                                         *)
(* A text is a sequence of glyphs, a glyph being a word, a number, a mark  *)
(* or a space; a key is a sequence of glyphs too, so that two ways to      *)
(* spell a path, {"a.b": 1} and {"a": {"b": 1}}, are the same sequence.    *)
(***************************************************************************)
EXTENDS SequencesExt, Integers

CONSTANTS
  Width,        \* bytes of each glyph
  Lower,        \* the lowercase of the glyphs that have one
  Collation,    \* the glyphs of keys, in byte order
  IndexGlyphs,  \* "[0]", "[1]" and so on, for the longest array there is
  Nesting,      \* how deep the parser reads
  DepthLimit    \* the largest depth a field records (u8 in the code)

Glyphs == DOMAIN Width
Texts == Seq(Glyphs)
Lowered(g) == IF g \in DOMAIN Lower THEN Lower[g] ELSE g

ASSUME JsonAssumption ==
  /\ Width \in [Glyphs -> Nat]
  /\ \A g \in Glyphs : Lowered(g) \in Glyphs
  /\ "." \in Glyphs /\ Lowered(".") = "."
  /\ IndexGlyphs \in Texts
  /\ \A k \in DOMAIN IndexGlyphs : Lowered(IndexGlyphs[k]) = IndexGlyphs[k]
  /\ Nesting \in Nat
  /\ DepthLimit \in Nat \ {0}

Separators == {"_", "-", ".", " ", "/", ":"}
LoweredAll(text) == [k \in DOMAIN text |-> Lowered(text[k])]
Bytes(text) == FoldLeft(LAMBDA n, g : n + Width[g], 0, text)

(* The elements of s at the positions of P, in their order. *)
Chosen(s, P) ==
  FoldLeft(LAMBDA t, k : IF k \in P THEN Append(t, s[k]) ELSE t, <<>>, [k \in DOMAIN s |-> k])

Text(glyphs) == [type |-> "text", text |-> glyphs]
Number(glyph) == [type |-> "number", number |-> glyph]
Bool(b) == [type |-> "bool", bool |-> b]
Null == [type |-> "null"]
Array(items) == [type |-> "array", items |-> items]
Object(entries) == [type |-> "object", entries |-> entries]
Entry(key, value) == [key |-> key, value |-> value]

IsContainer(v) == v.type \in {"array", "object"}
Children(v) ==
  CASE v.type = "array" -> v.items
    [] v.type = "object" -> [k \in DOMAIN v.entries |-> v.entries[k].value]
    [] OTHER -> <<>>

Scalars ==
  [type : {"text"}, text : Texts] \cup [type : {"number"}, number : Glyphs]
  \cup [type : {"bool"}, bool : BOOLEAN] \cup {Null}

JsonTo[n \in 0 .. Nesting] ==
  IF n = 0 THEN Scalars
  ELSE LET inner == JsonTo[n - 1]
       IN  Scalars
           \cup [type : {"array"}, items : {s \in Seq(inner) : Len(s) <= Len(IndexGlyphs)}]
           \cup [type : {"object"}, entries : Seq([key : Texts, value : inner])]

JsonValues == JsonTo[Nesting]

-----------------------------------------------------------------------------
(* depth, leaves and approx_bytes of validate.rs. *)
(* Mutant: only arrays count as nesting. *)
DepthOfArrays(v) ==
  LET depth[x \in JsonValues] ==
        IF x.type = "array" THEN 1 + Max({0} \cup {depth[c] : c \in ToSet(x.items)}) ELSE 0
  IN  depth[v]

Depth(v) ==
  LET depth[x \in JsonValues] ==
        IF IsContainer(x) THEN 1 + Max({0} \cup {depth[c] : c \in ToSet(Children(x))}) ELSE 0
  IN  depth[v]

Leaves(v) ==
  LET leaves[x \in JsonValues] ==
        IF IsContainer(x) THEN Max({1, FoldLeft(LAMBDA n, c : n + leaves[c], 0, Children(x))}) ELSE 1
  IN  leaves[v]

ApproxBytes(v) ==
  LET bytes[x \in JsonValues] ==
        CASE x.type = "null" -> 4
          [] x.type = "bool" -> 5
          [] x.type = "number" -> 12
          [] x.type = "text" -> Bytes(x.text) + 2
          [] x.type = "array" -> FoldLeft(LAMBDA n, c : n + bytes[c] + 1, 2, x.items)
          [] x.type = "object" ->
               FoldLeft(LAMBDA n, e : n + Bytes(e.key) + 4 + bytes[e.value], 2, x.entries)
  IN  bytes[v]

-----------------------------------------------------------------------------
(* split_key_words: every glyph of a key that is no separator is a word,   *)
(* for camel case and digits begin words of their own.  The keys of the    *)
(* model hold no two lowercase glyphs side by side.                        *)
KeyWords(key) == LoweredAll(Chosen(key, {k \in DOMAIN key : key[k] \notin Separators}))

(* The last component of a path, and the words of all its components, each *)
(* up to its first array index.                                            *)
LastComponent(path) == SubSeq(path, 1 + Max({0} \cup {k \in DOMAIN path : path[k] = "."}), Len(path))

Indexed(path, k) ==
  \E j \in 1 .. k : path[j] \in ToSet(IndexGlyphs) /\ \A i \in j .. k : path[i] # "."

PathWords(path) ==
  KeyWords([k \in DOMAIN path |-> IF Indexed(path, k) THEN " " ELSE path[k]])

-----------------------------------------------------------------------------
Rank(g) == CHOOSE k \in DOMAIN Collation : Collation[k] = g

(* The order of keys as bytes. *)
KeyBefore(a, b) ==
  \E n \in 0 .. Len(a) :
    /\ n < Len(b)
    /\ SubSeq(a, 1, n) = SubSeq(b, 1, n)
    /\ n = Len(a) \/ Rank(a[n + 1]) < Rank(b[n + 1])

Joined(path, key) == IF path = <<>> THEN key ELSE path \o <<".">> \o key

(* entries.sort_by: each entry after all whose keys are not greater.       *)
Insert(sorted, e) ==
  InsertAt(sorted, 1 + Cardinality({k \in DOMAIN sorted : ~KeyBefore(e.key, sorted[k].key)}), e)
InKeyOrder(entries) == FoldLeft(Insert, <<>>, entries)

(* A value at its place in the state: also what a field is, at a leaf.     *)
Node(path, key, value, depth) == [path |-> path, key |-> key, value |-> value, depth |-> depth]
Nodes == [path : Texts, key : Texts, value : JsonValues, depth : 0 .. DepthLimit]

Deeper(depth) == Min({depth + 1, DepthLimit})
Walked(fields, arrays) == [fields |-> fields, arrays |-> arrays]
Beside(a, b) == Walked(a.fields \o b.fields, a.arrays \o b.arrays)

(* Objects in key order, so that nothing depends on the order of the keys  *)
(* in the request; every leaf keeps its path and the last key above it.    *)
Walk(node) ==
  LET walk[x \in Nodes] ==
        CASE x.value.type = "object" ->
               FoldLeft(LAMBDA acc, e :
                          Beside(acc, walk[Node(Joined(x.path, e.key), e.key, e.value, Deeper(x.depth))]),
                        Walked(<<>>, <<>>), InKeyOrder(x.value.entries))
          [] x.value.type = "array" ->
               FoldLeft(LAMBDA acc, n :
                          Beside(acc, walk[Node(Append(x.path, IndexGlyphs[n]), x.key,
                                                x.value.items[n], Deeper(x.depth))]),
                        Walked(<<>>, <<[path |-> x.path, key |-> x.key, length |-> Len(x.value.items)]>>),
                        [n \in DOMAIN x.value.items |-> n])
          [] OTHER -> Walked(<<x>>, <<>>)
  IN  walk[node]

Flattened(state) == Walk(Node(<<>>, <<>>, state, 0))
=============================================================================
