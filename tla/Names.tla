-------------------------------- MODULE Names --------------------------------
(***************************************************************************)
(* Names as organize makes them: templates with tokens and optional groups, *)
(* and segments that are safe and short enough. A piece stands for a run of *)
(* text; lengths count pieces where the code counts runes. A template is a  *)
(* sequence of brackets, braces, token names and literals.                  *)
(***************************************************************************)
EXTENDS Integers, Sequences, FiniteSets, SequencesExt, Lists

CONSTANTS
  Tokens,     \* the tokens a template may name
  Sane(_),    \* Sane(s): piece s without illegal characters, "" if nothing is left
  Reserved,   \* the names of devices
  Dotted,     \* the pieces that begin with a dot
  Lower,      \* Lower[s]: piece s in lower case
  MaxSegment, \* the longest segment
  MinSegment  \* the shortest a folder is cut to

ASSUME LengthsAssumption == MaxSegment \in Nat \ {0} /\ MinSegment \in Nat

Depth(t, i) == Cardinality({j \in 1 .. i : t[j] = "["}) - Cardinality({j \in 1 .. i : t[j] = "]"})

\* Mutant: the brace need not be closed.
ValidateUnclosed(t) ==
  /\ \A i \in DOMAIN t : Depth(t, i) >= 0
  /\ Depth(t, Len(t)) = 0
  /\ \A i \in DOMAIN t : t[i] = "{" => i < Len(t) /\ t[i + 1] \in Tokens

\* What a library's settings accept: balanced groups, and every brace opens a token.
ValidateTemplate(t) ==
  /\ \A i \in DOMAIN t : Depth(t, i) >= 0
  /\ Depth(t, Len(t)) = 0
  /\ \A i \in DOMAIN t : t[i] = "{" => i + 2 <= Len(t) /\ t[i + 1] \in Tokens /\ t[i + 2] = "}"

\* The "{" at i: its end, and what it is replaced by. A token that is not known,
\* or not closed, stays as it is.
End(t, i) == LET e == SelectInSubSeq(t, i, Len(t), LAMBDA s : s = "}") IN IF e = 0 THEN Len(t) ELSE e
Known(t, i) == End(t, i) = i + 2 /\ t[i + 2] = "}" /\ t[i + 1] \in Tokens
Value(t, i, tv) == IF Known(t, i) THEN tv[t[i + 1]] ELSE SubSeq(t, i, End(t, i))

Substitute(t, tv) ==
  LET text[i \in 1 .. Len(t) + 1] ==
        IF i > Len(t) THEN <<>>
        ELSE IF t[i] = "{" THEN Value(t, i, tv) \o text[End(t, i) + 1]
        ELSE <<t[i]>> \o text[i + 1]
  IN text[1]

\* A group that names an empty token disappears.
RenderGroup(inner, tv) ==
  IF \E i \in DOMAIN inner : inner[i] = "{" /\ Known(inner, i) /\ Value(inner, i, tv) = <<>>
  THEN <<>> ELSE Substitute(inner, tv)

FindClose(t, open) ==
  LET closing == {i \in open .. Len(t) : Depth(t, i) < Depth(t, open)}
  IN IF closing = {} THEN 0 ELSE Min(closing)

Render(t, tv) ==
  LET text[i \in 1 .. Len(t) + 1] ==
        IF i > Len(t) THEN <<>>
        ELSE IF t[i] = "[" /\ FindClose(t, i) # 0
             THEN RenderGroup(SubSeq(t, i + 1, FindClose(t, i) - 1), tv) \o text[FindClose(t, i) + 1]
        ELSE IF t[i] = "{" THEN Value(t, i, tv) \o text[End(t, i) + 1]
        ELSE <<t[i]>> \o text[i + 1]
  IN text[1]
-----------------------------------------------------------------------------
(* Segments.                                                                *)

Cut(name, length) == SubSeq(name, 1, IF Len(name) < length THEN Len(name) ELSE length)

\* A device name is one with an extension too.
Device(name) == name[1] \in Reserved /\ (Len(name) = 1 \/ name[2] \in Dotted)
SanitizeSegment(name) ==
  LET sane == Filter([i \in DOMAIN name |-> Sane(name[i])], LAMBDA s : s # "")
  IN IF sane = <<>> THEN <<"Unknown">>
     ELSE Cut(IF Device(sane) THEN <<"_">> \o sane ELSE sane, MaxSegment)

\* segChainLen: with the separators.
ChainLen(segs) == FoldLeft(LAMBDA n, s : n + Len(s), Len(segs) - 1, segs)

\* Mutant: a segment is cut as a whole, without a minimum.
ShortenAway(segs, i, budget) ==
  LET over == ChainLen(segs) - budget
      keep == Max({Len(segs[i]) - over, 0})
  IN IF over > 0 THEN [segs EXCEPT ![i] = Cut(@, keep)] ELSE segs

\* Cut segment i, as far as it may be, if the chain is too long.
Shorten(segs, i, budget) ==
  LET over == ChainLen(segs) - budget
      keep == Max({Len(segs[i]) - over, MinSegment})
  IN IF over > 0 THEN [segs EXCEPT ![i] = Cut(@, keep)] ELSE segs

\* fitDirSegments: deepest first; file names are left alone.
FitDirSegments(segs, budget) ==
  FoldLeft(LAMBDA s, k : Shorten(s, Len(s) + 1 - k, budget), segs, [k \in DOMAIN segs |-> k])

Folded(name) == [i \in DOMAIN name |-> Lower[name[i]]]
FoldedPath(path) == [i \in DOMAIN path |-> Folded(path[i])]

\* Mutant: a file of the same folder counts too.
EqualFoldSibling(p, q) == FoldedPath(Front(p)) = FoldedPath(Front(q))

\* Two names of one file, if case does not matter.
EqualFold(p, q) == p # q /\ FoldedPath(p) = FoldedPath(q)
=============================================================================
