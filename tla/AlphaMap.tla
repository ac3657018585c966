------------------------------ MODULE AlphaMap ------------------------------
(***************************************************************************)
(* The alphabet of a trie, alpha-map.c: a list of ranges of characters     *)
(* that are numbered through from 1, so that every character of the        *)
(* alphabet has a code of one byte.  Code 0 is the terminator, and a       *)
(* character outside the alphabet is given TRIE_CHAR_MAX.                  *)
(*                                                                         *)
(* The linked list of ranges is a sequence here.                           *)
(***************************************************************************)
EXTENDS Integers, Sequences, SequencesExt, TrieDefs

CONSTANT MaxChar   \* bound: characters are 1 .. MaxChar

ASSUME AlphaAssumption == MaxChar \in Nat

\* alpha_map is the list; added is a history variable, the characters of all
\* ranges added so far.
VARIABLES alpha_map, added

alphaVars == <<alpha_map, added>>

AlphaChars == 1 .. MaxChar
ALPHA_CHAR_ERROR == -1
AlphaRange == [begin : AlphaChars, end : AlphaChars]

(***************************************************************************)
(* Adding a range                                                          *)
(***************************************************************************)

\* Lines 239-249: the first range that covers the new begin or lies beyond it;
\* one past the end if there is none.
FirstNotBefore(am, b) ==
  SelectInSeq(Append(am, [begin |-> b, end |-> b]), LAMBDA r : b <= r.end \/ r.begin > b)

\* Lines 258-288: the first range from position i on that the new range does not
\* cover whole, because it reaches to the new end or lies beyond it.
FirstBeyondEnd(am, i, e) ==
  CHOOSE j \in i .. Len(am) + 1 :
    /\ \A k \in i .. j - 1 : am[k].begin <= e /\ am[k].end < e
    /\ j <= Len(am) => ~(am[j].begin <= e /\ am[j].end < e)

\* Lines 250-257 and 289-308: the range that [b, e] and the ranges i .. j - 1,
\* and j too if it covers e, are merged into.  (Faulty variant: the begin of the
\* first of them is kept.)
MergedKeepBegin(am, i, j, b, e) ==
  [begin |-> am[i].begin,
   end |-> IF j <= Len(am) /\ am[j].begin <= e THEN am[j].end ELSE e]
Merged(am, i, j, b, e) ==
  [begin |-> IF am[i].begin <= b THEN am[i].begin ELSE b,
   end |-> IF j <= Len(am) /\ am[j].begin <= e THEN am[j].end ELSE e]

\* Lines 298-308: the first range that stays in the list behind the merged one;
\* the one that covers e has been freed.  (Faulty variant: it stays.)
KeptWithLast(am, j, e) == j
KeptFrom(am, j, e) == IF j <= Len(am) /\ am[j].begin <= e THEN j + 1 ELSE j

\* alpha_map_add_range: a range that overlaps none is inserted in order, others are
\* merged with those they overlap; begin > end is refused.
alpha_map_add_range(am, b, e) ==
  LET i == FirstNotBefore(am, b)
      j == FirstBeyondEnd(am, i, e)
      overlaps == i <= Len(am) /\ am[i].begin <= e
  IN  IF b > e THEN am
      ELSE SubSeq(am, 1, i - 1)
             \o (IF overlaps THEN <<Merged(am, i, j, b, e)>> ELSE <<[begin |-> b, end |-> e]>>)
             \o SubSeq(am, IF overlaps THEN KeptFrom(am, j, e) ELSE i, Len(am))

\* alpha_map_clone, and alpha_map_fread_bin of what alpha_map_fwrite_bin wrote: the
\* ranges are added one by one to an empty map.
alpha_map_clone(am) ==
  FoldLeft(LAMBDA m, r : alpha_map_add_range(m, r.begin, r.end), <<>>, am)

\* The map in a file, as a sequence of items that are written and read at once;
\* rest is what follows the part read.
ALPHAMAP_SIGNATURE == -637740548
alpha_map_fwrite_bin(am) ==
  <<<<ALPHAMAP_SIGNATURE, Len(am)>>>> \o [i \in DOMAIN am |-> <<am[i].begin, am[i].end>>]
alpha_map_fread_bin(file) ==
  IF file = <<>> \/ file[1][1] # ALPHAMAP_SIGNATURE \/ Len(file) < file[1][2] + 1 THEN NotRead
  ELSE [ok |-> TRUE,
        value |-> FoldLeft(LAMBDA m, r : alpha_map_add_range(m, r[1], r[2]), <<>>,
                           SubSeq(file, 2, file[1][2] + 1)),
        rest |-> SubSeq(file, file[1][2] + 2, Len(file))]

(***************************************************************************)
(* Codes                                                                   *)
(***************************************************************************)

\* alpha_begin at the i-th range; it is one byte wide.  (Faulty variant: the ends
\* of the ranges are not counted.)
AlphaBeginOpen(am, i) ==
  FoldLeft(LAMBDA n, r : (n + r.end - r.begin) % (TRIE_CHAR_MAX + 1), 1, SubSeq(am, 1, i - 1))
AlphaBegin(am, i) ==
  FoldLeft(LAMBDA n, r : (n + r.end - r.begin + 1) % (TRIE_CHAR_MAX + 1), 1,
           SubSeq(am, 1, i - 1))

alpha_map_char_to_trie(am, c) ==
  LET i == SelectInSeq(am, LAMBDA r : r.begin <= c /\ c <= r.end) IN
  CASE c = 0 -> 0
    [] c # 0 /\ i > 0 -> (AlphaBegin(am, i) + c - am[i].begin) % (TRIE_CHAR_MAX + 1)
    [] c # 0 /\ i = 0 -> TRIE_CHAR_MAX

alpha_map_trie_to_char(am, t) ==
  LET fits == {i \in DOMAIN am : t <= AlphaBegin(am, i) + am[i].end - am[i].begin}
      i == CHOOSE k \in fits : \A l \in fits : k <= l
  IN  CASE t = 0 -> 0
        [] t # 0 /\ fits # {} -> am[i].begin + t - AlphaBegin(am, i)
        [] t # 0 /\ fits = {} -> ALPHA_CHAR_ERROR

(***************************************************************************)
(* The map on its own: list2tri.c adds ranges, trie_new clones the map, and *)
(* saving and loading the trie writes it and reads it back.                *)
(***************************************************************************)
AlphaInit == alpha_map = <<>> /\ added = {}

AddRange(b, e) == /\ alpha_map' = alpha_map_add_range(alpha_map, b, e)
                  /\ added' = added \cup b .. e

Clone == alpha_map' = alpha_map_clone(alpha_map) /\ UNCHANGED added

AlphaNext == (\E b, e \in AlphaChars : AddRange(b, e)) \/ Clone

AlphaSpec == AlphaInit /\ [][AlphaNext]_alphaVars

(***************************************************************************)
(* Properties                                                              *)
(***************************************************************************)

\* The ranges are in order, none is empty and no two overlap, whatever ranges are
\* added in whatever order (alpha_map_add_range).
RangesApart == /\ alpha_map \in Seq(AlphaRange)
               /\ \A i \in DOMAIN alpha_map : alpha_map[i].begin <= alpha_map[i].end
               /\ \A i, j \in DOMAIN alpha_map : i < j => alpha_map[i].end < alpha_map[j].begin

\* The map holds exactly the characters that were added: merging and removing
\* ranges loses none and invents none (alpha_map_add_range, alpha_map_clone).
AlphabetExact ==
  UNION {alpha_map[i].begin .. alpha_map[i].end : i \in DOMAIN alpha_map} = added

\* The alphabet is numbered through from 1 in order, decoding undoes encoding, and
\* every other character shares the one code no member has
\* (alpha_map_char_to_trie, alpha_map_trie_to_char).
CodesExact ==
  LET Code(c) == alpha_map_char_to_trie(alpha_map, c) IN
  /\ {Code(c) : c \in added} = 1 .. Cardinality(added)
  /\ \A c, d \in added : c < d => Code(c) < Code(d)
  /\ \A c \in added : alpha_map_trie_to_char(alpha_map, Code(c)) = c
  /\ \A c \in AlphaChars \ added : Code(c) = TRIE_CHAR_MAX

\* A clone, and a map read back from a file, is the map it was made from.
CloneFaithful == [][Clone => UNCHANGED alpha_map]_alphaVars
=============================================================================
