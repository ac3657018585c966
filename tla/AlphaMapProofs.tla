--------------------------- MODULE AlphaMapProofs ---------------------------
(***************************************************************************)
(* The alphabet of a trie, for any number of ranges of any characters: the *)
(* ranges stay apart and in order, they hold the characters added and no   *)
(* others, a clone is the map it was made from, and as long as a byte is   *)
(* wide enough the characters are numbered through from 1.                 *)
(***************************************************************************)
EXTENDS AlphaMap, NaturalLemmas, FiniteSetTheorems, SequenceTheorems, TLAPS

\* The ranges of a map are in order, none is empty and no two overlap.
InOrder(am) ==
  /\ am \in Seq(AlphaRange)
  /\ \A i \in DOMAIN am : am[i].begin <= am[i].end
  /\ \A i, j \in DOMAIN am : i < j => am[i].end < am[j].begin

\* The characters of a range and of a map.
Within(r, c) == c \in Int /\ r.begin <= c /\ c <= r.end
Holds(am, c) == \E i \in DOMAIN am : Within(am[i], c)

(***************************************************************************)
(* The list of ranges with a part of it replaced                           *)
(***************************************************************************)

Spliced(m, p, x, q) == SubSeq(m, 1, p) \o <<x>> \o SubSeq(m, q, Len(m))

\* Of the ranges of a map the first p are kept, those from q on as well, and x takes
\* the place of those between.
LEMMA Splice ==
  ASSUME NEW m \in Seq(AlphaRange), NEW x \in AlphaRange, NEW p \in 0 .. Len(m),
         NEW q \in p + 1 .. Len(m) + 1
  PROVE  LET s == Spliced(m, p, x, q) IN
         /\ s \in Seq(AlphaRange)
         /\ Len(s) = p + 1 + (Len(m) - q + 1)
         /\ \A k \in 1 .. p : s[k] = m[k]
         /\ s[p + 1] = x
         /\ \A k \in q .. Len(m) : s[k - q + p + 2] = m[k]
<1> DEFINE S == AlphaRange
           len == Len(m)
           a == SubSeq(m, 1, p)
           b == SubSeq(m, q, len)
           ax == a \o <<x>>
           s == Spliced(m, p, x, q)
<1>1. s = ax \o b
  BY DEF Spliced
<1> HIDE DEF s, S
<1>2. m \in Seq(S) /\ x \in S
  BY DEF S
<1>3. len \in Nat /\ p \in Nat /\ q \in Nat /\ p <= len /\ p < q /\ q <= len + 1
  OBVIOUS
<1>4. a \in Seq(S) /\ Len(a) = p /\ \A k \in 1 .. p : a[k] = m[k]
  <2>1. \A k \in 1 .. p : m[k] \in S
    BY <1>3, <1>2
  <2>2. a \in Seq(S) /\ Len(a) = IF 1 <= p THEN p - 1 + 1 ELSE 0
    BY <1>3, <2>1, SubSeqProperties
  <2>3. \A k \in 1 .. p : a[k] = m[k]
    BY <1>3
  <2> QED BY <1>3, <2>2, <2>3
<1>5. b \in Seq(S) /\ Len(b) = len - q + 1 /\ \A k \in 1 .. len - q + 1 : b[k] = m[k + q - 1]
  <2>1. \A k \in q .. len : m[k] \in S
    BY <1>3, <1>2
  <2>2. b \in Seq(S) /\ Len(b) = IF q <= len THEN len - q + 1 ELSE 0
    BY <1>3, <2>1, SubSeqProperties
  <2>3. Len(b) = len - q + 1
    BY <1>3, <2>2
  <2>4. \A k \in 1 .. len - q + 1 : b[k] = m[k + q - 1]
    BY <1>3
  <2> QED BY <2>2, <2>3, <2>4
<1> HIDE DEF a, b
<1>6. <<x>> \in Seq(S) /\ Len(<<x>>) = 1 /\ <<x>>[1] = x
  BY <1>2
<1>7. /\ ax \in Seq(S) /\ Len(ax) = p + 1
      /\ \A k \in 1 .. p : ax[k] = m[k]
      /\ ax[p + 1] = x
  <2>1. /\ ax \in Seq(S) /\ Len(ax) = Len(a) + 1
        /\ \A k \in 1 .. Len(a) + 1 : ax[k] = IF k <= Len(a) THEN a[k] ELSE <<x>>[k - Len(a)]
    BY <1>4, <1>6, ConcatProperties
  <2> HIDE DEF ax
  <2>2. p + 1 \in 1 .. Len(a) + 1 /\ ~(p + 1 <= Len(a)) /\ p + 1 - Len(a) = 1
    BY <1>3, <1>4
  <2>3. \A k \in 1 .. p : k \in 1 .. Len(a) + 1 /\ k <= Len(a)
    BY <1>3, <1>4
  <2>4. ax[p + 1] = x
    BY <1>6, <2>1, <2>2
  <2>5. \A k \in 1 .. p : ax[k] = m[k]
    BY <1>4, <2>1, <2>3
  <2> QED BY <1>4, <2>1, <2>4, <2>5
<1> HIDE DEF ax
<1>8. /\ s \in Seq(S) /\ Len(s) = p + 1 + (len - q + 1)
      /\ \A k \in 1 .. p + 1 + (len - q + 1) : s[k] = IF k <= p + 1 THEN ax[k] ELSE b[k - (p + 1)]
  <2>1. /\ s \in Seq(S) /\ Len(s) = Len(ax) + Len(b)
        /\ \A k \in 1 .. Len(ax) + Len(b) :
             s[k] = IF k <= Len(ax) THEN ax[k] ELSE b[k - Len(ax)]
    BY <1>5, <1>7, <1>1, ConcatProperties
  <2> HIDE DEF len
  <2>2. Len(ax) = p + 1 /\ Len(b) = len - q + 1
    BY <1>5, <1>7 DEF len
  <2> QED BY <2>1, <2>2
<1> HIDE DEF len
<1>9. \A k \in 1 .. p : s[k] = m[k]
  BY <1>3, <1>7, <1>8
<1>10. s[p + 1] = x
  BY <1>3, <1>7, <1>8
<1>11. ASSUME NEW k \in q .. len PROVE s[k - q + p + 2] = m[k]
  <2>1. /\ k - q + p + 2 \in 1 .. p + 1 + (len - q + 1) /\ ~(k - q + p + 2 <= p + 1)
        /\ k - q + p + 2 - (p + 1) = k - q + 1 /\ k - q + 1 \in 1 .. len - q + 1
        /\ k - q + 1 + q - 1 = k
    BY <1>3
  <2> QED BY <1>5, <1>8, <2>1, SMTT(60)
<1> QED BY <1>8, <1>9, <1>10, <1>11 DEF S, len, s

(***************************************************************************)
(* Adding a range                                                          *)
(***************************************************************************)

\* The range of a map and its bounds.
LEMMA RangeType ==
  ASSUME NEW am, InOrder(am), NEW i \in 1 .. Len(am)
  PROVE  /\ am[i] \in AlphaRange /\ am[i].begin \in Int /\ am[i].end \in Int
         /\ am[i].begin \in AlphaChars /\ am[i].end \in AlphaChars
         /\ am[i].begin <= am[i].end
<1>1. am \in Seq(AlphaRange) /\ i \in DOMAIN am
  BY DEF InOrder
<1>2. am[i] \in AlphaRange /\ am[i].begin <= am[i].end
  BY <1>1 DEF InOrder
<1>3. am[i].begin \in AlphaChars /\ am[i].end \in AlphaChars
  BY <1>2 DEF AlphaRange
<1> QED BY <1>2, <1>3 DEF AlphaChars

\* The ranges before FirstNotBefore end before the new begin, the one there does not.
LEMMA NotBefore ==
  ASSUME NEW am, InOrder(am), NEW b \in AlphaChars
  PROVE  LET i == FirstNotBefore(am, b) IN
         /\ i \in 1 .. Len(am) + 1
         /\ \A k \in 1 .. i - 1 : am[k].end < b
         /\ i <= Len(am) => b <= am[i].end
<1> DEFINE x == [begin |-> b, end |-> b]
           ext == Append(am, x)
           I == {i \in 1 .. Len(ext) : b <= ext[i].end \/ ext[i].begin > b}
           len == Len(am)
<1>0. am \in Seq(AlphaRange) /\ x \in AlphaRange /\ b \in Int /\ len \in Nat
  BY DEF InOrder, AlphaRange, AlphaChars
<1>1. /\ Len(ext) = len + 1 /\ \A k \in 1 .. len : ext[k] = am[k]
      /\ ext[len + 1] = x
  BY <1>0
<1>2. len + 1 \in I
  BY <1>0, <1>1
<1>3. I \in SUBSET Nat /\ I # {}
  BY <1>0, <1>1, <1>2
<1>4. FirstNotBefore(am, b) = Min(I)
  BY <1>3 DEF FirstNotBefore, SelectInSeq
<1>5. Min(I) \in I /\ \A k \in I : Min(I) <= k
  BY <1>3, MinNatural
<1> DEFINE i == Min(I)
<1>6. i \in 1 .. len + 1
  BY <1>1, <1>5
<1> HIDE DEF ext, x
<1>7. ASSUME NEW k \in 1 .. i - 1 PROVE am[k].end < b
  <2>1. k \in 1 .. len /\ k \in Nat /\ k < i /\ k \in 1 .. Len(ext)
    <3> HIDE DEF i, len
    <3> QED BY <1>0, <1>1, <1>6
  <2>2. k \notin I
    <3> HIDE DEF I
    <3> QED BY <1>3, <1>5, <1>6, <2>1
  <2>3. ~(b <= am[k].end)
    BY <1>1, <2>1, <2>2
  <2> QED BY <1>0, <2>1, <2>3, RangeType
<1>8. ASSUME i <= len PROVE b <= am[i].end
  <2>1. b <= ext[i].end \/ ext[i].begin > b
    BY <1>5
  <2> HIDE DEF I, i
  <2>2. i \in 1 .. len /\ ext[i] = am[i]
    BY <1>0, <1>1, <1>6, <1>8
  <2>3. /\ am[i].begin \in Int /\ am[i].end \in Int /\ am[i].begin <= am[i].end
        /\ b <= am[i].end \/ am[i].begin > b
    BY <2>1, <2>2, RangeType
  <2> QED BY <1>0, <2>3
<1> QED BY <1>4, <1>6, <1>7, <1>8

\* From position i on, the ranges before FirstBeyondEnd end before the new end, the one
\* there does not or begins after it.
LEMMA BeyondEnd ==
  ASSUME NEW am, InOrder(am), NEW i \in 1 .. Len(am) + 1, NEW e \in AlphaChars
  PROVE  LET j == FirstBeyondEnd(am, i, e) IN
         /\ j \in i .. Len(am) + 1
         /\ \A k \in i .. j - 1 : am[k].begin <= e /\ am[k].end < e
         /\ j <= Len(am) => e < am[j].begin \/ e <= am[j].end
<1> DEFINE len == Len(am)
           Covered(k) == am[k].begin <= e /\ am[k].end < e
           J == {j \in i .. len + 1 : j <= len => ~Covered(j)}
<1>0. len \in Nat /\ e \in Int /\ i \in Nat /\ i <= len + 1
  BY DEF InOrder, AlphaChars
<1> HIDE DEF len
<1>1. J \in SUBSET Nat /\ len + 1 \in J
  BY <1>0
<1>2. PICK j \in J : \A k \in J : j <= k
  BY <1>1, LeastNatural
<1>3. \A k \in i .. j - 1 : Covered(k)
  <2> SUFFICES ASSUME NEW k \in i .. j - 1 PROVE Covered(k)
    OBVIOUS
  <2>1. k \in i .. len /\ k < j /\ k \in Nat
    BY <1>0, <1>2
  <2>2. k \notin J
    BY <1>1, <1>2, <2>1
  <2> QED BY <1>0, <2>1, <2>2
<1>4. j \in i .. len + 1 /\ (j <= len => ~Covered(j))
  BY <1>2
<1> DEFINE f == FirstBeyondEnd(am, i, e)
<1>5. /\ f \in i .. len + 1
      /\ \A k \in i .. f - 1 : Covered(k)
      /\ f <= len => ~Covered(f)
  BY <1>3, <1>4 DEF FirstBeyondEnd, len
<1> HIDE DEF f
<1>6. ASSUME f <= len PROVE e < am[f].begin \/ e <= am[f].end
  <2>1. f \in 1 .. len
    BY <1>0, <1>5, <1>6
  <2>2. am[f].begin \in Int /\ am[f].end \in Int
    BY <2>1, RangeType DEF len
  <2> QED BY <1>0, <1>5, <1>6, <2>2
<1> QED BY <1>5, <1>6 DEF f, len

\* A range that fits between those kept leaves the map in order; the new map holds what
\* the ranges kept hold, and the range.
LEMMA SpliceInOrder ==
  ASSUME NEW m, InOrder(m), NEW x \in AlphaRange, x.begin <= x.end,
         NEW p \in 0 .. Len(m), NEW q \in p + 1 .. Len(m) + 1,
         p > 0 => m[p].end < x.begin, q <= Len(m) => x.end < m[q].begin
  PROVE  LET s == Spliced(m, p, x, q) IN
         /\ InOrder(s)
         /\ \A c : Holds(s, c) <=> \/ \E k \in 1 .. p : Within(m[k], c)
                                   \/ Within(x, c)
                                   \/ \E k \in q .. Len(m) : Within(m[k], c)
<1> DEFINE len == Len(m)
           s == Spliced(m, p, x, q)
<1>0. /\ m \in Seq(AlphaRange) /\ len \in Nat /\ p \in Nat /\ q \in Nat
      /\ p <= len /\ p < q /\ q <= len + 1
      /\ x.begin \in Int /\ x.end \in Int
  BY DEF InOrder, AlphaRange, AlphaChars
<1>1. /\ s \in Seq(AlphaRange)
      /\ Len(s) = p + 1 + (len - q + 1)
      /\ \A k \in 1 .. p : s[k] = m[k]
      /\ s[p + 1] = x
      /\ \A k \in q .. len : s[k - q + p + 2] = m[k]
  BY <1>0, Splice, ZenonT(60)
<1>2. \A k \in 1 .. len : m[k].begin \in Int /\ m[k].end \in Int /\ m[k].begin <= m[k].end
  BY RangeType
<1>3. \A k, l \in 1 .. len : k < l => m[k].end < m[l].begin
  BY <1>0 DEF InOrder
<1>4. p > 0 => m[p].end < x.begin
  OBVIOUS
<1>5. q <= len => x.end < m[q].begin
  OBVIOUS
<1> HIDE DEF s, len
<1>6. \A k \in 1 .. p : k \in 1 .. len /\ m[k].end < x.begin
  <2> SUFFICES ASSUME NEW k \in 1 .. p PROVE k \in 1 .. len /\ m[k].end < x.begin
    OBVIOUS
  <2>1. k \in 1 .. len /\ p \in 1 .. len /\ p > 0 /\ (k = p \/ k < p)
    BY <1>0
  <2>2. k < p => m[k].end < m[p].begin
    BY <1>3, <2>1
  <2> QED BY <1>0, <1>2, <1>4, <2>1, <2>2
<1>7. \A k \in q .. len : k \in 1 .. len /\ x.end < m[k].begin
  <2> SUFFICES ASSUME NEW k \in q .. len PROVE k \in 1 .. len /\ x.end < m[k].begin
    OBVIOUS
  <2>1. k \in 1 .. len /\ q \in 1 .. len /\ q <= len /\ (k = q \/ q < k)
    BY <1>0
  <2>2. q < k => m[q].end < m[k].begin
    BY <1>3, <2>1
  <2> QED BY <1>0, <1>2, <1>5, <2>1, <2>2, SMTT(60)
<1>8. \A k \in 1 .. Len(s) : \/ k \in 1 .. p /\ s[k] = m[k]
                             \/ k = p + 1 /\ s[k] = x
                             \/ \E u \in q .. len : k = u - q + p + 2 /\ s[k] = m[u]
  <2> SUFFICES ASSUME NEW k \in 1 .. Len(s), k > p + 1
               PROVE  \E u \in q .. len : k = u - q + p + 2 /\ s[k] = m[u]
    BY <1>0, <1>1
  <2>1. k - p - 2 + q \in q .. len /\ k = (k - p - 2 + q) - q + p + 2
    <3>1. k \in Nat /\ k <= p + 1 + (len - q + 1)
      BY <1>1
    <3> QED BY <1>0, <3>1
  <2> QED BY <1>1, <2>1
<1>9. \A k \in DOMAIN s : s[k].begin <= s[k].end /\ s[k].begin \in Int /\ s[k].end \in Int
  <2> SUFFICES ASSUME NEW k \in 1 .. Len(s)
               PROVE  s[k].begin <= s[k].end /\ s[k].begin \in Int /\ s[k].end \in Int
    BY <1>1
  <2> QED BY <1>0, <1>2, <1>6, <1>7, <1>8
<1>10. \A k, l \in DOMAIN s : k < l => s[k].end < s[l].begin
  <2> SUFFICES ASSUME NEW k \in 1 .. Len(s), NEW l \in 1 .. Len(s), k < l
               PROVE  s[k].end < s[l].begin
    BY <1>1
  <2>1. CASE k \in 1 .. p /\ s[k] = m[k]
    <3>1. CASE l \in 1 .. p /\ s[l] = m[l]
      BY <1>3, <1>6, <2>1, <3>1
    <3>2. CASE l = p + 1 /\ s[l] = x
      BY <1>6, <2>1, <3>2
    <3>3. ASSUME NEW u \in q .. len, l = u - q + p + 2, s[l] = m[u] PROVE s[k].end < s[l].begin
      <4>1. k \in 1 .. len /\ u \in 1 .. len /\ k < u
        BY <1>0, <1>6, <1>7, <2>1
      <4> QED BY <1>3, <2>1, <3>3, <4>1
    <3> QED BY <1>8, <3>1, <3>2, <3>3
  <2>2. CASE k = p + 1 /\ s[k] = x
    <3>1. PICK u \in q .. len : l = u - q + p + 2 /\ s[l] = m[u]
      BY <1>0, <1>8, <2>2
    <3> QED BY <1>7, <2>2, <3>1
  <2>3. ASSUME NEW t \in q .. len, k = t - q + p + 2, s[k] = m[t] PROVE s[k].end < s[l].begin
    <3>1. PICK u \in q .. len : l = u - q + p + 2 /\ s[l] = m[u]
      BY <1>0, <1>8, <2>3
    <3>2. t \in 1 .. len /\ u \in 1 .. len /\ t < u
      BY <1>0, <1>7, <2>3, <3>1, SMTT(60)
    <3> QED BY <1>3, <2>3, <3>1, <3>2
  <2> QED BY <1>8, <2>1, <2>2, <2>3
<1>11. InOrder(s)
  BY <1>1, <1>9, <1>10 DEF InOrder
<1>12. ASSUME NEW c PROVE Holds(s, c) <=> \/ \E k \in 1 .. p : Within(m[k], c)
                                          \/ Within(x, c)
                                          \/ \E k \in q .. len : Within(m[k], c)
  <2>1. Holds(s, c) <=> \E k \in 1 .. Len(s) : Within(s[k], c)
    BY <1>1 DEF Holds
  <2>2. \A k \in 1 .. p : k \in 1 .. Len(s)
    BY <1>0, <1>1
  <2>3. p + 1 \in 1 .. Len(s)
    BY <1>0, <1>1
  <2>4. \A k \in q .. len : k - q + p + 2 \in 1 .. Len(s)
    BY <1>0, <1>1
  <2>5. ASSUME NEW k \in 1 .. Len(s), Within(s[k], c)
        PROVE  \/ \E l \in 1 .. p : Within(m[l], c)
               \/ Within(x, c)
               \/ \E l \in q .. len : Within(m[l], c)
    BY <1>8, <2>5
  <2>6. ASSUME NEW k \in q .. len, Within(m[k], c) PROVE \E l \in 1 .. Len(s) : Within(s[l], c)
    <3>1. s[k - q + p + 2] = m[k]
      BY <1>1
    <3> QED BY <2>4, <2>6, <3>1
  <2>7. ASSUME NEW k \in 1 .. p, Within(m[k], c) PROVE \E l \in 1 .. Len(s) : Within(s[l], c)
    BY <1>1, <2>2, <2>7
  <2>8. Within(x, c) => \E l \in 1 .. Len(s) : Within(s[l], c)
    BY <1>1, <2>3
  <2> QED BY <2>1, <2>5, <2>6, <2>7, <2>8
<1> QED BY <1>11, <1>12 DEF s, len

\* Adding a range to a map in order leaves it in order, and with the characters of the
\* range besides those it held: whether the range lies between others, overlaps some or
\* covers them.
THEOREM AddRangeExact ==
  ASSUME NEW am, InOrder(am), NEW b \in AlphaChars, NEW e \in AlphaChars, b <= e
  PROVE  /\ InOrder(alpha_map_add_range(am, b, e))
         /\ \A c : Holds(alpha_map_add_range(am, b, e), c) <=> Holds(am, c) \/ c \in b .. e
<1> DEFINE len == Len(am)
           i == FirstNotBefore(am, b)
           j == FirstBeyondEnd(am, i, e)
           overlaps == i <= len /\ am[i].begin <= e
           x == IF overlaps THEN Merged(am, i, j, b, e) ELSE [begin |-> b, end |-> e]
           q == IF overlaps THEN KeptFrom(am, j, e) ELSE i
           r == alpha_map_add_range(am, b, e)
<1>1. am \in Seq(AlphaRange) /\ len \in Nat /\ b \in Int /\ e \in Int
  BY DEF InOrder, AlphaChars
<1>2. r = Spliced(am, i - 1, x, q)
  <2>1. ~(b > e)
    BY <1>1
  <2> QED BY <2>1 DEF alpha_map_add_range, Spliced
<1>3. /\ i \in 1 .. len + 1
      /\ \A k \in 1 .. i - 1 : am[k].end < b
      /\ i <= len => b <= am[i].end
  BY NotBefore
<1>4. /\ j \in i .. len + 1
      /\ \A k \in i .. j - 1 : am[k].begin <= e /\ am[k].end < e
      /\ j <= len => e < am[j].begin \/ e <= am[j].end
  BY <1>3, BeyondEnd
<1>5. x.begin = IF overlaps /\ am[i].begin <= b THEN am[i].begin ELSE b
  BY DEF Merged
<1>6. x.end = IF overlaps /\ j <= len /\ am[j].begin <= e THEN am[j].end ELSE e
  BY DEF Merged
<1>7. q = IF overlaps THEN IF j <= len /\ am[j].begin <= e THEN j + 1 ELSE j ELSE i
  BY DEF KeptFrom
<1>8. x = [begin |-> x.begin, end |-> x.end]
  BY DEF Merged
<1> HIDE DEF i, j, x, q, r
<1>9. \A k \in 1 .. len : /\ am[k].begin \in AlphaChars /\ am[k].end \in AlphaChars
                          /\ am[k].begin \in Int /\ am[k].end \in Int
                          /\ am[k].begin <= am[k].end
  BY RangeType
<1>10. \A k, l \in 1 .. len : k < l => am[k].end < am[l].begin
  BY <1>1 DEF InOrder
<1> HIDE DEF len
<1>11. x \in AlphaRange
  <2>1. x.begin \in AlphaChars /\ x.end \in AlphaChars
    BY <1>1, <1>3, <1>4, <1>5, <1>6, <1>9
  <2> QED BY <1>8, <2>1 DEF AlphaRange
<1>12. x.begin \in Int /\ x.end \in Int /\ x.begin <= b /\ e <= x.end
  BY <1>1, <1>3, <1>4, <1>5, <1>6, <1>9
<1>13. i - 1 \in 0 .. len /\ q \in (i - 1) + 1 .. len + 1
  BY <1>1, <1>3, <1>4, <1>7, SMTT(60)
<1>14. i - 1 > 0 => am[i - 1].end < x.begin
  <2> SUFFICES ASSUME i - 1 > 0 PROVE am[i - 1].end < x.begin
    OBVIOUS
  <2>1. i - 1 \in 1 .. i - 1 /\ i - 1 \in 1 .. len
    BY <1>1, <1>3
  <2>2. overlaps => i \in 1 .. len /\ i - 1 < i
    BY <1>1, <1>3
  <2> QED BY <1>3, <1>5, <1>10, <2>1, <2>2
<1>15. q <= len => x.end < am[q].begin
  <2> SUFFICES ASSUME q <= len PROVE x.end < am[q].begin
    OBVIOUS
  <2>1. q \in 1 .. len
    BY <1>1, <1>3, <1>13
  <2>2. CASE ~overlaps
    BY <1>1, <1>3, <1>6, <1>7, <1>9, <2>1, <2>2
  <2>3. CASE overlaps /\ j <= len /\ am[j].begin <= e
    <3>1. j \in 1 .. len /\ q = j + 1 /\ x.end = am[j].end /\ j < q
      BY <1>1, <1>3, <1>4, <1>6, <1>7, <2>3
    <3> QED BY <1>10, <2>1, <3>1
  <2>4. CASE overlaps /\ ~(j <= len /\ am[j].begin <= e)
    BY <1>1, <1>4, <1>6, <1>7, <1>9, <2>1, <2>4
  <2> QED BY <2>2, <2>3, <2>4
<1> DEFINE p == i - 1
<1>16. /\ InOrder(r)
       /\ \A c : Holds(r, c) <=> \/ \E k \in 1 .. p : Within(am[k], c)
                                 \/ Within(x, c)
                                 \/ \E k \in q .. len : Within(am[k], c)
  <2>1. p \in 0 .. Len(am) /\ q \in p + 1 .. Len(am) + 1 /\ x.begin <= x.end
    BY <1>1, <1>12, <1>13 DEF len
  <2>2. p > 0 => am[p].end < x.begin
    BY <1>14
  <2>3. q <= Len(am) => x.end < am[q].begin
    BY <1>15 DEF len
  <2>4. r = Spliced(am, p, x, q)
    BY <1>2
  <2> HIDE DEF p
  <2> QED BY <1>11, <2>1, <2>2, <2>3, <2>4, SpliceInOrder DEF len
<1>17. ASSUME NEW c PROVE Holds(r, c) <=> Holds(am, c) \/ c \in b .. e
  <2>1. Holds(am, c) <=> \E k \in 1 .. len : Within(am[k], c)
    BY <1>1 DEF Holds, len
  <2>2. ASSUME NEW k \in 1 .. len, Within(am[k], c), k \notin 1 .. p, k \notin q .. len
        PROVE  Within(x, c)
    <3>1. i <= k /\ k < q /\ k \in Int
      BY <1>1, <1>3, <1>13, <2>2
    <3>2. overlaps
      BY <1>3, <1>7, <3>1
    <3>3. x.begin <= am[k].begin
      <4>1. i \in 1 .. len /\ (k = i \/ i < k)
        BY <1>1, <1>3, <3>1, <3>2
      <4>2. am[i].begin <= am[k].begin
        BY <1>9, <1>10, <2>2, <4>1
      <4>3. x.begin <= am[i].begin
        BY <1>1, <1>5, <1>9, <3>2, <4>1
      <4> QED BY <1>9, <1>12, <2>2, <4>1, <4>2, <4>3
    <3>4. am[k].end <= x.end
      <4>1. k < j \/ (k = j /\ j <= len /\ am[j].begin <= e)
        BY <1>3, <1>4, <1>7, <3>1, <3>2
      <4>2. k < j => am[k].end < e
        BY <1>3, <1>4, <3>1
      <4> QED BY <1>1, <1>6, <1>9, <1>12, <2>2, <3>2, <4>1, <4>2
    <3> QED BY <1>9, <1>12, <2>2, <3>3, <3>4 DEF Within
  <2>3. c \in b .. e => Within(x, c)
    BY <1>1, <1>12 DEF Within
  <2>4. Within(x, c) => c \in b .. e \/ \E k \in 1 .. len : Within(am[k], c)
    <3> SUFFICES ASSUME Within(x, c), c \notin b .. e
                 PROVE  \E k \in 1 .. len : Within(am[k], c)
      OBVIOUS
    <3>1. c \in Int /\ x.begin <= c /\ c <= x.end
      BY DEF Within
    <3>2. CASE c < b
      <4>1. overlaps /\ x.begin = am[i].begin
        BY <1>1, <1>5, <3>1, <3>2
      <4>2. i \in 1 .. len /\ b <= am[i].end
        BY <1>1, <1>3, <4>1
      <4>3. Within(am[i], c)
        BY <1>1, <1>9, <3>1, <3>2, <4>1, <4>2 DEF Within
      <4> QED BY <4>2, <4>3
    <3>3. CASE e < c
      <4>1. overlaps /\ j <= len /\ am[j].begin <= e /\ x.end = am[j].end
        BY <1>1, <1>6, <3>1, <3>3
      <4>2. j \in 1 .. len
        BY <1>1, <1>3, <1>4, <4>1
      <4>3. Within(am[j], c)
        BY <1>1, <1>9, <3>1, <3>3, <4>1, <4>2 DEF Within
      <4> QED BY <4>2, <4>3
    <3> QED BY <1>1, <3>1, <3>2, <3>3
  <2>5. \A k \in 1 .. p : k \in 1 .. len
    BY <1>1, <1>13
  <2>6. \A k \in q .. len : k \in 1 .. len
    BY <1>1, <1>3, <1>13
  <2> HIDE DEF p
  <2> QED BY <1>16, <2>1, <2>2, <2>3, <2>4, <2>5, <2>6
<1> QED BY <1>16, <1>17 DEF r

(***************************************************************************)
(* Cloning: the fold of alpha_map_clone, as the function of the set of      *)
(* indices that it is defined by                                            *)
(***************************************************************************)

\* One step of the fold, at the set s of the indices of am.
FoldStep(am, g, s) ==
  IF s = {} THEN <<>>
  ELSE alpha_map_add_range(g[s \ {Max(s)}], am[Max(s)].begin, am[Max(s)].end)

IsFold(am, g, k) == g = [s \in SUBSET (1 .. k) |-> FoldStep(am, g, s)]

\* A clone is the fold over all the indices.
LEMMA CloneIsFold ==
  ASSUME NEW am \in Seq(AlphaRange)
  PROVE  alpha_map_clone(am) = (CHOOSE g : IsFold(am, g, Len(am)))[1 .. Len(am)]
<1>1. alpha_map_clone(am) = (CHOOSE g : g = [s \in SUBSET DOMAIN am |-> FoldStep(am, g, s)])[DOMAIN am]
  BY DEF alpha_map_clone, FoldLeft, MapThenFoldSet, FoldStep
<1>2. DOMAIN am = 1 .. Len(am)
  OBVIOUS
<1> QED BY <1>1, <1>2 DEF IsFold

\* There is such a function, whatever the length of the list: from one for the indices
\* up to k - 1 comes one for those up to k.
LEMMA FoldExists ==
  ASSUME NEW am, NEW n \in Nat
  PROVE  \E g : IsFold(am, g, n)
<1> DEFINE Bad == {k \in Nat : ~\E g : IsFold(am, g, k)}
<1> SUFFICES ASSUME Bad # {} PROVE FALSE
  OBVIOUS
<1>1. PICK k \in Bad : \A l \in Bad : k <= l
  BY LeastNatural
<1>2. CASE k = 0
  <2> DEFINE g == [s \in SUBSET (1 .. k) |-> <<>>]
  <2>1. \A s \in SUBSET (1 .. k) : s = {}
    BY <1>2
  <2>2. \A s \in SUBSET (1 .. k) : FoldStep(am, g, s) = <<>>
    BY <2>1 DEF FoldStep
  <2>3. IsFold(am, g, k)
    BY <2>2 DEF IsFold
  <2> QED BY <1>1, <2>3
<1>3. CASE k # 0
  <2>1. k \in Nat /\ k > 0 /\ k - 1 \in Nat /\ k - 1 \notin Bad
    BY <1>1, <1>3
  <2>2. PICK g : IsFold(am, g, k - 1)
    BY <2>1
  <2> DEFINE h == [s \in SUBSET (1 .. k) |-> FoldStep(am, g, s)]
  <2>3. \A s \in SUBSET (1 .. k - 1) : h[s] = g[s]
    <3> SUFFICES ASSUME NEW s \in SUBSET (1 .. k - 1) PROVE h[s] = g[s]
      OBVIOUS
    <3>1. s \in SUBSET (1 .. k)
      BY <2>1
    <3>2. h[s] = FoldStep(am, g, s)
      BY <3>1
    <3>3. g[s] = FoldStep(am, g, s)
      BY <2>2 DEF IsFold
    <3> QED BY <3>2, <3>3
  <2>4. \A s \in SUBSET (1 .. k) : FoldStep(am, g, s) = FoldStep(am, h, s)
    <3> SUFFICES ASSUME NEW s \in SUBSET (1 .. k), s # {}
                 PROVE  FoldStep(am, g, s) = FoldStep(am, h, s)
      BY DEF FoldStep
    <3>1. h[s \ {Max(s)}] = g[s \ {Max(s)}]
      BY <2>1, <2>3, WithoutMax
    <3> HIDE DEF h
    <3> QED BY <3>1 DEF FoldStep
  <2>5. IsFold(am, h, k)
    BY <2>4 DEF IsFold
  <2> QED BY <1>1, <2>5
<1> QED BY <1>2, <1>3

\* So a clone is made by adding the ranges one after the other.
LEMMA FoldUnrolled ==
  ASSUME NEW am, NEW n \in Nat, NEW g, IsFold(am, g, n)
  PROVE  /\ g[1 .. 0] = <<>>
         /\ \A k \in 1 .. n : g[1 .. k] = alpha_map_add_range(g[1 .. k - 1], am[k].begin, am[k].end)
<1>1. \A s \in SUBSET (1 .. n) : g[s] = FoldStep(am, g, s)
  BY DEF IsFold
<1>2. g[1 .. 0] = <<>>
  <2>1. 1 .. 0 = {} /\ 1 .. 0 \in SUBSET (1 .. n)
    OBVIOUS
  <2> QED BY <1>1, <2>1 DEF FoldStep
<1>3. ASSUME NEW k \in 1 .. n
      PROVE  g[1 .. k] = alpha_map_add_range(g[1 .. k - 1], am[k].begin, am[k].end)
  <2>1. 1 .. k \in SUBSET (1 .. n) /\ 1 .. k # {} /\ k \in 1 .. k
    OBVIOUS
  <2>2. Max(1 .. k) = k
    <3> DEFINE s == 1 .. k
    <3>1. Max(s) \in s /\ \A y \in s : y <= Max(s)
      BY <2>1, MaxUpTo
    <3>2. Max(s) \in 1 .. k /\ k <= Max(s)
      BY <2>1, <3>1
    <3> QED BY <3>2
  <2>3. (1 .. k) \ {k} = 1 .. k - 1
    OBVIOUS
  <2> QED BY <1>1, <2>1, <2>2, <2>3 DEF FoldStep
<1> QED BY <1>2, <1>3

\* A range behind all of a map in order is put at the end of it.
LEMMA AddAtEnd ==
  ASSUME NEW am, InOrder(am), NEW k \in 1 .. Len(am)
  PROVE  alpha_map_add_range(SubSeq(am, 1, k - 1), am[k].begin, am[k].end) = SubSeq(am, 1, k)
<1> DEFINE m == SubSeq(am, 1, k - 1)
           b == am[k].begin
           e == am[k].end
<1>1. am \in Seq(AlphaRange) /\ Len(am) \in Nat
  BY DEF InOrder
<1>2. am[k] \in AlphaRange /\ b \in Int /\ e \in Int /\ b \in AlphaChars /\ b <= e
  BY RangeType
<1>3. /\ m \in Seq(AlphaRange) /\ Len(m) = k - 1 /\ \A l \in 1 .. k - 1 : m[l] = am[l]
  <2>1. \A l \in 1 .. k - 1 : am[l] \in AlphaRange
    BY <1>1
  <2>2. /\ m \in Seq(AlphaRange) /\ Len(m) = IF 1 <= k - 1 THEN k - 1 - 1 + 1 ELSE 0
        /\ \A l \in 1 .. k - 1 - 1 + 1 : m[l] = am[1 + l - 1]
    BY <2>1, SubSeqProperties
  <2> HIDE DEF m
  <2>3. Len(m) = k - 1
    BY <2>2
  <2>4. \A l \in 1 .. k - 1 : m[l] = am[l]
    BY <2>2
  <2> QED BY <2>2, <2>3, <2>4
<1> HIDE DEF m
<1>4. \A l \in 1 .. k - 1 : m[l].end < b
  BY <1>1, <1>3 DEF InOrder
<1>5. InOrder(m)
  <2>1. \A l \in DOMAIN m : l \in 1 .. k - 1 /\ l \in DOMAIN am /\ m[l] = am[l]
    BY <1>1, <1>3
  <2> QED BY <1>3, <2>1 DEF InOrder
<1> DEFINE i == FirstNotBefore(m, b)
<1>6. i = k
  <2>1. i \in 1 .. k /\ (i <= k - 1 => b <= m[i].end)
    BY <1>2, <1>3, <1>5, NotBefore
  <2> HIDE DEF i
  <2>2. ASSUME i # k PROVE FALSE
    <3>1. i \in 1 .. k - 1 /\ i <= k - 1
      BY <2>1, <2>2
    <3>2. m[i].end \in Int
      BY <1>3, <1>5, <3>1, RangeType
    <3> QED BY <1>2, <1>4, <2>1, <3>1, <3>2
  <2> QED BY <2>2
<1>7. alpha_map_add_range(m, b, e)
        = SubSeq(m, 1, k - 1) \o <<[begin |-> b, end |-> e]>> \o SubSeq(m, k, k - 1)
  <2>1. ~(b > e) /\ ~(i <= Len(m))
    BY <1>2, <1>3, <1>6
  <2> HIDE DEF b, e
  <2> QED BY <1>3, <1>6, <2>1 DEF alpha_map_add_range
<1>8. SubSeq(m, 1, k - 1) = m
  BY <1>3
<1>9. SubSeq(m, k, k - 1) = <<>>
  BY SubSeqEmpty
<1>10. [begin |-> b, end |-> e] = am[k]
  BY <1>2 DEF AlphaRange
<1>11. m \o <<am[k]>> \o <<>> = SubSeq(am, 1, k)
  <2> DEFINE t == m \o <<am[k]>>
             u == SubSeq(am, 1, k)
  <2>1. t \in Seq(AlphaRange) /\ Len(t) = k /\ \A l \in 1 .. k : t[l] = am[l]
    <3>1. <<am[k]>> \in Seq(AlphaRange) /\ Len(<<am[k]>>) = 1 /\ <<am[k]>>[1] = am[k]
      BY <1>2
    <3>2. /\ t \in Seq(AlphaRange) /\ Len(t) = Len(m) + 1
          /\ \A l \in 1 .. Len(m) + 1 :
               t[l] = IF l <= Len(m) THEN m[l] ELSE <<am[k]>>[l - Len(m)]
      BY <1>3, <3>1, ConcatProperties, ZenonT(60)
    <3> HIDE DEF t
    <3>3. ASSUME NEW l \in 1 .. k PROVE t[l] = am[l]
      <4>1. CASE l = k
        <5>1. k \in 1 .. Len(m) + 1 /\ ~(k <= Len(m)) /\ k - Len(m) = 1
          BY <1>3
        <5> QED BY <3>1, <3>2, <4>1, <5>1
      <4>2. CASE l # k
        BY <1>3, <3>2, <4>2
      <4> QED BY <4>1, <4>2
    <3> QED BY <1>3, <3>2, <3>3
  <2>2. u \in Seq(AlphaRange) /\ Len(u) = k /\ \A l \in 1 .. k : u[l] = am[l]
    <3>1. \A l \in 1 .. k : am[l] \in AlphaRange
      BY <1>1
    <3>2. /\ u \in Seq(AlphaRange) /\ Len(u) = IF 1 <= k THEN k - 1 + 1 ELSE 0
          /\ \A l \in 1 .. k - 1 + 1 : u[l] = am[1 + l - 1]
      BY <3>1, SubSeqProperties
    <3> HIDE DEF u
    <3> QED BY <3>2
  <2>3. t \o <<>> = t
    BY <2>1, ConcatEmptySeq
  <2> HIDE DEF t, u
  <2>4. t = u
    BY <2>1, <2>2
  <2> QED BY <2>3, <2>4 DEF t, u
<1> QED BY <1>7, <1>8, <1>9, <1>10, <1>11 DEF m

\* Adding the ranges of a map in order one after the other makes the map.
LEMMA FoldExact ==
  ASSUME NEW am, InOrder(am), NEW g, IsFold(am, g, Len(am))
  PROVE  g[1 .. Len(am)] = am
<1> DEFINE n == Len(am)
           Bad == {k \in Nat : k <= n /\ g[1 .. k] # SubSeq(am, 1, k)}
<1>1. am \in Seq(AlphaRange) /\ n \in Nat
  BY DEF InOrder
<1>2. IsFold(am, g, n)
  OBVIOUS
<1>4. Bad = {}
  <2> SUFFICES ASSUME Bad # {} PROVE FALSE
    OBVIOUS
  <2>1. PICK k \in Bad : \A l \in Bad : k <= l
    BY LeastNatural
  <2>2. k \in Nat /\ k <= n /\ g[1 .. k] # SubSeq(am, 1, k)
    BY <2>1
  <2>3. CASE k = 0
    <3>1. g[1 .. k] = <<>>
      BY <1>1, <1>2, <2>3, FoldUnrolled
    <3>2. SubSeq(am, 1, k) = <<>>
      BY <2>3, SubSeqEmpty
    <3> QED BY <2>2, <3>1, <3>2
  <2>4. CASE k # 0
    <3>1. k \in 1 .. n /\ k - 1 \in Nat /\ k - 1 <= n /\ ~(k <= k - 1)
      BY <1>1, <2>2, <2>4
    <3>2. g[1 .. k - 1] = SubSeq(am, 1, k - 1)
      BY <2>1, <3>1
    <3>3. g[1 .. k] = alpha_map_add_range(g[1 .. k - 1], am[k].begin, am[k].end)
      BY <1>1, <1>2, <3>1, FoldUnrolled
    <3> QED BY <2>2, <3>1, <3>2, <3>3, AddAtEnd
  <2> QED BY <2>3, <2>4
<1>5. g[1 .. n] = SubSeq(am, 1, n)
  BY <1>1, <1>4
<1>6. SubSeq(am, 1, n) = am
  BY <1>1
<1> QED BY <1>5, <1>6

\* The clone of a map in order is the map.
THEOREM CloneExact ==
  ASSUME NEW am, InOrder(am)
  PROVE  alpha_map_clone(am) = am
<1> DEFINE g == CHOOSE f : IsFold(am, f, Len(am))
<1>1. am \in Seq(AlphaRange) /\ Len(am) \in Nat
  BY DEF InOrder
<1>2. IsFold(am, g, Len(am))
  BY <1>1, FoldExists
<1>3. alpha_map_clone(am) = g[1 .. Len(am)]
  BY <1>1, CloneIsFold
<1> HIDE DEF g
<1>4. g[1 .. Len(am)] = am
  BY <1>2, FoldExact
<1> QED BY <1>3, <1>4

(***************************************************************************)
(* Ranges that come as pairs, from list2tri.c or from a file               *)
(***************************************************************************)

AddAll(pairs) == FoldLeft(LAMBDA m, r : alpha_map_add_range(m, r[1], r[2]), <<>>, pairs)

RangesOf(pairs) == [i \in 1 .. Len(pairs) |-> [begin |-> pairs[i][1], end |-> pairs[i][2]]]

PairStep(pairs, g, s) ==
  IF s = {} THEN <<>>
  ELSE alpha_map_add_range(g[s \ {Max(s)}], pairs[Max(s)][1], pairs[Max(s)][2])

IsPairFold(pairs, g, k) == g = [s \in SUBSET (1 .. k) |-> PairStep(pairs, g, s)]

\* They are added as the ranges they stand for are.
LEMMA PairsAreRanges ==
  ASSUME NEW S, NEW pairs \in Seq(S)
  PROVE  \E g : IsFold(RangesOf(pairs), g, Len(pairs)) /\ AddAll(pairs) = g[1 .. Len(pairs)]
<1> DEFINE n == Len(pairs)
           rs == RangesOf(pairs)
<1>1. n \in Nat /\ DOMAIN pairs = 1 .. n
  OBVIOUS
<1>2. AddAll(pairs) = (CHOOSE g : g = [s \in SUBSET DOMAIN pairs |-> PairStep(pairs, g, s)])[DOMAIN pairs]
  BY DEF AddAll, FoldLeft, MapThenFoldSet, PairStep
<1>3. AddAll(pairs) = (CHOOSE g : IsPairFold(pairs, g, n))[1 .. n]
  BY <1>1, <1>2 DEF IsPairFold
<1>4. \A s \in SUBSET (1 .. n) : s # {} => Max(s) \in 1 .. n
  <2> SUFFICES ASSUME NEW s \in SUBSET (1 .. n), s # {} PROVE Max(s) \in 1 .. n
    OBVIOUS
  <2>1. Max(s) \in s
    BY <1>1, MaxUpTo
  <2> QED BY <2>1
<1>5. \A k \in 1 .. n : rs[k].begin = pairs[k][1] /\ rs[k].end = pairs[k][2]
  BY DEF RangesOf
<1> HIDE DEF rs
<1>6. \A g : \A s \in SUBSET (1 .. n) : PairStep(pairs, g, s) = FoldStep(rs, g, s)
  <2> SUFFICES ASSUME NEW g, NEW s \in SUBSET (1 .. n) PROVE PairStep(pairs, g, s) = FoldStep(rs, g, s)
    OBVIOUS
  <2>1. CASE s = {}
    BY <2>1 DEF PairStep, FoldStep
  <2>2. CASE s # {}
    <3>1. rs[Max(s)].begin = pairs[Max(s)][1] /\ rs[Max(s)].end = pairs[Max(s)][2]
      BY <1>4, <1>5, <2>2
    <3> QED BY <2>2, <3>1 DEF PairStep, FoldStep
  <2> QED BY <2>1, <2>2
<1>7. PICK f : IsFold(rs, f, n)
  BY <1>1, FoldExists
<1>8. IsPairFold(pairs, f, n)
  <2>1. [s \in SUBSET (1 .. n) |-> FoldStep(rs, f, s)] = [s \in SUBSET (1 .. n) |-> PairStep(pairs, f, s)]
    BY <1>6
  <2> QED BY <1>7, <2>1 DEF IsFold, IsPairFold
<1> DEFINE h == CHOOSE g : IsPairFold(pairs, g, n)
<1>9. IsPairFold(pairs, h, n)
  BY <1>8
<1>10. AddAll(pairs) = h[1 .. n]
  BY <1>3
<1> HIDE DEF h
<1>11. IsFold(rs, h, n)
  <2>1. [s \in SUBSET (1 .. n) |-> FoldStep(rs, h, s)] = [s \in SUBSET (1 .. n) |-> PairStep(pairs, h, s)]
    BY <1>6
  <2> QED BY <1>9, <2>1 DEF IsFold, IsPairFold
<1> QED BY <1>10, <1>11 DEF rs

\* A map in order whose bounds are read back in turn is the map.
LEMMA ReadBack ==
  ASSUME NEW am, InOrder(am), NEW S, NEW pairs \in Seq(S), Len(pairs) = Len(am),
         \A i \in 1 .. Len(am) : pairs[i] = <<am[i].begin, am[i].end>>
  PROVE  AddAll(pairs) = am
<1>1. am \in Seq(AlphaRange) /\ Len(am) \in Nat /\ am = [i \in 1 .. Len(am) |-> am[i]]
  BY DEF InOrder
<1>2. RangesOf(pairs) = am
  <2>1. \A i \in 1 .. Len(am) : [begin |-> pairs[i][1], end |-> pairs[i][2]] = am[i]
    <3> SUFFICES ASSUME NEW i \in 1 .. Len(am)
                 PROVE  [begin |-> pairs[i][1], end |-> pairs[i][2]] = am[i]
      OBVIOUS
    <3>1. am[i] \in AlphaRange /\ pairs[i][1] = am[i].begin /\ pairs[i][2] = am[i].end
      BY <1>1
    <3> QED BY <3>1 DEF AlphaRange
  <2> QED BY <1>1, <2>1 DEF RangesOf
<1>3. PICK g : IsFold(am, g, Len(am)) /\ AddAll(pairs) = g[1 .. Len(am)]
  BY <1>2, PairsAreRanges
<1> QED BY <1>3, FoldExact

\* An alphabet added range by range is in order and holds the characters of the ranges.
LEMMA AllAdded ==
  ASSUME NEW pairs \in Seq(AlphaChars \X AlphaChars)
  PROVE  /\ InOrder(AddAll(pairs))
         /\ \A c : Holds(AddAll(pairs), c) <=> \E i \in 1 .. Len(pairs) : c \in pairs[i][1] .. pairs[i][2]
<1> DEFINE n == Len(pairs)
           rs == RangesOf(pairs)
<1>1. n \in Nat /\ \A i \in 1 .. n : pairs[i][1] \in AlphaChars /\ pairs[i][2] \in AlphaChars
  OBVIOUS
<1>2. \A k \in 1 .. n : rs[k].begin = pairs[k][1] /\ rs[k].end = pairs[k][2]
  BY DEF RangesOf
<1>3. PICK g : IsFold(rs, g, n) /\ AddAll(pairs) = g[1 .. n]
  BY PairsAreRanges
<1> HIDE DEF rs
<1>4. /\ g[1 .. 0] = <<>>
      /\ \A k \in 1 .. n : g[1 .. k] = alpha_map_add_range(g[1 .. k - 1], rs[k].begin, rs[k].end)
  BY <1>1, <1>3, FoldUnrolled, ZenonT(60)
<1> DEFINE Good(k) == /\ InOrder(g[1 .. k])
                      /\ \A c : Holds(g[1 .. k], c) <=> \E i \in 1 .. k : c \in pairs[i][1] .. pairs[i][2]
           Bad == {k \in Nat : k <= n /\ ~Good(k)}
<1>5. Bad = {}
  <2> SUFFICES ASSUME Bad # {} PROVE FALSE
    OBVIOUS
  <2>1. PICK k \in Bad : \A l \in Bad : k <= l
    BY LeastNatural
  <2>2. k \in Nat /\ k <= n /\ ~Good(k)
    BY <2>1
  <2>3. CASE k = 0
    <3>1. g[1 .. k] = <<>>
      BY <1>4, <2>3
    <3>2. InOrder(<<>>) /\ \A c : ~Holds(<<>>, c)
      BY DEF InOrder, Holds
    <3>3. 1 .. k = {}
      BY <2>3
    <3> QED BY <2>2, <3>1, <3>2, <3>3
  <2>4. CASE k # 0
    <3>1. k \in 1 .. n /\ k - 1 \in Nat /\ k - 1 <= n /\ ~(k <= k - 1)
      BY <1>1, <2>2, <2>4
    <3>2. Good(k - 1)
      BY <2>1, <3>1
    <3> DEFINE m == g[1 .. k - 1]
               b == pairs[k][1]
               e == pairs[k][2]
    <3>3. g[1 .. k] = alpha_map_add_range(m, b, e) /\ b \in AlphaChars /\ e \in AlphaChars
      BY <1>1, <1>2, <1>4, <3>1
    <3>4. \A c : (\E i \in 1 .. k : c \in pairs[i][1] .. pairs[i][2])
                   <=> (\E i \in 1 .. k - 1 : c \in pairs[i][1] .. pairs[i][2]) \/ c \in b .. e
      BY <3>1, SMTT(60)
    <3>5. InOrder(m) /\ \A c : Holds(m, c) <=> \E i \in 1 .. k - 1 : c \in pairs[i][1] .. pairs[i][2]
      BY <3>2
    <3> HIDE DEF m, b, e
    <3>6. CASE b > e
      <4>1. g[1 .. k] = m
        BY <3>3, <3>6 DEF alpha_map_add_range
      <4>2. b .. e = {}
        BY <3>3, <3>6 DEF AlphaChars
      <4>3. \A c : (\E i \in 1 .. k : c \in pairs[i][1] .. pairs[i][2])
                     <=> \E i \in 1 .. k - 1 : c \in pairs[i][1] .. pairs[i][2]
        BY <3>4, <4>2
      <4> QED BY <2>2, <3>5, <4>1, <4>3
    <3>7. CASE b <= e
      <4>1. /\ InOrder(g[1 .. k])
            /\ \A c : Holds(g[1 .. k], c) <=> Holds(m, c) \/ c \in b .. e
        BY <3>3, <3>5, <3>7, AddRangeExact
      <4> QED BY <2>2, <3>4, <3>5, <4>1
    <3> QED BY <3>3, <3>6, <3>7 DEF AlphaChars
  <2> QED BY <2>3, <2>4
<1>6. Good(n)
  BY <1>1, <1>5
<1> QED BY <1>3, <1>6

(***************************************************************************)
(* The map                                                                 *)
(***************************************************************************)

\* The map is in order and holds the characters added.
AlphaInv == InOrder(alpha_map) /\ \A c : Holds(alpha_map, c) <=> c \in added

\* The empty map holds nothing.
LEMMA AlphaInvInit == AlphaInit => AlphaInv
BY DEF AlphaInit, AlphaInv, InOrder, Holds

\* A range is added, or refused because it ends before it begins.
LEMMA AddRangeKeeps ==
  ASSUME AlphaInv, NEW b \in AlphaChars, NEW e \in AlphaChars, AddRange(b, e)
  PROVE  AlphaInv'
<1>1. alpha_map' = alpha_map_add_range(alpha_map, b, e) /\ added' = added \cup b .. e
  BY DEF AddRange
<1>2. b \in Int /\ e \in Int
  BY DEF AlphaChars
<1>3. CASE b > e
  <2>1. alpha_map' = alpha_map
    BY <1>1, <1>3 DEF alpha_map_add_range
  <2>2. added' = added
    BY <1>1, <1>2, <1>3
  <2> QED BY <2>1, <2>2 DEF AlphaInv
<1>4. CASE b <= e
  <2> DEFINE r == alpha_map_add_range(alpha_map, b, e)
  <2>1. InOrder(r) /\ \A c : Holds(r, c) <=> Holds(alpha_map, c) \/ c \in b .. e
    BY <1>4, AddRangeExact DEF AlphaInv
  <2> HIDE DEF r
  <2>2. \A c : Holds(r, c) <=> c \in added'
    BY <1>1, <2>1 DEF AlphaInv
  <2>3. alpha_map' = r
    BY <1>1 DEF r
  <2> QED BY <2>1, <2>2, <2>3 DEF AlphaInv
<1> QED BY <1>2, <1>3, <1>4

\* A clone takes the place of the map.
LEMMA CloneKeeps ==
  ASSUME AlphaInv, Clone
  PROVE  AlphaInv' /\ UNCHANGED alpha_map
<1>1. alpha_map' = alpha_map /\ added' = added
  BY CloneExact DEF AlphaInv, Clone
<1> QED BY <1>1 DEF AlphaInv

\* Every step keeps AlphaInv.
LEMMA AlphaInvStep == AlphaInv /\ [AlphaNext]_alphaVars => AlphaInv'
<1> SUFFICES ASSUME AlphaInv, [AlphaNext]_alphaVars PROVE AlphaInv'
  OBVIOUS
<1>1. CASE UNCHANGED alphaVars
  BY <1>1 DEF AlphaInv, alphaVars
<1> QED BY <1>1, AddRangeKeeps, CloneKeeps DEF AlphaNext

\* Whatever ranges are added in whatever order, the ranges of the map are in order, none
\* is empty and no two overlap (alpha_map_add_range, alpha_map_clone).
THEOREM RangesStayApart == AlphaSpec => []RangesApart
<1>1. AlphaInv => RangesApart
  BY DEF AlphaInv, InOrder, RangesApart
<1> QED BY <1>1, AlphaInvInit, AlphaInvStep, PTL DEF AlphaSpec

\* The map holds the characters that were added and no others: merging, removing and
\* cloning ranges loses none and invents none (alpha_map_add_range, alpha_map_clone).
THEOREM AlphabetStaysExact == AlphaSpec => []AlphabetExact
<1>1. ASSUME AlphaInv PROVE AlphabetExact
  <2> DEFINE Chars == UNION {alpha_map[i].begin .. alpha_map[i].end : i \in DOMAIN alpha_map}
  <2>1. alpha_map \in Seq(AlphaRange) /\ DOMAIN alpha_map = 1 .. Len(alpha_map)
    BY <1>1 DEF AlphaInv, InOrder
  <2>2. \A i \in DOMAIN alpha_map : alpha_map[i].begin \in Int /\ alpha_map[i].end \in Int
    BY <1>1, <2>1, RangeType DEF AlphaInv
  <2>3. ASSUME NEW c PROVE c \in Chars <=> Holds(alpha_map, c)
    <3>1. c \in Chars <=> \E i \in DOMAIN alpha_map : c \in alpha_map[i].begin .. alpha_map[i].end
      OBVIOUS
    <3>2. \A i \in DOMAIN alpha_map :
            c \in alpha_map[i].begin .. alpha_map[i].end <=> Within(alpha_map[i], c)
      BY <2>2 DEF Within
    <3> QED BY <3>1, <3>2 DEF Holds
  <2> HIDE DEF Chars
  <2>4. Chars = added
    BY <1>1, <2>3 DEF AlphaInv
  <2> QED BY <2>4 DEF Chars, AlphabetExact
<1> QED BY <1>1, AlphaInvInit, AlphaInvStep, PTL DEF AlphaSpec

\* A clone is the map it was made from, however many ranges that has (alpha_map_clone).
THEOREM ClonesFaithful == AlphaSpec => CloneFaithful
<1>1. AlphaInv => (Clone => UNCHANGED alpha_map)
  BY CloneKeeps
<1>2. AlphaInv /\ [AlphaNext]_alphaVars => [Clone => UNCHANGED alpha_map]_alphaVars
  BY <1>1
<1> QED BY <1>2, AlphaInvInit, AlphaInvStep, PTL DEF AlphaSpec, CloneFaithful

(***************************************************************************)
(* Codes: AlphaBegin is a fold as well                                     *)
(***************************************************************************)

\* One step of the fold of AlphaBegin, at the set s of the indices of am.
WidthStep(am, g, s) ==
  IF s = {} THEN 1
  ELSE (g[s \ {Max(s)}] + am[Max(s)].end - am[Max(s)].begin + 1) % (TRIE_CHAR_MAX + 1)

IsWidthFold(am, g, k) == g = [s \in SUBSET (1 .. k) |-> WidthStep(am, g, s)]

\* The code at which a range begins is the fold over the ranges before it.
LEMMA BeginIsFold ==
  ASSUME NEW am \in Seq(AlphaRange), NEW i \in 1 .. Len(am) + 1
  PROVE  LET m == SubSeq(am, 1, i - 1)
         IN  AlphaBegin(am, i) = (CHOOSE g : IsWidthFold(m, g, i - 1))[1 .. i - 1]
<1> DEFINE m == SubSeq(am, 1, i - 1)
<1>1. AlphaBegin(am, i)
        = (CHOOSE g : g = [s \in SUBSET DOMAIN m |-> WidthStep(m, g, s)])[DOMAIN m]
  BY DEF AlphaBegin, FoldLeft, MapThenFoldSet, WidthStep
<1>2. DOMAIN m = 1 .. i - 1
  OBVIOUS
<1> QED BY <1>1, <1>2 DEF IsWidthFold

\* There is such a function, whatever the length of the list.
LEMMA WidthFoldExists ==
  ASSUME NEW am, NEW n \in Nat
  PROVE  \E g : IsWidthFold(am, g, n)
<1> DEFINE Bad == {k \in Nat : ~\E g : IsWidthFold(am, g, k)}
<1> SUFFICES ASSUME Bad # {} PROVE FALSE
  OBVIOUS
<1>1. PICK k \in Bad : \A l \in Bad : k <= l
  BY LeastNatural
<1>2. CASE k = 0
  <2> DEFINE g == [s \in SUBSET (1 .. k) |-> 1]
  <2>1. \A s \in SUBSET (1 .. k) : s = {}
    BY <1>2
  <2>2. \A s \in SUBSET (1 .. k) : WidthStep(am, g, s) = 1
    BY <2>1 DEF WidthStep
  <2>3. IsWidthFold(am, g, k)
    BY <2>2 DEF IsWidthFold
  <2> QED BY <1>1, <2>3
<1>3. CASE k # 0
  <2>1. k \in Nat /\ k > 0 /\ k - 1 \in Nat /\ k - 1 \notin Bad
    BY <1>1, <1>3
  <2>2. PICK g : IsWidthFold(am, g, k - 1)
    BY <2>1
  <2> DEFINE h == [s \in SUBSET (1 .. k) |-> WidthStep(am, g, s)]
  <2>3. \A s \in SUBSET (1 .. k - 1) : h[s] = g[s]
    <3> SUFFICES ASSUME NEW s \in SUBSET (1 .. k - 1) PROVE h[s] = g[s]
      OBVIOUS
    <3>1. s \in SUBSET (1 .. k)
      BY <2>1
    <3>2. h[s] = WidthStep(am, g, s)
      BY <3>1
    <3>3. g[s] = WidthStep(am, g, s)
      BY <2>2 DEF IsWidthFold
    <3> QED BY <3>2, <3>3
  <2>4. \A s \in SUBSET (1 .. k) : WidthStep(am, g, s) = WidthStep(am, h, s)
    <3> SUFFICES ASSUME NEW s \in SUBSET (1 .. k), s # {}
                 PROVE  WidthStep(am, g, s) = WidthStep(am, h, s)
      BY DEF WidthStep
    <3>1. h[s \ {Max(s)}] = g[s \ {Max(s)}]
      BY <2>1, <2>3, WithoutMax
    <3> HIDE DEF h
    <3> QED BY <3>1 DEF WidthStep
  <2>5. IsWidthFold(am, h, k)
    BY <2>4 DEF IsWidthFold
  <2> QED BY <1>1, <2>5
<1> QED BY <1>2, <1>3

\* So the widths are added one after the other.
LEMMA WidthFoldUnrolled ==
  ASSUME NEW am, NEW n \in Nat, NEW g, IsWidthFold(am, g, n)
  PROVE  /\ g[1 .. 0] = 1
         /\ \A k \in 1 .. n :
              g[1 .. k] = (g[1 .. k - 1] + am[k].end - am[k].begin + 1) % (TRIE_CHAR_MAX + 1)
<1>1. \A s \in SUBSET (1 .. n) : g[s] = WidthStep(am, g, s)
  BY DEF IsWidthFold
<1>2. g[1 .. 0] = 1
  <2>1. 1 .. 0 = {} /\ 1 .. 0 \in SUBSET (1 .. n)
    OBVIOUS
  <2> QED BY <1>1, <2>1 DEF WidthStep
<1>3. ASSUME NEW k \in 1 .. n
      PROVE  g[1 .. k] = (g[1 .. k - 1] + am[k].end - am[k].begin + 1) % (TRIE_CHAR_MAX + 1)
  <2>1. 1 .. k \in SUBSET (1 .. n) /\ 1 .. k # {}
    OBVIOUS
  <2>2. Max(1 .. k) = k
    <3>1. Max(1 .. k) \in 1 .. k /\ \A y \in 1 .. k : y <= Max(1 .. k)
      BY <2>1, MaxUpTo
    <3> QED BY <3>1
  <2>3. (1 .. k) \ {k} = 1 .. k - 1
    OBVIOUS
  <2> QED BY <1>1, <2>1, <2>2, <2>3 DEF WidthStep
<1> QED BY <1>2, <1>3

(***************************************************************************)
(* The characters of the first ranges, and how many they are               *)
(***************************************************************************)

HeldBefore(am, i) == {c \in Int : \E l \in 1 .. i - 1 : Within(am[l], c)}

\* A number is its own remainder when the divisor is larger.
LEMMA RemainderOfSmall ==
  ASSUME NEW x \in Nat, NEW m \in Nat, x < m
  PROVE  x % m = x
OBVIOUS

\* A range adds as many characters as it is wide.
LEMMA HeldNext ==
  ASSUME NEW am, InOrder(am), NEW i \in 1 .. Len(am), IsFiniteSet(HeldBefore(am, i))
  PROVE  /\ IsFiniteSet(HeldBefore(am, i + 1))
         /\ Cardinality(HeldBefore(am, i + 1))
              = Cardinality(HeldBefore(am, i)) + am[i].end - am[i].begin + 1
<1> DEFINE H == HeldBefore(am, i)
           R == am[i].begin .. am[i].end
<1>1. am \in Seq(AlphaRange) /\ Len(am) \in Nat
  BY DEF InOrder
<1>2. am[i].begin \in Int /\ am[i].end \in Int /\ am[i].begin <= am[i].end
  BY RangeType
<1>3. HeldBefore(am, i + 1) = H \cup R
  <2>1. ASSUME NEW c PROVE c \in HeldBefore(am, i + 1) <=> c \in H \/ c \in R
    <3>1. \A l \in 1 .. i + 1 - 1 : l \in 1 .. i - 1 \/ l = i
      OBVIOUS
    <3>2. i \in 1 .. i + 1 - 1 /\ \A l \in 1 .. i - 1 : l \in 1 .. i + 1 - 1
      OBVIOUS
    <3>3. Within(am[i], c) <=> c \in R
      BY <1>2 DEF Within
    <3>4. c \in R => c \in Int
      BY <1>2
    <3> HIDE DEF R
    <3> QED BY <3>1, <3>2, <3>3, <3>4 DEF HeldBefore
  <2> HIDE DEF H, R
  <2> QED BY <2>1
<1>4. H \cap R = {}
  <2> SUFFICES ASSUME NEW c \in H, c \in R PROVE FALSE
    OBVIOUS
  <2>1. PICK l \in 1 .. i - 1 : Within(am[l], c)
    BY DEF HeldBefore
  <2>2. l \in DOMAIN am /\ i \in DOMAIN am /\ l < i /\ l \in 1 .. Len(am)
    BY <1>1
  <2>3. am[l].end < am[i].begin /\ am[l].end \in Int
    BY <2>2, RangeType DEF InOrder
  <2>4. c \in Int /\ c <= am[l].end /\ am[i].begin <= c
    BY <1>2, <2>1 DEF Within
  <2> HIDE DEF H, R
  <2>5. am[l].end < am[i].begin /\ am[i].begin <= am[l].end
    BY <1>2, <2>3, <2>4
  <2> QED BY <1>2, <2>3, <2>5
<1>5. IsFiniteSet(R) /\ Cardinality(R) = am[i].end - am[i].begin + 1
  <2>1. \A b, e \in Int : b <= e => IsFiniteSet(b .. e) /\ Cardinality(b .. e) = e - b + 1
    BY FS_Interval
  <2> QED BY <1>2, <2>1
<1> HIDE DEF H, R
<1>6. IsFiniteSet(H) /\ Cardinality(H) \in Nat
  BY FS_CardinalityType DEF H
<1>7. IsFiniteSet(H \cup R)
      /\ Cardinality(H \cup R) = Cardinality(H) + Cardinality(R) - Cardinality(H \cap R)
  BY <1>5, <1>6, FS_Union
<1>8. Cardinality(H \cap R) = 0
  BY <1>4, FS_EmptySet
<1>9. Cardinality(H \cup R) = Cardinality(H) + am[i].end - am[i].begin + 1
  BY <1>2, <1>5, <1>6, <1>7, <1>8
<1> QED BY <1>3, <1>7, <1>9 DEF H

\* The ranges before any hold finitely many characters.
LEMMA HeldFinite ==
  ASSUME NEW am, InOrder(am), NEW i \in 1 .. Len(am) + 1
  PROVE  IsFiniteSet(HeldBefore(am, i)) /\ Cardinality(HeldBefore(am, i)) \in Nat
<1> DEFINE Bad == {k \in Nat : k <= Len(am) /\ ~IsFiniteSet(HeldBefore(am, k + 1))}
<1>1. Len(am) \in Nat
  BY DEF InOrder
<1>2. Bad = {}
  <2> SUFFICES ASSUME Bad # {} PROVE FALSE
    OBVIOUS
  <2>1. PICK k \in Bad : \A l \in Bad : k <= l
    BY LeastNatural
  <2>2. CASE k = 0
    <3>1. HeldBefore(am, k + 1) = {}
      BY <2>2 DEF HeldBefore
    <3> QED BY <2>1, <3>1, FS_EmptySet
  <2>3. CASE k # 0
    <3>1. k \in 1 .. Len(am) /\ k - 1 \in Nat /\ k - 1 <= Len(am) /\ ~(k <= k - 1) /\ k - 1 + 1 = k
      BY <1>1, <2>1, <2>3
    <3>2. IsFiniteSet(HeldBefore(am, k))
      BY <2>1, <3>1
    <3> QED BY <2>1, <3>1, <3>2, HeldNext
  <2> QED BY <2>2, <2>3
<1>3. i - 1 \in Nat /\ i - 1 <= Len(am) /\ i - 1 + 1 = i
  BY <1>1
<1>4. IsFiniteSet(HeldBefore(am, i))
  BY <1>2, <1>3
<1> QED BY <1>4, FS_CardinalityType

\* How many characters the ranges hold, counted from 1 as the codes are.
LEMMA HeldCounts ==
  ASSUME NEW am, InOrder(am), NEW i \in 1 .. Len(am)
  PROVE  1 + Cardinality(HeldBefore(am, i + 1))
           = 1 + Cardinality(HeldBefore(am, i)) + am[i].end - am[i].begin + 1
<1> DEFINE x == Cardinality(HeldBefore(am, i))
           y == Cardinality(HeldBefore(am, i + 1))
<1>1. Len(am) \in Nat
  BY DEF InOrder
<1>2. i \in 1 .. Len(am) + 1 /\ i + 1 \in 1 .. Len(am) + 1
  BY <1>1
<1>3. x \in Int /\ y \in Int /\ IsFiniteSet(HeldBefore(am, i))
  BY <1>2, HeldFinite
<1>4. y = x + am[i].end - am[i].begin + 1
  BY <1>3, HeldNext
<1>5. am[i].end \in Int /\ am[i].begin \in Int
  BY RangeType
<1> HIDE DEF x, y
<1>6. 1 + y = 1 + x + am[i].end - am[i].begin + 1
  BY <1>3, <1>4, <1>5, SMTT(60)
<1> QED BY <1>6 DEF x, y

\* What fewer ranges hold is no more.
LEMMA HeldGrows ==
  ASSUME NEW am, InOrder(am), NEW i \in 1 .. Len(am) + 1, NEW j \in i .. Len(am) + 1
  PROVE  Cardinality(HeldBefore(am, i)) <= Cardinality(HeldBefore(am, j))
<1>1. Len(am) \in Nat
  BY DEF InOrder
<1>2. \A l \in 1 .. i - 1 : l \in 1 .. j - 1
  BY <1>1
<1>3. HeldBefore(am, i) \in SUBSET HeldBefore(am, j)
  BY <1>2 DEF HeldBefore
<1>4. j \in 1 .. Len(am) + 1
  BY <1>1
<1> QED BY <1>3, <1>4, HeldFinite, FS_Subset

\* In an alphabet of fewer than TRIE_CHAR_MAX characters no code wraps around: a range
\* begins behind the codes of all the characters before it.
LEMMA BeginCounts ==
  ASSUME NEW am, InOrder(am), Cardinality(HeldBefore(am, Len(am) + 1)) < TRIE_CHAR_MAX,
         NEW i \in 1 .. Len(am) + 1
  PROVE  AlphaBegin(am, i) = 1 + Cardinality(HeldBefore(am, i))
<1> DEFINE m == SubSeq(am, 1, i - 1)
           g == CHOOSE f : IsWidthFold(m, f, i - 1)
           Count(k) == 1 + Cardinality(HeldBefore(am, k + 1))
           Bad == {k \in Nat : k <= i - 1 /\ g[1 .. k] # Count(k)}
<1>1. am \in Seq(AlphaRange) /\ Len(am) \in Nat /\ i - 1 \in Nat
  BY DEF InOrder
<1>2. AlphaBegin(am, i) = g[1 .. i - 1]
  BY <1>1, BeginIsFold
<1>3. IsWidthFold(m, g, i - 1)
  BY <1>1, WidthFoldExists
<1>4. \A k \in 1 .. i - 1 : m[k] = am[k] /\ k \in 1 .. Len(am)
  <2>1. \A l \in 1 .. i - 1 : l \in 1 .. Len(am) /\ am[l] \in AlphaRange
    BY <1>1
  <2>2. \A l \in 1 .. i - 1 - 1 + 1 : m[l] = am[1 + l - 1]
    BY <1>1, <2>1, SubSeqProperties
  <2>3. \A l \in 1 .. i - 1 : l \in 1 .. i - 1 - 1 + 1 /\ 1 + l - 1 = l
    BY <1>1
  <2> HIDE DEF m
  <2> QED BY <2>1, <2>2, <2>3
<1> HIDE DEF g, m
<1>5. \A k \in Nat : k <= Len(am) => Count(k) \in Nat /\ Count(k) < TRIE_CHAR_MAX + 1
  <2> SUFFICES ASSUME NEW k \in Nat, k <= Len(am)
               PROVE  Count(k) \in Nat /\ Count(k) < TRIE_CHAR_MAX + 1
    OBVIOUS
  <2>1. k + 1 \in 1 .. Len(am) + 1 /\ Len(am) + 1 \in k + 1 .. Len(am) + 1
        /\ Len(am) + 1 \in 1 .. Len(am) + 1
    BY <1>1
  <2>2. Cardinality(HeldBefore(am, k + 1)) <= Cardinality(HeldBefore(am, Len(am) + 1))
    BY <2>1, HeldGrows
  <2>3. /\ Cardinality(HeldBefore(am, k + 1)) \in Nat
        /\ Cardinality(HeldBefore(am, Len(am) + 1)) \in Nat
    BY <2>1, HeldFinite
  <2> QED BY <2>2, <2>3, TrieDefsAssumption
<1>6. Bad = {}
  <2> SUFFICES ASSUME Bad # {} PROVE FALSE
    OBVIOUS
  <2>1. PICK k \in Bad : \A l \in Bad : k <= l
    BY LeastNatural
  <2>2. k \in Nat /\ k <= i - 1 /\ k <= Len(am) /\ g[1 .. k] # Count(k)
    BY <1>1, <2>1
  <2>3. CASE k = 0
    <3>1. g[1 .. k] = 1
      BY <1>1, <1>3, <2>3, WidthFoldUnrolled
    <3>2. HeldBefore(am, k + 1) = {}
      BY <2>3 DEF HeldBefore
    <3>3. Cardinality(HeldBefore(am, k + 1)) = 0
      BY <3>2, FS_EmptySet
    <3>4. Count(k) = 1
      BY <3>3
    <3> HIDE DEF Count
    <3> QED BY <2>2, <3>1, <3>4
  <2>4. CASE k # 0
    <3>1. /\ k \in 1 .. i - 1 /\ k \in 1 .. Len(am) /\ k - 1 \in Nat /\ k - 1 <= i - 1
          /\ k - 1 <= Len(am) /\ ~(k <= k - 1) /\ k - 1 + 1 = k
      BY <1>1, <2>2, <2>4
    <3>2. g[1 .. k - 1] = Count(k - 1)
      BY <2>1, <3>1
    <3>3. g[1 .. k] = (Count(k - 1) + am[k].end - am[k].begin + 1) % (TRIE_CHAR_MAX + 1)
      <4>1. g[1 .. k] = (g[1 .. k - 1] + m[k].end - m[k].begin + 1) % (TRIE_CHAR_MAX + 1)
        BY <1>1, <1>3, <3>1, WidthFoldUnrolled, SMTT(60)
      <4>2. m[k] = am[k]
        BY <1>4, <3>1
      <4> HIDE DEF Count
      <4> QED BY <3>2, <4>1, <4>2
    <3>4. Count(k) = Count(k - 1) + am[k].end - am[k].begin + 1
      <4>1. Count(k - 1) = 1 + Cardinality(HeldBefore(am, k))
        BY <3>1
      <4> QED BY <3>1, <4>1, HeldCounts
    <3>5. Count(k) \in Nat /\ Count(k) < TRIE_CHAR_MAX + 1 /\ TRIE_CHAR_MAX + 1 \in Nat
      BY <1>5, <2>2, TrieDefsAssumption
    <3> HIDE DEF Count
    <3>6. Count(k) % (TRIE_CHAR_MAX + 1) = Count(k)
      BY <3>5, RemainderOfSmall
    <3> QED BY <2>2, <3>3, <3>4, <3>6
  <2> QED BY <2>3, <2>4
<1>7. g[1 .. i - 1] = Count(i - 1) /\ i - 1 + 1 = i
  BY <1>1, <1>6
<1> QED BY <1>2, <1>7

\* So the codes of a range follow those of the one before.
LEMMA BeginNext ==
  ASSUME NEW am, InOrder(am), Cardinality(HeldBefore(am, Len(am) + 1)) < TRIE_CHAR_MAX,
         NEW i \in 1 .. Len(am)
  PROVE  /\ AlphaBegin(am, i) \in Nat /\ 1 <= AlphaBegin(am, i)
         /\ AlphaBegin(am, i + 1) = AlphaBegin(am, i) + am[i].end - am[i].begin + 1
         /\ AlphaBegin(am, i + 1) <= TRIE_CHAR_MAX
         /\ \A j \in i + 1 .. Len(am) + 1 : AlphaBegin(am, i + 1) <= AlphaBegin(am, j)
<1> DEFINE n == Len(am)
           Card(k) == Cardinality(HeldBefore(am, k))
<1>1. n \in Nat /\ i \in 1 .. n + 1 /\ i + 1 \in 1 .. n + 1 /\ n + 1 \in 1 .. n + 1
  BY DEF InOrder
<1>2. AlphaBegin(am, i) = 1 + Card(i) /\ AlphaBegin(am, i + 1) = 1 + Card(i + 1)
  BY <1>1, BeginCounts
<1>3. Card(i) \in Nat /\ Card(i + 1) \in Nat /\ Card(n + 1) \in Nat
  BY <1>1, HeldFinite
<1>4. 1 + Card(i + 1) = 1 + Card(i) + am[i].end - am[i].begin + 1
  BY HeldCounts
<1>5. Card(i + 1) <= Card(n + 1)
  <2>1. n + 1 \in i + 1 .. n + 1
    BY <1>1
  <2> QED BY <1>1, <2>1, HeldGrows
<1>6. ASSUME NEW j \in i + 1 .. n + 1
      PROVE  AlphaBegin(am, i + 1) <= AlphaBegin(am, j)
  <2>1. j \in i + 1 .. n + 1 /\ j \in 1 .. n + 1
    BY <1>1
  <2>2. Card(i + 1) <= Card(j)
    BY <1>1, <2>1, HeldGrows
  <2>3. AlphaBegin(am, j) = 1 + Card(j) /\ Card(j) \in Nat
    BY <2>1, BeginCounts, HeldFinite
  <2> HIDE DEF Card
  <2> QED BY <1>2, <1>3, <2>2, <2>3
<1>7. Card(n + 1) < TRIE_CHAR_MAX /\ TRIE_CHAR_MAX \in Nat
  BY TrieDefsAssumption
<1> HIDE DEF Card
<1>8. AlphaBegin(am, i) \in Nat /\ 1 <= AlphaBegin(am, i)
  BY <1>2, <1>3
<1>9. AlphaBegin(am, i + 1) = AlphaBegin(am, i) + am[i].end - am[i].begin + 1
  BY <1>2, <1>4
<1>10. AlphaBegin(am, i + 1) <= TRIE_CHAR_MAX
  BY <1>2, <1>3, <1>5, <1>7
<1> QED BY <1>6, <1>8, <1>9, <1>10

\* A character is in one range only.
LEMMA OneRange ==
  ASSUME NEW am, InOrder(am), NEW c, NEW i \in 1 .. Len(am), NEW j \in 1 .. Len(am),
         Within(am[i], c), Within(am[j], c)
  PROVE  i = j
<1>1. ASSUME NEW k \in 1 .. Len(am), NEW l \in 1 .. Len(am), k < l,
             Within(am[k], c), Within(am[l], c)
      PROVE  FALSE
  <2>1. am[k].end < am[l].begin
    BY <1>1 DEF InOrder
  <2>2. am[k].end \in Int /\ am[l].begin \in Int
    BY RangeType
  <2>3. c \in Int /\ c <= am[k].end /\ am[l].begin <= c
    BY <1>1 DEF Within
  <2> QED BY <2>1, <2>2, <2>3
<1>2. ~(i < j) /\ ~(j < i)
  BY <1>1
<1>3. i \in Nat /\ j \in Nat
  BY DEF InOrder
<1> QED BY <1>2, <1>3

\* The code of a character of the i-th range is its place behind the code the range
\* begins at.
LEMMA CodeOfMember ==
  ASSUME NEW am, InOrder(am), Cardinality(HeldBefore(am, Len(am) + 1)) < TRIE_CHAR_MAX,
         NEW i \in 1 .. Len(am), NEW c, Within(am[i], c)
  PROVE  /\ alpha_map_char_to_trie(am, c) = AlphaBegin(am, i) + c - am[i].begin
         /\ AlphaBegin(am, i) <= AlphaBegin(am, i) + c - am[i].begin
         /\ AlphaBegin(am, i) + c - am[i].begin < AlphaBegin(am, i + 1)
<1> DEFINE I == {l \in 1 .. Len(am) : am[l].begin <= c /\ c <= am[l].end}
           b == AlphaBegin(am, i)
           t == b + c - am[i].begin
<1>1. am[i].begin \in Int /\ am[i].end \in Int /\ am[i].begin \in AlphaChars
  BY RangeType
<1>2. c \in Int /\ am[i].begin <= c /\ c <= am[i].end
  BY DEF Within
<1>3. b \in Nat /\ AlphaBegin(am, i + 1) = b + am[i].end - am[i].begin + 1
      /\ AlphaBegin(am, i + 1) <= TRIE_CHAR_MAX
  BY BeginNext
<1>4. I = {i}
  <2>1. \A l \in I : Within(am[l], c)
    BY <1>2 DEF Within
  <2>2. \A l \in I : l = i
    BY <2>1, OneRange
  <2> QED BY <1>2, <2>2
<1>5. SelectInSeq(am, LAMBDA r : r.begin <= c /\ c <= r.end) = i
  <2>1. i \in Nat /\ I \in SUBSET Nat /\ I # {}
    BY <1>4 DEF InOrder
  <2>2. Min(I) = i
    BY <1>4, <2>1, MinNatural
  <2> HIDE DEF I
  <2>3. SelectInSeq(am, LAMBDA r : r.begin <= c /\ c <= r.end) = IF I # {} THEN Min(I) ELSE 0
    BY DEF SelectInSeq, I
  <2> QED BY <2>1, <2>2, <2>3
<1>6. c # 0 /\ i > 0
  BY <1>1, <1>2 DEF AlphaChars, InOrder
<1>7. alpha_map_char_to_trie(am, c) = t % (TRIE_CHAR_MAX + 1)
  BY <1>5, <1>6 DEF alpha_map_char_to_trie
<1> HIDE DEF b
<1>8. b <= t /\ t < AlphaBegin(am, i + 1) /\ t \in Nat
  BY <1>1, <1>2, <1>3, SMTT(60)
<1>9. t % (TRIE_CHAR_MAX + 1) = t
  <2>1. TRIE_CHAR_MAX + 1 \in Nat /\ AlphaBegin(am, i + 1) \in Int
    BY <1>1, <1>3, TrieDefsAssumption, SMTT(60)
  <2>2. t < TRIE_CHAR_MAX + 1
    BY <1>3, <1>8, <2>1, TrieDefsAssumption
  <2> HIDE DEF t
  <2> QED BY <1>8, <2>1, <2>2, RemainderOfSmall
<1> QED BY <1>7, <1>8, <1>9 DEF b

\* From its code comes the character.
LEMMA CharOfCode ==
  ASSUME NEW am, InOrder(am), Cardinality(HeldBefore(am, Len(am) + 1)) < TRIE_CHAR_MAX,
         NEW i \in 1 .. Len(am), NEW c, Within(am[i], c)
  PROVE  alpha_map_trie_to_char(am, AlphaBegin(am, i) + c - am[i].begin) = c
<1> DEFINE b == AlphaBegin(am, i)
           t == b + c - am[i].begin
           fits == {k \in DOMAIN am : t <= AlphaBegin(am, k) + am[k].end - am[k].begin}
<1>1. am[i].begin \in Int /\ am[i].end \in Int /\ am[i].begin \in AlphaChars
  BY RangeType
<1>2. c \in Int /\ am[i].begin <= c /\ c <= am[i].end
  BY DEF Within
<1>3. b \in Nat /\ 1 <= b
  BY BeginNext
<1>4. Len(am) \in Nat /\ DOMAIN am = 1 .. Len(am)
  BY DEF InOrder
<1>5. i \in fits
  <2>1. t <= b + am[i].end - am[i].begin
    BY <1>1, <1>2, <1>3
  <2> QED BY <1>4, <2>1
<1>6. ASSUME NEW k \in fits PROVE i <= k
  <2> SUFFICES ASSUME k < i PROVE FALSE
    BY <1>4
  <2>1. k \in 1 .. Len(am) /\ i \in k + 1 .. Len(am) + 1
    BY <1>4
  <2>2. /\ AlphaBegin(am, k) \in Nat
        /\ AlphaBegin(am, k + 1) = AlphaBegin(am, k) + am[k].end - am[k].begin + 1
        /\ AlphaBegin(am, k + 1) <= b
    BY <2>1, BeginNext
  <2>3. am[k].end \in Int /\ am[k].begin \in Int
    BY <2>1, RangeType
  <2>4. t <= AlphaBegin(am, k) + am[k].end - am[k].begin
    OBVIOUS
  <2>5. b <= t /\ t \in Int
    BY <1>1, <1>2, <1>3
  <2> HIDE DEF b, t
  <2>6. AlphaBegin(am, k + 1) \in Int /\ t < AlphaBegin(am, k + 1)
    BY <2>2, <2>3, <2>4, <2>5, SMTT(60)
  <2> QED BY <1>3, <2>2, <2>5, <2>6
<1>7. (CHOOSE k \in fits : \A l \in fits : k <= l) = i
  <2>1. \A k \in fits : (\A l \in fits : k <= l) => k = i
    <3>1. \A k \in fits : k \in Int
      BY <1>4
    <3> HIDE DEF fits
    <3>2. i \in Int
      BY <1>5, <3>1
    <3> QED BY <1>5, <1>6, <3>1, <3>2
  <2> HIDE DEF fits
  <2> QED BY <1>5, <1>6, <2>1
<1>8. t # 0 /\ fits # {}
  BY <1>1, <1>2, <1>3, <1>5, SMTT(60)
<1>9. alpha_map_trie_to_char(am, t) = am[i].begin + t - b
  <2> HIDE DEF t
  <2> QED BY <1>7, <1>8 DEF alpha_map_trie_to_char
<1>10. am[i].begin + t - b = c
  BY <1>1, <1>2, <1>3
<1> QED BY <1>9, <1>10

\* Every code up to the number of characters is the code of one of them.
LEMMA CodesReach ==
  ASSUME NEW am, InOrder(am), Cardinality(HeldBefore(am, Len(am) + 1)) < TRIE_CHAR_MAX,
         NEW t \in 1 .. Cardinality(HeldBefore(am, Len(am) + 1))
  PROVE  \E i \in 1 .. Len(am) : \E c : Within(am[i], c) /\ t = AlphaBegin(am, i) + c - am[i].begin
<1> DEFINE n == Len(am)
           B(l) == AlphaBegin(am, l)
           T == {l \in 1 .. n : t < B(l + 1)}
<1>1. n \in Nat /\ n + 1 \in 1 .. n + 1 /\ 1 \in 1 .. n + 1
  BY DEF InOrder
<1>2. B(n + 1) = 1 + Cardinality(HeldBefore(am, n + 1)) /\ B(1) = 1 + Cardinality(HeldBefore(am, 1))
  BY <1>1, BeginCounts
<1>3. HeldBefore(am, 1) = {}
  BY DEF HeldBefore
<1>4. Cardinality(HeldBefore(am, n + 1)) \in Nat /\ Cardinality(HeldBefore(am, 1)) = 0
  BY <1>1, <1>3, HeldFinite, FS_EmptySet
<1>5. B(1) = 1 /\ t < B(n + 1) /\ t \in Nat /\ 1 <= t
  <2> HIDE DEF B
  <2> QED BY <1>2, <1>4
<1>6. n \in T
  <2>1. n # 0
    <3> HIDE DEF B
    <3>1. ASSUME n = 0 PROVE B(n + 1) = B(1)
      BY <3>1
    <3> QED BY <1>5, <3>1
  <2> QED BY <1>1, <1>5, <2>1
<1>7. T \in SUBSET Nat
  OBVIOUS
<1>8. PICK i \in T : \A l \in T : i <= l
  <2> HIDE DEF T
  <2> QED BY <1>6, <1>7, LeastNatural
<1>9. i \in 1 .. n /\ t < B(i + 1)
  OBVIOUS
<1>10. B(i) \in Nat /\ B(i + 1) = B(i) + am[i].end - am[i].begin + 1
  BY <1>9, BeginNext
<1>11. B(i) <= t
  <2>1. CASE i = 1
    BY <1>5, <2>1
  <2>2. CASE i # 1
    <3>1. i - 1 \in 1 .. n /\ ~(i <= i - 1) /\ i - 1 + 1 = i
      BY <1>1, <1>9, <2>2
    <3>2. i - 1 \notin T
      BY <1>8, <3>1
    <3>3. ~(t < B(i))
      BY <3>1, <3>2
    <3> QED BY <1>5, <1>10, <3>3
  <2> QED BY <2>1, <2>2
<1>12. am[i].begin \in Int /\ am[i].end \in Int
  BY <1>9, RangeType
<1> DEFINE c == am[i].begin + t - B(i)
<1> HIDE DEF B
<1>13. c \in Int /\ am[i].begin <= c /\ c <= am[i].end /\ t = B(i) + c - am[i].begin
  BY <1>5, <1>9, <1>10, <1>11, <1>12, SMTT(60)
<1> HIDE DEF c
<1>14. Within(am[i], c)
  BY <1>13 DEF Within
<1> QED BY <1>9, <1>13, <1>14 DEF B

\* The codes of an alphabet of fewer than TRIE_CHAR_MAX characters, in a state in which the
\* map is in order and holds the characters added.
LEMMA CodesAreExact ==
  ASSUME AlphaInv, Cardinality(added) < TRIE_CHAR_MAX
  PROVE  CodesExact
<1>0. AlphaInv /\ Cardinality(added) < TRIE_CHAR_MAX
  OBVIOUS
<1> DEFINE n == Len(alpha_map)
           B(i) == AlphaBegin(alpha_map, i)
           Code(c) == alpha_map_char_to_trie(alpha_map, c)
           Size == Cardinality(added)
<1>1. InOrder(alpha_map) /\ n \in Nat /\ DOMAIN alpha_map = 1 .. n
  BY <1>0 DEF AlphaInv, InOrder
<1>2. HeldBefore(alpha_map, n + 1) = added
  <2>1. n + 1 - 1 = n
    BY <1>1
  <2>2. ASSUME NEW c PROVE c \in HeldBefore(alpha_map, n + 1) <=> c \in added
    BY <1>0, <1>1, <2>1 DEF AlphaInv, HeldBefore, Holds, Within
  <2> QED BY <2>2
<1>3. Cardinality(HeldBefore(alpha_map, n + 1)) < TRIE_CHAR_MAX
  BY <1>0, <1>2
<1>4. Size \in Nat /\ B(n + 1) = 1 + Size
  BY <1>1, <1>2, <1>3, HeldFinite, BeginCounts
<1>5. ASSUME NEW c \in added
      PROVE  \E i \in 1 .. n : Within(alpha_map[i], c)
  BY <1>0, <1>1 DEF AlphaInv, Holds
<1>6. ASSUME NEW i \in 1 .. n, NEW c, Within(alpha_map[i], c)
      PROVE  /\ Code(c) = B(i) + c - alpha_map[i].begin
             /\ B(i) <= Code(c) /\ Code(c) < B(i + 1)
             /\ B(i) \in Nat /\ 1 <= B(i) /\ B(i + 1) \in Nat /\ Code(c) \in Int
             /\ B(i + 1) <= 1 + Size
             /\ alpha_map_trie_to_char(alpha_map, Code(c)) = c
  <2>1. /\ Code(c) = B(i) + c - alpha_map[i].begin
        /\ B(i) <= Code(c) /\ Code(c) < B(i + 1)
    BY <1>1, <1>3, <1>6, CodeOfMember
  <2>2. B(i) \in Nat /\ 1 <= B(i)
    BY <1>1, <1>3, BeginNext
  <2>3. i + 1 \in 1 .. n + 1 /\ n + 1 \in i + 1 .. n + 1
    BY <1>1
  <2>4. B(i + 1) <= B(n + 1)
    BY <1>1, <1>3, <2>3, BeginNext
  <2>5. B(i + 1) \in Nat
    <3>1. B(i + 1) = 1 + Cardinality(HeldBefore(alpha_map, i + 1))
      BY <1>1, <1>3, <2>3, BeginCounts
    <3>2. Cardinality(HeldBefore(alpha_map, i + 1)) \in Nat
      BY <1>1, <2>3, HeldFinite
    <3> HIDE DEF B
    <3> QED BY <3>1, <3>2
  <2>6. alpha_map_trie_to_char(alpha_map, Code(c)) = c
    BY <1>1, <1>3, <1>6, <2>1, CharOfCode
  <2>7. alpha_map[i].begin \in Int /\ c \in Int
    BY <1>1, <1>6, RangeType DEF Within
  <2>8. Code(c) \in Int
    BY <2>1, <2>2, <2>7
  <2>9. B(i + 1) <= 1 + Size
    BY <1>4, <2>4
  <2> HIDE DEF B, Code, Size
  <2> QED BY <2>1, <2>2, <2>5, <2>6, <2>8, <2>9
<1>7. {Code(c) : c \in added} = 1 .. Size
  <2>1. ASSUME NEW c \in added PROVE Code(c) \in 1 .. Size
    <3>1. PICK i \in 1 .. n : Within(alpha_map[i], c)
      BY <1>5
    <3>2. /\ B(i) <= Code(c) /\ Code(c) < B(i + 1) /\ B(i) \in Nat /\ 1 <= B(i)
          /\ B(i + 1) \in Nat /\ Code(c) \in Int /\ B(i + 1) <= 1 + Size
      BY <1>6, <3>1
    <3> HIDE DEF B, Code, Size
    <3> QED BY <1>4, <3>2
  <2>2. ASSUME NEW t \in 1 .. Size PROVE \E c \in added : t = Code(c)
    <3>1. PICK i \in 1 .. n : \E c : Within(alpha_map[i], c) /\ t = B(i) + c - alpha_map[i].begin
      BY <1>1, <1>2, <1>3, CodesReach
    <3>2. PICK c : Within(alpha_map[i], c) /\ t = B(i) + c - alpha_map[i].begin
      BY <3>1
    <3>3. c \in added
      BY <1>0, <1>1, <3>2 DEF AlphaInv, Holds
    <3> QED BY <1>6, <3>2, <3>3
  <2> HIDE DEF Code, Size
  <2> QED BY <2>1, <2>2
<1>8. ASSUME NEW c \in added, NEW d \in added, c < d
      PROVE  Code(c) < Code(d)
  <2>1. PICK i \in 1 .. n : Within(alpha_map[i], c)
    BY <1>5
  <2>2. PICK j \in 1 .. n : Within(alpha_map[j], d)
    BY <1>5
  <2>3. /\ Code(c) = B(i) + c - alpha_map[i].begin /\ Code(c) < B(i + 1) /\ Code(c) \in Int
        /\ B(i) \in Nat /\ B(i + 1) \in Nat
    BY <1>6, <2>1
  <2>4. /\ Code(d) = B(j) + d - alpha_map[j].begin /\ B(j) <= Code(d) /\ Code(d) \in Int
        /\ B(j) \in Nat
    BY <1>6, <2>2
  <2>5. /\ alpha_map[i].begin \in Int /\ alpha_map[j].end \in Int
        /\ c \in Int /\ alpha_map[i].begin <= c
        /\ d \in Int /\ d <= alpha_map[j].end
    BY <1>1, <2>1, <2>2, RangeType DEF Within
  <2>6. CASE i = j
    <3> HIDE DEF B, Code
    <3>1. Code(d) = B(i) + d - alpha_map[i].begin
      BY <2>4, <2>6
    <3> QED BY <1>8, <2>3, <2>5, <3>1, SMTT(60)
  <2>7. CASE i < j
    <3>1. j \in i + 1 .. n + 1
      BY <1>1, <2>7
    <3>2. B(i + 1) <= B(j)
      BY <1>1, <1>3, <3>1, BeginNext
    <3> HIDE DEF B, Code
    <3> QED BY <2>3, <2>4, <3>2
  <2>8. CASE j < i
    <3>1. alpha_map[j].end < alpha_map[i].begin
      BY <1>1, <2>8 DEF InOrder
    <3> QED BY <1>8, <2>5, <3>1
  <2> QED BY <1>1, <2>6, <2>7, <2>8
<1>9. ASSUME NEW c \in added
      PROVE  alpha_map_trie_to_char(alpha_map, Code(c)) = c
  BY <1>5, <1>6
<1>10. ASSUME NEW c \in AlphaChars \ added
       PROVE  Code(c) = TRIE_CHAR_MAX
  <2> DEFINE I == {l \in 1 .. Len(alpha_map) :
                     alpha_map[l].begin <= c /\ c <= alpha_map[l].end}
  <2>1. c \in Int /\ c # 0
    BY DEF AlphaChars
  <2>2. \A l \in I : Within(alpha_map[l], c)
    BY <2>1 DEF Within
  <2>3. I = {}
    BY <1>0, <1>1, <2>2 DEF AlphaInv, Holds
  <2> HIDE DEF I
  <2>4. SelectInSeq(alpha_map, LAMBDA r : r.begin <= c /\ c <= r.end)
          = IF I # {} THEN Min(I) ELSE 0
    BY DEF SelectInSeq, I
  <2> QED BY <2>1, <2>3, <2>4 DEF alpha_map_char_to_trie
<1> QED BY <1>7, <1>8, <1>9, <1>10 DEF CodesExact

\* An alphabet of fewer than TRIE_CHAR_MAX characters, whatever ranges it was added in, is
\* numbered through from 1 in order; decoding undoes encoding; and every other character
\* gets the one code no member has (alpha_map_char_to_trie, alpha_map_trie_to_char).
THEOREM CodesStayExact == AlphaSpec => [](Cardinality(added) < TRIE_CHAR_MAX => CodesExact)
<1>1. AlphaInv => (Cardinality(added) < TRIE_CHAR_MAX => CodesExact)
  BY CodesAreExact
<1> QED BY <1>1, AlphaInvInit, AlphaInvStep, PTL DEF AlphaSpec
=============================================================================
