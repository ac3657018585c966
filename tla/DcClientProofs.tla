--------------------------- MODULE DcClientProofs ---------------------------
(***************************************************************************)
(* One call of dns_search, for every buffer of names, every set of         *)
(* answers, every way its replies arrive in pieces and every point at      *)
(* which its connection breaks: nothing is written past the reply buffer,  *)
(* no domain gets another one's address, and a call that succeeds passes   *)
(* on what the server answered - all of it unless the first loop reads     *)
(* into the second reply.                                                  *)
(***************************************************************************)
EXTENDS DcClient, NaturalLemmas, FiniteSetTheorems, SequenceTheorems

Words == [domain : Domains, spelling : Spellings]

(***************************************************************************)
(* The positions of a set, in order                                        *)
(***************************************************************************)

\* Sequence s has the members of T, the smaller ones first.
InOrderIs(s, T) == /\ s \in Seq(T)
                   /\ \A i \in T : \E k \in 1 .. Len(s) : s[k] = i
                   /\ \A j, k \in 1 .. Len(s) : j < k => s[j] < s[k]
                   /\ IsFiniteSet(T) /\ Len(s) = Cardinality(T)

\* A larger number goes to the end.
LEMMA InOrderNext ==
  ASSUME NEW k \in Nat, NEW T \in SUBSET (0 .. k - 1), NEW s, InOrderIs(s, T)
  PROVE  InOrderIs(Append(s, k), T \cup {k})
<1> DEFINE U == T \cup {k}
           a == Append(s, k)
<1>1. s \in Seq(U) /\ k \in U /\ k \notin T
  <2>1. s \in Seq(T) /\ T \subseteq U
    BY DEF InOrderIs
  <2> QED BY <2>1, SeqMonotonic
<1>2. /\ a \in Seq(U)
      /\ Len(a) = Len(s) + 1
      /\ \A i \in 1 .. Len(s) : a[i] = s[i]
      /\ a[Len(s) + 1] = k
  BY <1>1, AppendProperties
<1>3. Len(s) \in Nat /\ \A i \in 1 .. Len(s) : s[i] \in T
  BY DEF InOrderIs
<1> HIDE DEF a
<1>4. ASSUME NEW i \in U PROVE \E j \in 1 .. Len(a) : a[j] = i
  <2>1. CASE i = k
    <3>1. Len(s) + 1 \in 1 .. Len(a)
      BY <1>2, <1>3
    <3> QED BY <1>2, <2>1, <3>1
  <2>2. CASE i # k
    <3>1. PICK j \in 1 .. Len(s) : s[j] = i
      BY <2>2 DEF InOrderIs
    <3>2. j \in 1 .. Len(a) /\ a[j] = i
      BY <1>2, <1>3, <3>1
    <3> QED BY <3>2
  <2> QED BY <2>1, <2>2
<1>5. ASSUME NEW i \in 1 .. Len(a), NEW j \in 1 .. Len(a), i < j PROVE a[i] < a[j]
  <2>1. i \in 1 .. Len(s) /\ (j \in 1 .. Len(s) \/ j = Len(s) + 1)
    BY <1>2, <1>3, <1>5
  <2>2. CASE j \in 1 .. Len(s)
    BY <1>2, <1>5, <2>1, <2>2 DEF InOrderIs
  <2>3. CASE j = Len(s) + 1
    <3>1. s[i] \in 0 .. k - 1
      BY <1>3, <2>1
    <3>2. a[i] = s[i] /\ a[j] = k
      BY <1>2, <2>1, <2>3
    <3> QED BY <3>1, <3>2
  <2> QED BY <2>1, <2>2, <2>3
<1>6. IsFiniteSet(U) /\ Cardinality(U) = Cardinality(T) + 1
  <2>1. IsFiniteSet(T) /\ k \notin T
    BY <1>1 DEF InOrderIs
  <2> QED BY <2>1, FS_AddElement
<1>7. Len(a) = Cardinality(U)
  BY <1>2, <1>6 DEF InOrderIs
<1> QED BY <1>2, <1>4, <1>5, <1>6, <1>7 DEF InOrderIs, a

Below(S, k) == {i \in S : i < k}

\* InOrder lists the members of its set.
LEMMA InOrderLists ==
  ASSUME NEW n \in Nat, NEW S \in SUBSET (0 .. n - 1)
  PROVE  InOrderIs(InOrder(n, S), S)
<1> DEFINE upto == CHOOSE f : f = [k \in 0 .. n |-> IF k = 0 THEN <<>>
                                     ELSE IF k - 1 \in S THEN Append(f[k - 1], k - 1)
                                     ELSE f[k - 1]]
           V == Seq(Nat)
           F == [kv \in Nat \X V |-> IF kv[1] - 1 \in S THEN Append(kv[2], kv[1] - 1) ELSE kv[2]]
<1>1. InOrder(n, S) = upto[n]
  BY DEF InOrder
<1>2. \E f : Repeats(f, n, V, <<>>, F)
  <2>1. <<>> \in V
    OBVIOUS
  <2>2. F \in [Nat \X V -> V]
    <3>1. ASSUME NEW k \in Nat, NEW s \in V PROVE (IF k - 1 \in S THEN Append(s, k - 1) ELSE s) \in V
      <4>1. k - 1 \in S => k - 1 \in Nat
        OBVIOUS
      <4> QED BY <4>1
    <3> QED BY <3>1
  <2> HIDE DEF F, V
  <2> QED BY <2>1, <2>2, Recursion
<1>3. PICK f : Repeats(f, n, V, <<>>, F)
  BY <1>2
<1>4. f = [k \in 0 .. n |-> IF k = 0 THEN <<>>
                            ELSE IF k - 1 \in S THEN Append(f[k - 1], k - 1)
                            ELSE f[k - 1]]
  <2>1. ASSUME NEW k \in 0 .. n, k # 0
        PROVE  f[k] = IF k - 1 \in S THEN Append(f[k - 1], k - 1) ELSE f[k - 1]
    <3>1. k \in 1 .. n /\ k - 1 \in 0 .. n /\ k \in Nat
      BY <2>1
    <3>2. <<k, f[k - 1]>> \in Nat \X V
      <4> HIDE DEF V
      <4> QED BY <1>3, <3>1 DEF Repeats
    <3>3. f[k] = F[<<k, f[k - 1]>>]
      <4> HIDE DEF F, V
      <4> QED BY <1>3, <3>1, SMTT(60) DEF Repeats
    <3> HIDE DEF V
    <3> QED BY <3>2, <3>3
  <2> HIDE DEF F, V
  <2> QED BY <1>3, <2>1 DEF Repeats
<1>5. upto = [k \in 0 .. n |-> IF k = 0 THEN <<>>
                               ELSE IF k - 1 \in S THEN Append(upto[k - 1], k - 1)
                               ELSE upto[k - 1]]
  BY <1>4
<1> HIDE DEF upto, F, V
<1> DEFINE P(k) == InOrderIs(upto[k], Below(S, k))
           G == {k \in 0 .. n : P(k)}
<1>6. P(0)
  <2>1. upto[0] = <<>>
    BY <1>5
  <2>2. Below(S, 0) = {}
    <3>1. \A i \in S : ~(i < 0)
      OBVIOUS
    <3> QED BY <3>1 DEF Below
  <2>3. InOrderIs(<<>>, {})
    BY FS_EmptySet DEF InOrderIs
  <2> QED BY <2>1, <2>2, <2>3
<1>7. ASSUME NEW k \in 1 .. n, P(k - 1) PROVE P(k)
  <2> DEFINE T == Below(S, k - 1)
             j == k - 1
             s == upto[k - 1]
  <2>1. j \in Nat /\ T \in SUBSET (0 .. j - 1) /\ InOrderIs(s, T)
    <3>1. \A i \in S : i < k - 1 => i \in 0 .. (k - 1) - 1
      OBVIOUS
    <3>2. T \in SUBSET (0 .. j - 1)
      BY <3>1 DEF Below
    <3> QED BY <1>7, <3>2
  <2>2. upto[k] = IF j \in S THEN Append(s, j) ELSE s
    <3>1. k \in 0 .. n /\ k # 0
      OBVIOUS
    <3> QED BY <1>5, <3>1
  <2>3. Below(S, k) = IF j \in S THEN T \cup {j} ELSE T
    <3>1. \A i \in S : i < k <=> i < k - 1 \/ i = k - 1
      OBVIOUS
    <3> QED BY <3>1 DEF Below
  <2>4. InOrderIs(Append(s, j), T \cup {j})
    <3> HIDE DEF j, T, s
    <3> QED BY <2>1, InOrderNext
  <2> HIDE DEF j, T, s
  <2> QED BY <2>1, <2>2, <2>3, <2>4
<1> HIDE DEF P
<1>8. \A k \in 0 .. n : k \in G
  <2>1. 0 \in G /\ \A k \in 1 .. n : k - 1 \in G => k \in G
    BY <1>6, <1>7
  <2> HIDE DEF G
  <2> QED BY <2>1, UpToInduction
<1>9. InOrderIs(upto[n], Below(S, n))
  BY <1>8 DEF P
<1>10. Below(S, n) = S
  <2>1. \A i \in S : i < n
    OBVIOUS
  <2> QED BY <2>1 DEF Below
<1> QED BY <1>1, <1>9, <1>10

(***************************************************************************)
(* Where the domains of a buffer start                                     *)
(***************************************************************************)

\* An offset is a number.
LEMMA OffsetType ==
  ASSUME NEW b \in Seq(Words), NEW i \in 0 .. Len(b)
  PROVE  Offset(b, i) \in Nat
<1> DEFINE start == CHOOSE f : f = [k \in 0 .. i |-> IF k = 0 THEN 0
                                       ELSE f[k - 1] + Length[b[k].domain] + 1]
           step == [k \in Nat |-> IF k \in 1 .. i THEN Length[b[k].domain] + 1 ELSE 0]
           F == [kv \in Nat \X Nat |-> kv[2] + step[kv[1]]]
<1>1. Offset(b, i) = start[i]
  BY DEF Offset
<1>2. ASSUME NEW k \in 1 .. i PROVE Length[b[k].domain] \in Nat
  <2>1. k \in 1 .. Len(b)
    OBVIOUS
  <2>2. b[k] \in Words
    BY <2>1
  <2> QED BY <2>2, ClientAssumption DEF Words
<1>3. \A k \in Nat : step[k] \in Nat
  <2> SUFFICES ASSUME NEW k \in Nat PROVE step[k] \in Nat
    OBVIOUS
  <2>1. CASE k \in 1 .. i
    <3>1. Length[b[k].domain] \in Nat
      BY <1>2, <2>1
    <3> QED BY <2>1, <3>1
  <2>2. CASE k \notin 1 .. i
    BY <2>2
  <2> QED BY <2>1, <2>2
<1>4. F \in [Nat \X Nat -> Nat]
  <2> HIDE DEF step
  <2>1. ASSUME NEW k \in Nat, NEW v \in Nat PROVE v + step[k] \in Nat
    BY <1>3
  <2> QED BY <2>1
<1>5. PICK f : Repeats(f, i, Nat, 0, F)
  <2> HIDE DEF F
  <2>1. i \in Nat /\ 0 \in Nat
    OBVIOUS
  <2> QED BY <1>4, <2>1, Recursion
<1>6. f = [k \in 0 .. i |-> IF k = 0 THEN 0 ELSE f[k - 1] + Length[b[k].domain] + 1]
  <2>1. ASSUME NEW k \in 0 .. i, k # 0 PROVE f[k] = f[k - 1] + Length[b[k].domain] + 1
    <3>1. k \in 1 .. i /\ k - 1 \in 0 .. i /\ k \in Nat
      BY <2>1
    <3>2. f[k - 1] \in Nat /\ f[k] = F[<<k, f[k - 1]>>]
      <4> HIDE DEF F
      <4> QED BY <1>5, <3>1 DEF Repeats
    <3>3. F[<<k, f[k - 1]>>] = f[k - 1] + step[k]
      <4> HIDE DEF step
      <4> QED BY <3>1, <3>2
    <3>4. step[k] = Length[b[k].domain] + 1 /\ Length[b[k].domain] \in Nat
      BY <1>2, <3>1
    <3> HIDE DEF F, step
    <3> DEFINE x == f[k - 1]
               l == Length[b[k].domain]
    <3>5. x + (l + 1) = x + l + 1
      <4>1. x \in Nat /\ l \in Nat
        BY <3>2, <3>4
      <4> HIDE DEF x, l
      <4> QED BY <4>1
    <3>6. f[k] = x + (l + 1)
      <4> HIDE DEF x, l
      <4> QED BY <3>2, <3>3, <3>4 DEF x, l
    <3> QED BY <3>5, <3>6
  <2> HIDE DEF F
  <2>2. f \in [0 .. i -> Nat] /\ f[0] = 0
    BY <1>5 DEF Repeats
  <2> QED BY <2>1, <2>2
<1>7. start = [k \in 0 .. i |-> IF k = 0 THEN 0 ELSE start[k - 1] + Length[b[k].domain] + 1]
  BY <1>6
<1> HIDE DEF start
<1> DEFINE G == {k \in 0 .. i : start[k] \in Nat}
<1>8. 0 \in G
  BY <1>7
<1>9. ASSUME NEW k \in 1 .. i, k - 1 \in G PROVE k \in G
  <2>1. k \in 0 .. i /\ k # 0 /\ start[k - 1] \in Nat
    BY <1>9
  <2>2. start[k] = start[k - 1] + Length[b[k].domain] + 1
    BY <1>7, <2>1
  <2>3. Length[b[k].domain] \in Nat
    BY <1>2
  <2> QED BY <2>1, <2>2, <2>3
<1>10. \A k \in 0 .. i : k \in G
  <2> HIDE DEF G
  <2> QED BY <1>8, <1>9, UpToInduction, SMTT(60)
<1>11. i \in 0 .. i
  OBVIOUS
<1> QED BY <1>1, <1>10, <1>11

\* Capitals do not move what follows them.
LEMMA OffsetLowered ==
  ASSUME NEW b \in Seq(Words), NEW i \in 0 .. Len(b)
  PROVE  Offset(Lowered(b), i) = Offset(b, i)
<1>1. \A k \in 1 .. i : Length[Lowered(b)[k].domain] = Length[b[k].domain]
  <2> SUFFICES ASSUME NEW k \in 1 .. i PROVE Lowered(b)[k].domain = b[k].domain
    OBVIOUS
  <2>1. k \in 1 .. Len(b) /\ b[k] \in Words
    OBVIOUS
  <2>2. [b[k] EXCEPT !.spelling = "lower"].domain = b[k].domain
    BY <2>1 DEF Words
  <2> QED BY <2>1, <2>2 DEF Lowered
<1>2. ASSUME NEW f
      PROVE  [k \in 0 .. i |-> IF k = 0 THEN 0 ELSE f[k - 1] + Length[Lowered(b)[k].domain] + 1]
               = [k \in 0 .. i |-> IF k = 0 THEN 0 ELSE f[k - 1] + Length[b[k].domain] + 1]
  <2>1. \A k \in 0 .. i : k # 0 => k \in 1 .. i
    OBVIOUS
  <2> QED BY <1>1, <2>1
<1> QED BY <1>2 DEF Offset

\* The buffer keeps its shape, and the index table stays that of the buffer.
LEMMA LoweredShape ==
  ASSUME NEW b \in Seq(Words)
  PROVE  /\ Lowered(b) \in Seq(Words)
         /\ Len(Lowered(b)) = Len(b)
         /\ \A i \in 1 .. Len(b) : Lowered(b)[i].domain = b[i].domain
         /\ Index(Lowered(b)) = Index(b)
<1>1. \A i \in 1 .. Len(b) : Lowered(b)[i] \in Words /\ Lowered(b)[i].domain = b[i].domain
  <2> SUFFICES ASSUME NEW i \in 1 .. Len(b)
               PROVE  Lowered(b)[i] \in Words /\ Lowered(b)[i].domain = b[i].domain
    OBVIOUS
  <2>1. b[i] \in Words
    OBVIOUS
  <2>2. /\ [b[i] EXCEPT !.spelling = "lower"] \in Words
        /\ [b[i] EXCEPT !.spelling = "lower"].domain = b[i].domain
    BY <2>1 DEF Words, Spellings
  <2> QED BY <2>1, <2>2 DEF Lowered
<1>2. Lowered(b) = [i \in 1 .. Len(b) |-> Lowered(b)[i]]
  BY DEF Lowered
<1>3. Lowered(b) \in [1 .. Len(b) -> Words] /\ Len(b) \in Nat
  <2> DEFINE l == Lowered(b)
  <2>1. l = [i \in 1 .. Len(b) |-> l[i]] /\ \A i \in 1 .. Len(b) : l[i] \in Words
    BY <1>1, <1>2
  <2> HIDE DEF l
  <2>2. l \in [1 .. Len(b) -> Words]
    BY <2>1
  <2> QED BY <2>2 DEF l
<1>4. Lowered(b) \in Seq(Words) /\ Len(Lowered(b)) = Len(b)
  BY <1>3
<1>5. Index(Lowered(b)) = Index(b)
  <2>1. ASSUME NEW i \in 0 .. Len(b) - 1 PROVE Offset(Lowered(b), i) = Offset(b, i)
    <3>1. i \in 0 .. Len(b)
      BY <1>3
    <3> QED BY <3>1, OffsetLowered
  <2> QED BY <1>4, <2>1 DEF Index
<1> QED BY <1>1, <1>4, <1>5

(***************************************************************************)
(* Words one after the other                                               *)
(***************************************************************************)

\* One row more.
LEMMA NextRow ==
  ASSUME NEW a \in Nat, NEW w \in Nat
  PROVE  (a + 1) * w = a * w + w /\ a * w \in Nat
OBVIOUS

\* More rows are longer.
LEMMA RowsMonotone ==
  ASSUME NEW a \in Nat, NEW b \in Nat, NEW w \in Nat, a <= b
  PROVE  a * w <= b * w
<1>1. b = a + (b - a) /\ b - a \in Nat
  OBVIOUS
<1>2. b * w = a * w + (b - a) * w /\ (b - a) * w \in Nat /\ a * w \in Nat /\ b * w \in Nat
  BY <1>1
<1> QED BY <1>2

\* Sequence s is the first k of the sequences seqs, of w elements each, in a row.
Rows(s, S, seqs, k, w) ==
  /\ s \in Seq(S)
  /\ Len(s) = k * w
  /\ \A m \in 1 .. k : \A j \in 1 .. w : s[(m - 1) * w + j] = seqs[m][j]

\* One sequence more in the row.
LEMMA RowsNext ==
  ASSUME NEW S, NEW seqs, NEW w \in Nat, NEW k \in Nat, k > 0, NEW l, l = k - 1,
         NEW s, Rows(s, S, seqs, l, w), seqs[k] \in Seq(S), Len(seqs[k]) = w
  PROVE  Rows(s \o seqs[k], S, seqs, k, w)
<1> DEFINE t == seqs[k]
           u == s \o t
           p == (k - 1) * w
<1>1. p \in Nat /\ k * w = p + w
  <2>1. k - 1 \in Nat /\ (k - 1) + 1 = k
    OBVIOUS
  <2> QED BY <2>1, NextRow
<1>2. /\ s \in Seq(S) /\ Len(s) = p
      /\ \A m \in 1 .. k - 1 : \A j \in 1 .. w : s[(m - 1) * w + j] = seqs[m][j]
  BY DEF Rows
<1>3. /\ u \in Seq(S) /\ Len(u) = p + w
      /\ \A i \in 1 .. p + w : u[i] = IF i <= p THEN s[i] ELSE t[i - p]
  <2>1. t \in Seq(S) /\ Len(t) = w
    OBVIOUS
  <2>2. /\ s \o t \in Seq(S) /\ Len(s \o t) = Len(s) + Len(t)
        /\ \A i \in 1 .. Len(s) + Len(t) : (s \o t)[i] = IF i <= Len(s) THEN s[i] ELSE t[i - Len(s)]
    <3> HIDE DEF t, p
    <3> QED BY <1>2, <2>1, ConcatProperties
  <2> HIDE DEF t, p
  <2> QED BY <1>2, <2>1, <2>2
<1> HIDE DEF u
<1>4. ASSUME NEW m \in 1 .. k, NEW j \in 1 .. w PROVE u[(m - 1) * w + j] = seqs[m][j]
  <2>1. CASE m = k
    <3>1. (m - 1) * w + j = p + j
      BY <2>1
    <3> HIDE DEF p
    <3>2. p + j \in 1 .. p + w /\ ~(p + j <= p) /\ (p + j) - p = j
      BY <1>1
    <3> QED BY <1>3, <2>1, <3>1, <3>2
  <2>2. CASE m # k
    <3> DEFINE q == (m - 1) * w
    <3>1. m - 1 \in Nat /\ m \in Nat /\ k - 1 \in Nat /\ m <= k - 1 /\ m \in 1 .. k - 1
          /\ (m - 1) + 1 = m
      BY <2>2
    <3>2. q \in Nat /\ m * w = q + w
      BY <3>1, NextRow
    <3>3. m * w <= p
      BY <3>1, RowsMonotone
    <3>4. q + j \in 1 .. p + w /\ q + j <= p
      <4> DEFINE x == m * w
      <4>1. x = q + w /\ x <= p /\ p \in Nat /\ q \in Nat
        BY <1>1, <3>2, <3>3
      <4> HIDE DEF q, p, x
      <4> QED BY <4>1
    <3>5. u[q + j] = s[q + j]
      <4> HIDE DEF q, p
      <4> QED BY <1>3, <3>4
    <3> QED BY <1>2, <3>1, <3>5
  <2> QED BY <2>1, <2>2
<1> QED BY <1>1, <1>3, <1>4 DEF Rows, u

\* Flattening puts sequences of one length in a row.
LEMMA FlattenRows ==
  ASSUME NEW S, NEW seqs \in Seq(Seq(S)), NEW w \in Nat,
         \A k \in 1 .. Len(seqs) : Len(seqs[k]) = w
  PROVE  Rows(FlattenSeq(seqs), S, seqs, Len(seqs), w)
<1> DEFINE n == Len(seqs)
<1>1. n \in Nat /\ \A k \in 1 .. n : seqs[k] \in Seq(S)
  OBVIOUS
<1>2. CASE n = 0
  <2>1. seqs = <<>> /\ FlattenSeq(seqs) = <<>>
    BY <1>2 DEF FlattenSeq
  <2>2. 0 * w = 0 /\ Len(<<>>) = 0 /\ <<>> \in Seq(S) /\ 1 .. 0 = {}
    OBVIOUS
  <2>3. Rows(<<>>, S, seqs, 0, w)
    BY <2>2 DEF Rows
  <2> QED BY <1>2, <2>1, <2>3
<1>3. CASE n # 0
  <2> DEFINE flat == CHOOSE f : f = [i \in 1 .. n |-> IF i = 1 THEN seqs[i] ELSE f[i - 1] \o seqs[i]]
             V == Seq(S)
             item == [k \in Nat |-> IF k \in 1 .. n THEN seqs[k] ELSE <<>>]
             F == [kv \in Nat \X V |-> kv[2] \o item[kv[1]]]
  <2>1. FlattenSeq(seqs) = flat[n]
    BY <1>3 DEF FlattenSeq
  <2>2. item \in [Nat -> V]
    BY <1>1
  <2>3. F \in [Nat \X V -> V]
    <3> HIDE DEF item
    <3>1. ASSUME NEW k \in Nat, NEW v \in V PROVE v \o item[k] \in V
      BY <2>2
    <3> HIDE DEF V
    <3> QED BY <3>1
  <2>4. PICK f : Repeats(f, n, V, <<>>, F)
    <3> HIDE DEF F, n
    <3>1. <<>> \in V
      OBVIOUS
    <3> HIDE DEF V
    <3> QED BY <1>1, <2>3, <3>1, Recursion
  <2>5. \A k \in 1 .. n : f[k] = f[k - 1] \o seqs[k]
    <3> SUFFICES ASSUME NEW k \in 1 .. n PROVE f[k] = f[k - 1] \o seqs[k]
      OBVIOUS
    <3>1. k \in Nat /\ k - 1 \in 0 .. n /\ item[k] = seqs[k]
      BY <1>1
    <3>2. f[k - 1] \in V /\ f[k] = F[<<k, f[k - 1]>>]
      <4> HIDE DEF F, V, item, n
      <4> QED BY <1>1, <2>4, <3>1 DEF Repeats
    <3>3. F[<<k, f[k - 1]>>] = f[k - 1] \o item[k]
      <4> HIDE DEF item, V
      <4> QED BY <3>1, <3>2
    <3> HIDE DEF F, item
    <3> QED BY <3>1, <3>2, <3>3
  <2>6. f[1] = seqs[1]
    <3>1. 1 \in 1 .. n /\ f[0] = <<>>
      <4> HIDE DEF F, V, n
      <4> QED BY <1>1, <1>3, <2>4 DEF Repeats
    <3>2. f[1] = <<>> \o seqs[1]
      <4>1. f[1] = f[1 - 1] \o seqs[1]
        BY <2>5, <3>1
      <4>2. 1 - 1 = 0
        OBVIOUS
      <4> QED BY <3>1, <4>1, <4>2
    <3>3. seqs[1] \in Seq(S)
      BY <1>1, <3>1
    <3> QED BY <3>2, <3>3, ConcatEmptySeq
  <2> HIDE DEF F, V, item
  <2> DEFINE g == [i \in 1 .. n |-> f[i]]
  <2>7. g = [i \in 1 .. n |-> IF i = 1 THEN seqs[i] ELSE g[i - 1] \o seqs[i]]
    <3>1. ASSUME NEW i \in 1 .. n, i # 1 PROVE g[i - 1] = f[i - 1] /\ f[i] = f[i - 1] \o seqs[i]
      <4>1. i - 1 \in 1 .. n
        BY <3>1
      <4> QED BY <2>5, <4>1
    <3> QED BY <2>6, <3>1
  <2>8. flat = [i \in 1 .. n |-> IF i = 1 THEN seqs[i] ELSE flat[i - 1] \o seqs[i]]
    <3> HIDE DEF g
    <3> QED BY <2>7
  <2> HIDE DEF flat, g
  <2> DEFINE G == {k \in 0 .. n : k = 0 \/ Rows(flat[k], S, seqs, k, w)}
  <2>9. 0 \in G
    BY <1>1
  <2>10. ASSUME NEW k \in 1 .. n, k - 1 \in G PROVE k \in G
    <3>1. seqs[k] \in Seq(S) /\ Len(seqs[k]) = w /\ k \in Nat /\ k > 0
      BY <1>1
    <3>2. CASE k = 1
      <4>1. flat[1] = seqs[1]
        BY <2>8, <3>2
      <4>2. 1 * w = w /\ \A j \in 1 .. w : (1 - 1) * w + j = j
        OBVIOUS
      <4>3. Rows(seqs[1], S, seqs, 1, w)
        BY <3>1, <3>2, <4>2 DEF Rows
      <4> QED BY <3>2, <4>1, <4>3
    <3>3. CASE k # 1
      <4>1. Rows(flat[k - 1], S, seqs, k - 1, w)
        BY <2>10, <3>3
      <4> DEFINE l == k - 1
                 s == flat[l]
                 u == s \o seqs[k]
      <4>2. flat[k] = u
        BY <2>8, <3>3
      <4>3. l = k - 1 /\ Rows(s, S, seqs, l, w)
        BY <4>1
      <4>4. Rows(u, S, seqs, k, w)
        <5> HIDE DEF l, s
        <5> QED BY <3>1, <4>3, RowsNext
      <4> HIDE DEF u
      <4> QED BY <4>2, <4>4
    <3> QED BY <3>2, <3>3
  <2>11. \A k \in 0 .. n : k \in G
    <3> HIDE DEF G, n
    <3> QED BY <1>1, <2>9, <2>10, UpToInduction
  <2>12. n \in 0 .. n
    BY <1>1
  <2> QED BY <1>3, <2>1, <2>11, <2>12
<1> QED BY <1>2, <1>3

(***************************************************************************)
(* The bytes of the replies                                                *)
(***************************************************************************)

Kinds == {"head", "zero", "junk", "FIRST_WITHOUT_ERROR", "FIRST_WITH_ERROR", "SECOND"}
Byte == {<<k>> : k \in Kinds} \cup {<<"ip", ip, k>> : ip \in Answers, k \in 1 .. WORD}
          \cup {<<"number", i>> : i \in Nat}

FirstKind(answers) == IF Misses(answers) = <<>> THEN "FIRST_WITHOUT_ERROR" ELSE "FIRST_WITH_ERROR"

\* The head of a message and the words in it.
LEMMA WordBytes ==
  /\ \A kind \in Kinds : /\ HeadBytes(kind) \in Seq(Byte)
                         /\ Len(HeadBytes(kind)) = HEAD_LENGTH
                         /\ HeadBytes(kind)[HEAD_LENGTH] = <<kind>>
  /\ \A ip \in Answers : /\ IpBytes(ip) \in Seq(Byte)
                         /\ Len(IpBytes(ip)) = WORD
                         /\ \A j \in 1 .. WORD : IpBytes(ip)[j] = <<"ip", ip, j>>
  /\ \A i \in Nat : /\ NumberBytes(i) \in Seq(Byte)
                    /\ Len(NumberBytes(i)) = WORD
<1>1. HEAD_LENGTH \in Nat /\ WORD \in Nat /\ HEAD_LENGTH \in 1 .. HEAD_LENGTH
  BY ClientAssumption
<1>2. ASSUME NEW kind \in Kinds
      PROVE  /\ HeadBytes(kind) \in Seq(Byte)
             /\ Len(HeadBytes(kind)) = HEAD_LENGTH
             /\ HeadBytes(kind)[HEAD_LENGTH] = <<kind>>
  <2>1. <<kind>> \in Byte /\ <<"head">> \in Byte
    BY DEF Byte, Kinds
  <2>2. HeadBytes(kind) \in [1 .. HEAD_LENGTH -> Byte]
    BY <2>1 DEF HeadBytes
  <2>3. HeadBytes(kind)[HEAD_LENGTH] = <<kind>>
    BY <1>1 DEF HeadBytes
  <2> QED BY <1>1, <2>2, <2>3
<1>3. ASSUME NEW ip \in Answers
      PROVE  /\ IpBytes(ip) \in Seq(Byte)
             /\ Len(IpBytes(ip)) = WORD
             /\ \A j \in 1 .. WORD : IpBytes(ip)[j] = <<"ip", ip, j>>
  <2>1. \A j \in 1 .. WORD : <<"ip", ip, j>> \in Byte
    BY DEF Byte
  <2>2. IpBytes(ip) \in [1 .. WORD -> Byte]
    BY <2>1 DEF IpBytes
  <2> QED BY <1>1, <2>2 DEF IpBytes
<1>4. ASSUME NEW i \in Nat
      PROVE  NumberBytes(i) \in Seq(Byte) /\ Len(NumberBytes(i)) = WORD
  <2>1. <<"number", i>> \in Byte /\ ZeroByte \in Byte
    BY DEF Byte, Kinds, ZeroByte
  <2>2. NumberBytes(i) \in [1 .. WORD -> Byte]
    BY <2>1 DEF NumberBytes
  <2> QED BY <1>1, <2>2
<1> QED BY <1>2, <1>3, <1>4

\* Message r is its head and the words behind it, w bytes each.
Message(kind, seqs) == HeadBytes(kind) \o FlattenSeq(seqs)
MessageIs(r, kind, seqs, w) ==
  /\ r \in Seq(Byte)
  /\ Len(r) = HEAD_LENGTH + Len(seqs) * w
  /\ r[HEAD_LENGTH] = <<kind>>
  /\ \A m \in 1 .. Len(seqs) : \A j \in 1 .. w :
       r[HEAD_LENGTH + (m - 1) * w + j] = seqs[m][j]

\* A message is its head and then its records.
LEMMA MessageBytes ==
  ASSUME NEW kind \in Kinds, NEW seqs \in Seq(Seq(Byte)), NEW w \in Nat,
         \A k \in 1 .. Len(seqs) : Len(seqs[k]) = w
  PROVE  MessageIs(Message(kind, seqs), kind, seqs, w)
<1> DEFINE r == Message(kind, seqs)
           h == HeadBytes(kind)
           f == FlattenSeq(seqs)
           n == Len(seqs)
<1>1. h \in Seq(Byte) /\ Len(h) = HEAD_LENGTH /\ h[HEAD_LENGTH] = <<kind>>
  BY WordBytes
<1>2. Rows(f, Byte, seqs, n, w)
  BY FlattenRows
<1>3. HEAD_LENGTH \in Nat /\ HEAD_LENGTH > 0 /\ n \in Nat /\ n * w \in Nat
  <2>1. n \in Nat
    OBVIOUS
  <2> HIDE DEF n
  <2> QED BY <2>1, ClientAssumption
<1>4. f \in Seq(Byte) /\ Len(f) = n * w
  BY <1>2 DEF Rows
<1>5. /\ r \in Seq(Byte) /\ Len(r) = Len(h) + Len(f)
      /\ \A i \in 1 .. Len(h) + Len(f) : r[i] = IF i <= Len(h) THEN h[i] ELSE f[i - Len(h)]
  <2>1. r = h \o f
    BY DEF Message
  <2>2. /\ h \o f \in Seq(Byte) /\ Len(h \o f) = Len(h) + Len(f)
        /\ \A i \in 1 .. Len(h) + Len(f) : (h \o f)[i] = IF i <= Len(h) THEN h[i] ELSE f[i - Len(h)]
    <3> HIDE DEF h, f
    <3> QED BY <1>1, <1>4, ConcatProperties
  <2> HIDE DEF h, f, r
  <2> QED BY <2>1, <2>2
<1> HIDE DEF h, f, n, r
<1>6. Len(r) = HEAD_LENGTH + n * w
  BY <1>1, <1>4, <1>5
<1>7. r[HEAD_LENGTH] = <<kind>>
  <2>1. HEAD_LENGTH \in 1 .. Len(h) + Len(f)
    BY <1>1, <1>3, <1>4
  <2> QED BY <1>1, <1>5, <2>1, <1>3
<1>8. ASSUME NEW m \in 1 .. n, NEW j \in 1 .. w
      PROVE  r[HEAD_LENGTH + (m - 1) * w + j] = seqs[m][j]
  <2> DEFINE q == (m - 1) * w
             x == m * w
             y == n * w
  <2>1. f[q + j] = seqs[m][j]
    BY <1>2 DEF Rows
  <2>2. q \in Nat /\ x = q + w /\ x <= y
    <3>1. m - 1 \in Nat /\ (m - 1) + 1 = m /\ m \in Nat /\ m <= n
      BY <1>3
    <3>2. x = q + w /\ q \in Nat
      <4> DEFINE l == m - 1
      <4>1. l \in Nat /\ l + 1 = m
        BY <3>1
      <4> HIDE DEF l
      <4>2. (l + 1) * w = l * w + w /\ l * w \in Nat
        BY <4>1, NextRow
      <4> QED BY <4>1, <4>2 DEF l
    <3>3. x <= y
      BY <1>3, <3>1, RowsMonotone
    <3> QED BY <3>2, <3>3
  <2>3. y \in Nat /\ Len(f) = y
    BY <1>3, <1>4
  <2> DEFINE i == HEAD_LENGTH + q + j
  <2> HIDE DEF q, x, y
  <2>4. i \in 1 .. Len(h) + Len(f) /\ ~(i <= Len(h)) /\ i - Len(h) = q + j
    BY <1>1, <1>3, <2>2, <2>3
  <2>5. r[i] = f[i - Len(h)]
    <3> HIDE DEF i
    <3> QED BY <1>5, <2>4
  <2>6. r[i] = seqs[m][j]
    <3> HIDE DEF i
    <3> QED BY <2>1, <2>4, <2>5
  <2> QED BY <2>6 DEF q
<1> QED BY <1>5, <1>6, <1>7, <1>8 DEF n, r, MessageIs

\* The first reply.
LEMMA FirstReplyBytes ==
  ASSUME NEW n \in Nat, NEW answers \in [1 .. n -> Answers],
         NEW r, r = FirstReply(answers)
  PROVE  /\ r \in Seq(Byte)
         /\ Len(r) = HEAD_LENGTH + n * WORD
         /\ r[HEAD_LENGTH] = <<FirstKind(answers)>>
         /\ \A i \in 0 .. n - 1 : \A j \in 1 .. WORD :
              r[HEAD_LENGTH + i * WORD + j] = <<"ip", answers[i + 1], j>>
<1> DEFINE seqs == [i \in 1 .. n |-> IpBytes(answers[i])]
           kind == FirstKind(answers)
<1>1. Len(answers) = n
  OBVIOUS
<1>2. r = Message(kind, seqs)
  BY <1>1 DEF FirstReply, FirstKind, Message
<1>3. kind \in Kinds
  BY DEF FirstKind, Kinds
<1>4. \A i \in 1 .. n : /\ seqs[i] \in Seq(Byte) /\ Len(seqs[i]) = WORD
                        /\ \A j \in 1 .. WORD : seqs[i][j] = <<"ip", answers[i], j>>
  <2> SUFFICES ASSUME NEW i \in 1 .. n
               PROVE  /\ IpBytes(answers[i]) \in Seq(Byte) /\ Len(IpBytes(answers[i])) = WORD
                      /\ \A j \in 1 .. WORD : IpBytes(answers[i])[j] = <<"ip", answers[i], j>>
    OBVIOUS
  <2>1. answers[i] \in Answers
    OBVIOUS
  <2> QED BY <2>1, WordBytes
<1>5. seqs \in Seq(Seq(Byte)) /\ Len(seqs) = n
  <2>1. seqs = [i \in 1 .. n |-> seqs[i]]
    OBVIOUS
  <2> HIDE DEF seqs
  <2>2. seqs \in [1 .. n -> Seq(Byte)]
    BY <1>4, <2>1
  <2> QED BY <2>2
<1>6. WORD \in Nat
  BY ClientAssumption
<1> HIDE DEF seqs, kind
<1>7. /\ r \in Seq(Byte)
      /\ Len(r) = HEAD_LENGTH + Len(seqs) * WORD
      /\ r[HEAD_LENGTH] = <<kind>>
      /\ \A m \in 1 .. Len(seqs) : \A j \in 1 .. WORD :
           r[HEAD_LENGTH + (m - 1) * WORD + j] = seqs[m][j]
  <2>1. \A k \in 1 .. Len(seqs) : Len(seqs[k]) = WORD
    BY <1>4, <1>5
  <2>2. MessageIs(r, kind, seqs, WORD)
    BY <1>2, <1>3, <1>5, <1>6, <2>1, MessageBytes
  <2> QED BY <2>2 DEF MessageIs
<1>8. ASSUME NEW i \in 0 .. n - 1, NEW j \in 1 .. WORD
      PROVE  r[HEAD_LENGTH + i * WORD + j] = <<"ip", answers[i + 1], j>>
  <2>1. i + 1 \in 1 .. n /\ (i + 1) - 1 = i
    OBVIOUS
  <2> DEFINE m == i + 1
  <2>2. m \in 1 .. n /\ m - 1 = i
    BY <2>1
  <2> HIDE DEF m
  <2>3. r[HEAD_LENGTH + (m - 1) * WORD + j] = seqs[m][j]
    BY <1>5, <1>7, <2>2
  <2>4. seqs[m][j] = <<"ip", answers[m], j>>
    BY <1>4, <2>2
  <2> QED BY <2>2, <2>3, <2>4 DEF m
<1> QED BY <1>5, <1>7, <1>8 DEF kind

\* Message r has number and address of each of m pairs behind its head.
PairsIs(r, numbers, addresses, m) ==
  /\ r \in Seq(Byte)
  /\ Len(r) = HEAD_LENGTH + m * 2 * WORD
  /\ \A k \in 0 .. m - 1 : \A j \in 1 .. WORD :
       /\ r[HEAD_LENGTH + 2 * k * WORD + j] = NumberBytes(numbers[k + 1])[j]
       /\ r[HEAD_LENGTH + (2 * k + 1) * WORD + j] = <<"ip", addresses[k + 1], j>>

\* The second reply: position and answer of each miss.
LEMMA SecondReplyBytes ==
  ASSUME NEW answers, NEW m \in Nat, Misses(answers) \in [1 .. m -> Nat],
         NEW late \in [1 .. m -> Answers], NEW r, r = SecondReply(answers, late)
  PROVE  PairsIs(r, Misses(answers), late, m)
<1> DEFINE miss == Misses(answers)
           seqs == [k \in 1 .. m |-> NumberBytes(miss[k]) \o IpBytes(late[k])]
           w == WORD + WORD
<1>1. Len(late) = m
  OBVIOUS
<1>2. r = Message("SECOND", seqs)
  BY <1>1 DEF SecondReply, Message
<1>3. "SECOND" \in Kinds
  BY DEF Kinds
<1>4. WORD \in Nat /\ w \in Nat
  BY ClientAssumption
<1>5. \A k \in 1 .. m : /\ seqs[k] \in Seq(Byte) /\ Len(seqs[k]) = w
                        /\ \A j \in 1 .. WORD : seqs[k][j] = NumberBytes(miss[k])[j]
                        /\ \A j \in 1 .. WORD : seqs[k][WORD + j] = <<"ip", late[k], j>>
  <2> SUFFICES ASSUME NEW k \in 1 .. m
               PROVE  /\ seqs[k] \in Seq(Byte) /\ Len(seqs[k]) = w
                      /\ \A j \in 1 .. WORD : seqs[k][j] = NumberBytes(miss[k])[j]
                      /\ \A j \in 1 .. WORD : seqs[k][WORD + j] = <<"ip", late[k], j>>
    OBVIOUS
  <2> DEFINE a == NumberBytes(miss[k])
             b == IpBytes(late[k])
             c == a \o b
  <2>1. miss[k] \in Nat /\ late[k] \in Answers
    OBVIOUS
  <2>2. a \in Seq(Byte) /\ Len(a) = WORD
    <3> HIDE DEF miss
    <3> QED BY <2>1, WordBytes
  <2>3. b \in Seq(Byte) /\ Len(b) = WORD /\ \A j \in 1 .. WORD : b[j] = <<"ip", late[k], j>>
    BY <2>1, WordBytes
  <2>4. seqs[k] = c
    OBVIOUS
  <2>5. /\ c \in Seq(Byte) /\ Len(c) = Len(a) + Len(b)
        /\ \A i \in 1 .. Len(a) + Len(b) : c[i] = IF i <= Len(a) THEN a[i] ELSE b[i - Len(a)]
    <3>1. /\ a \o b \in Seq(Byte) /\ Len(a \o b) = Len(a) + Len(b)
          /\ \A i \in 1 .. Len(a) + Len(b) : (a \o b)[i] = IF i <= Len(a) THEN a[i] ELSE b[i - Len(a)]
      <4> HIDE DEF a, b
      <4> QED BY <2>2, <2>3, ConcatProperties
    <3> HIDE DEF a, b
    <3> QED BY <3>1
  <2> HIDE DEF a, b, c, seqs
  <2>6. \A j \in 1 .. WORD : c[j] = a[j] /\ c[WORD + j] = b[j]
    <3> SUFFICES ASSUME NEW j \in 1 .. WORD PROVE c[j] = a[j] /\ c[WORD + j] = b[j]
      OBVIOUS
    <3>1. j \in 1 .. Len(a) + Len(b) /\ j <= Len(a)
          /\ WORD + j \in 1 .. Len(a) + Len(b) /\ ~(WORD + j <= Len(a)) /\ (WORD + j) - Len(a) = j
      BY <1>4, <2>2, <2>3
    <3> QED BY <2>5, <3>1
  <2> QED BY <2>2, <2>3, <2>4, <2>5, <2>6 DEF a
<1>6. seqs \in Seq(Seq(Byte)) /\ Len(seqs) = m
  <2>1. seqs = [k \in 1 .. m |-> seqs[k]]
    OBVIOUS
  <2> HIDE DEF seqs
  <2>2. seqs \in [1 .. m -> Seq(Byte)]
    BY <1>5, <2>1
  <2> QED BY <2>2
<1> HIDE DEF seqs, w
<1>7. /\ r \in Seq(Byte)
      /\ Len(r) = HEAD_LENGTH + m * w
      /\ \A k \in 1 .. m : \A j \in 1 .. w : r[HEAD_LENGTH + (k - 1) * w + j] = seqs[k][j]
  <2>1. \A k \in 1 .. Len(seqs) : Len(seqs[k]) = w
    BY <1>5, <1>6
  <2>2. MessageIs(r, "SECOND", seqs, w)
    BY <1>2, <1>3, <1>4, <1>6, <2>1, MessageBytes
  <2> QED BY <1>6, <2>2 DEF MessageIs
<1>8. \A k \in Nat : k * w = k * 2 * WORD /\ k * w = 2 * k * WORD
                     /\ (2 * k + 1) * WORD = k * w + WORD /\ k * w \in Nat
  BY <1>4 DEF w
<1>9. ASSUME NEW k \in 0 .. m - 1, NEW j \in 1 .. WORD
      PROVE  /\ r[HEAD_LENGTH + 2 * k * WORD + j] = NumberBytes(miss[k + 1])[j]
             /\ r[HEAD_LENGTH + (2 * k + 1) * WORD + j] = <<"ip", late[k + 1], j>>
  <2> DEFINE l == k + 1
             q == k * w
  <2>1. l \in 1 .. m /\ l - 1 = k /\ k \in Nat
    OBVIOUS
  <2> HIDE DEF l
  <2>2. j \in 1 .. w /\ WORD + j \in 1 .. w
    BY <1>4 DEF w
  <2>3. r[HEAD_LENGTH + q + j] = seqs[l][j] /\ r[HEAD_LENGTH + q + (WORD + j)] = seqs[l][WORD + j]
    BY <1>7, <2>1, <2>2
  <2>4. HEAD_LENGTH + (q + WORD) + j = HEAD_LENGTH + q + (WORD + j)
    <3>1. q \in Nat /\ HEAD_LENGTH \in Nat
      BY <1>8, <2>1, ClientAssumption
    <3> HIDE DEF q
    <3> QED BY <1>4, <3>1
  <2>5. 2 * k * WORD = q /\ (2 * k + 1) * WORD = q + WORD
    BY <1>8, <2>1
  <2>6. seqs[l][j] = NumberBytes(miss[l])[j] /\ seqs[l][WORD + j] = <<"ip", late[l], j>>
    BY <1>5, <2>1
  <2> HIDE DEF q
  <2> QED BY <2>3, <2>4, <2>5, <2>6 DEF l
<1>10. HEAD_LENGTH + m * 2 * WORD = HEAD_LENGTH + m * w
  BY <1>8
<1> QED BY <1>7, <1>9, <1>10 DEF PairsIs

(***************************************************************************)
(* The inductive invariant                                                 *)
(***************************************************************************)

\* What the call has at each point of it.
CallShape ==
  /\ pc \in {"call", "connect", "writev", "sendmsg", "read1", "first", "read2", "second",
             "recvfrom", "reply", "done", "dead"}
  /\ buf \in Seq(Words) /\ buf # <<>>
  /\ index \in {<<>>, Index(buf)}
  /\ pc \notin {"call", "done"} => index = Index(buf)
  /\ misscount \in 0 .. nbuf
  /\ result \in {"none", "SUCCESS", "NOT_IN_SET", "CONNECT_WRONG", "OTHER_WRONG"}
  /\ result # "none" => pc = "done"
  /\ held \subseteq {"sockfd", "headbuf", "retbuf"}
  /\ pc \in {"connect", "writev", "read1", "first", "read2", "second"} => IsTcp
  /\ pc \in {"sendmsg", "recvfrom", "reply"} => ~IsTcp
  /\ pc \in {"call", "connect", "writev", "sendmsg"} =>
       ~asked /\ count = 0 /\ swallowed = 0
  /\ pc \in {"call", "connect", "writev", "sendmsg", "read1", "first", "recvfrom", "reply"} =>
       calls = <<>>
  /\ pc \in {"read1", "first", "read2", "second", "recvfrom", "reply"} =>
       asked /\ DOMAIN retbuf = 0 .. RetSize - 1
  /\ pc = "read1" => swallowed = 0

\* What the server has answered, and what the network has of it.
NetShape ==
  /\ {asked, eof, cut, lost} \subseteq BOOLEAN
  /\ count \in Int /\ (IsTcp => count \in Nat) /\ swallowed \in 0 .. FirstLength
  /\ first \in {<<>>} \cup [1 .. nbuf -> Answers]
  /\ first # <<>> => \A i \in 1 .. nbuf : first[i] \in {buf[i].domain, DNS_ERROR, CACHE_MISS}
  /\ second # <<>> =>
       /\ first # <<>> /\ IsTcp /\ Misses(first) # <<>>
       /\ second \in [1 .. Len(Misses(first)) -> Answers]
       /\ \A k \in 1 .. Len(Misses(first)) :
            second[k] \in {buf[Misses(first)[k] + 1].domain, DNS_ERROR}
  /\ ~asked => first = <<>> /\ ~cut /\ ~lost
  /\ first = <<>> => second = <<>> /\ stream = <<>> /\ datagram = {} /\ (eof => cut)
  /\ IsTcp => datagram = {} /\ ~lost
  /\ ~IsTcp => stream = <<>> /\ ~eof /\ ~cut /\ swallowed = 0
  /\ IsTcp /\ ~cut /\ first # <<>> => (eof <=> Misses(first) = <<>> \/ second # <<>>)
  /\ datagram \subseteq {FirstReply(first)}
  /\ stream \in Seq(Byte)

First == IF first = <<>> THEN <<>> ELSE FirstReply(first)
Second == IF second = <<>> THEN <<>> ELSE SecondReply(first, second)
Sent == First \o Second

\* The stream goes on behind the first count bytes of sent, all of it while the
\* connection holds; and retbuf has those bytes and filler behind them.
RestOf(sent) == /\ count + Len(stream) <= Len(sent)
                /\ ~cut => count + Len(stream) = Len(sent)
                /\ \A i \in 1 .. Len(stream) : stream[i] = sent[count + i]
Has(sent, n, filler) == \A o \in DOMAIN retbuf : retbuf[o] = IF o < n THEN sent[o + 1] ELSE filler

\* The first loop, as long as it has not read into the second reply: it ends with the
\* whole first reply or with a broken connection.
ReadingFirst ==
  pc \in {"read1", "first"} /\ swallowed = 0 =>
    /\ RestOf(Sent) /\ Has(Sent, count, <<"junk">>)
    /\ pc = "read1" => count < FirstLength
    /\ pc = "first" => count = FirstLength \/ (cut /\ stream = <<>> /\ count < FirstLength)

\* The second loop, after such a first one.
ReadingSecond ==
  pc \in {"read2", "second"} /\ swallowed = 0 =>
    /\ RestOf(Second) /\ Has(Second, count, ZeroByte)
    /\ ~cut => first # <<>> /\ Misses(first) # <<>> /\ misscount = Len(Misses(first))
    /\ pc = "second" /\ ~cut => second # <<>> /\ count = Len(Second)

\* The calls made before the second reply: one for each domain that is no miss.
Calls == Nat \X (Answers \cup {Zero, Garbled})
FirstCallsMade ==
  pc \in {"read2", "second"} =>
    /\ calls \in Seq(Calls)
    /\ swallowed = 0 /\ ~cut =>
         /\ Len(calls) = nbuf - misscount
         /\ \A i \in 1 .. nbuf : first[i] # CACHE_MISS =>
              \E k \in 1 .. Len(calls) : calls[k] = <<Offset(buf, i - 1), first[i]>>

\* UDP: a reply that is there has been asked for and received.
Receiving ==
  /\ pc = "recvfrom" => /\ Has(<<>>, 0, <<"junk">>)
                        /\ first # <<>> /\ ~lost => datagram = {FirstReply(first)}
  /\ pc = "reply" => \/ Has(<<>>, 0, <<"junk">>) /\ (first = <<>> \/ lost \/ datagram # {})
                     \/ first # <<>> /\ Has(First, Len(First), <<"junk">>)

\* The server answers before a call over TCP succeeds, unless the connection breaks.
Settled ==
  (pc \in {"first", "read2", "second"} \/ result = "SUCCESS") /\ IsTcp /\ ~cut =>
    /\ first # <<>>
    /\ result = "SUCCESS" /\ swallowed = 0 => Misses(first) = <<>> \/ second # <<>>

ClientInv == /\ CallShape /\ NetShape /\ ReadingFirst /\ ReadingSecond /\ FirstCallsMade
             /\ Receiving /\ Settled /\ NoMixup /\ AnsweredRight
             /\ (count <= RetSize \/ swallowed > 0)

(***************************************************************************)
(* Words of the reply buffer                                               *)
(***************************************************************************)

\* Sizes and offsets are numbers in order.
LEMMA Sizes ==
  ASSUME CallShape
  PROVE  /\ nbuf \in Nat /\ nbuf > 0 /\ HEAD_LENGTH \in Nat /\ HEAD_LENGTH > 0
         /\ WORD \in Nat /\ WORD > 0
         /\ FirstLength \in Nat /\ RetSize \in Nat /\ SecondLength \in Nat
         /\ HEAD_LENGTH <= FirstLength /\ FirstLength <= RetSize
         /\ HEAD_LENGTH <= SecondLength /\ SecondLength <= RetSize
<1>1. HEAD_LENGTH \in Nat /\ HEAD_LENGTH > 0 /\ WORD \in Nat /\ WORD > 0
  BY ClientAssumption
<1>2. nbuf \in Nat /\ nbuf > 0 /\ misscount \in Nat /\ misscount <= nbuf
  <2>1. nbuf \in Nat /\ nbuf > 0
    <3>1. buf \in Seq(Words) /\ buf # <<>>
      BY DEF CallShape
    <3> QED BY <3>1 DEF nbuf
  <2> QED BY <2>1 DEF CallShape
<1>3. ASSUME NEW a \in Nat, NEW w \in Nat
      PROVE  a * w \in Nat /\ a * 2 * w = a * w + a * w /\ a * 2 * w \in Nat
  BY <1>3
<1> DEFINE x == nbuf * WORD
           y == misscount * WORD
<1>4. x \in Nat /\ y \in Nat /\ nbuf * 2 * WORD = x + x /\ misscount * 2 * WORD = y + y
  BY <1>1, <1>2, <1>3
<1>5. y <= x
  BY <1>1, <1>2, RowsMonotone
<1>6. FirstLength = HEAD_LENGTH + x /\ RetSize = HEAD_LENGTH + (x + x)
      /\ SecondLength = HEAD_LENGTH + (y + y)
  BY <1>4 DEF FirstLength, RetSize, SecondLength
<1> HIDE DEF x, y
<1>7. FirstLength \in Nat /\ RetSize \in Nat /\ SecondLength \in Nat
      /\ HEAD_LENGTH <= FirstLength /\ FirstLength <= RetSize
      /\ HEAD_LENGTH <= SecondLength /\ SecondLength <= RetSize
  BY <1>1, <1>4, <1>5, <1>6
<1> QED BY <1>1, <1>2, <1>7

\* A word is read as an answer, as zero or as something else.
LEMMA IpType == \A o : IpAt(o) \in Answers \cup {Zero, Garbled}
<1> SUFFICES ASSUME NEW o PROVE IpAt(o) \in Answers \cup {Zero, Garbled}
  OBVIOUS
<1> DEFINE Is(ip) == \A k \in 1 .. WORD : ByteAt(o + k - 1) = <<"ip", ip, k>>
<1>1. CASE \E ip \in Answers : Is(ip)
  <2>1. IpAt(o) = CHOOSE ip \in Answers : Is(ip)
    BY <1>1 DEF IpAt
  <2>2. (CHOOSE ip \in Answers : Is(ip)) \in Answers
    <3> HIDE DEF Is
    <3> QED BY <1>1
  <2> QED BY <2>1, <2>2
<1>2. CASE ~\E ip \in Answers : Is(ip)
  BY <1>2 DEF IpAt
<1> QED BY <1>1, <1>2

\* A word is seen as it is, or, garbled, as any number.
LEMMA SeenWords ==
  ASSUME NEW words, NEW s \in AsSeen(words), NEW i \in DOMAIN words
  PROVE  s[i] = words[i] \/ (words[i] = Garbled /\ s[i] \in Numbers)
<1> DEFINE unknown == {j \in DOMAIN words : words[j] = Garbled}
<1>1. PICK g \in [unknown -> Numbers] :
        s = [j \in DOMAIN words |-> IF j \in unknown THEN g[j] ELSE words[j]]
  BY DEF AsSeen
<1>2. s[i] = IF i \in unknown THEN g[i] ELSE words[i]
  BY <1>1
<1> QED BY <1>1, <1>2

\* What is seen of a first and of a second reply.
LEMMA SeenFirst ==
  ASSUME NEW seen \in Seen, NEW i \in Positions
  PROVE  /\ seen[i] \in Answers \cup {Zero, Garbled}
         /\ IpAt(HEAD_LENGTH + i * WORD) # Garbled => seen[i] = IpAt(HEAD_LENGTH + i * WORD)
<1> DEFINE words == [j \in Positions |-> IpAt(FirstWord(j))]
<1>1. seen \in AsSeen(words) /\ i \in DOMAIN words /\ words[i] = IpAt(HEAD_LENGTH + i * WORD)
  BY DEF Seen, FirstWord
<1> HIDE DEF words
<1>2. seen[i] = words[i] \/ (words[i] = Garbled /\ seen[i] \in Numbers)
  BY <1>1, SeenWords
<1>3. Numbers \subseteq Answers \cup {Zero, Garbled}
  BY DEF Numbers, Answers
<1> QED BY <1>1, <1>2, <1>3, IpType

\* The same for the pairs of the second reply: a word seen is the one sent, or a guess.
LEMMA SeenLater ==
  ASSUME NEW late \in SeenSecond, NEW k \in 1 .. misscount
  PROVE  /\ late[k] \in Answers \cup {Zero, Garbled}
         /\ IpAt(SecondWord(k)) # Garbled => late[k] = IpAt(SecondWord(k))
<1> DEFINE words == [j \in 1 .. misscount |-> IpAt(SecondWord(j))]
<1>1. late \in AsSeen(words) /\ k \in DOMAIN words /\ words[k] = IpAt(SecondWord(k))
  BY DEF SeenSecond
<1> HIDE DEF words
<1>2. late[k] = words[k] \/ (words[k] = Garbled /\ late[k] \in Numbers)
  BY <1>1, SeenWords
<1>3. Numbers \subseteq Answers \cup {Zero, Garbled}
  BY DEF Numbers, Answers
<1> QED BY <1>1, <1>2, <1>3, IpType

\* A byte of an address is neither zero nor unknown.
LEMMA BytesDiffer ==
  /\ \A ip, k : <<"ip", ip, k>> # <<"junk">> /\ <<"ip", ip, k>> # ZeroByte
  /\ \A i : <<"number", i>> # ZeroByte
  /\ ZeroByte # <<"junk">>
BY DEF ZeroByte

\* The first byte of a word tells whose it can be, and all of its bytes whose it is.
LEMMA IpOfWord ==
  ASSUME NEW o \in Nat
  PROVE  /\ ByteAt(o) \in {ZeroByte, <<"junk">>} => IpAt(o) \in {Zero, Garbled}
         /\ \A ip \in Answers : ByteAt(o) = <<"ip", ip, 1>> => IpAt(o) \in {ip, Garbled}
         /\ \A ip \in Answers : (\A k \in 1 .. WORD : ByteAt(o + k - 1) = <<"ip", ip, k>>) =>
              IpAt(o) = ip
<1> DEFINE Is(ip) == \A k \in 1 .. WORD : ByteAt(o + k - 1) = <<"ip", ip, k>>
<1>1. 1 \in 1 .. WORD /\ o + 1 - 1 = o
  BY ClientAssumption
<1>2. \A ip : Is(ip) => ByteAt(o) = <<"ip", ip, 1>>
  BY <1>1
<1>3. (\A k \in 1 .. WORD : ByteAt(o + k - 1) = ZeroByte) => ByteAt(o) = ZeroByte
  BY <1>1
<1>4. /\ (\E ip \in Answers : Is(ip)) => IpAt(o) \in Answers /\ Is(IpAt(o))
      /\ (~\E ip \in Answers : Is(ip)) =>
           \/ IpAt(o) = Zero /\ \A k \in 1 .. WORD : ByteAt(o + k - 1) = ZeroByte
           \/ IpAt(o) = Garbled
  <2>1. IpAt(o) = IF \E ip \in Answers : Is(ip) THEN CHOOSE ip \in Answers : Is(ip)
                  ELSE IF \A k \in 1 .. WORD : ByteAt(o + k - 1) = ZeroByte THEN Zero ELSE Garbled
    BY DEF IpAt
  <2> HIDE DEF Is
  <2> QED BY <2>1
<1> HIDE DEF Is
<1>5. ASSUME NEW a, NEW b, <<"ip", a, 1>> = <<"ip", b, 1>> PROVE a = b
  BY <1>5
<1>6. ByteAt(o) \in {ZeroByte, <<"junk">>} => IpAt(o) \in {Zero, Garbled}
  BY <1>2, <1>4, BytesDiffer
<1>7. ASSUME NEW ip \in Answers, ByteAt(o) = <<"ip", ip, 1>> PROVE IpAt(o) \in {ip, Garbled}
  <2>1. ByteAt(o) # ZeroByte
    BY <1>7, BytesDiffer
  <2>2. CASE \E a \in Answers : Is(a)
    <3>1. ByteAt(o) = <<"ip", IpAt(o), 1>>
      BY <1>2, <1>4, <2>2
    <3> QED BY <1>5, <1>7, <3>1
  <2>3. CASE ~\E a \in Answers : Is(a)
    BY <1>3, <1>4, <2>1, <2>3
  <2> QED BY <2>2, <2>3
<1>8. ASSUME NEW ip \in Answers, Is(ip) PROVE IpAt(o) = ip
  <2>1. ByteAt(o) = <<"ip", ip, 1>> /\ ByteAt(o) = <<"ip", IpAt(o), 1>>
    BY <1>2, <1>4, <1>8
  <2> QED BY <1>5, <2>1
<1> QED BY <1>6, <1>7, <1>8 DEF Is

\* Bytes outside their own word do not meet: a word of the first reply lies inside it.
LEMMA FirstPlace ==
  ASSUME CallShape, NEW i \in Positions, NEW j \in 1 .. WORD
  PROVE  /\ i \in Nat /\ i + 1 \in 1 .. nbuf
         /\ i * WORD \in Nat
         /\ HEAD_LENGTH + i * WORD \in Nat
         /\ HEAD_LENGTH + i * WORD + j \in 1 .. FirstLength
<1>1. i \in Nat /\ nbuf \in Nat /\ i + 1 \in Nat /\ i + 1 <= nbuf /\ i + 1 \in 1 .. nbuf
  BY Sizes DEF Positions
<1> DEFINE x == i * WORD
           y == (i + 1) * WORD
           z == nbuf * WORD
<1>2. WORD \in Nat /\ HEAD_LENGTH \in Nat
  BY Sizes
<1>3. x \in Nat /\ y = x + WORD
  BY <1>1, <1>2, NextRow
<1>4. y <= z
  BY <1>1, <1>2, RowsMonotone
<1>5. z \in Nat /\ FirstLength = HEAD_LENGTH + z
  BY <1>1, <1>2, NextRow DEF FirstLength
<1> HIDE DEF x, y, z
<1>6. HEAD_LENGTH + x \in Nat /\ HEAD_LENGTH + x + j \in 1 .. FirstLength
  BY <1>2, <1>3, <1>4, <1>5
<1> QED BY <1>1, <1>3, <1>6 DEF x

\* The first n bytes of the first reply have arrived.
FirstArrived(n) ==
  /\ CallShape /\ NetShape
  /\ DOMAIN retbuf = 0 .. RetSize - 1
  /\ n \in 0 .. FirstLength
  /\ n > 0 => first # <<>>
  /\ \A o \in 0 .. FirstLength - 1 :
       retbuf[o] = IF o < n THEN FirstReply(first)[o + 1] ELSE <<"junk">>

\* An address read from the first reply is the one that the server put there.
LEMMA FirstWords ==
  ASSUME NEW n, FirstArrived(n), NEW i \in Positions, NEW ip, ip = IpAt(HEAD_LENGTH + i * WORD)
  PROVE  /\ ip \in Answers => first # <<>> /\ ip = first[i + 1]
         /\ n = FirstLength => first # <<>> /\ ip = first[i + 1] /\ first[i + 1] \in Answers
<1> DEFINE o == HEAD_LENGTH + i * WORD
<1>1. CallShape /\ NetShape
  BY DEF FirstArrived
<1>2. /\ FirstLength \in Nat /\ RetSize \in Nat /\ FirstLength <= RetSize /\ FirstLength > 0
      /\ nbuf \in Nat /\ WORD \in Nat /\ 1 \in 1 .. WORD
  BY <1>1, Sizes
<1>3. n \in Nat /\ n <= FirstLength
  BY <1>2 DEF FirstArrived
<1>4. /\ i + 1 \in 1 .. nbuf /\ i \in 0 .. nbuf - 1
      /\ o \in Nat /\ \A j \in 1 .. WORD : o + j \in 1 .. FirstLength
  BY <1>1, <1>2, FirstPlace DEF Positions
<1>5. ASSUME NEW j \in 1 .. WORD
      PROVE  ByteAt(o + j - 1) = IF o + j - 1 < n THEN FirstReply(first)[o + j] ELSE <<"junk">>
  <2> DEFINE p == o + j - 1
  <2>1. p \in 0 .. FirstLength - 1 /\ p \in 0 .. RetSize - 1 /\ p + 1 = o + j
    <3>1. o + j \in 1 .. FirstLength
      BY <1>4
    <3> HIDE DEF o
    <3> QED BY <1>2, <1>4, <3>1
  <2> HIDE DEF p
  <2>2. ByteAt(p) = retbuf[p]
    BY <2>1 DEF ByteAt, FirstArrived
  <2>3. retbuf[p] = IF p < n THEN FirstReply(first)[p + 1] ELSE <<"junk">>
    BY <2>1 DEF FirstArrived
  <2> HIDE DEF o
  <2> QED BY <2>1, <2>2, <2>3 DEF p
<1>6. ASSUME first # <<>>
      PROVE  /\ first[i + 1] \in Answers
             /\ \A j \in 1 .. WORD : FirstReply(first)[o + j] = <<"ip", first[i + 1], j>>
  <2>1. first \in [1 .. nbuf -> Answers]
    BY <1>1, <1>6 DEF NetShape
  <2>2. \A k \in 0 .. nbuf - 1 : \A j \in 1 .. WORD :
          FirstReply(first)[HEAD_LENGTH + k * WORD + j] = <<"ip", first[k + 1], j>>
    <3> HIDE DEF o
    <3> QED BY <1>2, <2>1, FirstReplyBytes
  <2> QED BY <1>4, <2>1, <2>2
<1> HIDE DEF o
<1>7. o + 1 - 1 = o
  BY <1>4
<1>8. ip = IpAt(o)
  BY DEF o
<1>9. CASE o < n
  <2>1. first # <<>>
    BY <1>3, <1>4, <1>9 DEF FirstArrived
  <2>2. ByteAt(o) = <<"ip", first[i + 1], 1>>
    <3>1. ByteAt(o + 1 - 1) = IF o + 1 - 1 < n THEN FirstReply(first)[o + 1] ELSE <<"junk">>
      BY <1>2, <1>5
    <3> QED BY <1>2, <1>6, <1>7, <1>9, <2>1, <3>1
  <2>3. first[i + 1] \in Answers /\ ip \in {first[i + 1], Garbled}
    BY <1>4, <1>6, <1>8, <2>1, <2>2, IpOfWord
  <2>4. Garbled \notin Answers
    BY AnswerAssumption DEF Answers, DNS_ERROR, CACHE_MISS, Garbled
  <2>5. ASSUME n = FirstLength PROVE ip = first[i + 1]
    <3>1. ASSUME NEW j \in 1 .. WORD PROVE ByteAt(o + j - 1) = <<"ip", first[i + 1], j>>
      <4>1. o + j - 1 < n
        <5>1. o + j \in 1 .. FirstLength
          BY <1>4
        <5> QED BY <1>2, <1>4, <2>5, <5>1
      <4> QED BY <1>5, <1>6, <2>1, <4>1
    <3> QED BY <1>4, <1>8, <2>3, <3>1, IpOfWord
  <2> QED BY <2>1, <2>3, <2>4, <2>5
<1>10. CASE ~(o < n)
  <2>1. ByteAt(o) = <<"junk">>
    <3>1. ByteAt(o + 1 - 1) = IF o + 1 - 1 < n THEN FirstReply(first)[o + 1] ELSE <<"junk">>
      BY <1>2, <1>5
    <3> QED BY <1>7, <1>10, <3>1
  <2>2. ip \in {Zero, Garbled}
    BY <1>4, <1>8, <2>1, IpOfWord
  <2>3. Garbled \notin Answers /\ Zero \notin Answers
    BY AnswerAssumption DEF Answers, DNS_ERROR, CACHE_MISS, Garbled, Zero
  <2>4. n # FirstLength
    <3>1. o + 1 \in 1 .. FirstLength
      BY <1>2, <1>4
    <3> QED BY <1>2, <1>4, <1>10, <3>1
  <2> QED BY <2>2, <2>3, <2>4
<1> QED BY <1>9, <1>10

\* The kind of a first reply that has arrived as a whole.
LEMMA FirstHead ==
  ASSUME FirstArrived(FirstLength)
  PROVE  first # <<>> /\ retbuf[HEAD_LENGTH - 1] = <<FirstKind(first)>>
<1>1. CallShape /\ NetShape
  BY DEF FirstArrived
<1>2. /\ FirstLength \in Nat /\ FirstLength > 0 /\ nbuf \in Nat /\ HEAD_LENGTH \in Nat
      /\ HEAD_LENGTH > 0 /\ HEAD_LENGTH <= FirstLength
  BY <1>1, Sizes
<1>3. first # <<>>
  BY <1>2 DEF FirstArrived
<1>4. HEAD_LENGTH - 1 \in 0 .. FirstLength - 1 /\ HEAD_LENGTH - 1 < FirstLength
      /\ (HEAD_LENGTH - 1) + 1 = HEAD_LENGTH
  BY <1>2
<1>5. retbuf[HEAD_LENGTH - 1] = FirstReply(first)[HEAD_LENGTH]
  BY <1>4 DEF FirstArrived
<1>6. first \in [1 .. nbuf -> Answers]
  BY <1>1, <1>3 DEF NetShape
<1>7. FirstReply(first)[HEAD_LENGTH] = <<FirstKind(first)>>
  BY <1>2, <1>6, FirstReplyBytes
<1> QED BY <1>3, <1>5, <1>7

\* The misses of the first reply are positions, in order.
LEMMA MissesOfFirst ==
  ASSUME CallShape, NetShape, first # <<>>
  PROVE  /\ Len(first) = nbuf
         /\ MissSet(first) = {i \in Positions : first[i + 1] = CACHE_MISS}
         /\ InOrderIs(Misses(first), MissSet(first))
         /\ Len(Misses(first)) \in Nat /\ Len(Misses(first)) <= nbuf
         /\ Len(Misses(first)) = Cardinality(MissSet(first))
         /\ Misses(first) \in [1 .. Len(Misses(first)) -> Positions]
         /\ (Misses(first) = <<>> <=> MissSet(first) = {})
<1>1. nbuf \in Nat
  BY Sizes
<1>2. first \in [1 .. nbuf -> Answers] /\ Len(first) = nbuf
  BY <1>1 DEF NetShape
<1>3. MissSet(first) = {i \in Positions : first[i + 1] = CACHE_MISS}
  BY <1>2 DEF MissSet, Positions
<1>4. MissSet(first) \in SUBSET (0 .. nbuf - 1)
  BY <1>3 DEF Positions
<1>5. InOrderIs(Misses(first), MissSet(first))
  <2>1. Misses(first) = InOrder(nbuf, MissSet(first))
    BY <1>2 DEF Misses
  <2> DEFINE S == MissSet(first)
  <2> HIDE DEF S
  <2> QED BY <1>1, <1>4, <2>1, InOrderLists DEF S
<1>6. IsFiniteSet(Positions) /\ Cardinality(Positions) = nbuf
  <2>1. 0 \in Int /\ nbuf - 1 \in Int /\ (0 <= nbuf - 1 \/ nbuf = 0) /\ (nbuf - 1) - 0 + 1 = nbuf
    BY <1>1
  <2>2. IsFiniteSet(0 .. nbuf - 1)
        /\ Cardinality(0 .. nbuf - 1) = IF 0 > nbuf - 1 THEN 0 ELSE (nbuf - 1) - 0 + 1
    BY <2>1, FS_Interval
  <2> QED BY <1>1, <2>2, Sizes DEF Positions
<1>7. Len(Misses(first)) = Cardinality(MissSet(first)) /\ Cardinality(MissSet(first)) <= nbuf
  BY <1>4, <1>5, <1>6, FS_Subset, ZenonT(60) DEF InOrderIs, Positions
<1>8. Misses(first) \in Seq(MissSet(first))
  BY <1>5 DEF InOrderIs
<1>9. Len(Misses(first)) \in Nat
      /\ Misses(first) \in [1 .. Len(Misses(first)) -> MissSet(first)]
  BY <1>8
<1>10. Misses(first) = <<>> <=> MissSet(first) = {}
  <2>1. ASSUME Misses(first) = <<>> PROVE MissSet(first) = {}
    <3>1. 1 .. Len(Misses(first)) = {}
      BY <2>1
    <3> QED BY <1>5, <3>1 DEF InOrderIs
  <2>2. ASSUME MissSet(first) = {} PROVE Misses(first) = <<>>
    <3>1. Misses(first) \in Seq({})
      BY <1>8, <2>2
    <3> QED BY <3>1
  <2> QED BY <2>1, <2>2
<1> QED BY <1>2, <1>3, <1>4, <1>5, <1>7, <1>9, <1>10 DEF Positions

\* A number is read back from its bytes.
LEMMA NumberOfWord ==
  ASSUME NEW o \in Nat, NEW m \in Positions,
         \A j \in 1 .. WORD : ByteAt(o + j - 1) = NumberBytes(m)[j]
  PROVE  NumbersAt(o) = {m}
<1>1. 1 \in 1 .. WORD
  BY ClientAssumption
<1>2. ASSUME NEW i \in Positions, \A j \in 1 .. WORD : ByteAt(o + j - 1) = NumberBytes(i)[j]
      PROVE  i = m
  <2>1. NumberBytes(i)[1] = NumberBytes(m)[1]
    BY <1>1, <1>2
  <2>2. /\ NumberBytes(i)[1] = IF i # 0 THEN <<"number", i>> ELSE ZeroByte
        /\ NumberBytes(m)[1] = IF m # 0 THEN <<"number", m>> ELSE ZeroByte
    BY <1>1 DEF NumberBytes
  <2>3. ASSUME NEW a, NEW b, <<"number", a>> = <<"number", b>> PROVE a = b
    BY <2>3
  <2>4. CASE i # 0 /\ m # 0
    BY <2>1, <2>2, <2>3, <2>4
  <2>5. CASE i = 0 \/ m = 0
    BY <2>1, <2>2, <2>5, BytesDiffer
  <2> QED BY <2>4, <2>5
<1> QED BY <1>2 DEF NumbersAt

\* The two words of pair k, out of m pairs.
LEMMA SecondPlace ==
  ASSUME NEW m \in Nat, NEW k \in Nat, NEW j \in 1 .. WORD
  PROVE  /\ HEAD_LENGTH + 2 * k * WORD \in Nat
         /\ HEAD_LENGTH + (2 * k + 1) * WORD = (HEAD_LENGTH + 2 * k * WORD) + WORD
         /\ HEAD_LENGTH + m * 2 * WORD \in Nat
         /\ k < m => /\ HEAD_LENGTH + 2 * k * WORD + j <= HEAD_LENGTH + m * 2 * WORD
                     /\ HEAD_LENGTH + 2 * k * WORD + WORD + j <= HEAD_LENGTH + m * 2 * WORD
         /\ m <= k => HEAD_LENGTH + m * 2 * WORD <= HEAD_LENGTH + 2 * k * WORD
<1>1. WORD \in Nat /\ HEAD_LENGTH \in Nat
  BY ClientAssumption
<1> DEFINE w == WORD + WORD
           x == k * w
           y == (k + 1) * w
           z == m * w
<1>2. 2 * k * WORD = x /\ (2 * k + 1) * WORD = x + WORD /\ m * 2 * WORD = z
  BY <1>1
<1>3. w \in Nat /\ x \in Nat /\ z \in Nat /\ y = x + w
  <2>1. w \in Nat
    BY <1>1
  <2> HIDE DEF w
  <2> QED BY <2>1, NextRow
<1>4. k < m => y <= z
  <2>1. k < m => k + 1 <= m
    OBVIOUS
  <2> HIDE DEF w
  <2> QED BY <1>3, <2>1, RowsMonotone
<1>5. m <= k => z <= x
  <2> HIDE DEF w
  <2> QED BY <1>3, RowsMonotone
<1> HIDE DEF x, y, z
<1> QED BY <1>1, <1>2, <1>3, <1>4, <1>5

\* The first n bytes of the second reply have arrived.
SecondArrived(n) ==
  /\ CallShape /\ NetShape
  /\ DOMAIN retbuf = 0 .. RetSize - 1
  /\ n \in Nat /\ n <= Len(Second)
  /\ Has(Second, n, ZeroByte)

\* The bytes of the second reply, once the server has given it.
LEMMA SecondIs ==
  ASSUME CallShape, NetShape, second # <<>>, NEW m, m = Len(Misses(first))
  PROVE  /\ first # <<>> /\ m \in Nat /\ m <= nbuf /\ m > 0
         /\ Misses(first) \in [1 .. m -> Positions]
         /\ second \in [1 .. m -> Answers]
         /\ PairsIs(Second, Misses(first), second, m)
<1>1. first # <<>> /\ second \in [1 .. m -> Answers] /\ Misses(first) # <<>>
  BY DEF NetShape
<1>2. m \in Nat /\ m <= nbuf /\ Misses(first) \in [1 .. m -> Positions]
  BY <1>1, MissesOfFirst
<1>3. m > 0
  <2>1. Misses(first) \in Seq(MissSet(first))
    BY <1>1, MissesOfFirst DEF InOrderIs
  <2> QED BY <1>1, <1>2, <2>1
<1>4. Second = SecondReply(first, second)
  BY DEF Second
<1>5. Misses(first) \in [1 .. m -> Nat]
  <2>1. Positions \subseteq Nat
    BY Sizes DEF Positions
  <2> QED BY <1>2, <2>1
<1>6. PairsIs(Second, Misses(first), second, m)
  BY <1>1, <1>2, <1>4, <1>5, SecondReplyBytes
<1> QED BY <1>1, <1>2, <1>3, <1>6

\* A pair read from the second reply: a position of the buffer with the answer for
\* it, or zeros.
LEMMA SecondPair ==
  ASSUME NEW n, SecondArrived(n), NEW k \in 0 .. misscount - 1,
         NEW ip, ip = IpAt(HEAD_LENGTH + (2 * k + 1) * WORD),
         NEW numbers, numbers = NumbersAt(HEAD_LENGTH + 2 * k * WORD)
  PROVE  /\ \E m \in Positions : numbers = {m}
         /\ ip \in Domains \/ (n = Len(Second) /\ second # <<>> /\ k < Len(Misses(first))) =>
              /\ second # <<>> /\ k + 1 \in 1 .. Len(Misses(first))
              /\ numbers = {Misses(first)[k + 1]}
              /\ ip = second[k + 1]
<1> DEFINE o == HEAD_LENGTH + 2 * k * WORD
           m == Len(Misses(first))
           full == n = Len(Second) /\ second # <<>> /\ k < m
<1>1. CallShape /\ NetShape
  BY DEF SecondArrived
<1>2. /\ WORD \in Nat /\ WORD > 0 /\ 1 \in 1 .. WORD /\ RetSize \in Nat /\ nbuf \in Nat /\ nbuf > 0
      /\ n \in Nat /\ k \in Nat /\ 0 \in Positions /\ k < misscount /\ misscount \in Nat
      /\ misscount <= nbuf
  <2>1. misscount \in 0 .. nbuf
    BY <1>1 DEF CallShape
  <2> QED BY <1>1, <2>1, Sizes, SMTT(60) DEF SecondArrived, Positions
<1>3. /\ o \in Nat /\ HEAD_LENGTH + (2 * k + 1) * WORD = o + WORD
      /\ \A j \in 1 .. WORD : o + j <= RetSize /\ o + WORD + j <= RetSize
  <2>1. k < nbuf
    BY <1>2
  <2>2. \A j \in 1 .. WORD : o + j <= HEAD_LENGTH + nbuf * 2 * WORD
                             /\ o + WORD + j <= HEAD_LENGTH + nbuf * 2 * WORD
    BY <1>2, <2>1, SecondPlace
  <2>3. o \in Nat /\ HEAD_LENGTH + (2 * k + 1) * WORD = o + WORD
    BY <1>2, SecondPlace
  <2> HIDE DEF o
  <2> QED BY <2>2, <2>3 DEF RetSize
<1>4. ASSUME NEW p \in Nat, p < RetSize
      PROVE  ByteAt(p) = IF p < n THEN Second[p + 1] ELSE ZeroByte
  <2>1. p \in 0 .. RetSize - 1
    BY <1>2, <1>4
  <2> QED BY <2>1 DEF ByteAt, SecondArrived, Has
\* What the bytes of the pair can be.
<1>5. ASSUME o < n
      PROVE  /\ second # <<>> /\ k < m /\ m \in Nat /\ k + 1 \in 1 .. m
             /\ Misses(first)[k + 1] \in Positions /\ second[k + 1] \in Answers
             /\ \A j \in 1 .. WORD : /\ Second[o + j] = NumberBytes(Misses(first)[k + 1])[j]
                                     /\ Second[o + WORD + j] = <<"ip", second[k + 1], j>>
             /\ full => \A j \in 1 .. WORD : o + j <= n /\ o + WORD + j <= n
  <2>1. n <= Len(Second)
    BY DEF SecondArrived
  <2>2. second # <<>>
    <3>1. second = <<>> => Len(Second) = 0
      BY DEF Second
    <3> HIDE DEF o
    <3> QED BY <1>2, <1>3, <1>5, <2>1, <3>1
  <2>3. /\ m \in Nat
        /\ Misses(first) \in [1 .. m -> Positions]
        /\ second \in [1 .. m -> Answers]
        /\ PairsIs(Second, Misses(first), second, m)
    BY <1>1, <2>2, SecondIs
  <2>4. Len(Second) = HEAD_LENGTH + m * 2 * WORD
    BY <2>3 DEF PairsIs
  <2> HIDE DEF m
  <2>5. k < m /\ k \in 0 .. m - 1 /\ k + 1 \in 1 .. m
    <3>1. m <= k => HEAD_LENGTH + m * 2 * WORD <= o
      BY <1>2, <2>3, SecondPlace
    <3>2. HEAD_LENGTH + m * 2 * WORD \in Nat
      BY <1>2, <2>3, SecondPlace
    <3> DEFINE l == HEAD_LENGTH + m * 2 * WORD
    <3> HIDE DEF o, l
    <3>3. ~(l <= o)
      BY <1>2, <1>3, <1>5, <2>1, <2>4, <3>2 DEF l
    <3> QED BY <1>2, <2>3, <3>1, <3>3 DEF l
  <2>6. \A j \in 1 .. WORD : o + j <= Len(Second) /\ o + WORD + j <= Len(Second)
    <3> DEFINE l == HEAD_LENGTH + m * 2 * WORD
    <3>1. \A j \in 1 .. WORD : o + j <= l /\ o + WORD + j <= l
      BY <1>2, <2>3, <2>5, SecondPlace
    <3>2. Len(Second) = l
      BY <2>4
    <3> HIDE DEF o, l
    <3> QED BY <3>1, <3>2
  <2>7. ASSUME NEW j \in 1 .. WORD
        PROVE  /\ Second[o + j] = NumberBytes(Misses(first)[k + 1])[j]
               /\ Second[o + WORD + j] = <<"ip", second[k + 1], j>>
    <3>1. /\ Second[o + j] = NumberBytes(Misses(first)[k + 1])[j]
          /\ Second[HEAD_LENGTH + (2 * k + 1) * WORD + j] = <<"ip", second[k + 1], j>>
      BY <2>3, <2>5 DEF PairsIs
    <3> QED BY <1>3, <3>1
  <2>8. Misses(first)[k + 1] \in Positions /\ second[k + 1] \in Answers
    BY <2>3, <2>5
  <2> HIDE DEF o
  <2>9. full => \A j \in 1 .. WORD : o + j <= n /\ o + WORD + j <= n
    BY <2>6
  <2> QED BY <2>2, <2>3, <2>5, <2>7, <2>8, <2>9
<1>6. ~full \/ o < n
  <2>1. ASSUME full PROVE o < n
    <3>1. m \in Nat /\ PairsIs(Second, Misses(first), second, m)
      BY <1>1, <2>1, SecondIs
    <3>2. k < m /\ n = HEAD_LENGTH + m * 2 * WORD
      BY <2>1, <3>1 DEF PairsIs
    <3>3. o + 1 <= HEAD_LENGTH + m * 2 * WORD
      BY <1>2, <3>1, <3>2, SecondPlace
    <3> DEFINE l == HEAD_LENGTH + m * 2 * WORD
    <3>4. o + 1 <= l /\ n = l
      BY <3>2, <3>3
    <3> HIDE DEF o, l
    <3> QED BY <1>2, <1>3, <3>4
  <2> QED BY <2>1
<1> HIDE DEF o, m
<1>7. \A j \in 1 .. WORD : /\ o + j - 1 \in Nat /\ o + j - 1 < RetSize /\ o + j - 1 + 1 = o + j
                           /\ o + WORD + j - 1 \in Nat /\ o + WORD + j - 1 < RetSize
                           /\ o + WORD + j - 1 + 1 = o + WORD + j
  BY <1>2, <1>3
<1>8. ASSUME NEW j \in 1 .. WORD
      PROVE  /\ ByteAt(o + j - 1) = IF o + j - 1 < n THEN Second[o + j] ELSE ZeroByte
             /\ ByteAt(o + WORD + j - 1) = IF o + WORD + j - 1 < n THEN Second[o + WORD + j] ELSE ZeroByte
  <2> DEFINE p == o + j - 1
             q == o + WORD + j - 1
  <2>1. p \in Nat /\ p < RetSize /\ p + 1 = o + j /\ q \in Nat /\ q < RetSize /\ q + 1 = o + WORD + j
    BY <1>7
  <2> HIDE DEF p, q
  <2>2. ByteAt(p) = (IF p < n THEN Second[p + 1] ELSE ZeroByte)
        /\ ByteAt(q) = (IF q < n THEN Second[q + 1] ELSE ZeroByte)
    BY <1>4, <2>1
  <2> QED BY <2>1, <2>2 DEF p, q
\* The number.
<1>9. /\ \E i \in Positions : numbers = {i}
      /\ o < n => numbers = {Misses(first)[k + 1]}
  <2> DEFINE i == IF o < n THEN Misses(first)[k + 1] ELSE 0
  <2>1. i \in Positions
    BY <1>2, <1>5
  <2>2. ASSUME NEW j \in 1 .. WORD PROVE ByteAt(o + j - 1) = NumberBytes(i)[j]
    <3>1. j \in Nat /\ (j # 1 => j > 1) /\ (o < n /\ j = 1 => o + j - 1 < n)
          /\ (~(o < n) => ~(o + j - 1 < n))
      BY <1>2, <1>3
    <3>2. j # 1 => NumberBytes(i)[j] = ZeroByte
      BY DEF NumberBytes
    <3>3. NumberBytes(0)[j] = ZeroByte
      BY DEF NumberBytes
    <3>4. CASE o < n
      <4>1. i = Misses(first)[k + 1] /\ Second[o + j] = NumberBytes(i)[j]
        BY <1>5, <3>4
      <4> HIDE DEF i
      <4> QED BY <1>8, <3>1, <3>2, <3>4, <4>1
    <3>5. CASE ~(o < n)
      BY <1>8, <3>1, <3>3, <3>5
    <3> QED BY <3>4, <3>5
  <2>3. numbers = {i}
    <3>1. numbers = NumbersAt(o)
      BY DEF o
    <3> HIDE DEF i
    <3> QED BY <1>3, <2>1, <2>2, <3>1, NumberOfWord
  <2> QED BY <2>1, <2>3
\* The address.
<1> DEFINE p == o + WORD
<1>10. p \in Nat /\ ip = IpAt(p) /\ p + 1 - 1 = p
  <2>1. p \in Nat /\ p + 1 - 1 = p
    BY <1>2, <1>3
  <2>2. HEAD_LENGTH + (2 * k + 1) * WORD = p
    BY <1>3
  <2> HIDE DEF p
  <2> QED BY <2>1, <2>2
<1>11. ByteAt(p) = IF p < n THEN Second[p + 1] ELSE ZeroByte
  <2>1. ByteAt(p + 1 - 1) = IF p + 1 - 1 < n THEN Second[p + 1] ELSE ZeroByte
    BY <1>2, <1>8
  <2> QED BY <1>10, <2>1
<1>12. ASSUME ip \in Domains PROVE o < n /\ ip = second[k + 1]
  <2>1. Zero \notin Domains /\ Garbled \notin Domains
    BY AnswerAssumption
  <2>2. p < n
    <3>1. ~(p < n) => ip \in {Zero, Garbled}
      BY <1>10, <1>11, IpOfWord
    <3> QED BY <1>12, <2>1, <3>1
  <2>3. o < n
    BY <1>2, <1>3, <2>2
  <2>4. second[k + 1] \in Answers /\ ByteAt(p) = <<"ip", second[k + 1], 1>>
    BY <1>2, <1>5, <1>11, <2>2, <2>3
  <2>5. ip \in {second[k + 1], Garbled}
    BY <1>10, <2>4, IpOfWord
  <2> QED BY <1>12, <2>1, <2>3, <2>5
<1>13. ASSUME full PROVE o < n /\ ip = second[k + 1]
  <2>1. o < n
    BY <1>6, <1>13
  <2>2. ASSUME NEW j \in 1 .. WORD PROVE ByteAt(p + j - 1) = <<"ip", second[k + 1], j>>
    <3>1. o + WORD + j <= n
      BY <1>5, <1>13, <2>1
    <3>2. o + WORD + j - 1 < n
      BY <1>2, <1>3, <3>1
    <3> QED BY <1>5, <1>8, <2>1, <3>2
  <2>3. second[k + 1] \in Answers
    BY <1>5, <2>1
  <2> HIDE DEF p
  <2> QED BY <1>10, <2>1, <2>2, <2>3, IpOfWord
<1> QED BY <1>5, <1>9, <1>12, <1>13 DEF m

(***************************************************************************)
(* What a step leaves alone                                                *)
(***************************************************************************)

\* Sizes and messages depend on the buffer and on the answers only.
LEMMA SameSizes ==
  ASSUME nbuf' = nbuf
  PROVE  /\ Positions' = Positions /\ IsTcp' = IsTcp
         /\ FirstLength' = FirstLength /\ RetSize' = RetSize
BY DEF Positions, IsTcp, FirstLength, RetSize

\* A step that leaves buf alone leaves what the call works out from it ...
LEMMA SameBuf ==
  ASSUME buf' = buf
  PROVE  /\ nbuf' = nbuf
         /\ Positions' = Positions /\ IsTcp' = IsTcp
         /\ FirstLength' = FirstLength /\ RetSize' = RetSize
<1>1. nbuf' = nbuf
  BY DEF nbuf
<1> QED BY <1>1, SameSizes

\* ... and one that leaves the replies alone what was sent.
LEMMA SameAnswers ==
  ASSUME first' = first, second' = second
  PROVE  First' = First /\ Second' = Second /\ Sent' = Sent
<1>1. First' = First /\ Second' = Second
  BY DEF First, Second
<1> QED BY <1>1 DEF Sent

\* The answers and the network stay as they are, whatever the call counts.
LEMMA NetKept ==
  ASSUME NetShape, nbuf' = nbuf, buf' = buf \/ first = <<>>,
         UNCHANGED <<first, second, stream, eof, datagram, cut, lost>>,
         asked' \in BOOLEAN, asked => asked',
         count' \in Int, IsTcp => count' \in Nat, swallowed' \in 0 .. FirstLength,
         ~IsTcp => swallowed' = 0
  PROVE  NetShape'
<1>1. IsTcp' = IsTcp /\ FirstLength' = FirstLength
  BY SameSizes
<1>2. ({asked, eof, cut, lost} \subseteq BOOLEAN)'
      /\ (count \in Int /\ (IsTcp => count \in Nat))' /\ (swallowed \in 0 .. FirstLength)'
  BY <1>1 DEF NetShape
<1>3. (first \in {<<>>} \cup [1 .. nbuf -> Answers])'
  BY DEF NetShape
<1>4. (first # <<>> => \A i \in 1 .. nbuf : first[i] \in {buf[i].domain, DNS_ERROR, CACHE_MISS})'
  BY DEF NetShape
<1>5. (second # <<>> =>
         /\ first # <<>> /\ IsTcp /\ Misses(first) # <<>>
         /\ second \in [1 .. Len(Misses(first)) -> Answers]
         /\ \A k \in 1 .. Len(Misses(first)) :
              second[k] \in {buf[Misses(first)[k] + 1].domain, DNS_ERROR})'
  <2>1. second # <<>> =>
         /\ first # <<>> /\ IsTcp /\ Misses(first) # <<>>
         /\ second \in [1 .. Len(Misses(first)) -> Answers]
         /\ \A k \in 1 .. Len(Misses(first)) :
              second[k] \in {buf[Misses(first)[k] + 1].domain, DNS_ERROR}
    BY DEF NetShape
  <2>2. CASE first = <<>>
    BY <2>1, <2>2
  <2>3. CASE first # <<>>
    BY <1>1, <2>1, <2>3
  <2> QED BY <2>2, <2>3
<1>6. (~asked => first = <<>> /\ ~cut /\ ~lost)'
  BY DEF NetShape
<1>7. (first = <<>> => second = <<>> /\ stream = <<>> /\ datagram = {} /\ (eof => cut))'
  BY DEF NetShape
<1>8. (/\ IsTcp => datagram = {} /\ ~lost
       /\ ~IsTcp => stream = <<>> /\ ~eof /\ ~cut /\ swallowed = 0)'
  BY <1>1 DEF NetShape
<1>9. (IsTcp /\ ~cut /\ first # <<>> => (eof <=> Misses(first) = <<>> \/ second # <<>>))'
  BY <1>1 DEF NetShape
<1>10. (datagram \subseteq {FirstReply(first)} /\ stream \in Seq(Byte))'
  BY DEF NetShape
<1> QED BY <1>2, <1>3, <1>4, <1>5, <1>6, <1>7, <1>8, <1>9, <1>10 DEF NetShape

\* Calls of f that have been made are not mixed up later.
LEMMA MixupKept ==
  ASSUME NoMixup, UNCHANGED <<calls, buf, guessed>>, swallowed' = 0 => swallowed = 0
  PROVE  NoMixup'
<1>1. nbuf' = nbuf
  BY DEF nbuf
<1> QED BY <1>1 DEF NoMixup

\* Away from the replies there is nothing to say of them, and a call that has not
\* succeeded promises nothing.
LEMMA AwayFromReplies ==
  ASSUME pc' \notin {"read1", "first", "read2", "second", "recvfrom", "reply"}
  PROVE  ReadingFirst' /\ ReadingSecond' /\ FirstCallsMade' /\ Receiving'
BY DEF ReadingFirst, ReadingSecond, FirstCallsMade, Receiving

\* A call that does not succeed has answered nothing.
LEMMA NoSuccess ==
  ASSUME result' # "SUCCESS"
  PROVE  AnsweredRight' /\ (pc' \notin {"first", "read2", "second"} => Settled')
BY DEF AnsweredRight, Settled

\* The invariant of a step that stays away from the replies.
LEMMA InvAway ==
  ASSUME CallShape', NetShape', NoMixup',
         pc' \notin {"read1", "first", "read2", "second", "recvfrom", "reply"},
         result' # "SUCCESS", (count <= RetSize \/ swallowed > 0)'
  PROVE  ClientInv'
BY AwayFromReplies, NoSuccess DEF ClientInv

(***************************************************************************)
(* The call up to its request                                              *)
(***************************************************************************)

\* Every call begins with the invariant.
LEMMA InitInv == Init => ClientInv
<1> SUFFICES ASSUME Init PROVE ClientInv
  OBVIOUS
<1>1. buf \in Seq(Words) /\ buf # <<>>
  BY ClientAssumption DEF Init, Words
<1>2. nbuf \in Nat /\ nbuf > 0
  BY <1>1 DEF nbuf
<1>3. CallShape
  BY <1>1, <1>2 DEF Init, CallShape
<1>4. FirstLength \in Nat /\ RetSize \in Nat
  BY <1>3, Sizes
<1>5. NetShape
  <2>1. asked = FALSE /\ eof = FALSE /\ cut = FALSE /\ lost = FALSE /\ first = <<>> /\ second = <<>>
        /\ stream = <<>> /\ datagram = {} /\ count = 0 /\ swallowed = 0
    BY DEF Init
  <2>2. /\ {asked, eof, cut, lost} \subseteq BOOLEAN
        /\ swallowed \in 0 .. FirstLength
        /\ stream \in Seq(Byte)
        /\ count \in Nat
        /\ first \in {<<>>} \cup [1 .. nbuf -> Answers]
        /\ datagram \subseteq {FirstReply(first)}
    <3>1. {asked, eof, cut, lost} \subseteq BOOLEAN
      BY <2>1
    <3>2. <<>> \in Seq(Byte)
      OBVIOUS
    <3>3. stream \in Seq(Byte)
      BY <2>1, <3>2
    <3>4. swallowed \in 0 .. FirstLength /\ count \in Nat
      BY <1>4, <2>1
    <3>5. first \in {<<>>} \cup [1 .. nbuf -> Answers] /\ datagram \subseteq {FirstReply(first)}
      BY <2>1
    <3> QED BY <3>1, <3>3, <3>4, <3>5
  <2>3. /\ ~(first # <<>>) /\ ~(second # <<>>)
        /\ ~asked => first = <<>> /\ ~cut /\ ~lost
        /\ first = <<>> => second = <<>> /\ stream = <<>> /\ datagram = {} /\ (eof => cut)
        /\ IsTcp => datagram = {} /\ ~lost
        /\ ~IsTcp => stream = <<>> /\ ~eof /\ ~cut /\ swallowed = 0
    BY <2>1
  <2> QED BY <2>2, <2>3 DEF NetShape
<1>6. NoMixup
  BY DEF Init, NoMixup
<1>7. ReadingFirst /\ ReadingSecond /\ FirstCallsMade /\ Receiving /\ Settled /\ AnsweredRight
  BY DEF Init, ReadingFirst, ReadingSecond, FirstCallsMade, Receiving, Settled, AnsweredRight
<1>8. count <= RetSize
  BY <1>4 DEF Init
<1> QED BY <1>3, <1>5, <1>6, <1>7, <1>8 DEF ClientInv

\* pre_do, with the socket before or behind it.
LEMMA SearchStep == ASSUME ClientInv, TcpDnsSearch \/ UdpDnsSearch PROVE ClientInv'
<1> DEFINE b == Lowered(buf)
<1>0. CallShape /\ NetShape /\ nbuf \in Nat /\ TCP_OR_UDP \in Nat
  BY Sizes, ClientAssumption DEF ClientInv
<1>1. /\ pc = "call" /\ buf' = b /\ pc' \in {"connect", "sendmsg", "done"}
      /\ pc' = "connect" => IsTcp
      /\ pc' = "sendmsg" => ~IsTcp
      /\ index' = IF pc' = "done" THEN index ELSE Index(buf)
      /\ pc' # "done" => result' = result
      /\ result' \in {result, "NOT_IN_SET"}
      /\ held' \in {held, {"sockfd"}}
      /\ UNCHANGED <<retbuf, count, misscount, calls, serverVars, netVars, histVars>>
  BY <1>0 DEF TcpDnsSearch, UdpDnsSearch, IsTcp, Give
<1>2. buf \in Seq(Words) /\ buf # <<>> /\ nbuf \in Nat /\ nbuf > 0
  BY <1>0, Sizes DEF CallShape
<1>3. b \in Seq(Words) /\ Len(b) = nbuf /\ Index(b) = Index(buf)
  BY <1>2, LoweredShape DEF nbuf
<1>4. nbuf' = nbuf
  BY <1>1, <1>3 DEF nbuf
<1>5. Positions' = Positions /\ IsTcp' = IsTcp /\ FirstLength' = FirstLength /\ RetSize' = RetSize
  BY <1>4, SameSizes
<1>6. first = <<>> /\ ~asked /\ count = 0 /\ swallowed = 0 /\ calls = <<>> /\ result = "none"
  BY <1>0, <1>1 DEF CallShape, NetShape
<1>7. buf' # <<>>
  BY <1>1, <1>2, <1>3
<1> HIDE DEF b
<1>8. Index(buf)' = Index(buf) /\ buf' \in Seq(Words)
  BY <1>1, <1>3
<1>9. CallShape'
  BY <1>0, <1>1, <1>4, <1>5, <1>6, <1>7, <1>8 DEF CallShape, serverVars, histVars
<1>10. NetShape'
  <2>1. FirstLength \in Nat
    BY <1>0, Sizes
  <2> QED BY <1>0, <1>1, <1>4, <1>6, <2>1, NetKept DEF serverVars, netVars, histVars, NetShape
<1>11. NoMixup'
  BY <1>1, <1>6 DEF NoMixup
<1>12. (count <= RetSize \/ swallowed > 0)'
  BY <1>1, <1>5, <1>0, <1>6, Sizes
<1>13. result' # "SUCCESS"
  BY <1>1, <1>6
<1> QED BY <1>1, <1>9, <1>10, <1>11, <1>12, <1>13, InvAway

\* connect, and a request that is not sent.
LEMMA ConnectStep == ASSUME ClientInv, Connect \/ ConnectFails \/ SendFails PROVE ClientInv'
<1>1. CallShape /\ NetShape /\ NoMixup
  BY DEF ClientInv
<1>2. /\ pc \in {"connect", "writev", "sendmsg"} /\ pc' \in {"writev", "done"}
      /\ pc' = "writev" => pc = "connect" /\ result' = result
      /\ result' \in {result, "CONNECT_WRONG", "OTHER_WRONG"}
      /\ held' \in {held, held \cup {"headbuf"}}
      /\ UNCHANGED <<buf, index, retbuf, count, misscount, calls, serverVars, netVars, histVars>>
  BY DEF Connect, ConnectFails, SendFails, Give
<1>3. nbuf' = nbuf /\ IsTcp' = IsTcp /\ FirstLength' = FirstLength /\ RetSize' = RetSize
  BY <1>2, SameBuf
<1>4. result = "none"
  BY <1>1, <1>2 DEF CallShape
<1>5. Index(buf)' = Index(buf)
  BY <1>2
<1>6. CallShape'
  BY <1>1, <1>2, <1>3, <1>4, <1>5 DEF CallShape, serverVars, histVars
<1>7. NetShape'
  BY <1>1, <1>2, <1>3, NetKept DEF serverVars, netVars, histVars, NetShape
<1>8. NoMixup'
  BY <1>1, <1>2, MixupKept DEF histVars
<1>9. (count <= RetSize \/ swallowed > 0)'
  BY <1>2, <1>3 DEF ClientInv, histVars
<1> QED BY <1>2, <1>4, <1>6, <1>7, <1>8, <1>9, InvAway

\* The request goes out.
LEMMA SendStep == ASSUME ClientInv, Send PROVE ClientInv'
<1>1. CallShape /\ NetShape /\ NoMixup
  BY DEF ClientInv
<1>2. /\ pc \in {"writev", "sendmsg"} /\ pc' = IF pc = "writev" THEN "read1" ELSE "recvfrom"
      /\ asked' = TRUE
      /\ retbuf' = NewRetbuf
      /\ held' = held \cup {"headbuf", "retbuf"}
      /\ UNCHANGED <<buf, index, count, misscount, calls, result, first, second, netVars, histVars>>
  BY DEF Send
<1>3. nbuf' = nbuf /\ IsTcp' = IsTcp /\ FirstLength' = FirstLength /\ RetSize' = RetSize
  BY <1>2, SameBuf
<1>4. result = "none" /\ ~asked /\ count = 0 /\ swallowed = 0 /\ calls = <<>>
  BY <1>1, <1>2 DEF CallShape
<1>5. Index(buf)' = Index(buf)
  BY <1>2
<1>6. /\ DOMAIN retbuf' = 0 .. RetSize - 1
      /\ \A o \in DOMAIN retbuf' : retbuf'[o] = <<"junk">>
  BY <1>2 DEF NewRetbuf
<1>7. CallShape'
  BY <1>1, <1>2, <1>3, <1>4, <1>5, <1>6 DEF CallShape, histVars
<1>8. first = <<>> /\ second = <<>> /\ stream = <<>> /\ datagram = {}
  BY <1>1, <1>4 DEF NetShape
<1>9. NetShape'
  BY <1>1, <1>2, <1>3, NetKept DEF netVars, histVars, NetShape
<1>10. NoMixup'
  BY <1>1, <1>2, MixupKept DEF histVars
<1>11. /\ FirstLength \in Nat /\ FirstLength > 0 /\ RetSize \in Nat
  BY <1>1, Sizes
<1>12. ReadingFirst'
  <2> SUFFICES ASSUME pc' = "read1" PROVE ReadingFirst'
    BY <1>2 DEF ReadingFirst
  <2>1. Sent' = <<>>
    BY <1>2, <1>8 DEF Sent, First, Second
  <2>2. RestOf(Sent)'
    BY <1>2, <1>4, <1>8, <2>1 DEF RestOf, netVars, histVars
  <2>3. Has(Sent, count, <<"junk">>)'
    <3>1. \A o \in 0 .. RetSize - 1 : ~(o < 0)
      BY <1>11
    <3> QED BY <1>2, <1>4, <1>6, <3>1 DEF Has
  <2>4. count' < FirstLength'
    BY <1>2, <1>3, <1>4, <1>11
  <2> QED BY <1>2, <2>2, <2>3, <2>4 DEF ReadingFirst
<1>13. ReadingSecond' /\ FirstCallsMade' /\ Settled' /\ AnsweredRight'
  BY <1>2, <1>4 DEF ReadingSecond, FirstCallsMade, Settled, AnsweredRight
<1>14. Receiving'
  <2>1. Has(<<>>, 0, <<"junk">>)'
    <3>1. \A o \in 0 .. RetSize - 1 : ~(o < 0)
      BY <1>11
    <3> QED BY <1>2, <1>6, <3>1 DEF Has
  <2> QED BY <1>2, <1>8, <2>1 DEF Receiving
<1>15. (count <= RetSize \/ swallowed > 0)'
  BY <1>2, <1>3, <1>4, <1>11
<1> QED BY <1>7, <1>9, <1>10, <1>12, <1>13, <1>14, <1>15 DEF ClientInv

(***************************************************************************)
(* Reading a reply                                                         *)
(***************************************************************************)

\* The part of a sequence behind its first n elements.
LEMMA Dropped ==
  ASSUME NEW S, NEW s \in Seq(S), NEW n \in 0 .. Len(s), NEW t, t = SubSeq(s, n + 1, Len(s))
  PROVE  /\ t \in Seq(S) /\ Len(t) = Len(s) - n
         /\ \A i \in 1 .. Len(t) : t[i] = s[n + i]
<1>1. Len(s) \in Nat /\ n \in Nat /\ n + 1 \in 1 .. Len(s) + 1
  OBVIOUS
<1>2. \A i \in n + 1 .. Len(s) : i \in 1 .. Len(s) /\ s[i] \in S
  BY <1>1
<1>3. t = [i \in 1 .. Len(s) - n |-> s[n + i]]
  <2>1. /\ (Len(s) - (n + 1)) + 1 = Len(s) - n
        /\ \A i \in 1 .. Len(s) - n : i + (n + 1) - 1 = n + i /\ (n + 1) + i - 1 = n + i
    BY <1>1
  <2> QED BY <1>1, <2>1
<1>4. \A i \in 1 .. Len(s) - n : s[n + i] \in S
  <2>1. \A i \in 1 .. Len(s) - n : n + i \in n + 1 .. Len(s)
    BY <1>1
  <2> QED BY <1>2, <2>1
<1>5. Len(s) - n \in Nat
  BY <1>1
<1> DEFINE l == Len(s) - n
<1>6. t = [i \in 1 .. l |-> s[n + i]] /\ \A i \in 1 .. l : s[n + i] \in S
  BY <1>3, <1>4
<1>7. l \in Nat
  BY <1>5
<1> HIDE DEF l
<1>8. t \in [1 .. l -> S] /\ \A i \in 1 .. l : t[i] = s[n + i]
  BY <1>6
<1>9. t \in Seq(S) /\ Len(t) = l
  BY <1>7, <1>8
<1> QED BY <1>8, <1>9 DEF l

\* A piece of a reply goes behind those that have been read.
LEMMA ReadPiece ==
  ASSUME NEW sent, NEW filler, NEW want, NEW n \in Nat,
         Len(sent) \in Nat, stream \in Seq(Byte), count \in Nat,
         RestOf(sent), Has(sent, count, filler), Read(want, n), cut' = cut,
         DOMAIN retbuf = 0 .. RetSize - 1, RetSize \in Nat
  PROVE  /\ n > 0 /\ n <= Len(stream) /\ count' = count + n /\ count + n <= Len(sent)
         /\ count + Len(stream) <= Len(sent)
         /\ stream' \in Seq(Byte)
         /\ DOMAIN retbuf' = DOMAIN retbuf
         /\ RestOf(sent)' /\ Has(sent, count, filler)'
<1>1. Len(stream) \in Nat /\ n \in 1 .. Len(stream) /\ n \in 0 .. Len(stream)
  BY DEF Read
<1>2. /\ count' = count + n /\ stream' = SubSeq(stream, n + 1, Len(stream))
      /\ retbuf' = Filled(n)
  BY DEF Read
<1>3. /\ stream' \in Seq(Byte) /\ Len(stream') = Len(stream) - n
      /\ \A i \in 1 .. Len(stream') : stream'[i] = stream[n + i]
  <2> SUFFICES ASSUME NEW s, s = stream, NEW t, t = SubSeq(s, n + 1, Len(s))
               PROVE  /\ t \in Seq(Byte) /\ Len(t) = Len(s) - n
                      /\ \A i \in 1 .. Len(t) : t[i] = s[n + i]
    BY <1>2
  <2>1. s \in Seq(Byte) /\ n \in 0 .. Len(s)
    BY <1>1
  <2> QED BY <2>1, Dropped
<1>4. /\ count + Len(stream) <= Len(sent)
      /\ ~cut => count + Len(stream) = Len(sent)
      /\ \A i \in 1 .. Len(stream) : stream[i] = sent[count + i]
  BY DEF RestOf
<1>5. count + n <= Len(sent) /\ count' + Len(stream') = count + Len(stream)
  BY <1>1, <1>2, <1>3, <1>4, SMTT(60)
<1>6. RestOf(sent)'
  <2>1. ASSUME NEW i \in 1 .. Len(stream') PROVE stream'[i] = sent[count' + i]
    <3>1. n + i \in 1 .. Len(stream) /\ count + (n + i) = count' + i
      BY <1>1, <1>2, <1>3
    <3> QED BY <1>3, <1>4, <3>1
  <2> QED BY <1>4, <1>5, <2>1 DEF RestOf
<1>7. DOMAIN retbuf' = DOMAIN retbuf
  BY <1>2 DEF Filled
<1>8. Has(sent, count, filler)'
  <2>1. ASSUME NEW o \in DOMAIN retbuf
        PROVE  retbuf'[o] = IF o < count' THEN sent[o + 1] ELSE filler
    <3>1. o \in Nat
      OBVIOUS
    <3>2. retbuf'[o] = IF o \in count .. count + n - 1 THEN stream[o - count + 1] ELSE retbuf[o]
      BY <1>2 DEF Filled
    <3>3. retbuf[o] = IF o < count THEN sent[o + 1] ELSE filler
      BY DEF Has
    <3>4. CASE o \in count .. count + n - 1
      <4>1. /\ o - count + 1 \in 1 .. Len(stream) /\ count + (o - count + 1) = o + 1
            /\ o < count'
        BY <1>1, <1>2, <3>1, <3>4
      <4>2. stream[o - count + 1] = sent[count + (o - count + 1)]
        BY <1>4, <4>1
      <4> QED BY <3>2, <3>4, <4>1, <4>2
    <3>5. CASE o \notin count .. count + n - 1
      <4>1. o < count <=> o < count'
        BY <1>1, <1>2, <3>1, <3>5
      <4> QED BY <3>2, <3>3, <3>5, <4>1
    <3> QED BY <3>4, <3>5
  <2> QED BY <1>7, <2>1 DEF Has
<1> QED BY <1>1, <1>2, <1>3, <1>4, <1>5, <1>6, <1>7, <1>8

\* The lengths of what the server sends.
LEMMA SentIs ==
  ASSUME CallShape, NetShape
  PROVE  /\ First \in Seq(Byte) /\ Len(First) \in Nat
         /\ first # <<>> => Len(First) = FirstLength
         /\ first = <<>> => Len(First) = 0
         /\ Second \in Seq(Byte) /\ Len(Second) \in Nat /\ Len(Second) <= RetSize
         /\ second = <<>> => Len(Second) = 0
         /\ Len(Sent) \in Nat /\ Len(Sent) = Len(First) + Len(Second)
         /\ \A i \in 1 .. Len(Sent) :
              Sent[i] = IF i <= Len(First) THEN First[i] ELSE Second[i - Len(First)]
<1>1. /\ First \in Seq(Byte)
      /\ first # <<>> => Len(First) = FirstLength
      /\ first = <<>> => Len(First) = 0
  <2>1. CASE first = <<>>
    <3>1. First = <<>> /\ <<>> \in Seq(Byte) /\ Len(<<>>) = 0
      BY <2>1 DEF First
    <3> QED BY <2>1, <3>1
  <2>2. CASE first # <<>>
    <3>1. first \in [1 .. nbuf -> Answers] /\ nbuf \in Nat
      BY <2>2, Sizes DEF NetShape
    <3>2. First = FirstReply(first)
      BY <2>2 DEF First
    <3>3. First \in Seq(Byte) /\ Len(First) = HEAD_LENGTH + nbuf * WORD
      BY <3>1, <3>2, FirstReplyBytes
    <3> QED BY <2>2, <3>3 DEF FirstLength
  <2> QED BY <2>1, <2>2
<1>2. Second \in Seq(Byte) /\ Len(Second) <= RetSize /\ (second = <<>> => Len(Second) = 0)
  <2>1. CASE second = <<>>
    <3>1. Second = <<>> /\ <<>> \in Seq(Byte) /\ Len(<<>>) = 0
      BY <2>1 DEF Second
    <3>2. RetSize \in Nat
      BY Sizes
    <3> QED BY <2>1, <3>1, <3>2
  <2>2. CASE second # <<>>
    <3> DEFINE m == Len(Misses(first))
               x == m * WORD
               y == nbuf * WORD
    <3>1. m \in Nat /\ m <= nbuf /\ PairsIs(Second, Misses(first), second, m)
      BY <2>2, SecondIs
    <3>2. Second \in Seq(Byte) /\ Len(Second) = HEAD_LENGTH + m * 2 * WORD
      BY <3>1 DEF PairsIs
    <3>3. WORD \in Nat /\ nbuf \in Nat /\ HEAD_LENGTH \in Nat
      BY Sizes
    <3>4. x <= y
      BY <3>1, <3>3, RowsMonotone
    <3>5. ASSUME NEW a \in Nat, NEW w \in Nat
          PROVE  a * w \in Nat /\ a * 2 * w = a * w + a * w
      BY <3>5
    <3>6. x \in Nat /\ y \in Nat /\ m * 2 * WORD = x + x /\ nbuf * 2 * WORD = y + y
      <4> HIDE DEF m
      <4> QED BY <3>1, <3>3, <3>5
    <3>7. Len(Second) = HEAD_LENGTH + (x + x) /\ RetSize = HEAD_LENGTH + (y + y)
      <4> HIDE DEF x, y
      <4> QED BY <3>2, <3>6 DEF RetSize
    <3>8. Len(Second) <= RetSize
      <4> HIDE DEF x, y, m
      <4> QED BY <3>3, <3>4, <3>6, <3>7
    <3> QED BY <2>2, <3>2, <3>8
  <2> QED BY <2>1, <2>2
<1>3. Len(First) \in Nat /\ Len(Second) \in Nat
  BY <1>1, <1>2
<1>4. /\ Len(Sent) = Len(First) + Len(Second)
      /\ \A i \in 1 .. Len(First) + Len(Second) :
           Sent[i] = IF i <= Len(First) THEN First[i] ELSE Second[i - Len(First)]
  <2> SUFFICES ASSUME NEW a \in Seq(Byte), NEW b \in Seq(Byte), NEW r, r = a \o b
               PROVE  /\ Len(r) = Len(a) + Len(b)
                      /\ \A i \in 1 .. Len(a) + Len(b) :
                           r[i] = IF i <= Len(a) THEN a[i] ELSE b[i - Len(a)]
    BY <1>1, <1>2 DEF Sent
  <2> QED BY ConcatProperties
<1> QED BY <1>1, <1>2, <1>3, <1>4

\* Reading takes bytes from the stream only.
LEMMA NetRead ==
  ASSUME NetShape, IsTcp, asked, first # <<>>,
         UNCHANGED <<buf, serverVars, eof, datagram, cut, lost>>,
         stream' \in Seq(Byte), count' \in Nat, swallowed' \in 0 .. FirstLength
  PROVE  NetShape'
<1>1. nbuf' = nbuf /\ IsTcp' = IsTcp /\ FirstLength' = FirstLength
  BY SameBuf
<1>2. IsTcp' /\ swallowed' \in 0 .. FirstLength'
  BY <1>1
<1>3. (first # <<>> => \A i \in 1 .. nbuf : first[i] \in {buf[i].domain, DNS_ERROR, CACHE_MISS})'
  BY <1>1 DEF NetShape, serverVars
<1>4. (second # <<>> =>
         /\ first # <<>> /\ IsTcp /\ Misses(first) # <<>>
         /\ second \in [1 .. Len(Misses(first)) -> Answers]
         /\ \A k \in 1 .. Len(Misses(first)) :
              second[k] \in {buf[Misses(first)[k] + 1].domain, DNS_ERROR})'
  BY <1>1 DEF NetShape, serverVars
<1>5. /\ {asked, eof, cut, lost}' \subseteq BOOLEAN
      /\ (first \in {<<>>} \cup [1 .. nbuf -> Answers])'
      /\ (IsTcp => datagram = {} /\ ~lost)'
      /\ (IsTcp /\ ~cut /\ first # <<>> => (eof <=> Misses(first) = <<>> \/ second # <<>>))'
      /\ (datagram \subseteq {FirstReply(first)})'
      /\ asked' /\ first' # <<>>
  BY <1>1 DEF NetShape, serverVars
<1> QED BY <1>2, <1>3, <1>4, <1>5 DEF NetShape

\* One turn of the first loop.
LEMMA ReadFirstStep == ASSUME ClientInv, ReadFirst PROVE ClientInv'
<1>1. CallShape /\ NetShape /\ ReadingFirst /\ NoMixup
  BY DEF ClientInv
<1>2. PICK n \in 1 .. FirstLength :
        /\ Read(FirstLength, n)
        /\ swallowed' = IF count + n > FirstLength THEN count + n - FirstLength ELSE 0
        /\ pc' = IF FirstLength <= count + n THEN "first" ELSE "read1"
  BY DEF ReadFirst
<1>3. /\ pc = "read1"
      /\ UNCHANGED <<buf, index, misscount, calls, result, held, serverVars, eof, datagram, cut, lost,
                     guessed>>
  BY DEF ReadFirst
<1>4. nbuf' = nbuf /\ IsTcp' = IsTcp /\ FirstLength' = FirstLength /\ RetSize' = RetSize
  BY <1>3, SameBuf
<1>5. /\ result = "none" /\ asked /\ swallowed = 0 /\ calls = <<>> /\ IsTcp
      /\ DOMAIN retbuf = 0 .. RetSize - 1
  BY <1>1, <1>3 DEF CallShape
<1>6. /\ FirstLength \in Nat /\ RetSize \in Nat /\ FirstLength <= RetSize
      /\ n \in Nat /\ n <= FirstLength
      /\ count \in Nat /\ stream \in Seq(Byte)
  BY <1>1, <1>5, Sizes DEF NetShape
<1>7. RestOf(Sent) /\ Has(Sent, count, <<"junk">>) /\ count < FirstLength
  BY <1>1, <1>3, <1>5 DEF ReadingFirst
<1>8. Len(Sent) \in Nat /\ Sent' = Sent
  BY <1>1, <1>3, SentIs, SameAnswers DEF serverVars
<1>9. /\ n > 0 /\ n <= Len(stream) /\ count' = count + n
      /\ stream' \in Seq(Byte)
      /\ DOMAIN retbuf' = DOMAIN retbuf
      /\ RestOf(Sent)' /\ Has(Sent, count, <<"junk">>)'
  <2> SUFFICES ASSUME NEW s, s = Sent
               PROVE  /\ n > 0 /\ n <= Len(stream) /\ count' = count + n
                      /\ stream' \in Seq(Byte)
                      /\ DOMAIN retbuf' = DOMAIN retbuf
                      /\ RestOf(s)' /\ Has(s, count, <<"junk">>)'
    BY <1>8 DEF RestOf, Has
  <2>1. RestOf(s) /\ Has(s, count, <<"junk">>) /\ Len(s) \in Nat
    BY <1>7, <1>8
  <2> QED BY <1>2, <1>3, <1>5, <1>6, <2>1, ReadPiece
<1>10. first # <<>>
  <2>1. stream # <<>>
    BY <1>6, <1>9
  <2> QED BY <1>1, <2>1 DEF NetShape
<1>11. swallowed' \in 0 .. FirstLength /\ (swallowed' = 0 => count' <= FirstLength)
       /\ (pc' = "read1" => swallowed' = 0 /\ count' < FirstLength)
       /\ (pc' = "first" => FirstLength <= count')
       /\ pc' \in {"read1", "first"}
  BY <1>2, <1>6, <1>7, <1>9
<1>12. CallShape'
  <2>1. Index(buf)' = Index(buf)
    BY <1>3
  <2> QED BY <1>1, <1>3, <1>4, <1>5, <1>9, <1>11, <2>1 DEF CallShape, serverVars
<1>13. NetShape'
  <2>1. count' \in Nat
    BY <1>6, <1>9
  <2> QED BY <1>1, <1>3, <1>5, <1>9, <1>10, <1>11, <2>1, NetRead
<1>14. NoMixup'
  BY <1>1, <1>3, <1>5, MixupKept
<1>15. ReadingFirst'
  <2> SUFFICES ASSUME swallowed' = 0 PROVE ReadingFirst'
    BY DEF ReadingFirst
  <2>1. count' \in Nat
    BY <1>6, <1>9
  <2>2. (pc = "read1" => count < FirstLength)' /\ (pc = "first" => count = FirstLength)'
    BY <1>4, <1>6, <1>11, <2>1
  <2> QED BY <1>9, <2>2 DEF ReadingFirst
<1>16. ReadingSecond' /\ FirstCallsMade' /\ Receiving' /\ AnsweredRight' /\ Settled'
  BY <1>3, <1>5, <1>10, <1>11
     DEF ReadingSecond, FirstCallsMade, Receiving, AnsweredRight, Settled, serverVars
<1>17. (count <= RetSize \/ swallowed > 0)'
  <2>1. count' \in Nat /\ swallowed' \in Nat
    BY <1>6, <1>9, <1>11
  <2> QED BY <1>4, <1>6, <1>11, <2>1
<1> QED BY <1>12, <1>13, <1>14, <1>15, <1>16, <1>17 DEF ClientInv

\* One turn of the second loop.
LEMMA ReadSecondStep == ASSUME ClientInv, ReadSecond PROVE ClientInv'
<1>1. CallShape /\ NetShape /\ ReadingSecond /\ FirstCallsMade /\ Settled /\ NoMixup
  BY DEF ClientInv
<1>2. PICK n \in 1 .. SecondLength :
        /\ Read(SecondLength, n)
        /\ pc' = IF SecondLength <= count + n THEN "second" ELSE "read2"
  BY DEF ReadSecond
<1>3. /\ pc = "read2"
      /\ UNCHANGED <<buf, index, misscount, calls, result, held, serverVars, eof, datagram, histVars>>
  BY DEF ReadSecond
<1>4. nbuf' = nbuf /\ IsTcp' = IsTcp /\ FirstLength' = FirstLength /\ RetSize' = RetSize
  BY <1>3, SameBuf
<1>5. result = "none" /\ asked /\ IsTcp /\ DOMAIN retbuf = 0 .. RetSize - 1
  BY <1>1, <1>3 DEF CallShape
<1>6. /\ SecondLength \in Nat /\ RetSize \in Nat /\ n \in Nat /\ n > 0
      /\ count \in Nat /\ stream \in Seq(Byte) /\ n <= Len(stream) /\ count' = count + n
      /\ DOMAIN retbuf' = DOMAIN retbuf /\ n \in 0 .. Len(stream)
      /\ stream' = SubSeq(stream, n + 1, Len(stream))
  BY <1>1, <1>2, <1>5, Sizes DEF NetShape, Read, Filled
<1>7. first # <<>>
  <2>1. stream # <<>>
    BY <1>6
  <2> QED BY <1>1, <2>1 DEF NetShape
<1>8. stream' \in Seq(Byte)
  <2> SUFFICES ASSUME NEW s, s = stream, NEW t, t = SubSeq(s, n + 1, Len(s)) PROVE t \in Seq(Byte)
    BY <1>6
  <2>1. s \in Seq(Byte) /\ n \in 0 .. Len(s)
    BY <1>6
  <2> QED BY <2>1, Dropped
<1>9. pc' \in {"read2", "second"} /\ count' \in Nat /\ (pc' = "second" => SecondLength <= count')
  BY <1>2, <1>6
<1>10. CallShape'
  <2>1. Index(buf)' = Index(buf)
    BY <1>3
  <2> QED BY <1>1, <1>3, <1>4, <1>5, <1>6, <1>9, <2>1 DEF CallShape, serverVars, histVars
<1>11. NetShape'
  <2>1. swallowed' \in 0 .. FirstLength
    BY <1>1, <1>3 DEF NetShape, histVars
  <2> QED BY <1>1, <1>3, <1>5, <1>7, <1>8, <1>9, <2>1, NetRead DEF histVars
<1>12. NoMixup'
  BY <1>1, <1>3, MixupKept DEF histVars
<1>13. Second' = Second /\ Len(Second) \in Nat /\ Len(Second) <= RetSize
       /\ (second = <<>> => Len(Second) = 0)
  BY <1>1, <1>3, SentIs, SameAnswers DEF serverVars
\* The reply that the loop reads, unless the first loop has read into it.
<1>14. ASSUME swallowed = 0
       PROVE  /\ RestOf(Second)' /\ Has(Second, count, ZeroByte)'
              /\ count' <= Len(Second)
  <2> SUFFICES ASSUME NEW s, s = Second
               PROVE  RestOf(s)' /\ Has(s, count, ZeroByte)' /\ count' <= Len(s)
    BY <1>13 DEF RestOf, Has
  <2>1. RestOf(s) /\ Has(s, count, ZeroByte) /\ Len(s) \in Nat
    BY <1>1, <1>3, <1>13, <1>14 DEF ReadingSecond
  <2>2. cut' = cut
    BY <1>3 DEF histVars
  <2> QED BY <1>2, <1>5, <1>6, <2>1, <2>2, ReadPiece
<1>15. ReadingSecond'
  <2> SUFFICES ASSUME swallowed' = 0 PROVE ReadingSecond'
    BY DEF ReadingSecond
  <2>1. swallowed = 0
    BY <1>3 DEF histVars
  <2>2. (~cut => first # <<>> /\ Misses(first) # <<>> /\ misscount = Len(Misses(first)))'
    BY <1>1, <1>3, <2>1 DEF ReadingSecond, histVars, serverVars
  <2>3. (pc = "second" /\ ~cut => second # <<>> /\ count = Len(Second))'
    <3> SUFFICES ASSUME pc' = "second", ~cut PROVE second # <<>> /\ count' = Len(Second)
      BY <1>3, <1>13 DEF histVars, serverVars
    <3>1. misscount = Len(Misses(first))
      BY <1>1, <1>3, <2>1 DEF ReadingSecond
    <3>2. second # <<>>
      BY <1>6, <1>13, <1>14, <2>1
    <3>3. PairsIs(Second, Misses(first), second, misscount)
      BY <1>1, <3>1, <3>2, SecondIs
    <3>4. Len(Second) = SecondLength
      BY <3>3 DEF PairsIs, SecondLength
    <3> QED BY <1>6, <1>9, <1>14, <2>1, <3>2, <3>4
  <2> QED BY <1>14, <2>1, <2>2, <2>3 DEF ReadingSecond
<1>16. FirstCallsMade'
  <2>1. Len(calls)' = Len(calls) /\ calls' = calls /\ buf' = buf /\ first' = first
        /\ misscount' = misscount /\ swallowed' = swallowed /\ cut' = cut
    BY <1>3 DEF serverVars, histVars
  <2> QED BY <1>1, <1>3, <1>4, <2>1 DEF FirstCallsMade
<1>17. ReadingFirst' /\ Receiving' /\ AnsweredRight' /\ Settled'
  BY <1>3, <1>5, <1>7, <1>9
     DEF ReadingFirst, Receiving, AnsweredRight, Settled, serverVars
<1>18. (count <= RetSize \/ swallowed > 0)'
  <2>1. CASE swallowed = 0
    BY <1>4, <1>6, <1>13, <1>14, <2>1
  <2>2. CASE swallowed # 0
    <3>1. swallowed' \in Nat /\ swallowed' = swallowed
      BY <1>3, <1>11 DEF NetShape, histVars
    <3> QED BY <2>2, <3>1
  <2> QED BY <2>1, <2>2
<1> QED BY <1>10, <1>11, <1>12, <1>15, <1>16, <1>17, <1>18 DEF ClientInv

\* Both loops are left at the end of the connection.
LEMMA LeaveStep ==
  ASSUME ClientInv, LeaveAtEnd("read1", "first") \/ LeaveAtEnd("read2", "second")
  PROVE  ClientInv'
<1>1. CallShape /\ NetShape /\ ReadingFirst /\ ReadingSecond /\ FirstCallsMade /\ Settled /\ NoMixup
  BY DEF ClientInv
<1>2. /\ \/ pc = "read1" /\ pc' = "first"
         \/ pc = "read2" /\ pc' = "second"
      /\ stream = <<>> /\ eof
      /\ UNCHANGED <<callVars, serverVars, netVars, histVars>>
  BY DEF LeaveAtEnd
<1>3. UNCHANGED <<buf, index, retbuf, count, misscount, calls, result, held, asked, first, second,
                  stream, eof, datagram, swallowed, cut, lost, guessed>>
  BY <1>2 DEF callVars, serverVars, netVars, histVars
<1>4. nbuf' = nbuf /\ IsTcp' = IsTcp /\ FirstLength' = FirstLength /\ RetSize' = RetSize
  BY <1>3, SameBuf
<1>5. result = "none" /\ asked /\ IsTcp /\ DOMAIN retbuf = 0 .. RetSize - 1
      /\ (pc = "read1" => calls = <<>> /\ swallowed = 0)
  BY <1>1, <1>2 DEF CallShape
<1>6. CallShape'
  <2>1. Index(buf)' = Index(buf)
    BY <1>3
  <2> QED BY <1>1, <1>2, <1>3, <1>4, <1>5, <2>1 DEF CallShape
<1>7. NetShape'
  <2>1. asked' \in BOOLEAN /\ count' \in Int /\ (IsTcp => count' \in Nat)
        /\ swallowed' \in 0 .. FirstLength
    BY <1>1, <1>3 DEF NetShape
  <2> QED BY <1>1, <1>3, <1>4, <1>5, <2>1, NetKept
<1>8. NoMixup'
  BY <1>1, <1>3, MixupKept
<1>9. ~cut => first # <<>> /\ (Misses(first) = <<>> \/ second # <<>>)
  BY <1>1, <1>2, <1>5 DEF NetShape
<1>10. Sent' = Sent /\ Second' = Second
       /\ Len(First) \in Nat /\ Len(Second) \in Nat /\ Len(Sent) = Len(First) + Len(Second)
       /\ (first # <<>> => Len(First) = FirstLength)
       /\ count \in Nat /\ FirstLength \in Nat
  BY <1>1, <1>3, <1>5, SentIs, SameAnswers, Sizes DEF NetShape
<1>11. ReadingFirst'
  <2> SUFFICES ASSUME pc = "read1", swallowed = 0 PROVE ReadingFirst'
    BY <1>2, <1>3 DEF ReadingFirst
  <2>1. RestOf(Sent) /\ Has(Sent, count, <<"junk">>) /\ count < FirstLength
    BY <1>1 DEF ReadingFirst
  <2>2. cut
    <3>1. ~cut => count + Len(stream) = Len(Sent)
      BY <2>1 DEF RestOf
    <3>2. Len(stream) = 0
      BY <1>2
    <3> QED BY <1>9, <1>10, <2>1, <3>1, <3>2
  <2>3. RestOf(Sent)' /\ Has(Sent, count, <<"junk">>)'
    BY <1>3, <1>10, <2>1 DEF RestOf, Has
  <2> QED BY <1>2, <1>3, <1>4, <2>1, <2>2, <2>3 DEF ReadingFirst
<1>12. ReadingSecond'
  <2> SUFFICES ASSUME pc = "read2", swallowed = 0 PROVE ReadingSecond'
    BY <1>2, <1>3 DEF ReadingSecond
  <2>1. /\ RestOf(Second) /\ Has(Second, count, ZeroByte)
        /\ ~cut => first # <<>> /\ Misses(first) # <<>> /\ misscount = Len(Misses(first))
    BY <1>1 DEF ReadingSecond
  <2>2. ~cut => second # <<>> /\ count = Len(Second)
    <3>1. ~cut => count + Len(stream) = Len(Second)
      BY <2>1 DEF RestOf
    <3>2. Len(stream) = 0
      BY <1>2
    <3> QED BY <1>9, <1>10, <2>1, <3>1, <3>2
  <2>3. RestOf(Second)' /\ Has(Second, count, ZeroByte)'
    BY <1>3, <1>10, <2>1 DEF RestOf, Has
  <2> QED BY <1>2, <1>3, <1>10, <2>1, <2>2, <2>3 DEF ReadingSecond
<1>13. FirstCallsMade'
  <2>1. Len(calls)' = Len(calls)
    BY <1>3
  <2> QED BY <1>1, <1>2, <1>3, <1>4, <2>1 DEF FirstCallsMade
<1>14. Receiving' /\ AnsweredRight' /\ Settled'
  BY <1>2, <1>3, <1>5, <1>9 DEF Receiving, AnsweredRight, Settled
<1>15. (count <= RetSize \/ swallowed > 0)'
  BY <1>3, <1>4 DEF ClientInv
<1> QED BY <1>6, <1>7, <1>8, <1>11, <1>12, <1>13, <1>14, <1>15 DEF ClientInv

\* The process dies.
LEMMA DieStep == ASSUME ClientInv, HeapFault \/ WildIndexFault PROVE ClientInv'
<1>1. CallShape /\ NetShape /\ NoMixup
  BY DEF ClientInv
<1>2. /\ pc \in {"first", "read2", "second"} /\ pc' = "dead"
      /\ UNCHANGED <<buf, index, retbuf, count, misscount, calls, result, held, asked, first, second,
                     stream, eof, datagram, swallowed, cut, lost, guessed>>
  BY DEF HeapFault, WildIndexFault, callVars, serverVars, netVars, histVars
<1>3. nbuf' = nbuf /\ IsTcp' = IsTcp /\ FirstLength' = FirstLength /\ RetSize' = RetSize
  BY <1>2, SameBuf
<1>4. result = "none" /\ IsTcp
  BY <1>1, <1>2 DEF CallShape
<1>5. CallShape'
  <2>1. Index(buf)' = Index(buf)
    BY <1>2
  <2> QED BY <1>1, <1>2, <1>3, <1>4, <2>1 DEF CallShape
<1>6. NetShape'
  <2>1. asked' \in BOOLEAN /\ count' \in Int /\ (IsTcp => count' \in Nat)
        /\ swallowed' \in 0 .. FirstLength
    BY <1>1, <1>2 DEF NetShape
  <2> QED BY <1>1, <1>2, <1>3, <1>4, <2>1, NetKept
<1>7. NoMixup'
  BY <1>1, <1>2, MixupKept
<1>8. (count <= RetSize \/ swallowed > 0)'
  BY <1>2, <1>3 DEF ClientInv
<1> QED BY <1>2, <1>4, <1>5, <1>6, <1>7, <1>8, InvAway

(***************************************************************************)
(* The calls for the first reply                                           *)
(***************************************************************************)

\* What the call has of the first reply when it deals with it.
LEMMA FirstToDeal ==
  ASSUME ClientInv, pc = "first", swallowed = 0
  PROVE  FirstArrived(count) /\ (~cut => count = FirstLength /\ first # <<>>)
<1>1. CallShape /\ NetShape /\ ReadingFirst
  BY DEF ClientInv
<1>2. /\ RestOf(Sent) /\ Has(Sent, count, <<"junk">>)
      /\ count = FirstLength \/ (cut /\ stream = <<>> /\ count < FirstLength)
  BY <1>1 DEF ReadingFirst
<1>3. /\ FirstLength \in Nat /\ FirstLength > 0 /\ RetSize \in Nat /\ FirstLength <= RetSize
      /\ count \in Nat /\ count <= FirstLength /\ stream \in Seq(Byte)
  BY <1>1, <1>2, Sizes DEF NetShape, CallShape
<1>4. DOMAIN retbuf = 0 .. RetSize - 1
  BY <1>1 DEF CallShape
<1>5. count > 0 => first # <<>>
  <2>1. first = <<>> => Len(Sent) = 0
    <3>1. first = <<>> => second = <<>>
      BY <1>1 DEF NetShape
    <3> QED BY <1>1, <3>1, SentIs
  <2>2. count + Len(stream) <= Len(Sent) /\ Len(stream) \in Nat
    BY <1>2, <1>3 DEF RestOf
  <2> QED BY <1>3, <2>1, <2>2
<1>6. ASSUME NEW o \in 0 .. FirstLength - 1
      PROVE  retbuf[o] = IF o < count THEN FirstReply(first)[o + 1] ELSE <<"junk">>
  <2>1. o \in DOMAIN retbuf /\ o \in Nat
    BY <1>3, <1>4
  <2>2. retbuf[o] = IF o < count THEN Sent[o + 1] ELSE <<"junk">>
    BY <1>2, <2>1 DEF Has
  <2>3. o < count => Sent[o + 1] = FirstReply(first)[o + 1]
    <3> SUFFICES ASSUME o < count PROVE Sent[o + 1] = FirstReply(first)[o + 1]
      OBVIOUS
    <3>1. first # <<>>
      BY <1>3, <1>5, <2>1
    <3>2. /\ Len(First) = FirstLength /\ Len(Second) \in Nat
          /\ Len(Sent) = Len(First) + Len(Second)
          /\ \A i \in 1 .. Len(Sent) :
               Sent[i] = IF i <= Len(First) THEN First[i] ELSE Second[i - Len(First)]
      BY <1>1, <3>1, SentIs
    <3>3. o + 1 \in 1 .. Len(Sent) /\ o + 1 <= Len(First)
      BY <1>3, <2>1, <3>2
    <3>4. First = FirstReply(first)
      BY <3>1 DEF First
    <3> QED BY <3>2, <3>3, <3>4
  <2> QED BY <2>2, <2>3
<1>7. ~cut => count = FirstLength /\ first # <<>>
  BY <1>2, <1>3, <1>5
<1> QED BY <1>1, <1>3, <1>4, <1>5, <1>6, <1>7 DEF FirstArrived

\* One call for each of the positions, with the word seen there; g tells those that were
\* guessed.
CallsFor(c, S, seen, g) ==
  /\ \A k \in 1 .. Len(c) :
       \E i \in S : /\ c[k] = <<Offset(buf, i), seen[i]>>
                    /\ k \in g <=> IpAt(HEAD_LENGTH + i * WORD) = Garbled
  /\ \A i \in S : \E k \in 1 .. Len(c) : c[k] = <<Offset(buf, i), seen[i]>>

\* DealFirst's calls are those, as many as there are positions.
LEMMA FirstCallsAre ==
  ASSUME CallShape, NEW S \in SUBSET Positions, NEW seen \in Seen, NEW c, c = FirstCalls(S, seen)
  PROVE  c \in Seq(Calls) /\ Len(c) = Cardinality(S) /\ CallsFor(c, S, seen, Guesses(S))
<1> DEFINE ps == InOrder(nbuf, S)
           n == Len(ps)
           g == Guesses(S)
<1>1. nbuf \in Nat
  BY Sizes
<1>2. InOrderIs(ps, S)
  BY <1>1, InOrderLists DEF Positions
<1>3. g = {k \in 1 .. n : IpAt(HEAD_LENGTH + ps[k] * WORD) = Garbled}
  BY DEF Guesses, FirstWord
<1>4. c = [k \in 1 .. n |-> <<Offset(buf, ps[k]), seen[ps[k]]>>]
  BY DEF FirstCalls
<1> HIDE DEF ps, g
<1>5. ps \in Seq(S) /\ n = Cardinality(S) /\ n \in Nat
      /\ \A i \in S : \E k \in 1 .. n : ps[k] = i
  BY <1>2 DEF InOrderIs
<1>6. \A k \in 1 .. n : ps[k] \in S
  BY <1>5
<1> DEFINE pair(i) == <<Offset(buf, i), seen[i]>>
           junk(i) == IpAt(HEAD_LENGTH + i * WORD) = Garbled
<1>7. ASSUME NEW i \in S PROVE pair(i) \in Calls
  <2>1. buf \in Seq(Words) /\ i \in 0 .. Len(buf)
    BY <1>1 DEF CallShape, Positions, nbuf
  <2>2. Offset(buf, i) \in Nat
    BY <2>1, OffsetType
  <2>3. seen[i] \in Answers \cup {Zero, Garbled}
    BY SeenFirst
  <2> QED BY <2>2, <2>3 DEF Calls
<1>8. c = [k \in 1 .. n |-> pair(ps[k])] /\ g = {k \in 1 .. n : junk(ps[k])}
  BY <1>3, <1>4
<1> HIDE DEF pair, junk, n
<1>9. c \in [1 .. n -> Calls]
  BY <1>6, <1>7, <1>8
<1>10. c \in Seq(Calls) /\ Len(c) = n
  BY <1>5, <1>9
<1>11. \A k \in 1 .. Len(c) : \E i \in S : c[k] = pair(i) /\ (k \in g <=> junk(i))
  <2> SUFFICES ASSUME NEW k \in 1 .. Len(c)
               PROVE  \E i \in S : c[k] = pair(i) /\ (k \in g <=> junk(i))
    OBVIOUS
  <2>1. k \in 1 .. n /\ ps[k] \in S /\ c[k] = pair(ps[k])
    BY <1>6, <1>8, <1>10
  <2>2. k \in g <=> junk(ps[k])
    BY <1>8, <2>1
  <2> QED BY <2>1, <2>2
<1>12. \A i \in S : \E k \in 1 .. Len(c) : c[k] = pair(i)
  BY <1>5, <1>8, <1>10
<1>13. CallsFor(c, S, seen, g)
  BY <1>11, <1>12 DEF pair, junk, CallsFor
<1> QED BY <1>5, <1>10, <1>13 DEF g

\* No domain gets another one's address but by a guess; each position of S gets the first
\* answer.
Unmixed(c, g) ==
  \A k \in 1 .. Len(c) :
    \E i \in 1 .. nbuf : /\ c[k][1] = Offset(buf, i - 1)
                         /\ c[k][2] \in Domains /\ k \notin g => c[k][2] = buf[i].domain
Tells(c, S) == \A i \in S : \E k \in 1 .. Len(c) : c[k] = <<Offset(buf, i), first[i + 1]>>

\* None of them is mixed up, and over a whole connection they are the server's.
LEMMA FirstCallsRight ==
  ASSUME ClientInv, pc = "first", swallowed = 0, NEW S \in SUBSET Positions,
         NEW seen \in Seen, NEW c, c = FirstCalls(S, seen)
  PROVE  Unmixed(c, Guesses(S)) /\ (~cut => Tells(c, S))
<1> DEFINE g == Guesses(S)
<1>1. CallShape /\ NetShape /\ FirstArrived(count) /\ (~cut => count = FirstLength /\ first # <<>>)
  BY FirstToDeal DEF ClientInv
<1>2. nbuf \in Nat
  BY <1>1, Sizes
<1>3. CallsFor(c, S, seen, g)
  BY <1>1, FirstCallsAre
<1> HIDE DEF g
<1>4. ASSUME NEW k \in 1 .. Len(c)
      PROVE  \E i \in 1 .. nbuf : /\ c[k][1] = Offset(buf, i - 1)
                                  /\ c[k][2] \in Domains /\ k \notin g => c[k][2] = buf[i].domain
  <2>1. PICK j \in S : /\ c[k] = <<Offset(buf, j), seen[j]>>
                       /\ k \in g <=> IpAt(HEAD_LENGTH + j * WORD) = Garbled
    BY <1>3 DEF CallsFor
  <2> DEFINE ip == IpAt(HEAD_LENGTH + j * WORD)
             i == j + 1
  <2>2. j \in Positions /\ i \in 1 .. nbuf /\ i - 1 = j
    BY <1>2 DEF Positions
  <2>3. ip \in Answers => first # <<>> /\ ip = first[i]
    BY <1>1, <2>2, FirstWords
  <2>4. first # <<>> => first[i] \in {buf[i].domain, DNS_ERROR, CACHE_MISS}
    BY <1>1, <2>2 DEF NetShape
  <2>5. DNS_ERROR \notin Domains /\ CACHE_MISS \notin Domains /\ Domains \subseteq Answers
    BY AnswerAssumption DEF Answers
  <2>6. c[k][1] = Offset(buf, j) /\ c[k][2] = seen[j] /\ (k \notin g => ip # Garbled)
    BY <2>1
  <2>7. ip # Garbled => seen[j] = ip
    BY <2>2, SeenFirst
  <2> HIDE DEF ip, i
  <2>8. c[k][2] \in Domains /\ k \notin g => c[k][2] = buf[i].domain
    BY <2>3, <2>4, <2>5, <2>6, <2>7
  <2> QED BY <2>2, <2>6, <2>8
<1>5. ASSUME ~cut, NEW i \in S
      PROVE  \E k \in 1 .. Len(c) : c[k] = <<Offset(buf, i), first[i + 1]>>
  <2>1. PICK k \in 1 .. Len(c) : c[k] = <<Offset(buf, i), seen[i]>>
    BY <1>3 DEF CallsFor
  <2>2. i \in Positions
    OBVIOUS
  <2> DEFINE ip == IpAt(HEAD_LENGTH + i * WORD)
  <2>3. ip = first[i + 1] /\ first[i + 1] \in Answers
    BY <1>1, <1>5, <2>2, FirstWords
  <2>4. Garbled \notin Answers
    BY AnswerAssumption DEF Answers, DNS_ERROR, CACHE_MISS, Garbled
  <2>5. ip # Garbled => seen[i] = ip
    BY <2>2, SeenFirst
  <2> HIDE DEF ip
  <2> QED BY <2>1, <2>3, <2>4, <2>5
<1> QED BY <1>4, <1>5 DEF Unmixed, Tells, g

\* The positions are as many as the domains.
LEMMA PositionsCount ==
  ASSUME CallShape, NEW S \in SUBSET Positions
  PROVE  /\ IsFiniteSet(S) /\ Cardinality(S) \in 0 .. nbuf
         /\ Cardinality(Positions) = nbuf
         /\ Cardinality(Positions \ S) = nbuf - Cardinality(S)
<1>1. nbuf \in Nat /\ nbuf > 0
  BY Sizes
<1>2. IsFiniteSet(Positions) /\ Cardinality(Positions) = nbuf
  <2>1. 0 \in Int /\ nbuf - 1 \in Int /\ ~(0 > nbuf - 1) /\ (nbuf - 1) - 0 + 1 = nbuf
    BY <1>1
  <2>2. IsFiniteSet(0 .. nbuf - 1)
        /\ Cardinality(0 .. nbuf - 1) = IF 0 > nbuf - 1 THEN 0 ELSE (nbuf - 1) - 0 + 1
    BY <2>1, FS_Interval
  <2> QED BY <2>1, <2>2 DEF Positions
<1>3. IsFiniteSet(S) /\ Cardinality(S) <= nbuf
  BY <1>2, FS_Subset
<1>4. Cardinality(S) \in Nat
  BY <1>3, FS_CardinalityType
<1>5. Cardinality(Positions \ S) = Cardinality(Positions) - Cardinality(Positions \cap S)
  BY <1>2, FS_Difference
<1>6. Positions \cap S = S
  OBVIOUS
<1> QED BY <1>1, <1>2, <1>3, <1>4, <1>5, <1>6

\* No miss: the call is over.
LEMMA DealFirstWithoutErrorStep == ASSUME ClientInv, DealFirstWithoutError PROVE ClientInv'
<1>1. CallShape /\ NetShape /\ Settled
  BY DEF ClientInv
<1>2. /\ pc = "first" /\ pc' = "done" /\ result' = "SUCCESS"
      /\ IsFirstWithoutError
      /\ guessed' = Guesses(Positions)
      /\ held' = held \ {"sockfd"}
      /\ UNCHANGED <<buf, index, retbuf, count, misscount, asked, first, second,
                     stream, eof, datagram, swallowed, cut, lost>>
  BY DEF DealFirstWithoutError, Give, serverVars, netVars
<1>2a. PICK seen \in Seen : calls' = FirstCalls(Positions, seen)
  BY DEF DealFirstWithoutError
<1>3. nbuf' = nbuf /\ IsTcp' = IsTcp /\ FirstLength' = FirstLength /\ RetSize' = RetSize
  BY <1>2, SameBuf
<1>4. IsTcp /\ asked /\ nbuf \in Nat
  BY <1>1, <1>2, Sizes DEF CallShape
<1>5. CallShape'
  <2>1. Index(buf)' = Index(buf)
    BY <1>2
  <2> QED BY <1>1, <1>2, <1>3, <1>4, <2>1 DEF CallShape
<1>6. NetShape'
  <2>1. asked' \in BOOLEAN /\ count' \in Int /\ (IsTcp => count' \in Nat)
        /\ swallowed' \in 0 .. FirstLength
    BY <1>1, <1>2 DEF NetShape
  <2> QED BY <1>1, <1>2, <1>3, <1>4, <2>1, NetKept
<1>7. swallowed = 0 => Unmixed(calls', Guesses(Positions)) /\ (~cut => Tells(calls', Positions))
  <2> SUFFICES ASSUME swallowed = 0, NEW c, c = FirstCalls(Positions, seen)
               PROVE  Unmixed(c, Guesses(Positions)) /\ (~cut => Tells(c, Positions))
    BY <1>2a
  <2> QED BY <1>2, FirstCallsRight
<1>8. NoMixup'
  BY <1>2, <1>3, <1>7 DEF NoMixup, Unmixed
<1>9. Len(calls') = nbuf
  <2> SUFFICES ASSUME NEW c, c = FirstCalls(Positions, seen) PROVE Len(c) = nbuf
    BY <1>2a
  <2>1. Len(c) = Cardinality(Positions)
    BY <1>1, FirstCallsAre
  <2> QED BY <1>1, <2>1, PositionsCount
<1>10. ~cut => first # <<>>
  BY <1>1, <1>2, <1>4 DEF Settled
<1>11. swallowed = 0 /\ ~cut => Misses(first) = <<>> /\ MissSet(first) = {}
  <2> SUFFICES ASSUME swallowed = 0, ~cut PROVE Misses(first) = <<>> /\ MissSet(first) = {}
    OBVIOUS
  <2>1. FirstArrived(FirstLength)
    BY <1>2, FirstToDeal
  <2>2. <<FirstKind(first)>> \in {<<"FIRST_WITHOUT_ERROR">>, <<"junk">>}
    BY <1>2, <2>1, FirstHead DEF IsFirstWithoutError
  <2>3. Misses(first) = <<>>
    BY <2>2 DEF FirstKind
  <2> QED BY <1>1, <1>10, <2>3, MissesOfFirst
<1>12. AnsweredRight'
  <2> SUFFICES ASSUME first # <<>>, swallowed = 0, ~cut
               PROVE  \A i \in 1 .. nbuf : \E k \in 1 .. nbuf :
                        calls'[k] = <<Offset(buf, i - 1), FinalAnswer(i)'>>
    BY <1>2, <1>3, <1>9 DEF AnsweredRight
  <2> SUFFICES ASSUME NEW i \in 1 .. nbuf
               PROVE  \E k \in 1 .. nbuf : calls'[k] = <<Offset(buf, i - 1), FinalAnswer(i)'>>
    OBVIOUS
  <2>1. i - 1 \in Positions /\ (i - 1) + 1 = i
    BY <1>4 DEF Positions
  <2>2. first[i] # CACHE_MISS
    BY <1>1, <1>11, <2>1, MissesOfFirst
  <2>3. FinalAnswer(i)' = first[i]
    BY <1>2, <2>2 DEF FinalAnswer
  <2>4. PICK k \in 1 .. Len(calls') : calls'[k] = <<Offset(buf, i - 1), first[(i - 1) + 1]>>
    BY <1>7, <2>1 DEF Tells
  <2> QED BY <1>9, <2>1, <2>3, <2>4
<1>13. Settled'
  BY <1>2, <1>3, <1>10, <1>11 DEF Settled
<1>14. ReadingFirst' /\ ReadingSecond' /\ FirstCallsMade' /\ Receiving'
  BY <1>2, AwayFromReplies
<1>15. (count <= RetSize \/ swallowed > 0)'
  BY <1>2, <1>3 DEF ClientInv
<1> QED BY <1>5, <1>6, <1>8, <1>12, <1>13, <1>14, <1>15 DEF ClientInv

\* Misses: the second reply is to come.
LEMMA DealFirstWithErrorStep == ASSUME ClientInv, DealFirstWithError PROVE ClientInv'
<1>1. CallShape /\ NetShape /\ ReadingFirst /\ Settled
  BY DEF ClientInv
<1>2. PICK seen \in Seen :
        LET missed == {i \in Positions : seen[i] = CACHE_MISS}
        IN  /\ misscount' = Cardinality(missed) /\ calls' = FirstCalls(Positions \ missed, seen)
            /\ guessed' = Guesses(Positions \ missed)
  BY DEF DealFirstWithError
<1> DEFINE missed == {i \in Positions : seen[i] = CACHE_MISS}
           rest == Positions \ missed
<1>3. misscount' = Cardinality(missed) /\ calls' = FirstCalls(rest, seen) /\ guessed' = Guesses(rest)
  BY <1>2
<1>4. missed \in SUBSET Positions /\ rest \in SUBSET Positions
  OBVIOUS
<1>5. /\ pc = "first" /\ pc' = "read2" /\ count' = 0 /\ retbuf' = Cleared
      /\ ~IsFirstWithoutError \/ retbuf[HEAD_LENGTH - 1] = <<"junk">>
      /\ UNCHANGED <<buf, index, result, held, asked, first, second,
                     stream, eof, datagram, swallowed, cut, lost>>
  BY DEF DealFirstWithError, serverVars, netVars
<1>6. nbuf' = nbuf /\ IsTcp' = IsTcp /\ FirstLength' = FirstLength /\ RetSize' = RetSize
  BY <1>5, SameBuf
<1>7. IsTcp /\ asked /\ nbuf \in Nat /\ RetSize \in Nat /\ result = "none"
      /\ DOMAIN retbuf = 0 .. RetSize - 1
  BY <1>1, <1>5, Sizes DEF CallShape
<1>8. misscount' \in 0 .. nbuf /\ Cardinality(rest) = nbuf - misscount'
  <2> HIDE DEF missed
  <2> QED BY <1>1, <1>3, <1>4, PositionsCount
<1>9. DOMAIN retbuf' = 0 .. RetSize - 1 /\ \A o \in DOMAIN retbuf' : retbuf'[o] = ZeroByte
  BY <1>5, <1>7 DEF Cleared
<1>10. CallShape'
  <2>1. Index(buf)' = Index(buf)
    BY <1>5
  <2> HIDE DEF missed
  <2> QED BY <1>1, <1>5, <1>6, <1>7, <1>8, <1>9, <2>1 DEF CallShape
<1>11. NetShape'
  <2>1. asked' \in BOOLEAN /\ count' \in Int /\ (IsTcp => count' \in Nat)
        /\ swallowed' \in 0 .. FirstLength
    BY <1>1, <1>5 DEF NetShape
  <2> QED BY <1>1, <1>5, <1>6, <1>7, <2>1, NetKept
<1>12. calls' \in Seq(Calls) /\ Len(calls') = nbuf - misscount'
  <2> HIDE DEF missed, rest
  <2> SUFFICES ASSUME NEW c, c = FirstCalls(rest, seen)
               PROVE  c \in Seq(Calls) /\ Len(c) = Cardinality(rest)
    BY <1>3, <1>8
  <2> QED BY <1>1, <1>4, FirstCallsAre
<1>13. swallowed = 0 => Unmixed(calls', Guesses(rest)) /\ (~cut => Tells(calls', rest))
  <2> HIDE DEF missed, rest
  <2> SUFFICES ASSUME swallowed = 0, NEW c, c = FirstCalls(rest, seen)
               PROVE  Unmixed(c, Guesses(rest)) /\ (~cut => Tells(c, rest))
    BY <1>3
  <2> QED BY <1>4, <1>5, FirstCallsRight
<1>14. NoMixup'
  <2> HIDE DEF rest
  <2> QED BY <1>3, <1>5, <1>6, <1>13 DEF NoMixup, Unmixed
<1>15. ~cut => first # <<>>
  BY <1>1, <1>5, <1>7 DEF Settled
\* Over a whole connection the misses are those of the first reply.
<1>16. swallowed = 0 /\ ~cut => missed = MissSet(first) /\ Misses(first) # <<>>
  <2> SUFFICES ASSUME swallowed = 0, ~cut PROVE missed = MissSet(first) /\ Misses(first) # <<>>
    OBVIOUS
  <2>1. FirstArrived(FirstLength)
    BY <1>5, FirstToDeal
  <2>2. ASSUME NEW i \in Positions
        PROVE  seen[i] = first[i + 1]
    <3> SUFFICES ASSUME NEW ip, ip = IpAt(HEAD_LENGTH + i * WORD)
                 PROVE  seen[i] = first[i + 1]
      OBVIOUS
    <3>1. ip = first[i + 1] /\ first[i + 1] \in Answers
      BY <2>1, FirstWords
    <3>2. Garbled \notin Answers
      BY AnswerAssumption DEF Answers, DNS_ERROR, CACHE_MISS, Garbled
    <3>3. ip # Garbled => seen[i] = ip
      BY SeenFirst
    <3> QED BY <3>1, <3>2, <3>3
  <2>3. missed = {i \in Positions : first[i + 1] = CACHE_MISS}
    BY <2>2
  <2>4. <<FirstKind(first)>> # <<"FIRST_WITHOUT_ERROR">>
    <3>1. retbuf[HEAD_LENGTH - 1] = <<FirstKind(first)>>
      BY <2>1, FirstHead
    <3> QED BY <1>5, <3>1 DEF IsFirstWithoutError, FirstKind
  <2>5. Misses(first) # <<>>
    BY <2>4 DEF FirstKind
  <2> HIDE DEF missed
  <2> QED BY <1>1, <1>15, <2>3, <2>5, MissesOfFirst
<1>17. swallowed = 0 /\ ~cut => misscount' = Len(Misses(first))
  <2> HIDE DEF missed
  <2> QED BY <1>1, <1>3, <1>15, <1>16, MissesOfFirst
<1>18. FirstCallsMade'
  <2> SUFFICES ASSUME swallowed = 0, ~cut, NEW i \in 1 .. nbuf, first[i] # CACHE_MISS
               PROVE  \E k \in 1 .. Len(calls') : calls'[k] = <<Offset(buf, i - 1), first[i]>>
    <3> HIDE DEF missed, rest
    <3> QED BY <1>5, <1>6, <1>12 DEF FirstCallsMade
  <2>1. i - 1 \in Positions /\ (i - 1) + 1 = i
    BY <1>7 DEF Positions
  <2>2. MissSet(first) = {j \in Positions : first[j + 1] = CACHE_MISS}
    BY <1>1, <1>15, MissesOfFirst
  <2>3. i - 1 \notin missed
    <3> HIDE DEF missed
    <3> QED BY <1>16, <2>1, <2>2
  <2>4. i - 1 \in rest
    <3> HIDE DEF missed
    <3> QED BY <2>1, <2>3
  <2> HIDE DEF rest, missed
  <2>5. \E k \in 1 .. Len(calls') : calls'[k] = <<Offset(buf, i - 1), first[(i - 1) + 1]>>
    BY <1>13, <2>4 DEF Tells
  <2> QED BY <2>1, <2>5
<1>19. ReadingSecond'
  <2> SUFFICES ASSUME swallowed = 0 PROVE ReadingSecond'
    BY <1>5 DEF ReadingSecond
  <2>1. Second' = Second
    BY <1>5, SameAnswers
  <2>2. /\ RestOf(Sent)
        /\ count = FirstLength \/ (cut /\ stream = <<>> /\ count < FirstLength)
    BY <1>1, <1>5 DEF ReadingFirst
  <2>3. /\ FirstLength \in Nat /\ count \in Nat /\ stream \in Seq(Byte) /\ FirstLength > 0
    BY <1>1, <1>7, Sizes DEF NetShape
  <2>4. /\ Len(Second) \in Nat /\ Len(First) \in Nat /\ Len(Sent) = Len(First) + Len(Second)
        /\ first # <<>> => Len(First) = FirstLength
        /\ first = <<>> => Len(First) = 0
        /\ second = <<>> => Len(Second) = 0
        /\ \A i \in 1 .. Len(Sent) :
             Sent[i] = IF i <= Len(First) THEN First[i] ELSE Second[i - Len(First)]
    BY <1>1, SentIs
  <2>5. /\ Len(stream) <= Len(Second)
        /\ ~cut => Len(stream) = Len(Second)
        /\ \A i \in 1 .. Len(stream) : stream[i] = Second[i]
    <3>1. Len(stream) \in Nat /\ count + Len(stream) <= Len(Sent)
          /\ (~cut => count + Len(stream) = Len(Sent))
          /\ \A i \in 1 .. Len(stream) : stream[i] = Sent[count + i]
      BY <2>2, <2>3 DEF RestOf
    <3>2. CASE count = FirstLength
      <4>1. Len(First) = FirstLength
        <5>1. first = <<>> => second = <<>>
          BY <1>1 DEF NetShape
        <5> QED BY <2>3, <2>4, <3>1, <3>2, <5>1
      <4>2. ASSUME NEW i \in 1 .. Len(stream) PROVE stream[i] = Second[i]
        <5>1. count + i \in 1 .. Len(Sent) /\ ~(count + i <= Len(First)) /\ (count + i) - Len(First) = i
          BY <2>3, <2>4, <3>1, <3>2, <4>1
        <5> QED BY <2>4, <3>1, <5>1
      <4> QED BY <2>3, <2>4, <3>1, <3>2, <4>1, <4>2
    <3>3. CASE cut /\ stream = <<>>
      BY <2>4, <3>3
    <3> QED BY <2>2, <3>2, <3>3
  <2>6. RestOf(Second)'
    BY <1>5, <2>1, <2>3, <2>5 DEF RestOf
  <2>7. Has(Second, count, ZeroByte)'
    <3>1. \A o \in 0 .. RetSize - 1 : ~(o < 0)
      BY <1>7
    <3> QED BY <1>5, <1>9, <3>1 DEF Has
  <2> HIDE DEF missed
  <2> QED BY <1>5, <1>15, <1>16, <1>17, <2>6, <2>7 DEF ReadingSecond
<1>20. ReadingFirst' /\ Receiving' /\ AnsweredRight'
  BY <1>5, <1>7 DEF ReadingFirst, Receiving, AnsweredRight
<1>21. Settled'
  BY <1>5, <1>6, <1>7, <1>15 DEF Settled
<1>22. (count <= RetSize \/ swallowed > 0)'
  BY <1>5, <1>6, <1>7
<1> HIDE DEF missed, rest
<1> QED BY <1>10, <1>11, <1>14, <1>18, <1>19, <1>20, <1>21, <1>22 DEF ClientInv

(***************************************************************************)
(* The calls for the second reply                                          *)
(***************************************************************************)

\* What the call has of the second reply when it deals with it.
LEMMA SecondToDeal ==
  ASSUME ClientInv, pc = "second", swallowed = 0
  PROVE  /\ SecondArrived(count)
         /\ ~cut => /\ first # <<>> /\ second # <<>> /\ count = Len(Second)
                    /\ misscount = Len(Misses(first))
<1>1. CallShape /\ NetShape /\ ReadingSecond
  BY DEF ClientInv
<1>2. /\ RestOf(Second) /\ Has(Second, count, ZeroByte)
      /\ ~cut => first # <<>> /\ Misses(first) # <<>> /\ misscount = Len(Misses(first))
      /\ ~cut => second # <<>> /\ count = Len(Second)
  BY <1>1 DEF ReadingSecond
<1>3. count \in Nat /\ stream \in Seq(Byte) /\ Len(Second) \in Nat
  BY <1>1, SentIs DEF NetShape, CallShape
<1>4. count <= Len(Second)
  <2>1. Len(stream) \in Nat /\ count + Len(stream) <= Len(Second)
    BY <1>2, <1>3 DEF RestOf
  <2> QED BY <1>3, <2>1
<1>5. DOMAIN retbuf = 0 .. RetSize - 1
  BY <1>1 DEF CallShape
<1> QED BY <1>1, <1>2, <1>3, <1>4, <1>5 DEF SecondArrived

\* Each pair becomes a call for the position it names.
LEMMA SecondCallsRight ==
  ASSUME ClientInv, pc = "second", swallowed = 0, 
         NEW late \in SeenSecond, NEW c, c = SecondCalls(late)
  PROVE  /\ c \in Seq(Calls) /\ Len(c) = misscount
         /\ Unmixed(c, SecondGuesses)
         /\ ~cut => \A k \in 1 .. misscount : c[k] = <<Offset(buf, Misses(first)[k]), second[k]>>
<1>1. CallShape /\ NetShape
  BY DEF ClientInv
<1>2. SecondArrived(count)
      /\ (~cut => /\ first # <<>> /\ second # <<>> /\ count = Len(Second)
                  /\ misscount = Len(Misses(first)))
  BY SecondToDeal
<1>3. misscount \in Nat /\ nbuf \in Nat /\ buf \in Seq(Words) /\ index = Index(buf)
  <2>1. misscount \in 0 .. nbuf /\ nbuf \in Nat
    BY <1>1, Sizes DEF CallShape
  <2> QED BY <1>1, <2>1 DEF CallShape
<1>4. ASSUME NEW i \in Positions
      PROVE  index[i] = Offset(buf, i) /\ Offset(buf, i) \in Nat /\ i + 1 \in 1 .. nbuf /\ (i + 1) - 1 = i
  <2>1. i \in 0 .. Len(buf) - 1 /\ i \in 0 .. Len(buf) /\ i + 1 \in 1 .. nbuf /\ (i + 1) - 1 = i
    BY <1>3 DEF Positions, nbuf
  <2> QED BY <1>3, <2>1, OffsetType DEF Index
\* One pair.
<1>5. ASSUME NEW k \in 1 .. misscount
      PROVE  /\ c[k] \in Calls
             /\ \E i \in 1 .. nbuf : /\ c[k][1] = Offset(buf, i - 1)
                                     /\ c[k][2] \in Domains /\ k \notin SecondGuesses =>
                                          c[k][2] = buf[i].domain
             /\ ~cut => c[k] = <<Offset(buf, Misses(first)[k]), second[k]>>
  <2> DEFINE l == k - 1
             numbers == NumbersAt(HEAD_LENGTH + 2 * l * WORD)
             ip == IpAt(HEAD_LENGTH + (2 * l + 1) * WORD)
  <2>1. l \in 0 .. misscount - 1 /\ 2 * k - 1 = 2 * l + 1 /\ l + 1 = k
    BY <1>3
  <2>2. /\ c[k] = <<CHOOSE o \in OffsetOfPair(l) : TRUE, late[k]>>
        /\ k \notin SecondGuesses => ip # Garbled
        /\ ip # Garbled => late[k] = ip
        /\ late[k] \in Answers \cup {Zero, Garbled}
    <3>1. c[k] = <<CHOOSE o \in OffsetOfPair(k - 1) : TRUE, late[k]>>
      BY DEF SecondCalls
    <3>2. ip = IpAt(SecondWord(k))
      BY <2>1 DEF SecondWord
    <3>3. IpAt(SecondWord(k)) # Garbled => late[k] = IpAt(SecondWord(k))
      BY SeenLater
    <3>4. k \notin SecondGuesses => IpAt(SecondWord(k)) # Garbled
      BY DEF SecondGuesses
    <3>5. late[k] \in Answers \cup {Zero, Garbled}
      BY SeenLater
    <3> HIDE DEF ip
    <3> QED BY <3>1, <3>2, <3>3, <3>4, <3>5
  <2>3. OffsetOfPair(l) = IF numbers = {} THEN {Wild} ELSE {index[i] : i \in numbers}
    BY DEF OffsetOfPair
  <2> HIDE DEF l
  <2>4. /\ \E m \in Positions : numbers = {m}
        /\ ip \in Domains \/ (count = Len(Second) /\ second # <<>> /\ l < Len(Misses(first))) =>
             /\ second # <<>> /\ l + 1 \in 1 .. Len(Misses(first))
             /\ numbers = {Misses(first)[l + 1]}
             /\ ip = second[l + 1]
    <3> SUFFICES ASSUME NEW x, x = ip, NEW y, y = numbers
                 PROVE  /\ \E m \in Positions : y = {m}
                        /\ x \in Domains \/ (count = Len(Second) /\ second # <<>> /\ l < Len(Misses(first))) =>
                             /\ second # <<>> /\ l + 1 \in 1 .. Len(Misses(first))
                             /\ y = {Misses(first)[l + 1]}
                             /\ x = second[l + 1]
      OBVIOUS
    <3> QED BY <1>2, <2>1, SecondPair
  <2>5. Garbled \notin Answers
    BY AnswerAssumption DEF Answers, DNS_ERROR, CACHE_MISS, Garbled
  <2> HIDE DEF ip, numbers
  <2>6. PICK m \in Positions : numbers = {m}
    BY <2>4
  <2>7. c[k] = <<Offset(buf, m), late[k]>>
    <3>1. OffsetOfPair(l) = {index[m]}
      BY <2>3, <2>6
    <3>2. (CHOOSE o \in {index[m]} : TRUE) = index[m]
      OBVIOUS
    <3> QED BY <1>4, <2>2, <3>1, <3>2
  <2>8. c[k] \in Calls
    <3>1. Offset(buf, m) \in Nat
      BY <1>4
    <3>2. late[k] \in Answers \cup {Zero, Garbled}
      BY <2>2
    <3> QED BY <2>7, <3>1, <3>2 DEF Calls
  <2>9. ASSUME ip \in Domains PROVE ip = buf[m + 1].domain
    <3>1. second # <<>> /\ k \in 1 .. Len(Misses(first)) /\ m = Misses(first)[k] /\ ip = second[k]
      BY <2>1, <2>4, <2>6, <2>9
    <3>2. second[k] \in {buf[Misses(first)[k] + 1].domain, DNS_ERROR}
      BY <1>1, <3>1 DEF NetShape
    <3>3. DNS_ERROR \notin Domains
      BY AnswerAssumption
    <3> QED BY <2>9, <3>1, <3>2, <3>3
  <2>10. m + 1 \in 1 .. nbuf /\ c[k][1] = Offset(buf, (m + 1) - 1)
         /\ (c[k][2] \in Domains /\ k \notin SecondGuesses => c[k][2] = buf[m + 1].domain)
    BY <1>4, <2>2, <2>7, <2>9
  <2>11. ~cut => c[k] = <<Offset(buf, Misses(first)[k]), second[k]>>
    <3> SUFFICES ASSUME ~cut PROVE c[k] = <<Offset(buf, Misses(first)[k]), second[k]>>
      OBVIOUS
    <3>1. l < Len(Misses(first))
      BY <1>2, <1>3, <2>1
    <3>2. m = Misses(first)[k] /\ ip = second[k]
      BY <1>2, <2>1, <2>4, <2>6, <3>1
    <3>3. second[k] \in Answers
      <4>1. second \in [1 .. Len(Misses(first)) -> Answers] /\ k \in 1 .. Len(Misses(first))
        BY <1>1, <1>2 DEF NetShape
      <4> QED BY <4>1
    <3> QED BY <2>2, <2>5, <2>7, <3>2, <3>3
  <2> QED BY <2>8, <2>10, <2>11
<1>6. c \in Seq(Calls) /\ Len(c) = misscount
  <2>1. c = [k \in 1 .. misscount |-> c[k]]
    BY DEF SecondCalls
  <2>2. c \in [1 .. misscount -> Calls]
    BY <1>5, <2>1
  <2> QED BY <1>3, <2>2
<1>7. Unmixed(c, SecondGuesses)
  BY <1>5, <1>6 DEF Unmixed
<1> QED BY <1>5, <1>6, <1>7

\* Misses, and their answers: the call is over.
LEMMA DealSecondStep == ASSUME ClientInv, DealSecond PROVE ClientInv'
<1>1. CallShape /\ NetShape /\ FirstCallsMade /\ Settled /\ NoMixup
  BY DEF ClientInv
<1>2. /\ pc = "second" /\ pc' = "done" /\ result' = "SUCCESS"
      /\ guessed' = guessed \cup {Len(calls) + k : k \in SecondGuesses}
      /\ held' = {}
      /\ UNCHANGED <<buf, index, retbuf, count, misscount, asked, first, second,
                     stream, eof, datagram, swallowed, cut, lost>>
  BY DEF DealSecond, Give, serverVars, netVars
<1>2a. PICK late \in SeenSecond : calls' = calls \o SecondCalls(late)
  BY DEF DealSecond
<1>3. nbuf' = nbuf /\ IsTcp' = IsTcp /\ FirstLength' = FirstLength /\ RetSize' = RetSize
  BY <1>2, SameBuf
<1>4. IsTcp /\ asked /\ nbuf \in Nat /\ misscount \in 0 .. nbuf
  BY <1>1, <1>2, Sizes DEF CallShape
<1>5. CallShape'
  <2>1. Index(buf)' = Index(buf)
    BY <1>2
  <2> QED BY <1>1, <1>2, <1>3, <1>4, <2>1 DEF CallShape
<1>6. NetShape'
  <2>1. asked' \in BOOLEAN /\ count' \in Int /\ (IsTcp => count' \in Nat)
        /\ swallowed' \in 0 .. FirstLength
    BY <1>1, <1>2 DEF NetShape
  <2> QED BY <1>1, <1>2, <1>3, <1>4, <2>1, NetKept
\* The calls for the first reply, and those for the second behind them.
<1>7. calls \in Seq(Calls) /\ Len(calls) \in Nat
  BY <1>1, <1>2 DEF FirstCallsMade
<1>8. ASSUME swallowed = 0, NEW c, c = SecondCalls(late)
      PROVE  /\ c \in Seq(Calls) /\ Len(c) = misscount
             /\ Len(calls') = Len(calls) + misscount
             /\ \A k \in 1 .. Len(calls) : calls'[k] = calls[k] /\ k \in 1 .. Len(calls')
             /\ \A k \in 1 .. misscount : calls'[Len(calls) + k] = c[k]
                                          /\ Len(calls) + k \in 1 .. Len(calls')
             /\ \A k \in 1 .. Len(calls') :
                  k \in 1 .. Len(calls) \/ \E j \in 1 .. misscount : k = Len(calls) + j
  <2>1. c \in Seq(Calls) /\ Len(c) = misscount
    BY <1>2, <1>8, SecondCallsRight
  <2>2. /\ Len(calls') = Len(calls) + Len(c)
        /\ \A i \in 1 .. Len(calls) + Len(c) :
             calls'[i] = IF i <= Len(calls) THEN calls[i] ELSE c[i - Len(calls)]
    <3> SUFFICES ASSUME NEW a \in Seq(Calls), NEW r, r = a \o c
                 PROVE  /\ Len(r) = Len(a) + Len(c)
                        /\ \A i \in 1 .. Len(a) + Len(c) :
                             r[i] = IF i <= Len(a) THEN a[i] ELSE c[i - Len(a)]
      BY <1>2a, <1>7, <1>8
    <3> QED BY <2>1, ConcatProperties
  <2>3. misscount \in Nat
    BY <1>4
  <2>4. \A k \in 1 .. Len(calls) : k \in 1 .. Len(calls) + Len(c) /\ k <= Len(calls)
    BY <1>7, <2>1, <2>3
  <2>5. \A k \in 1 .. misscount : /\ Len(calls) + k \in 1 .. Len(calls) + Len(c)
                                  /\ ~(Len(calls) + k <= Len(calls))
                                  /\ (Len(calls) + k) - Len(calls) = k
    BY <1>7, <2>1, <2>3
  <2>6. ASSUME NEW k \in 1 .. Len(calls')
        PROVE  k \in 1 .. Len(calls) \/ \E j \in 1 .. misscount : k = Len(calls) + j
    <3>1. k \in 1 .. Len(calls) \/ (k - Len(calls) \in 1 .. misscount /\ k = Len(calls) + (k - Len(calls)))
      BY <1>7, <2>1, <2>2, <2>3
    <3> QED BY <3>1
  <2> QED BY <2>1, <2>2, <2>4, <2>5, <2>6
<1>9. NoMixup'
  <2> SUFFICES ASSUME swallowed = 0, NEW k \in 1 .. Len(calls')
               PROVE  \E i \in 1 .. nbuf : /\ calls'[k][1] = Offset(buf, i - 1)
                                           /\ calls'[k][2] \in Domains /\ k \notin guessed' =>
                                                calls'[k][2] = buf[i].domain
    BY <1>2, <1>3 DEF NoMixup
  <2> DEFINE c == SecondCalls(late)
  <2>1. Unmixed(c, SecondGuesses) /\ Len(c) = misscount
    BY <1>2, SecondCallsRight
  <2> HIDE DEF c
  <2>2. CASE k \in 1 .. Len(calls)
    <3>1. calls'[k] = calls[k]
      BY <1>8, <2>2
    <3> QED BY <1>1, <1>2, <2>2, <3>1 DEF NoMixup
  <2>3. CASE k \notin 1 .. Len(calls)
    <3>1. PICK j \in 1 .. misscount : k = Len(calls) + j
      BY <1>8, <2>3
    <3>2. calls'[k] = c[j]
      <4>1. c = SecondCalls(late)
        BY DEF c
      <4> QED BY <1>8, <3>1, <4>1
    <3>3. k \notin guessed' => j \notin SecondGuesses
      BY <1>2, <3>1
    <3> QED BY <2>1, <3>1, <3>2, <3>3 DEF Unmixed
  <2> QED BY <2>2, <2>3
<1>10. AnsweredRight'
  <2> SUFFICES ASSUME first # <<>>, swallowed = 0, ~cut
               PROVE  /\ Len(calls') = nbuf
                      /\ \A i \in 1 .. nbuf : \E k \in 1 .. nbuf :
                           calls'[k] = <<Offset(buf, i - 1), FinalAnswer(i)'>>
    BY <1>2, <1>3 DEF AnsweredRight
  <2> DEFINE c == SecondCalls(late)
             m == misscount
  <2>1. /\ Len(c) = m
        /\ \A k \in 1 .. m : c[k] = <<Offset(buf, Misses(first)[k]), second[k]>>
    <3> SUFFICES ASSUME NEW x, x = SecondCalls(late)
                 PROVE  /\ Len(x) = m
                        /\ \A k \in 1 .. m : x[k] = <<Offset(buf, Misses(first)[k]), second[k]>>
      OBVIOUS
    <3> QED BY <1>2, SecondCallsRight
  <2>2. second # <<>> /\ m = Len(Misses(first))
    BY <1>2, SecondToDeal
  <2>3. /\ Len(calls) = nbuf - m
        /\ \A i \in 1 .. nbuf : first[i] # CACHE_MISS =>
             \E k \in 1 .. Len(calls) : calls[k] = <<Offset(buf, i - 1), first[i]>>
    BY <1>1, <1>2 DEF FirstCallsMade
  <2>4. /\ Len(calls') = Len(calls) + m
        /\ \A k \in 1 .. Len(calls) : calls'[k] = calls[k] /\ k \in 1 .. Len(calls')
        /\ \A k \in 1 .. m : calls'[Len(calls) + k] = c[k] /\ Len(calls) + k \in 1 .. Len(calls')
    <3> SUFFICES ASSUME NEW x, x = SecondCalls(late)
                 PROVE  /\ Len(calls') = Len(calls) + m
                        /\ \A k \in 1 .. Len(calls) : calls'[k] = calls[k] /\ k \in 1 .. Len(calls')
                        /\ \A k \in 1 .. m : calls'[Len(calls) + k] = x[k]
                                             /\ Len(calls) + k \in 1 .. Len(calls')
      OBVIOUS
    <3> QED BY <1>8
  <2>5. Len(calls') = nbuf
    BY <1>4, <1>7, <2>3, <2>4
  <2> HIDE DEF c
  <2>6. ASSUME NEW i \in 1 .. nbuf
        PROVE  \E k \in 1 .. nbuf : calls'[k] = <<Offset(buf, i - 1), FinalAnswer(i)'>>
    <3>1. CASE first[i] # CACHE_MISS
      <4>1. FinalAnswer(i)' = first[i]
        BY <1>2, <3>1 DEF FinalAnswer
      <4>2. PICK k \in 1 .. Len(calls) : calls[k] = <<Offset(buf, i - 1), first[i]>>
        BY <2>3, <3>1
      <4> QED BY <2>4, <2>5, <4>1, <4>2
    <3>2. CASE first[i] = CACHE_MISS
      <4> DEFINE j == CHOOSE k \in 1 .. Len(second) : Misses(first)[k] = i - 1
      <4>1. FinalAnswer(i)' = second[j]
        BY <1>2, <1>3, <1>4, <3>2 DEF FinalAnswer
      <4>2. j \in 1 .. m /\ Misses(first)[j] = i - 1
        <5>1. i - 1 \in MissSet(first)
          <6>1. i - 1 \in Positions /\ (i - 1) + 1 = i
            BY <1>4 DEF Positions
          <6>2. MissSet(first) = {p \in Positions : first[p + 1] = CACHE_MISS}
            BY <1>1, MissesOfFirst
          <6> QED BY <3>2, <6>1, <6>2
        <5>2. InOrderIs(Misses(first), MissSet(first))
          BY <1>1, MissesOfFirst
        <5>3. second \in [1 .. m -> Answers] /\ m \in Nat
          BY <1>1, <1>4, <2>2 DEF NetShape
        <5>4. Len(second) = m
          BY <5>3
        <5>5. \E k \in 1 .. Len(second) : Misses(first)[k] = i - 1
          <6> HIDE DEF m
          <6> QED BY <2>2, <5>1, <5>2, <5>4 DEF InOrderIs
        <5> QED BY <5>4, <5>5
      <4> HIDE DEF j, m
      <4>3. calls'[Len(calls) + j] = <<Offset(buf, i - 1), second[j]>>
        BY <2>1, <2>4, <4>2
      <4> QED BY <2>4, <2>5, <4>1, <4>2, <4>3
    <3> QED BY <3>1, <3>2
  <2> QED BY <2>5, <2>6
<1>11. Settled'
  <2>1. ~cut => first # <<>>
    BY <1>1, <1>2, <1>4 DEF Settled
  <2>2. swallowed = 0 /\ ~cut => second # <<>>
    BY <1>2, SecondToDeal
  <2> QED BY <1>2, <1>3, <2>1, <2>2 DEF Settled
<1>12. ReadingFirst' /\ ReadingSecond' /\ FirstCallsMade' /\ Receiving'
  BY <1>2, AwayFromReplies
<1>13. (count <= RetSize \/ swallowed > 0)'
  BY <1>2, <1>3 DEF ClientInv
<1> QED BY <1>5, <1>6, <1>9, <1>10, <1>11, <1>12, <1>13 DEF ClientInv

(***************************************************************************)
(* UDP                                                                     *)
(***************************************************************************)

\* A datagram, or none.
LEMMA ReceiveStep == ASSUME ClientInv, Recvfrom \/ RecvfromFails PROVE ClientInv'
<1>1. CallShape /\ NetShape /\ Receiving /\ NoMixup
  BY DEF ClientInv
<1>2. PICK bytes, n :
        /\ Received(bytes, n)
        /\ \/ bytes \in datagram /\ n = Len(bytes) /\ datagram' = {}
           \/ bytes = <<>> /\ n = -1 /\ datagram' = datagram
  BY DEF Recvfrom, RecvfromFails
<1>3. /\ pc = "recvfrom" /\ pc' = "reply"
      /\ retbuf' = [o \in DOMAIN retbuf |-> IF o < Len(bytes) THEN bytes[o + 1] ELSE retbuf[o]]
      /\ count' = n
      /\ UNCHANGED <<buf, index, misscount, calls, result, held, asked, first, second,
                     stream, eof, swallowed, cut, lost, guessed>>
  BY <1>2 DEF Received, serverVars, histVars
<1>4. nbuf' = nbuf /\ IsTcp' = IsTcp /\ FirstLength' = FirstLength /\ RetSize' = RetSize
  BY <1>3, SameBuf
<1>5. ~IsTcp /\ asked /\ result = "none" /\ DOMAIN retbuf = 0 .. RetSize - 1 /\ calls = <<>>
  BY <1>1, <1>3 DEF CallShape
<1>6. DOMAIN retbuf' = DOMAIN retbuf
  BY <1>3
<1>6a. count' \in Int /\ count' <= RetSize
  <2>1. RetSize \in Nat /\ FirstLength \in Nat /\ FirstLength <= RetSize
    BY <1>1, Sizes
  <2>2. bytes \in datagram => Len(bytes) = FirstLength
    <3> SUFFICES ASSUME bytes \in datagram PROVE Len(bytes) = FirstLength
      OBVIOUS
    <3>1. first # <<>> /\ bytes = First
      BY <1>1 DEF NetShape, First
    <3> QED BY <1>1, <3>1, SentIs
  <2> QED BY <1>2, <1>3, <2>1, <2>2
<1>7. CallShape'
  <2>1. Index(buf)' = Index(buf)
    BY <1>3
  <2> QED BY <1>1, <1>3, <1>4, <1>5, <1>6, <2>1 DEF CallShape
<1>8. NetShape'
  <2>1. /\ (datagram \subseteq {FirstReply(first)})'
        /\ datagram' \subseteq datagram
    BY <1>1, <1>2, <1>3 DEF NetShape
  <2>2. (second # <<>> =>
           /\ first # <<>> /\ IsTcp /\ Misses(first) # <<>>
           /\ second \in [1 .. Len(Misses(first)) -> Answers]
           /\ \A k \in 1 .. Len(Misses(first)) :
                second[k] \in {buf[Misses(first)[k] + 1].domain, DNS_ERROR})'
    BY <1>1, <1>3, <1>4 DEF NetShape
  <2>3. /\ {asked, eof, cut, lost}' \subseteq BOOLEAN
        /\ (count \in Int /\ (IsTcp => count \in Nat) /\ swallowed \in 0 .. FirstLength)'
        /\ (first \in {<<>>} \cup [1 .. nbuf -> Answers])'
        /\ (~asked => first = <<>> /\ ~cut /\ ~lost)'
        /\ (IsTcp => datagram = {} /\ ~lost)'
        /\ (~IsTcp => stream = <<>> /\ ~eof /\ ~cut /\ swallowed = 0)'
        /\ (IsTcp /\ ~cut /\ first # <<>> => (eof <=> Misses(first) = <<>> \/ second # <<>>))'
        /\ (stream \in Seq(Byte))'
    BY <1>1, <1>3, <1>4, <1>5, <1>6a DEF NetShape
  <2>4. (first # <<>> => \A i \in 1 .. nbuf : first[i] \in {buf[i].domain, DNS_ERROR, CACHE_MISS})'
    BY <1>1, <1>3, <1>4 DEF NetShape
  <2>5. (first = <<>> => second = <<>> /\ stream = <<>> /\ datagram = {} /\ (eof => cut))'
    BY <1>1, <1>3, <2>1 DEF NetShape
  <2> QED BY <2>1, <2>2, <2>3, <2>4, <2>5 DEF NetShape
<1>9. NoMixup'
  BY <1>1, <1>3, MixupKept
<1>10. Receiving'
  <2>1. \A o \in 0 .. RetSize - 1 : ~(o < 0) /\ retbuf[o] = <<"junk">>
    <3>1. RetSize \in Nat /\ Has(<<>>, 0, <<"junk">>)
      BY <1>1, <1>3, Sizes DEF Receiving
    <3>2. \A o \in 0 .. RetSize - 1 : ~(o < 0)
      BY <3>1
    <3> QED BY <1>5, <3>1, <3>2 DEF Has
  <2>2. CASE bytes \in datagram /\ n = Len(bytes) /\ datagram' = {}
    <3>1. bytes = FirstReply(first) /\ first # <<>>
      BY <1>1, <2>2 DEF NetShape
    <3>2. First = bytes
      BY <3>1 DEF First
    <3>3. First' = First
      BY <1>3, SameAnswers
    <3>4. Has(First, Len(First), <<"junk">>)'
      BY <1>3, <1>5, <1>6, <2>1, <3>2, <3>3 DEF Has
    <3> QED BY <1>3, <3>1, <3>4 DEF Receiving
  <2>3. CASE bytes = <<>> /\ n = -1 /\ datagram' = datagram
    <3>1. Len(bytes) = 0
      BY <2>3
    <3>2. Has(<<>>, 0, <<"junk">>)'
      BY <1>3, <1>5, <1>6, <2>1, <3>1 DEF Has
    <3>3. (first = <<>> \/ lost \/ datagram # {})'
      BY <1>1, <1>3, <2>3 DEF Receiving
    <3> QED BY <1>3, <3>2, <3>3 DEF Receiving
  <2> QED BY <1>2, <2>2, <2>3
<1>11. ReadingFirst' /\ ReadingSecond' /\ FirstCallsMade' /\ AnsweredRight' /\ Settled'
  BY <1>3, <1>5 DEF ReadingFirst, ReadingSecond, FirstCallsMade, AnsweredRight, Settled
<1>12. (count <= RetSize \/ swallowed > 0)'
  BY <1>4, <1>6a
<1> QED BY <1>7, <1>8, <1>9, <1>10, <1>11, <1>12 DEF ClientInv

\* The first m calls for a datagram.
LEMMA UdpCallsRight ==
  ASSUME ClientInv, NEW m \in 0 .. nbuf, UdpCalls(m)
  PROVE  /\ NetShape' /\ NoMixup' /\ Len(calls') = m
         /\ first # <<>> /\ ~lost /\ datagram = {} =>
              \A k \in 1 .. m : calls'[k] = <<Offset(buf, k - 1), first[k]>>
<1>1. CallShape /\ NetShape /\ Receiving
  BY DEF ClientInv
<1>2. /\ pc = "reply"
      /\ guessed' = {k \in 1 .. m : IpAt(FirstWord(k - 1)) = Garbled}
      /\ UNCHANGED <<buf, index, retbuf, count, misscount, asked, first, second,
                     stream, eof, datagram, swallowed, cut, lost>>
  BY DEF UdpCalls, serverVars, netVars
<1>2a. PICK seen \in Seen : calls' = [k \in 1 .. m |-> <<index[k - 1], seen[k - 1]>>]
  BY DEF UdpCalls
<1>3. nbuf' = nbuf /\ IsTcp' = IsTcp /\ FirstLength' = FirstLength /\ RetSize' = RetSize
  BY <1>2, SameBuf
<1>4. /\ ~IsTcp /\ asked /\ nbuf \in Nat /\ DOMAIN retbuf = 0 .. RetSize - 1
      /\ FirstLength \in Nat /\ RetSize \in Nat /\ FirstLength <= RetSize /\ FirstLength > 0
      /\ index = Index(buf) /\ buf \in Seq(Words)
  BY <1>1, <1>2, Sizes DEF CallShape
<1>6. NetShape'
  <2>1. asked' \in BOOLEAN /\ count' \in Int /\ (IsTcp => count' \in Nat)
        /\ swallowed' \in 0 .. FirstLength
        /\ (~IsTcp => swallowed' = 0)
    BY <1>1, <1>2 DEF NetShape
  <2> QED BY <1>1, <1>2, <1>3, <1>4, <2>1, NetKept
\* Nothing of the reply has arrived, or all of it.
<1>7. PICK n : /\ FirstArrived(n)
               /\ n = FirstLength \/ first = <<>> \/ lost \/ datagram # {}
  <2>1. /\ \A o \in 0 .. FirstLength - 1 : o \in DOMAIN retbuf /\ ~(o < 0) /\ o < FirstLength
        /\ 0 \in 0 .. FirstLength /\ FirstLength \in 0 .. FirstLength
    BY <1>4
  <2>2. CASE Has(<<>>, 0, <<"junk">>) /\ (first = <<>> \/ lost \/ datagram # {})
    <3>1. \A o \in 0 .. FirstLength - 1 : retbuf[o] = <<"junk">>
      BY <2>1, <2>2 DEF Has
    <3>2. FirstArrived(0)
      BY <1>1, <1>4, <2>1, <3>1 DEF FirstArrived
    <3> QED BY <2>2, <3>2
  <2>3. CASE first # <<>> /\ Has(First, Len(First), <<"junk">>)
    <3>1. First = FirstReply(first)
      BY <2>3 DEF First
    <3>2. Len(First) = FirstLength
      BY <1>1, <2>3, SentIs
    <3>3. \A o \in 0 .. FirstLength - 1 : retbuf[o] = First[o + 1]
      BY <2>1, <2>3, <3>2 DEF Has
    <3>4. FirstArrived(FirstLength)
      BY <1>1, <1>4, <2>1, <2>3, <3>1, <3>3 DEF FirstArrived
    <3> QED BY <3>4
  <2> QED BY <1>1, <1>2, <2>2, <2>3 DEF Receiving
<1>8. Len(calls') = m
  <2>1. calls' \in [1 .. m -> {calls'[k] : k \in 1 .. m}]
    BY <1>2a
  <2>2. calls' \in Seq({calls'[k] : k \in 1 .. m}) /\ Len(calls') = m
    <3> SUFFICES ASSUME NEW T, NEW c \in [1 .. m -> T] PROVE c \in Seq(T) /\ Len(c) = m
      BY <2>1
    <3> QED BY <1>4
  <2> QED BY <2>2
<1>9. ASSUME NEW k \in 1 .. m
      PROVE  /\ k \in 1 .. nbuf
             /\ calls'[k][1] = Offset(buf, k - 1)
             /\ calls'[k][2] \in Domains /\ k \notin guessed' => calls'[k][2] = buf[k].domain
             /\ n = FirstLength => first # <<>> /\ calls'[k] = <<Offset(buf, k - 1), first[k]>>
  <2> DEFINE i == k - 1
             ip == IpAt(HEAD_LENGTH + i * WORD)
  <2>1. i \in Positions /\ i + 1 = k /\ k \in 1 .. nbuf
    BY <1>4 DEF Positions
  <2>2. index[i] = Offset(buf, i)
    BY <1>4, <2>1 DEF Index, Positions, nbuf
  <2>3. calls'[k] = <<Offset(buf, i), seen[i]>> /\ (k \notin guessed' => ip # Garbled)
    BY <1>2, <1>2a, <2>2 DEF FirstWord
  <2> HIDE DEF i
  <2>4. /\ ip \in Answers => first # <<>> /\ ip = first[i + 1]
        /\ n = FirstLength => first # <<>> /\ ip = first[i + 1] /\ first[i + 1] \in Answers
    <3> SUFFICES ASSUME NEW x, x = ip
                 PROVE  /\ x \in Answers => first # <<>> /\ x = first[i + 1]
                        /\ n = FirstLength => first # <<>> /\ x = first[i + 1] /\ first[i + 1] \in Answers
      OBVIOUS
    <3> QED BY <1>7, <2>1, FirstWords
  <2>5. first # <<>> => first[k] \in {buf[k].domain, DNS_ERROR, CACHE_MISS}
    BY <1>1, <2>1 DEF NetShape
  <2>6. DNS_ERROR \notin Domains /\ CACHE_MISS \notin Domains /\ Domains \subseteq Answers
        /\ Garbled \notin Answers
    BY AnswerAssumption DEF Answers, DNS_ERROR, CACHE_MISS, Garbled
  <2>7. ip # Garbled => seen[i] = ip
    BY <2>1, SeenFirst
  <2> HIDE DEF ip
  <2> QED BY <2>1, <2>3, <2>4, <2>5, <2>6, <2>7 DEF i
<1>10. NoMixup'
  BY <1>2, <1>3, <1>8, <1>9 DEF NoMixup
<1>11. first # <<>> /\ ~lost /\ datagram = {} =>
         \A k \in 1 .. m : calls'[k] = <<Offset(buf, k - 1), first[k]>>
  BY <1>7, <1>9
<1> QED BY <1>6, <1>8, <1>10, <1>11

\* One call for each domain of a datagram.
LEMMA DealUdpStep == ASSUME ClientInv, DealUdp PROVE ClientInv'
<1>1. CallShape /\ NetShape /\ nbuf \in Nat
  BY Sizes DEF ClientInv
<1>2. /\ pc = "reply" /\ pc' = "done" /\ result' = "SUCCESS" /\ held' = {"sockfd"} /\ UdpCalls(nbuf)
      /\ UNCHANGED <<buf, index, retbuf, count, misscount, asked, first, second,
                     stream, eof, datagram, swallowed, cut, lost>>
  BY DEF DealUdp, UdpCalls, Give, serverVars, netVars
<1>3. nbuf' = nbuf /\ IsTcp' = IsTcp /\ FirstLength' = FirstLength /\ RetSize' = RetSize
  BY <1>2, SameBuf
<1>4. ~IsTcp /\ asked /\ DOMAIN retbuf = 0 .. RetSize - 1
  BY <1>1, <1>2 DEF CallShape
<1>5. CallShape'
  <2>1. Index(buf)' = Index(buf)
    BY <1>2
  <2> QED BY <1>1, <1>2, <1>3, <1>4, <2>1 DEF CallShape
<1>6. /\ NetShape' /\ NoMixup' /\ Len(calls') = nbuf
      /\ first # <<>> /\ ~lost /\ datagram = {} =>
           \A k \in 1 .. nbuf : calls'[k] = <<Offset(buf, k - 1), first[k]>>
  BY <1>1, <1>2, UdpCallsRight
<1>7. AnsweredRight'
  <2> SUFFICES ASSUME first # <<>>, ~lost, datagram = {}
               PROVE  \A i \in 1 .. nbuf : \E k \in 1 .. nbuf :
                        calls'[k] = <<Offset(buf, i - 1), FinalAnswer(i)'>>
    BY <1>2, <1>3, <1>4, <1>6 DEF AnsweredRight
  <2>1. \A i \in 1 .. nbuf : FinalAnswer(i)' = first[i]
    BY <1>2, <1>3, <1>4 DEF FinalAnswer
  <2> QED BY <1>6, <2>1
<1>8. Settled'
  BY <1>3, <1>4 DEF Settled
<1>9. ReadingFirst' /\ ReadingSecond' /\ FirstCallsMade' /\ Receiving'
  BY <1>2, AwayFromReplies
<1>10. (count <= RetSize \/ swallowed > 0)'
  BY <1>2, <1>3 DEF ClientInv
<1> QED BY <1>5, <1>6, <1>7, <1>8, <1>9, <1>10 DEF ClientInv

\* The walk through buf that goes with them is fatal.
LEMMA WalkStep == ASSUME ClientInv, WalkFault PROVE ClientInv'
<1>1. CallShape /\ NetShape /\ nbuf \in Nat
  BY Sizes DEF ClientInv
<1>2. PICK m \in 1 .. nbuf : UdpCalls(m)
  BY DEF WalkFault
<1>3. /\ pc = "reply" /\ pc' = "dead" /\ result' = result /\ held' = held
      /\ UNCHANGED <<buf, index, retbuf, count, misscount, asked, first, second,
                     stream, eof, datagram, swallowed, cut, lost>>
  BY <1>2 DEF WalkFault, UdpCalls, serverVars, netVars
<1>4. nbuf' = nbuf /\ IsTcp' = IsTcp /\ FirstLength' = FirstLength /\ RetSize' = RetSize
  BY <1>3, SameBuf
<1>5. ~IsTcp /\ asked /\ result = "none"
  BY <1>1, <1>3 DEF CallShape
<1>6. CallShape'
  <2>1. Index(buf)' = Index(buf)
    BY <1>3
  <2> QED BY <1>1, <1>3, <1>4, <1>5, <2>1 DEF CallShape
<1>7. m \in 0 .. nbuf
  BY <1>1
<1>8. NetShape' /\ NoMixup'
  BY <1>2, <1>7, UdpCallsRight
<1>9. (count <= RetSize \/ swallowed > 0)'
  BY <1>3, <1>4 DEF ClientInv
<1> QED BY <1>3, <1>5, <1>6, <1>8, <1>9, InvAway

(***************************************************************************)
(* Server and network                                                      *)
(***************************************************************************)

\* What the server adds goes behind what it has sent.
LEMMA RestGrows ==
  ASSUME NEW sent \in Seq(Byte), NEW extra \in Seq(Byte), NEW filler,
         NEW longer, longer = sent \o extra,
         stream \in Seq(Byte), count \in Nat, DOMAIN retbuf = 0 .. RetSize - 1, RetSize \in Nat,
         RestOf(sent), Has(sent, count, filler), ~cut,
         stream' = stream \o extra, UNCHANGED <<count, cut, retbuf>>
  PROVE  RestOf(longer)' /\ Has(longer, count, filler)' /\ stream' \in Seq(Byte)
<1>1. /\ Len(sent) \in Nat /\ Len(extra) \in Nat /\ Len(stream) \in Nat
      /\ count + Len(stream) = Len(sent)
      /\ \A i \in 1 .. Len(stream) : stream[i] = sent[count + i]
  BY DEF RestOf
<1>2. /\ Len(longer) = Len(sent) + Len(extra)
      /\ \A i \in 1 .. Len(sent) + Len(extra) :
           longer[i] = IF i <= Len(sent) THEN sent[i] ELSE extra[i - Len(sent)]
  BY ConcatProperties
<1>3. /\ stream' \in Seq(Byte) /\ Len(stream') = Len(stream) + Len(extra)
      /\ \A i \in 1 .. Len(stream) + Len(extra) :
           stream'[i] = IF i <= Len(stream) THEN stream[i] ELSE extra[i - Len(stream)]
  <2> SUFFICES ASSUME NEW s \in Seq(Byte), NEW r, r = s \o extra
               PROVE  /\ r \in Seq(Byte) /\ Len(r) = Len(s) + Len(extra)
                      /\ \A i \in 1 .. Len(s) + Len(extra) :
                           r[i] = IF i <= Len(s) THEN s[i] ELSE extra[i - Len(s)]
    OBVIOUS
  <2> QED BY ConcatProperties
<1>4. ASSUME NEW i \in 1 .. Len(stream') PROVE stream'[i] = longer[count + i]
  <2>0. Len(stream') = Len(stream) + Len(extra) /\ Len(sent) \in Nat /\ Len(extra) \in Nat
        /\ Len(stream) \in Nat /\ count + Len(stream) = Len(sent)
    BY <1>1, <1>3
  <2>1. /\ i \in 1 .. Len(stream) + Len(extra)
        /\ count + i \in 1 .. Len(sent) + Len(extra)
        /\ i <= Len(stream) <=> count + i <= Len(sent)
        /\ i - Len(stream) = (count + i) - Len(sent)
        /\ i <= Len(stream) => i \in 1 .. Len(stream)
    <3> DEFINE a == Len(stream)
               b == Len(extra)
               d == Len(sent)
    <3>1. i \in 1 .. a + b /\ a \in Nat /\ b \in Nat /\ d \in Nat /\ count + a = d
      BY <2>0
    <3> HIDE DEF a, b, d
    <3>2. i \in Nat /\ (i <= a <=> count + i <= d) /\ i - a = (count + i) - d
      BY <3>1
    <3>3. count + i \in 1 .. d + b /\ (i <= a => i \in 1 .. a)
      BY <3>1, <3>2
    <3> QED BY <3>1, <3>2, <3>3 DEF a, b, d
  <2>2. CASE i <= Len(stream)
    <3>1. stream'[i] = stream[i] /\ longer[count + i] = sent[count + i]
      BY <1>2, <1>3, <2>1, <2>2
    <3> QED BY <1>1, <2>1, <2>2, <3>1
  <2>3. CASE ~(i <= Len(stream))
    <3>1. stream'[i] = extra[i - Len(stream)] /\ longer[count + i] = extra[(count + i) - Len(sent)]
      BY <1>2, <1>3, <2>1, <2>3
    <3> QED BY <2>1, <3>1
  <2> QED BY <2>2, <2>3
<1>5. RestOf(longer)'
  <2>1. count' + Len(stream') = Len(longer)
    <3>1. Len(stream') = Len(stream) + Len(extra) /\ Len(longer) = Len(sent) + Len(extra)
      BY <1>2, <1>3
    <3>2. count' = count /\ count + Len(stream) = Len(sent) /\ Len(stream) \in Nat /\ Len(extra) \in Nat
      BY <1>1
    <3> DEFINE a == Len(stream)
               b == Len(extra)
    <3>3. count + (a + b) = (count + a) + b
      <4>1. a \in Nat /\ b \in Nat
        BY <3>2
      <4> HIDE DEF a, b
      <4> QED BY <4>1
    <3> QED BY <3>1, <3>2, <3>3
  <2>2. count' + Len(stream') <= Len(longer)
    BY <1>1, <1>2, <2>1
  <2> QED BY <1>4, <2>1, <2>2 DEF RestOf
<1>6. Has(longer, count, filler)'
  <2>1. ASSUME NEW o \in DOMAIN retbuf, o < count PROVE longer[o + 1] = sent[o + 1]
    <3>1. o + 1 \in 1 .. Len(sent) + Len(extra) /\ o + 1 <= Len(sent)
      BY <1>1, <2>1
    <3> QED BY <1>2, <3>1
  <2> QED BY <2>1 DEF Has
<1> QED BY <1>3, <1>5, <1>6

\* No answers, no misses.
LEMMA NoMisses == Misses(<<>>) = <<>>
<1>1. MissSet(<<>>) = {} /\ Len(<<>>) = 0
  BY DEF MissSet
<1>2. {} \in SUBSET (0 .. 0 - 1)
  OBVIOUS
<1>3. InOrderIs(InOrder(0, {}), {})
  BY <1>2, InOrderLists
<1>4. InOrder(0, {}) = <<>>
  BY <1>3 DEF InOrderIs
<1> QED BY <1>1, <1>4 DEF Misses

\* The first reply.
LEMMA ServerFirstStep == ASSUME ClientInv, ServerFirst PROVE ClientInv'
<1>1. CallShape /\ NetShape /\ ReadingFirst /\ Receiving /\ Settled /\ NoMixup /\ AnsweredRight
  BY DEF ClientInv
<1>2. PICK answers \in [1 .. nbuf -> Answers] :
        /\ \A i \in 1 .. nbuf : answers[i] \in {buf[i].domain, DNS_ERROR, CACHE_MISS}
        /\ first' = answers
        /\ IF IsTcp
           THEN /\ stream' = FirstReply(answers)
                /\ eof' = (Misses(answers) = <<>>)
                /\ UNCHANGED datagram
           ELSE /\ datagram' = {FirstReply(answers)}
                /\ UNCHANGED <<stream, eof>>
  BY DEF ServerFirst
<1>3. /\ asked /\ first = <<>> /\ ~cut /\ ~lost
      /\ UNCHANGED <<pc, buf, index, retbuf, count, misscount, calls, result, held, asked, second,
                     swallowed, cut, lost, guessed>>
  BY DEF ServerFirst, callVars, histVars
<1>4. nbuf' = nbuf /\ IsTcp' = IsTcp /\ FirstLength' = FirstLength /\ RetSize' = RetSize
  BY <1>3, SameBuf
<1>5. nbuf \in Nat /\ nbuf > 0 /\ RetSize \in Nat
  BY <1>1, Sizes
<1>6. second = <<>> /\ stream = <<>> /\ datagram = {}
  BY <1>1, <1>3 DEF NetShape
<1>7. first' # <<>> /\ FirstReply(answers) \in Seq(Byte)
  <2>1. answers # <<>>
    BY <1>5
  <2> QED BY <1>2, <1>5, <2>1, FirstReplyBytes
<1>8. IsTcp => pc \notin {"first", "read2", "second"} /\ result # "SUCCESS"
  BY <1>1, <1>3 DEF Settled
<1>9. CallShape'
  <2>1. Index(buf)' = Index(buf)
    BY <1>3
  <2> QED BY <1>1, <1>3, <1>4, <2>1 DEF CallShape
<1>10. NetShape'
  <2>1. /\ {asked, eof, cut, lost}' \subseteq BOOLEAN
        /\ (count \in Int /\ (IsTcp => count \in Nat) /\ swallowed \in 0 .. FirstLength)'
    <3>1. eof' \in BOOLEAN
      BY <1>1, <1>2 DEF NetShape
    <3> QED BY <1>1, <1>3, <1>4, <3>1 DEF NetShape
  <2>2. first' \in [1 .. nbuf' -> Answers] /\ asked' /\ second' = <<>>
    BY <1>2, <1>3, <1>4, <1>6
  <2>3. (\A i \in 1 .. nbuf : first[i] \in {buf[i].domain, DNS_ERROR, CACHE_MISS})'
    BY <1>2, <1>3, <1>4
  <2>4. (IsTcp => datagram = {} /\ ~lost)'
    BY <1>2, <1>3, <1>4, <1>6
  <2>5. (~IsTcp => stream = <<>> /\ ~eof /\ ~cut /\ swallowed = 0)'
    BY <1>1, <1>2, <1>3, <1>4 DEF NetShape
  <2>6. (IsTcp /\ ~cut /\ first # <<>> => (eof <=> Misses(first) = <<>> \/ second # <<>>))'
    BY <1>2, <1>4, <2>2
  <2>7. (datagram \subseteq {FirstReply(first)})'
    BY <1>2, <1>6
  <2>8. stream' \in Seq(Byte)
    BY <1>1, <1>2, <1>7 DEF NetShape
  <2> QED BY <1>7, <2>1, <2>2, <2>3, <2>4, <2>5, <2>6, <2>7, <2>8 DEF NetShape
<1>11. NoMixup'
  BY <1>1, <1>3, MixupKept
<1>12. ReadingFirst'
  <2> SUFFICES ASSUME pc = "read1", swallowed = 0 PROVE ReadingFirst'
    <3>1. pc = "first" => IsTcp
      BY <1>1 DEF CallShape
    <3> QED BY <1>3, <1>8, <3>1 DEF ReadingFirst
  <2>1. RestOf(Sent) /\ Has(Sent, count, <<"junk">>) /\ count < FirstLength
    BY <1>1 DEF ReadingFirst
  <2>2. IsTcp /\ DOMAIN retbuf = 0 .. RetSize - 1
    BY <1>1 DEF CallShape
  <2>3. Sent = <<>>
    BY <1>3, <1>6 DEF Sent, First, Second
  <2> DEFINE r == FirstReply(answers)
  <2>4. Sent' = r
    <3>1. First' = r /\ Second' = <<>>
      BY <1>2, <1>3, <1>6, <1>7 DEF First, Second
    <3>2. Sent' = r \o <<>>
      BY <3>1 DEF Sent
    <3> HIDE DEF r
    <3> QED BY <1>7, <3>2, ConcatEmptySeq DEF r
  <2>5. RestOf(r)' /\ Has(r, count, <<"junk">>)'
    <3> SUFFICES ASSUME NEW t, t = FirstReply(answers)
                 PROVE  RestOf(t)' /\ Has(t, count, <<"junk">>)'
      BY <1>2 DEF RestOf, Has
    <3>1. t = <<>> \o t /\ <<>> \in Seq(Byte) /\ t \in Seq(Byte)
      BY <1>7, ConcatEmptySeq
    <3>2. stream' = stream \o t
      BY <1>2, <1>6, <2>2, <3>1
    <3>3. RestOf(<<>>) /\ Has(<<>>, count, <<"junk">>)
      BY <2>1, <2>3
    <3>4. stream \in Seq(Byte) /\ count \in Nat
      BY <1>1, <2>2 DEF NetShape
    <3> QED BY <1>3, <1>5, <2>2, <3>1, <3>2, <3>3, <3>4, RestGrows
  <2>6. RestOf(Sent)' /\ Has(Sent, count, <<"junk">>)'
    BY <2>4, <2>5 DEF RestOf, Has
  <2> QED BY <1>3, <1>4, <2>1, <2>6 DEF ReadingFirst
<1>13. ReadingSecond' /\ FirstCallsMade'
  <2>1. pc \notin {"read2", "second"}
    BY <1>1, <1>8 DEF CallShape
  <2> QED BY <1>3, <2>1 DEF ReadingSecond, FirstCallsMade
<1>14. Receiving'
  <2>1. pc \in {"recvfrom", "reply"} => ~IsTcp
    BY <1>1 DEF CallShape
  <2>2. Has(<<>>, 0, <<"junk">>) => Has(<<>>, 0, <<"junk">>)'
    BY <1>3 DEF Has
  <2>3. ~IsTcp => datagram' = {FirstReply(first)}' /\ datagram' # {}
    BY <1>2
  <2>4. pc = "recvfrom" => Has(<<>>, 0, <<"junk">>)
    BY <1>1 DEF Receiving
  <2>5. pc = "reply" => Has(<<>>, 0, <<"junk">>)
    BY <1>1, <1>3 DEF Receiving
  <2> QED BY <1>3, <2>1, <2>2, <2>3, <2>4, <2>5 DEF Receiving
<1>15. Settled' /\ AnsweredRight'
  <2>1. ~IsTcp => datagram' # {}
    BY <1>2
  <2>2. result' = "SUCCESS" => ~IsTcp
    BY <1>3, <1>8
  <2>3. AnsweredRight'
    BY <1>4, <2>1, <2>2 DEF AnsweredRight
  <2>4. Settled'
    BY <1>3, <1>4, <1>8 DEF Settled
  <2> QED BY <2>3, <2>4
<1>16. (count <= RetSize \/ swallowed > 0)'
  BY <1>3, <1>4 DEF ClientInv
<1> QED BY <1>9, <1>10, <1>11, <1>12, <1>13, <1>14, <1>15, <1>16 DEF ClientInv

\* The second reply.
LEMMA ServerSecondStep == ASSUME ClientInv, ServerSecond PROVE ClientInv'
<1> DEFINE miss == Misses(first)
           m == Len(miss)
<1>1. CallShape /\ NetShape /\ ReadingFirst /\ ReadingSecond /\ FirstCallsMade /\ Settled
      /\ NoMixup /\ AnsweredRight
  BY DEF ClientInv
<1>2. PICK failing \in SUBSET (1 .. m) :
        LET late == [k \in 1 .. m |-> IF k \in failing THEN DNS_ERROR ELSE buf[miss[k] + 1].domain]
        IN  second' = late /\ stream' = stream \o SecondReply(first, late)
  BY DEF ServerSecond
<1> DEFINE late == [k \in 1 .. m |-> IF k \in failing THEN DNS_ERROR ELSE buf[miss[k] + 1].domain]
           r == SecondReply(first, late)
<1>3. /\ IsTcp /\ miss # <<>> /\ second = <<>> /\ ~cut /\ eof' = TRUE
      /\ second' = late /\ stream' = stream \o r
      /\ UNCHANGED <<pc, buf, index, retbuf, count, misscount, calls, result, held, asked, first,
                     datagram, swallowed, cut, lost, guessed>>
  BY <1>2 DEF ServerSecond, callVars, histVars
<1>4. nbuf' = nbuf /\ IsTcp' = IsTcp /\ FirstLength' = FirstLength /\ RetSize' = RetSize
  BY <1>3, SameBuf
<1>5. first # <<>>
  BY <1>3, NoMisses
<1>6. /\ nbuf \in Nat /\ RetSize \in Nat /\ m \in Nat /\ m > 0
      /\ miss \in [1 .. m -> Positions] /\ miss \in [1 .. m -> Nat]
  <2>1. m \in Nat /\ miss \in [1 .. m -> Positions] /\ miss \in Seq(MissSet(first))
    BY <1>1, <1>5, MissesOfFirst DEF InOrderIs
  <2>2. m > 0
    <3> HIDE DEF miss
    <3> QED BY <1>3, <2>1
  <2>3. Positions \subseteq Nat
    BY <1>1, Sizes DEF Positions
  <2> HIDE DEF miss, m
  <2>4. miss \in [1 .. m -> Nat]
    BY <2>1, <2>3
  <2> QED BY <1>1, <2>1, <2>2, <2>4, Sizes
<1>7. \A k \in 1 .. m : buf[miss[k] + 1].domain \in Domains
  <2> SUFFICES ASSUME NEW k \in 1 .. m PROVE buf[miss[k] + 1].domain \in Domains
    OBVIOUS
  <2>1. miss[k] \in 0 .. nbuf - 1
    BY <1>6 DEF Positions
  <2> HIDE DEF miss, m
  <2>2. miss[k] + 1 \in 1 .. Len(buf)
    BY <1>6, <2>1 DEF nbuf
  <2>3. buf[miss[k] + 1] \in Words
    BY <1>1, <2>2 DEF CallShape
  <2> QED BY <2>3 DEF Words
<1>8. /\ late \in [1 .. m -> Answers] /\ late # <<>>
      /\ \A k \in 1 .. m : late[k] \in {buf[miss[k] + 1].domain, DNS_ERROR}
  <2> HIDE DEF miss, m
  <2>1. DNS_ERROR \in Answers /\ Domains \subseteq Answers
    BY DEF Answers
  <2>2. 1 \in 1 .. m
    BY <1>6
  <2>3. late \in [1 .. m -> Answers]
    BY <1>7, <2>1
  <2> QED BY <2>2, <2>3
<1> HIDE DEF late
<1>9. r \in Seq(Byte)
  <2> HIDE DEF m
  <2>1. PairsIs(r, miss, late, m)
    BY <1>6, <1>8, SecondReplyBytes
  <2> QED BY <2>1 DEF PairsIs
<1>10. Second = <<>> /\ Second' = r /\ First' = First /\ First \in Seq(Byte)
  BY <1>1, <1>3, <1>8, SentIs DEF Second, First
<1>11. Sent' = Sent \o r /\ Sent = First
  <2> HIDE DEF r
  <2>1. Sent = First \o <<>>
    BY <1>10 DEF Sent
  <2>2. Sent = First
    BY <1>10, <2>1, ConcatEmptySeq
  <2>3. Sent' = First \o r
    BY <1>10 DEF Sent
  <2> QED BY <2>2, <2>3
<1>12. stream \in Seq(Byte) /\ count \in Nat
  BY <1>1, <1>3 DEF NetShape
<1>13. stream' \in Seq(Byte)
  <2> HIDE DEF r
  <2> QED BY <1>3, <1>9, <1>12, ConcatProperties
<1> HIDE DEF r
<1>14. CallShape'
  <2>1. Index(buf)' = Index(buf)
    BY <1>3
  <2> QED BY <1>1, <1>3, <1>4, <2>1 DEF CallShape
<1>15. NetShape'
  <2>1. /\ {asked, eof, cut, lost}' \subseteq BOOLEAN
        /\ (count \in Int /\ (IsTcp => count \in Nat) /\ swallowed \in 0 .. FirstLength)'
        /\ (first \in {<<>>} \cup [1 .. nbuf -> Answers])'
        /\ (~asked => first = <<>> /\ ~cut /\ ~lost)'
        /\ (IsTcp => datagram = {} /\ ~lost)' /\ IsTcp'
        /\ (datagram \subseteq {FirstReply(first)})'
    BY <1>1, <1>3, <1>4 DEF NetShape
  <2>2. (first # <<>> => \A i \in 1 .. nbuf : first[i] \in {buf[i].domain, DNS_ERROR, CACHE_MISS})'
    BY <1>1, <1>3, <1>4 DEF NetShape
  <2>3. (/\ first # <<>> /\ IsTcp /\ Misses(first) # <<>>
         /\ second \in [1 .. Len(Misses(first)) -> Answers]
         /\ \A k \in 1 .. Len(Misses(first)) :
              second[k] \in {buf[Misses(first)[k] + 1].domain, DNS_ERROR})'
    BY <1>3, <1>4, <1>5, <1>8
  <2>4. eof' /\ second' # <<>> /\ first' # <<>>
    BY <1>3, <1>5, <1>8
  <2> QED BY <1>13, <2>1, <2>2, <2>3, <2>4 DEF NetShape
<1>16. NoMixup'
  BY <1>1, <1>3, MixupKept
<1>17. ReadingFirst'
  <2> SUFFICES ASSUME pc \in {"read1", "first"}, swallowed = 0 PROVE ReadingFirst'
    BY <1>3 DEF ReadingFirst
  <2>1. /\ RestOf(Sent) /\ Has(Sent, count, <<"junk">>)
        /\ pc = "read1" => count < FirstLength
        /\ pc = "first" => count = FirstLength \/ (cut /\ stream = <<>> /\ count < FirstLength)
    BY <1>1 DEF ReadingFirst
  <2>2. DOMAIN retbuf = 0 .. RetSize - 1
    BY <1>1 DEF CallShape
  <2>3. RestOf(Sent)' /\ Has(Sent, count, <<"junk">>)'
    <3> SUFFICES ASSUME NEW s, s = Sent, NEW t, t = Sent'
                 PROVE  RestOf(t)' /\ Has(t, count, <<"junk">>)'
      BY DEF RestOf, Has
    <3>1. s \in Seq(Byte) /\ t = s \o r /\ RestOf(s) /\ Has(s, count, <<"junk">>)
      BY <1>10, <1>11, <2>1
    <3> SUFFICES ASSUME NEW x, x = r PROVE RestOf(t)' /\ Has(t, count, <<"junk">>)'
      OBVIOUS
    <3>2. x \in Seq(Byte) /\ stream' = stream \o x /\ t = s \o x
      BY <1>3, <1>9, <3>1
    <3> QED BY <1>3, <1>6, <1>12, <2>2, <3>1, <3>2, RestGrows
  <2> QED BY <1>3, <1>4, <2>1, <2>3 DEF ReadingFirst
<1>18. ReadingSecond'
  <2> SUFFICES ASSUME pc \in {"read2", "second"}, swallowed = 0 PROVE ReadingSecond'
    BY <1>3 DEF ReadingSecond
  <2>1. /\ RestOf(Second) /\ Has(Second, count, ZeroByte)
        /\ first # <<>> /\ Misses(first) # <<>> /\ misscount = Len(Misses(first))
        /\ pc # "second"
    BY <1>1, <1>3 DEF ReadingSecond
  <2>2. DOMAIN retbuf = 0 .. RetSize - 1
    BY <1>1 DEF CallShape
  <2>3. RestOf(Second)' /\ Has(Second, count, ZeroByte)'
    <3> SUFFICES ASSUME NEW x, x = r PROVE RestOf(x)' /\ Has(x, count, ZeroByte)'
      BY <1>10 DEF RestOf, Has
    <3>1. x \in Seq(Byte) /\ stream' = stream \o x /\ x = <<>> \o x /\ <<>> \in Seq(Byte)
      BY <1>3, <1>9, ConcatEmptySeq
    <3>2. RestOf(<<>>) /\ Has(<<>>, count, ZeroByte)
      BY <1>10, <2>1
    <3> QED BY <1>3, <1>6, <1>12, <2>2, <3>1, <3>2, RestGrows
  <2> QED BY <1>3, <2>1, <2>3 DEF ReadingSecond
<1>19. FirstCallsMade'
  <2>1. Len(calls)' = Len(calls)
    BY <1>3
  <2> QED BY <1>1, <1>3, <1>4, <2>1 DEF FirstCallsMade
<1>20. Receiving'
  <2>1. pc \notin {"recvfrom", "reply"}
    BY <1>1, <1>3 DEF CallShape
  <2> QED BY <1>3, <2>1 DEF Receiving
<1>21. Settled'
  BY <1>3, <1>4, <1>5, <1>8 DEF Settled
<1>22. AnsweredRight'
  <2>1. ~(result = "SUCCESS" /\ swallowed = 0)
    BY <1>1, <1>3 DEF Settled
  <2>2. result = "SUCCESS" => (IsTcp => "sockfd" \notin held)
    BY <1>1 DEF AnsweredRight
  <2> QED BY <1>3, <1>4, <2>1, <2>2 DEF AnsweredRight
<1>23. (count <= RetSize \/ swallowed > 0)'
  BY <1>3, <1>4 DEF ClientInv
<1> QED BY <1>14, <1>15, <1>16, <1>17, <1>18, <1>19, <1>20, <1>21, <1>22, <1>23 DEF ClientInv

\* The first elements of a sequence.
LEMMA Taken ==
  ASSUME NEW S, NEW s \in Seq(S), NEW n \in 0 .. Len(s), NEW t, t = SubSeq(s, 1, n)
  PROVE  /\ t \in Seq(S) /\ Len(t) = n
         /\ \A i \in 1 .. n : t[i] = s[i]
<1>1. Len(s) \in Nat /\ n \in Nat /\ \A i \in 1 .. n : i \in 1 .. Len(s) /\ s[i] \in S
  OBVIOUS
<1>2. t = [i \in 1 .. n |-> s[i]]
  <2>1. (n - 1) + 1 = n /\ \A i \in 1 .. n : i + 1 - 1 = i /\ 1 + i - 1 = i
    BY <1>1
  <2> QED BY <1>1, <2>1
<1>3. t \in [1 .. n -> S]
  BY <1>1, <1>2
<1> QED BY <1>1, <1>2, <1>3

\* The connection breaks, or a datagram is lost.
LEMMA BreakStep == ASSUME ClientInv, ConnectionBreaks PROVE ClientInv'
<1>1. CallShape /\ NetShape /\ ReadingFirst /\ ReadingSecond /\ FirstCallsMade /\ NoMixup
      /\ AnsweredRight
  BY DEF ClientInv
<1>2. PICK n \in 0 .. Len(stream) : stream' = SubSeq(stream, 1, n)
  BY DEF ConnectionBreaks
<1>3. /\ IsTcp /\ asked /\ ~cut /\ eof' = TRUE /\ cut' = TRUE
      /\ UNCHANGED <<pc, buf, index, retbuf, count, misscount, calls, result, held, asked,
                     first, second, datagram, swallowed, lost, guessed>>
  BY DEF ConnectionBreaks, callVars, serverVars
<1>4. nbuf' = nbuf /\ IsTcp' = IsTcp /\ FirstLength' = FirstLength /\ RetSize' = RetSize
  BY <1>3, SameBuf
<1>5. stream \in Seq(Byte) /\ count \in Nat /\ Len(stream) \in Nat /\ n \in Nat /\ n <= Len(stream)
  <2>1. stream \in Seq(Byte) /\ count \in Nat
    BY <1>1, <1>3 DEF NetShape
  <2> QED BY <2>1
<1>6. /\ stream' \in Seq(Byte) /\ Len(stream') = n
      /\ \A i \in 1 .. n : stream'[i] = stream[i]
  <2> SUFFICES ASSUME NEW s, s = stream, NEW t, t = SubSeq(s, 1, n)
               PROVE  t \in Seq(Byte) /\ Len(t) = n /\ \A i \in 1 .. n : t[i] = s[i]
    BY <1>2
  <2>1. s \in Seq(Byte) /\ n \in 0 .. Len(s)
    BY <1>5
  <2> QED BY <2>1, Taken
<1>7. CallShape'
  <2>1. Index(buf)' = Index(buf)
    BY <1>3
  <2> QED BY <1>1, <1>3, <1>4, <2>1 DEF CallShape
<1>8. NetShape'
  <2>1. /\ {asked, eof, cut, lost}' \subseteq BOOLEAN
        /\ (count \in Int /\ (IsTcp => count \in Nat) /\ swallowed \in 0 .. FirstLength)'
        /\ (first \in {<<>>} \cup [1 .. nbuf -> Answers])'
        /\ (IsTcp => datagram = {} /\ ~lost)' /\ IsTcp' /\ asked' /\ cut'
        /\ (datagram \subseteq {FirstReply(first)})'
    BY <1>1, <1>3, <1>4 DEF NetShape
  <2>2. (first # <<>> => \A i \in 1 .. nbuf : first[i] \in {buf[i].domain, DNS_ERROR, CACHE_MISS})'
    BY <1>1, <1>3, <1>4 DEF NetShape
  <2>3. (second # <<>> =>
           /\ first # <<>> /\ IsTcp /\ Misses(first) # <<>>
           /\ second \in [1 .. Len(Misses(first)) -> Answers]
           /\ \A k \in 1 .. Len(Misses(first)) :
                second[k] \in {buf[Misses(first)[k] + 1].domain, DNS_ERROR})'
    BY <1>1, <1>3, <1>4 DEF NetShape
  <2>4. first' = <<>> => second' = <<>> /\ stream' = <<>> /\ datagram' = {}
    <3>1. first = <<>> => second = <<>> /\ stream = <<>> /\ datagram = {}
      BY <1>1 DEF NetShape
    <3>2. stream = <<>> => stream' = <<>>
      <4>1. stream = <<>> => n = 0
        BY <1>5
      <4>2. n = 0 => stream' = <<>>
        BY <1>6
      <4> QED BY <4>1, <4>2
    <3> QED BY <1>3, <3>1, <3>2
  <2> QED BY <1>6, <2>1, <2>2, <2>3, <2>4 DEF NetShape
<1>9. NoMixup'
  BY <1>1, <1>3, MixupKept
<1>10. Sent' = Sent /\ Second' = Second
  BY <1>3, SameAnswers
\* A broken connection has less to read.
<1>11. ASSUME NEW s, RestOf(s), Len(s) \in Nat PROVE RestOf(s)'
  <2>1. count + Len(stream) <= Len(s) /\ \A i \in 1 .. Len(stream) : stream[i] = s[count + i]
    BY <1>11 DEF RestOf
  <2>2. count + n <= Len(s) /\ \A i \in 1 .. n : i \in 1 .. Len(stream)
    BY <1>5, <1>11, <2>1
  <2>3. count' + Len(stream') <= Len(s)
    BY <1>3, <1>6, <2>2
  <2>4. \A i \in 1 .. Len(stream') : stream'[i] = s[count' + i]
    BY <1>3, <1>6, <2>1, <2>2
  <2> QED BY <1>3, <2>3, <2>4 DEF RestOf
<1>12. Len(Sent) \in Nat /\ Len(Second) \in Nat
  BY <1>1, SentIs
<1>13. ReadingFirst'
  <2> SUFFICES ASSUME pc \in {"read1", "first"}, swallowed = 0 PROVE ReadingFirst'
    BY <1>3 DEF ReadingFirst
  <2>1. /\ RestOf(Sent) /\ Has(Sent, count, <<"junk">>)
        /\ pc = "read1" => count < FirstLength
        /\ pc = "first" => count = FirstLength
    BY <1>1, <1>3 DEF ReadingFirst
  <2>2. RestOf(Sent)' /\ Has(Sent, count, <<"junk">>)'
    <3> SUFFICES ASSUME NEW s, s = Sent PROVE RestOf(s)' /\ Has(s, count, <<"junk">>)'
      BY <1>10 DEF RestOf, Has
    <3>1. RestOf(s) /\ Len(s) \in Nat /\ Has(s, count, <<"junk">>)
      BY <1>12, <2>1
    <3> QED BY <1>3, <1>11, <3>1 DEF Has
  <2> QED BY <1>3, <1>4, <2>1, <2>2 DEF ReadingFirst
<1>14. ReadingSecond'
  <2> SUFFICES ASSUME pc \in {"read2", "second"}, swallowed = 0 PROVE ReadingSecond'
    BY <1>3 DEF ReadingSecond
  <2>1. RestOf(Second) /\ Has(Second, count, ZeroByte)
    BY <1>1 DEF ReadingSecond
  <2>2. RestOf(Second)' /\ Has(Second, count, ZeroByte)'
    <3> SUFFICES ASSUME NEW s, s = Second PROVE RestOf(s)' /\ Has(s, count, ZeroByte)'
      BY <1>10 DEF RestOf, Has
    <3>1. RestOf(s) /\ Len(s) \in Nat /\ Has(s, count, ZeroByte)
      BY <1>12, <2>1
    <3> QED BY <1>3, <1>11, <3>1 DEF Has
  <2> QED BY <1>3, <2>2 DEF ReadingSecond
<1>15. FirstCallsMade' /\ Settled'
  BY <1>1, <1>3 DEF FirstCallsMade, Settled
<1>16. Receiving'
  <2>1. pc \notin {"recvfrom", "reply"}
    BY <1>1, <1>3 DEF CallShape
  <2> QED BY <1>3, <2>1 DEF Receiving
<1>17. AnsweredRight'
  BY <1>1, <1>3, <1>4 DEF AnsweredRight
<1>18. (count <= RetSize \/ swallowed > 0)'
  BY <1>3, <1>4 DEF ClientInv
<1> QED BY <1>7, <1>8, <1>9, <1>13, <1>14, <1>15, <1>16, <1>17, <1>18 DEF ClientInv

\* The datagram is lost.
LEMMA LostStep == ASSUME ClientInv, DatagramLost PROVE ClientInv'
<1>1. CallShape /\ NetShape /\ Receiving /\ NoMixup
  BY DEF ClientInv
<1>2. /\ ~IsTcp /\ pc = "recvfrom" /\ datagram' = {} /\ lost' = TRUE
      /\ UNCHANGED <<pc, buf, index, retbuf, count, misscount, calls, result, held, asked,
                     first, second, stream, eof, swallowed, cut, guessed>>
  BY DEF DatagramLost, callVars, serverVars
<1>3. nbuf' = nbuf /\ IsTcp' = IsTcp /\ FirstLength' = FirstLength /\ RetSize' = RetSize
  BY <1>2, SameBuf
<1>4. asked /\ result = "none"
  BY <1>1, <1>2 DEF CallShape
<1>5. CallShape'
  <2>1. Index(buf)' = Index(buf)
    BY <1>2
  <2> QED BY <1>1, <1>2, <1>3, <2>1 DEF CallShape
<1>6. NetShape'
  <2>1. /\ {asked, eof, cut, lost}' \subseteq BOOLEAN
        /\ (count \in Int /\ (IsTcp => count \in Nat) /\ swallowed \in 0 .. FirstLength)'
        /\ (first \in {<<>>} \cup [1 .. nbuf -> Answers])'
        /\ ~IsTcp' /\ asked'
        /\ (~IsTcp => stream = <<>> /\ ~eof /\ ~cut /\ swallowed = 0)'
        /\ (stream \in Seq(Byte))'
        /\ (first = <<>> => second = <<>>)'
    BY <1>1, <1>2, <1>3, <1>4 DEF NetShape
  <2>2. (first # <<>> => \A i \in 1 .. nbuf : first[i] \in {buf[i].domain, DNS_ERROR, CACHE_MISS})'
    BY <1>1, <1>2, <1>3 DEF NetShape
  <2>3. ~(second # <<>>)'
    BY <1>1, <1>2 DEF NetShape
  <2> QED BY <1>2, <2>1, <2>2, <2>3 DEF NetShape
<1>7. NoMixup'
  BY <1>1, <1>2, MixupKept
<1>8. Receiving'
  <2>1. Has(<<>>, 0, <<"junk">>)'
    BY <1>1, <1>2 DEF Receiving, Has
  <2> QED BY <1>2, <2>1 DEF Receiving
<1>9. ReadingFirst' /\ ReadingSecond' /\ FirstCallsMade' /\ AnsweredRight' /\ Settled'
  BY <1>2, <1>4 DEF ReadingFirst, ReadingSecond, FirstCallsMade, AnsweredRight, Settled
<1>10. (count <= RetSize \/ swallowed > 0)'
  BY <1>2, <1>3 DEF ClientInv
<1> QED BY <1>5, <1>6, <1>7, <1>8, <1>9, <1>10 DEF ClientInv

(***************************************************************************)
(* The theorems                                                            *)
(***************************************************************************)

\* A step of anyone keeps the invariant.
LEMMA ClientInvStep == ClientInv /\ [Next]_vars => ClientInv'
<1> SUFFICES ASSUME ClientInv, [Next]_vars PROVE ClientInv'
  OBVIOUS
<1>1. CASE ClientStep
  <2>1. CASE TcpDnsSearch \/ UdpDnsSearch
    BY <2>1, SearchStep
  <2>2. CASE Connect \/ ConnectFails \/ SendFails
    BY <2>2, ConnectStep
  <2>3. CASE Send
    BY <2>3, SendStep
  <2>4. CASE ReadFirst
    BY <2>4, ReadFirstStep
  <2>5. CASE LeaveAtEnd("read1", "first") \/ LeaveAtEnd("read2", "second")
    BY <2>5, LeaveStep
  <2>6. CASE DealFirstWithoutError
    BY <2>6, DealFirstWithoutErrorStep
  <2>7. CASE DealFirstWithError
    BY <2>7, DealFirstWithErrorStep
  <2>8. CASE ReadSecond
    BY <2>8, ReadSecondStep
  <2>9. CASE DealSecond
    BY <2>9, DealSecondStep
  <2>10. CASE Recvfrom
    BY <2>10, ReceiveStep
  <2>11. CASE DealUdp
    BY <2>11, DealUdpStep
  <2> QED BY <1>1, <2>1, <2>2, <2>3, <2>4, <2>5, <2>6, <2>7, <2>8, <2>9, <2>10, <2>11 DEF ClientStep
<1>2. CASE ServerStep
  <2>1. CASE ServerFirst
    BY <2>1, ServerFirstStep
  <2>2. CASE ServerSecond
    BY <2>2, ServerSecondStep
  <2> QED BY <1>2, <2>1, <2>2 DEF ServerStep
<1>3. CASE Faults
  <2>1. CASE HeapFault \/ WildIndexFault
    BY <2>1, DieStep
  <2>2. CASE RecvfromFails
    BY <2>2, ReceiveStep
  <2>3. CASE ConnectionBreaks
    BY <2>3, BreakStep
  <2>4. CASE DatagramLost
    BY <2>4, LostStep
  <2>5. CASE WalkFault
    BY <2>5, WalkStep
  <2> QED BY <1>3, <2>1, <2>2, <2>3, <2>4, <2>5 DEF Faults
<1>4. CASE UNCHANGED vars
  <2>1. UNCHANGED <<pc, buf, index, retbuf, count, misscount, calls, result, held, asked, first,
                    second, stream, eof, datagram, swallowed, cut, lost, guessed>>
    BY <1>4 DEF vars, callVars, serverVars, netVars, histVars
  <2>2. nbuf' = nbuf /\ IsTcp' = IsTcp /\ FirstLength' = FirstLength /\ RetSize' = RetSize
    BY <2>1, SameBuf
  <2>3. First' = First /\ Second' = Second /\ Sent' = Sent
    BY <2>1, SameAnswers
  <2>4. CallShape'
    <3>1. Index(buf)' = Index(buf)
      BY <2>1
    <3> QED BY <2>1, <2>2, <3>1 DEF ClientInv, CallShape
  <2>5. NetShape'
    <3>1. NetShape
      BY DEF ClientInv
    <3>2. /\ asked' \in BOOLEAN /\ count' \in Int /\ (IsTcp => count' \in Nat)
          /\ swallowed' \in 0 .. FirstLength
          /\ ~IsTcp => swallowed' = 0
      BY <2>1, <3>1 DEF NetShape
    <3> QED BY <2>1, <2>2, <3>1, <3>2, NetKept
  <2>6. ReadingFirst' /\ ReadingSecond'
    BY <2>1, <2>2, <2>3 DEF ClientInv, ReadingFirst, ReadingSecond, RestOf, Has
  <2>7. FirstCallsMade' /\ Settled'
    BY <2>1, <2>2 DEF ClientInv, FirstCallsMade, Settled
  <2>8. Receiving'
    BY <2>1, <2>3 DEF ClientInv, Receiving, Has
  <2>9. NoMixup'
    BY <2>1, MixupKept DEF ClientInv
  <2>10. AnsweredRight'
    <3>1. \A i : FinalAnswer(i)' = FinalAnswer(i)
      BY <2>1, <2>2 DEF FinalAnswer
    <3> QED BY <2>1, <2>2, <3>1 DEF ClientInv, AnsweredRight
  <2> QED BY <2>1, <2>2, <2>4, <2>5, <2>6, <2>7, <2>8, <2>9, <2>10 DEF ClientInv
<1> QED BY <1>1, <1>2, <1>3, <1>4 DEF Next

\* The invariant gives the types, and that the replies stay inside retbuf as long as
\* the first loop reads nothing but the first reply (dc_client.c:89-90).
LEMMA InvTypes == ClientInv => ClientTypeOK
<1> SUFFICES ASSUME ClientInv PROVE ClientTypeOK
  OBVIOUS
<1>1. CallShape /\ NetShape /\ (count <= RetSize \/ swallowed > 0)
  BY DEF ClientInv
<1>2. index = <<>> \/ index \in [Positions -> Nat]
  <2>1. nbuf \in Nat /\ buf \in Seq(Words)
    BY <1>1, Sizes DEF CallShape
  <2>2. \A i \in 0 .. Len(buf) - 1 : Offset(buf, i) \in Nat
    <3> SUFFICES ASSUME NEW i \in 0 .. Len(buf) - 1 PROVE Offset(buf, i) \in Nat
      OBVIOUS
    <3>1. i \in 0 .. Len(buf)
      BY <2>1 DEF nbuf
    <3> QED BY <2>1, <3>1, OffsetType
  <2>3. Index(buf) \in [Positions -> Nat]
    BY <2>2 DEF Index, Positions, nbuf
  <2> QED BY <1>1, <2>3 DEF CallShape
<1>3. /\ pc \in {"call", "connect", "writev", "sendmsg", "read1", "first", "read2", "second",
                 "recvfrom", "reply", "done", "dead"}
      /\ misscount \in 0 .. nbuf
      /\ result \in {"none", "SUCCESS", "NOT_IN_SET", "CONNECT_WRONG", "OTHER_WRONG"}
      /\ held \subseteq {"sockfd", "headbuf", "retbuf"}
  BY <1>1 DEF CallShape
<1>4. /\ first \in {<<>>} \cup [1 .. nbuf -> Answers]
      /\ {asked, eof, cut, lost} \subseteq BOOLEAN
      /\ swallowed \in 0 .. FirstLength
  BY <1>1 DEF NetShape
<1> QED BY <1>1, <1>2, <1>3, <1>4 DEF ClientTypeOK

\* Types, and no write past the reply buffer unless the first loop reads into the
\* second reply (dc_client.c:89-99, 128-134).
THEOREM ClientTypes == Spec => []ClientTypeOK
BY InitInv, ClientInvStep, InvTypes, PTL DEF Spec

\* However a connection breaks, f is never given a domain from outside buf, nor the address
\* of one domain for another but in a word that did not arrive whole, unless the first loop
\* reads into the second reply (dc_client.c:101-147, 203-216).
THEOREM NoMixups == Spec => []NoMixup
<1>1. ClientInv => NoMixup
  BY DEF ClientInv
<1> QED BY <1>1, InitInv, ClientInvStep, PTL DEF Spec

\* A call that returns SUCCESS has called f once for each domain with the server's
\* answer, unless something was lost or the first loop reads into the second reply
\* (dc_client.c:101-147, 203-216).
THEOREM AnswersRight == Spec => []AnsweredRight
<1>1. ClientInv => AnsweredRight
  BY DEF ClientInv
<1> QED BY <1>1, InitInv, ClientInvStep, PTL DEF Spec

\* No step of a call over TCP has the process die without the first loop having read too far.
LEMMA DeathStep == ClientInv /\ DeathNeedsSwallowing /\ [Next]_vars => DeathNeedsSwallowing'
<1> SUFFICES ASSUME ClientInv, DeathNeedsSwallowing, [Next]_vars, pc' = "dead", IsTcp'
             PROVE  swallowed' > 0
  BY DEF DeathNeedsSwallowing
<1>1. CallShape /\ NetShape
  BY DEF ClientInv
<1>2. /\ FirstLength \in Nat /\ RetSize \in Nat /\ FirstLength <= RetSize
      /\ swallowed \in Nat /\ misscount \in Nat
  BY <1>1, Sizes DEF NetShape, CallShape
<1>3. CASE HeapFault
  BY <1>2, <1>3 DEF HeapFault, histVars
<1>4. CASE WildIndexFault
  <2> SUFFICES ASSUME swallowed = 0 PROVE FALSE
    BY <1>2, <1>4 DEF WildIndexFault, histVars
  <2>1. PICK k \in 1 .. misscount : Wild \in OffsetOfPair(k - 1)
    BY <1>4 DEF WildIndexFault
  <2>2. pc = "second"
    BY <1>4 DEF WildIndexFault
  <2>3. SecondArrived(count)
    BY <2>2, SecondToDeal
  <2> DEFINE l == k - 1
             numbers == NumbersAt(HEAD_LENGTH + 2 * l * WORD)
  <2>4. l \in 0 .. misscount - 1
    BY <1>2
  <2>5. OffsetOfPair(l) = IF numbers = {} THEN {Wild} ELSE {index[i] : i \in numbers}
    BY DEF OffsetOfPair
  <2>6. Wild \in OffsetOfPair(l)
    BY <2>1
  <2> HIDE DEF l
  <2>7. \E m \in Positions : numbers = {m}
    <3> SUFFICES ASSUME NEW y, y = numbers PROVE \E m \in Positions : y = {m}
      OBVIOUS
    <3> QED BY <2>3, <2>4, SecondPair
  <2> HIDE DEF numbers
  <2>8. PICK m \in Positions : numbers = {m}
    BY <2>7
  <2>9. Wild = index[m]
    BY <2>5, <2>6, <2>8
  <2>10. index \in [Positions -> Nat]
    <3>1. index = <<>> \/ index \in [Positions -> Nat]
      BY InvTypes DEF ClientTypeOK
    <3>2. index = Index(buf) /\ buf \in Seq(Words)
      BY <1>1, <2>2 DEF CallShape
    <3>3. DOMAIN index = Positions
      BY <3>2 DEF Index, Positions, nbuf
    <3> QED BY <2>8, <3>1, <3>3
  <2> QED BY <2>9, <2>10, ClientAssumption
<1>5. CASE ~HeapFault /\ ~WildIndexFault /\ ~WalkFault
  <2>1. pc' = pc /\ swallowed' = swallowed /\ buf' = buf
    <3>1. CASE ClientStep
      BY <3>1 DEF ClientStep, TcpDnsSearch, UdpDnsSearch, Connect, ConnectFails, Send, SendFails,
         ReadFirst, LeaveAtEnd, DealFirstWithoutError, DealFirstWithError, ReadSecond, DealSecond,
         Recvfrom, Received, DealUdp, UdpCalls, Give
    <3>2. CASE ServerStep
      BY <3>2 DEF ServerStep, ServerFirst, ServerSecond, callVars, histVars
    <3>3. CASE Faults
      BY <1>5, <3>3 DEF Faults, RecvfromFails, Received, ConnectionBreaks, DatagramLost, callVars
    <3>4. CASE UNCHANGED vars
      BY <3>4 DEF vars, callVars, histVars
    <3> QED BY <3>1, <3>2, <3>3, <3>4 DEF Next
  <2>2. IsTcp' = IsTcp
    BY <2>1, SameBuf
  <2> QED BY <2>1, <2>2 DEF DeathNeedsSwallowing
<1>6. CASE WalkFault
  <2>1. pc = "reply" /\ buf' = buf
    BY <1>6 DEF WalkFault, UdpCalls
  <2>2. IsTcp' = IsTcp
    BY <2>1, SameBuf
  <2> QED BY <1>1, <2>1, <2>2 DEF CallShape
<1> QED BY <1>3, <1>4, <1>5, <1>6

\* Over TCP the process dies of a reply only when the first loop has read into the second one: a heap
\* block written past its end and an index from outside the table have no other cause
\* (dc_client.c:95, 141).
THEOREM DeathNeedsSwallowed == Spec => []DeathNeedsSwallowing
<1>1. Init => DeathNeedsSwallowing
  BY DEF Init, DeathNeedsSwallowing
<1> QED BY <1>1, InitInv, ClientInvStep, DeathStep, PTL DEF Spec
=============================================================================
