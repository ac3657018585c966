----------------------------- MODULE DcMmProofs -----------------------------
(***************************************************************************)
(* Proofs about the allocator of dc_mm1.c and its lists.                   *)
(*                                                                         *)
(* All nodes of a list stand in one order: first those that are used, from *)
(* the head to the end, then the blank ones.  In that order append only    *)
(* moves the border between the two, push and mv2head turn a beginning of  *)
(* the order by one place, and pop turns it back.                          *)
(***************************************************************************)
EXTENDS DcMm, NaturalLemmas, FiniteSetTheorems, SequenceTheorems

(***************************************************************************)
(* Chains of nodes                                                         *)
(***************************************************************************)

\* o puts 1 .. n in an order.
Permuted(n, o) ==
  /\ o \in [1 .. n -> 1 .. n]
  /\ \A i, j \in 1 .. n : o[i] = o[j] => i = j
  /\ \A i \in 1 .. n : \E j \in 1 .. n : o[j] = i

\* The first m of n nodes in the order o are chained from head to end, the others from
\* blank.
Chain(n, m, o, head, end, blank, next) ==
  /\ head = IF m = 0 THEN NULL ELSE o[1]
  /\ end = IF m = 0 THEN NULL ELSE o[m]
  /\ blank = IF m = n THEN NULL ELSE o[m + 1]
  /\ \A k \in 1 .. n : next[o[k]] = IF k = m \/ k = n THEN NULL ELSE o[k + 1]

\* The j-th moved to the front.
ToFront(n, o, j) == [k \in 1 .. n |-> IF k = 1 THEN o[j] ELSE IF k <= j THEN o[k - 1] ELSE o[k]]

\* The first moved to place j.
ToBack(n, o, j) == [k \in 1 .. n |-> IF k = j THEN o[1] ELSE IF k < j THEN o[k + 1] ELSE o[k]]

\* A sequence s of length m without its first member, and with x before it.
Rest(m, s) == [k \in 1 .. m - 1 |-> s[k + 1]]
Onto(x, m, s) == [k \in 1 .. m + 1 |-> IF k = 1 THEN x ELSE s[k - 1]]

\* The order of the nodes stays a permutation when one is put in front ...
LEMMA FrontPermuted ==
  ASSUME NEW n \in Nat, NEW o, Permuted(n, o), NEW j \in 1 .. n
  PROVE  Permuted(n, ToFront(n, o, j))
<1> DEFINE p == ToFront(n, o, j)
<1>1. \A k \in 1 .. n : p[k] = IF k = 1 THEN o[j] ELSE IF k <= j THEN o[k - 1] ELSE o[k]
  BY DEF ToFront
<1> DEFINE src == [k \in 1 .. n |-> IF k = 1 THEN j ELSE IF k <= j THEN k - 1 ELSE k]
<1>2. /\ src \in [1 .. n -> 1 .. n]
      /\ \A k \in 1 .. n : src[k] = IF k = 1 THEN j ELSE IF k <= j THEN k - 1 ELSE k
      /\ \A a, b \in 1 .. n : src[a] = src[b] => a = b
  <2>1. ASSUME NEW k \in 1 .. n PROVE (IF k = 1 THEN j ELSE IF k <= j THEN k - 1 ELSE k) \in 1 .. n
    OBVIOUS
  <2>2. \A k \in 1 .. n : src[k] = IF k = 1 THEN j ELSE IF k <= j THEN k - 1 ELSE k
    OBVIOUS
  <2>3. src \in [1 .. n -> 1 .. n]
    BY <2>1
  <2>5. ASSUME NEW a \in 1 .. n, NEW b \in 1 .. n,
               (IF a = 1 THEN j ELSE IF a <= j THEN a - 1 ELSE a) = (IF b = 1 THEN j ELSE IF b <= j THEN b - 1 ELSE b)
        PROVE  a = b
    BY <2>5
  <2> HIDE DEF src
  <2>4. ASSUME NEW a \in 1 .. n, NEW b \in 1 .. n, src[a] = src[b] PROVE a = b
    <3>1. src[a] = (IF a = 1 THEN j ELSE IF a <= j THEN a - 1 ELSE a)
      BY <2>2
    <3>2. src[b] = (IF b = 1 THEN j ELSE IF b <= j THEN b - 1 ELSE b)
      BY <2>2
    <3> QED BY <2>4, <2>5, <3>1, <3>2
  <2> QED BY <2>2, <2>3, <2>4
<1> HIDE DEF src
<1>5. ASSUME NEW k \in 1 .. n PROVE p[k] = o[src[k]] /\ p[k] \in 1 .. n
  <2>1. src[k] = (IF k = 1 THEN j ELSE IF k <= j THEN k - 1 ELSE k) /\ src[k] \in 1 .. n
    BY <1>2
  <2>2. p[k] = o[src[k]]
    BY <1>1, <2>1
  <2> QED BY <2>1, <2>2 DEF Permuted
<1>6. p \in [1 .. n -> 1 .. n]
  BY <1>5 DEF p, ToFront
<1> HIDE DEF p
<1>3. ASSUME NEW a \in 1 .. n, NEW b \in 1 .. n, p[a] = p[b] PROVE a = b
  <2>1. src[a] \in 1 .. n /\ src[b] \in 1 .. n /\ o[src[a]] = o[src[b]]
    BY <1>2, <1>3, <1>5
  <2> QED BY <1>2, <2>1 DEF Permuted
<1>4. ASSUME NEW i \in 1 .. n PROVE \E k \in 1 .. n : p[k] = i
  <2>1. PICK a \in 1 .. n : o[a] = i
    BY DEF Permuted
  <2>2. CASE a = j
    <3>1. 1 \in 1 .. n /\ p[1] = i
      BY <1>1, <2>1, <2>2
    <3> QED BY <3>1
  <2>3. CASE a < j
    <3>1. a + 1 \in 1 .. n /\ a + 1 # 1 /\ a + 1 <= j /\ (a + 1) - 1 = a
      BY <2>3
    <3>2. p[a + 1] = i
      BY <1>1, <2>1, <3>1
    <3> QED BY <3>1, <3>2
  <2>4. CASE a > j
    <3>1. p[a] = i
      BY <1>1, <2>1, <2>4
    <3> QED BY <3>1
  <2> QED BY <2>2, <2>3, <2>4
<1> QED BY <1>3, <1>4, <1>6 DEF Permuted, p

\* ... and when the first is put behind another.
LEMMA BackPermuted ==
  ASSUME NEW n \in Nat, NEW o, Permuted(n, o), NEW j \in 1 .. n
  PROVE  Permuted(n, ToBack(n, o, j))
<1> DEFINE p == ToBack(n, o, j)
<1>1. \A k \in 1 .. n : p[k] = IF k = j THEN o[1] ELSE IF k < j THEN o[k + 1] ELSE o[k]
  BY DEF ToBack
<1> DEFINE src == [k \in 1 .. n |-> IF k = j THEN 1 ELSE IF k < j THEN k + 1 ELSE k]
<1>2. /\ src \in [1 .. n -> 1 .. n]
      /\ \A k \in 1 .. n : src[k] = IF k = j THEN 1 ELSE IF k < j THEN k + 1 ELSE k
      /\ \A a, b \in 1 .. n : src[a] = src[b] => a = b
  <2>1. ASSUME NEW k \in 1 .. n PROVE (IF k = j THEN 1 ELSE IF k < j THEN k + 1 ELSE k) \in 1 .. n
    OBVIOUS
  <2>2. \A k \in 1 .. n : src[k] = IF k = j THEN 1 ELSE IF k < j THEN k + 1 ELSE k
    OBVIOUS
  <2>3. src \in [1 .. n -> 1 .. n]
    BY <2>1
  <2>5. ASSUME NEW a \in 1 .. n, NEW b \in 1 .. n,
               (IF a = j THEN 1 ELSE IF a < j THEN a + 1 ELSE a) = (IF b = j THEN 1 ELSE IF b < j THEN b + 1 ELSE b)
        PROVE  a = b
    BY <2>5
  <2> HIDE DEF src
  <2>4. ASSUME NEW a \in 1 .. n, NEW b \in 1 .. n, src[a] = src[b] PROVE a = b
    <3>1. src[a] = (IF a = j THEN 1 ELSE IF a < j THEN a + 1 ELSE a)
      BY <2>2
    <3>2. src[b] = (IF b = j THEN 1 ELSE IF b < j THEN b + 1 ELSE b)
      BY <2>2
    <3> QED BY <2>4, <2>5, <3>1, <3>2
  <2> QED BY <2>2, <2>3, <2>4
<1> HIDE DEF src
<1>5. ASSUME NEW k \in 1 .. n PROVE p[k] = o[src[k]] /\ p[k] \in 1 .. n
  <2>1. src[k] = (IF k = j THEN 1 ELSE IF k < j THEN k + 1 ELSE k) /\ src[k] \in 1 .. n
    BY <1>2
  <2>2. p[k] = o[src[k]]
    BY <1>1, <2>1
  <2> QED BY <2>1, <2>2 DEF Permuted
<1>6. p \in [1 .. n -> 1 .. n]
  BY <1>5 DEF p, ToBack
<1> HIDE DEF p
<1>3. ASSUME NEW a \in 1 .. n, NEW b \in 1 .. n, p[a] = p[b] PROVE a = b
  <2>1. src[a] \in 1 .. n /\ src[b] \in 1 .. n /\ o[src[a]] = o[src[b]]
    BY <1>2, <1>3, <1>5
  <2> QED BY <1>2, <2>1 DEF Permuted
<1>4. ASSUME NEW i \in 1 .. n PROVE \E k \in 1 .. n : p[k] = i
  <2>1. PICK a \in 1 .. n : o[a] = i
    BY DEF Permuted
  <2>2. CASE a = 1
    <3>1. p[j] = i
      BY <1>1, <2>1, <2>2
    <3> QED BY <3>1
  <2>3. CASE a # 1 /\ a <= j
    <3>1. a - 1 \in 1 .. n /\ a - 1 # j /\ a - 1 < j /\ (a - 1) + 1 = a
      BY <2>3
    <3>2. p[a - 1] = i
      BY <1>1, <2>1, <3>1
    <3> QED BY <3>1, <3>2
  <2>4. CASE a > j
    <3>1. p[a] = i
      BY <1>1, <2>1, <2>4
    <3> QED BY <3>1
  <2> QED BY <2>2, <2>3, <2>4
<1> QED BY <1>3, <1>4, <1>6 DEF Permuted, p

\* push: the first blank node is chained before the head.
LEMMA PushChain ==
  ASSUME NEW n \in Nat, NEW m \in 0 .. n - 1, NEW o, Permuted(n, o),
         NEW head, NEW end, NEW blank, NEW next \in [1 .. n -> 0 .. n],
         Chain(n, m, o, head, end, blank, next)
  PROVE  /\ blank \in 1 .. n
         /\ Chain(n, m + 1, ToFront(n, o, m + 1), blank, IF end = NULL THEN blank ELSE end,
                  next[blank], [next EXCEPT ![blank] = head])
<1> DEFINE p == ToFront(n, o, m + 1)
           nx == [next EXCEPT ![blank] = head]
<1>1. \A k \in 1 .. n : p[k] = IF k = 1 THEN o[m + 1] ELSE IF k <= m + 1 THEN o[k - 1] ELSE o[k]
  BY DEF ToFront
<1>2. m + 1 \in 1 .. n /\ 1 \in 1 .. n /\ blank = o[m + 1] /\ blank \in 1 .. n
  <2>1. m + 1 \in 1 .. n /\ 1 \in 1 .. n /\ m # n
    OBVIOUS
  <2> QED BY <2>1 DEF Chain, Permuted
<1>3. \A k \in 1 .. n : nx[k] = IF k = blank THEN head ELSE next[k]
  BY <1>2
<1>4. \A k \in 1 .. n : o[k] \in 1 .. n /\ (o[k] = blank <=> k = m + 1)
  BY <1>2 DEF Permuted
<1> HIDE DEF p, nx
<1>5. ASSUME NEW k \in 1 .. n
      PROVE  nx[p[k]] = IF k = m + 1 \/ k = n THEN NULL ELSE p[k + 1]
  <2>1. CASE k = 1
    <3>1. p[k] = blank /\ nx[p[k]] = head
      BY <1>1, <1>2, <1>3, <2>1
    <3>2. CASE m = 0
      BY <2>1, <3>1, <3>2 DEF Chain
    <3>3. CASE m # 0
      <4>1. k + 1 \in 1 .. n /\ k + 1 # 1 /\ k + 1 <= m + 1 /\ (k + 1) - 1 = 1
        BY <2>1, <3>3
      <4>2. p[k + 1] = o[1]
        BY <1>1, <4>1
      <4>3. head = o[1]
        BY <3>3 DEF Chain
      <4>4. k # m + 1 /\ k # n
        BY <2>1, <3>3, <4>1
      <4> QED BY <3>1, <4>2, <4>3, <4>4
    <3> QED BY <3>2, <3>3
  <2>2. CASE k # 1 /\ k <= m + 1
    <3>1. k - 1 \in 1 .. n /\ k - 1 # m + 1 /\ (k - 1) + 1 = k
      BY <2>2
    <3>2. p[k] = o[k - 1] /\ nx[p[k]] = next[o[k - 1]]
      BY <1>1, <1>3, <1>4, <2>2, <3>1
    <3>3. next[o[k - 1]] = IF k - 1 = m \/ k - 1 = n THEN NULL ELSE o[k]
      BY <3>1 DEF Chain
    <3>4. CASE k = m + 1
      <4>1. k - 1 = m
        BY <3>4
      <4> QED BY <3>2, <3>3, <3>4, <4>1
    <3>5. CASE k # m + 1
      <4>1. k - 1 # m /\ k - 1 # n /\ k # n /\ k + 1 \in 1 .. n /\ k + 1 # 1 /\ k + 1 <= m + 1
            /\ (k + 1) - 1 = k
        BY <2>2, <3>5
      <4>2. p[k + 1] = o[k]
        BY <1>1, <4>1
      <4> QED BY <3>2, <3>3, <3>5, <4>1, <4>2
    <3> QED BY <3>4, <3>5
  <2>3. CASE k > m + 1
    <3>1. p[k] = o[k] /\ nx[p[k]] = next[o[k]]
      BY <1>1, <1>3, <1>4, <2>3
    <3>2. next[o[k]] = IF k = m \/ k = n THEN NULL ELSE o[k + 1]
      BY DEF Chain
    <3>3. CASE k = n
      BY <3>1, <3>2, <3>3
    <3>4. CASE k # n
      <4>1. k + 1 \in 1 .. n /\ k + 1 # 1 /\ ~(k + 1 <= m + 1) /\ k # m /\ k # m + 1
        BY <2>3, <3>4
      <4>2. p[k + 1] = o[k + 1]
        BY <1>1, <4>1
      <4> QED BY <3>1, <3>2, <3>4, <4>1, <4>2
    <3> QED BY <3>3, <3>4
  <2> QED BY <2>1, <2>2, <2>3
<1>6. (IF end = NULL THEN blank ELSE end) = p[m + 1]
  <2>1. CASE m = 0
    <3>1. end = NULL /\ p[m + 1] = blank
      BY <1>1, <1>2, <2>1 DEF Chain
    <3> QED BY <3>1
  <2>2. CASE m # 0
    <3>1. m \in 1 .. n /\ m + 1 # 1 /\ (m + 1) - 1 = m
      BY <2>2
    <3>2. end = o[m] /\ p[m + 1] = o[m]
      BY <1>1, <1>2, <2>2, <3>1 DEF Chain
    <3>3. o[m] # NULL
      BY <1>4, <3>1 DEF NULL
    <3> QED BY <3>2, <3>3
  <2> QED BY <2>1, <2>2
<1>7. next[blank] = IF m + 1 = n THEN NULL ELSE p[(m + 1) + 1]
  <2>1. next[blank] = IF m + 1 = m \/ m + 1 = n THEN NULL ELSE o[(m + 1) + 1]
    BY <1>2 DEF Chain
  <2>2. ASSUME m + 1 # n PROVE p[(m + 1) + 1] = o[(m + 1) + 1]
    <3>1. (m + 1) + 1 \in 1 .. n /\ (m + 1) + 1 # 1 /\ ~((m + 1) + 1 <= m + 1)
      BY <2>2
    <3> QED BY <1>1, <3>1
  <2>3. m + 1 # m
    OBVIOUS
  <2> QED BY <2>1, <2>2, <2>3
<1>8. m + 1 # 0 /\ blank = p[1]
  BY <1>1, <1>2
<1> QED BY <1>2, <1>5, <1>6, <1>7, <1>8 DEF Chain, p, nx

\* append: the first blank node is chained behind the end; the order stays.
AppendNext(n, head, end, blank, next) ==
  [i \in 1 .. n |-> IF i = blank THEN NULL
                    ELSE IF head # NULL /\ i = end THEN blank ELSE next[i]]

\* append: the first blank node is chained in behind the last used one.
LEMMA AppendChain ==
  ASSUME NEW n \in Nat, NEW m \in 0 .. n - 1, NEW o, Permuted(n, o),
         NEW head, NEW end, NEW blank, NEW next \in [1 .. n -> 0 .. n],
         Chain(n, m, o, head, end, blank, next)
  PROVE  /\ blank \in 1 .. n
         /\ Chain(n, m + 1, o, IF head = NULL THEN blank ELSE head, blank, next[blank],
                  AppendNext(n, head, end, blank, next))
<1> DEFINE nx == AppendNext(n, head, end, blank, next)
<1>1. m + 1 \in 1 .. n /\ 1 \in 1 .. n /\ m # n /\ m + 1 # m /\ m + 1 # 0
  OBVIOUS
<1>2. blank = o[m + 1] /\ blank \in 1 .. n
  <2>1. blank = o[m + 1]
    BY <1>1 DEF Chain
  <2> QED BY <1>1, <2>1 DEF Permuted
<1>3. \A k \in 1 .. n : nx[k] = IF k = blank THEN NULL
                                ELSE IF head # NULL /\ k = end THEN blank ELSE next[k]
  BY DEF AppendNext
<1> HIDE DEF nx
<1>4. \A k \in 1 .. n : o[k] \in 1 .. n /\ o[k] # NULL /\ (o[k] = blank <=> k = m + 1)
  <2>1. \A k \in 1 .. n : o[k] \in 1 .. n /\ (o[k] = blank <=> k = m + 1)
    BY <1>1, <1>2 DEF Permuted
  <2>2. \A i \in 1 .. n : i # NULL
    BY DEF NULL
  <2> QED BY <2>1, <2>2
<1>5. \A k \in 1 .. n : (head # NULL /\ o[k] = end) <=> k = m
  <2>1. CASE m = 0
    BY <2>1 DEF Chain
  <2>2. CASE m # 0
    <3>1. m \in 1 .. n
      BY <2>2
    <3>2. head # NULL /\ end = o[m]
      BY <1>1, <1>4, <2>2 DEF Chain
    <3> QED BY <3>1, <3>2 DEF Permuted
  <2> QED BY <2>1, <2>2
<1>6. ASSUME NEW k \in 1 .. n
      PROVE  nx[o[k]] = IF k = m + 1 \/ k = n THEN NULL ELSE o[k + 1]
  <2>1. next[o[k]] = IF k = m \/ k = n THEN NULL ELSE o[k + 1]
    BY DEF Chain
  <2>2. CASE k = m + 1
    BY <1>3, <1>4, <2>2
  <2>3. CASE k = m
    <3>1. nx[o[k]] = blank /\ k # n /\ k # m + 1
      BY <1>1, <1>3, <1>4, <1>5, <2>3
    <3> QED BY <1>2, <2>3, <3>1
  <2>4. CASE k # m /\ k # m + 1
    <3>1. nx[o[k]] = next[o[k]]
      BY <1>3, <1>4, <1>5, <2>4
    <3> QED BY <2>1, <2>4, <3>1
  <2> QED BY <2>2, <2>3, <2>4
<1>7. (IF head = NULL THEN blank ELSE head) = o[1]
  <2>1. CASE m = 0
    BY <1>2, <2>1 DEF Chain
  <2>2. CASE m # 0
    BY <1>1, <1>4, <2>2 DEF Chain
  <2> QED BY <2>1, <2>2
<1>8. next[blank] = IF m + 1 = n THEN NULL ELSE o[(m + 1) + 1]
  BY <1>1, <1>2 DEF Chain
<1> QED BY <1>1, <1>2, <1>6, <1>7, <1>8 DEF Chain, nx

\* pop: the head is chained before the blank nodes.
LEMMA PopChain ==
  ASSUME NEW n \in Nat, NEW m \in 1 .. n, NEW o, Permuted(n, o),
         NEW head, NEW end, NEW blank, NEW next \in [1 .. n -> 0 .. n],
         Chain(n, m, o, head, end, blank, next)
  PROVE  /\ head \in 1 .. n
         /\ Chain(n, m - 1, ToBack(n, o, m), next[head],
                  IF next[head] = NULL THEN NULL ELSE end, head,
                  [next EXCEPT ![head] = blank])
<1> DEFINE p == ToBack(n, o, m)
           nx == [next EXCEPT ![head] = blank]
<1>1. \A k \in 1 .. n : p[k] = IF k = m THEN o[1] ELSE IF k < m THEN o[k + 1] ELSE o[k]
  BY DEF ToBack
<1>2. 1 \in 1 .. n /\ m # 0 /\ m - 1 # n /\ (m - 1) + 1 = m
  OBVIOUS
<1>3. head = o[1] /\ head \in 1 .. n
  <2>1. head = o[1]
    BY <1>2 DEF Chain
  <2> QED BY <1>2, <2>1 DEF Permuted
<1>4. \A k \in 1 .. n : nx[k] = IF k = head THEN blank ELSE next[k]
  BY <1>3
<1>5. \A k \in 1 .. n : o[k] \in 1 .. n /\ o[k] # NULL /\ (o[k] = head <=> k = 1)
  <2>1. \A k \in 1 .. n : o[k] \in 1 .. n /\ (o[k] = head <=> k = 1)
    BY <1>2, <1>3 DEF Permuted
  <2>2. \A i \in 1 .. n : i # NULL
    BY DEF NULL
  <2> QED BY <2>1, <2>2
<1> HIDE DEF p, nx
<1>6. ASSUME NEW k \in 1 .. n
      PROVE  nx[p[k]] = IF k = m - 1 \/ k = n THEN NULL ELSE p[k + 1]
  <2>1. CASE k = m
    <3>1. nx[p[k]] = blank /\ k # m - 1
      BY <1>1, <1>2, <1>3, <1>4, <2>1
    <3>2. CASE k = n
      BY <2>1, <3>1, <3>2 DEF Chain
    <3>3. CASE k # n
      <4>1. k + 1 \in 1 .. n /\ k + 1 # m /\ ~(k + 1 < m)
        BY <2>1, <3>3
      <4>2. p[k + 1] = o[k + 1]
        BY <1>1, <4>1
      <4>3. blank = o[k + 1]
        BY <2>1, <3>3 DEF Chain
      <4> QED BY <3>1, <3>3, <4>2, <4>3
    <3> QED BY <3>2, <3>3
  <2>2. CASE k < m
    <3>1. k + 1 \in 1 .. n /\ k + 1 # 1 /\ k # m /\ k # n
      BY <2>2
    <3>2. p[k] = o[k + 1] /\ nx[p[k]] = next[o[k + 1]]
      BY <1>1, <1>4, <1>5, <2>2, <3>1
    <3>3. next[o[k + 1]] = IF k + 1 = m \/ k + 1 = n THEN NULL ELSE o[(k + 1) + 1]
      BY <3>1 DEF Chain
    <3>4. CASE k = m - 1
      <4>1. k + 1 = m
        BY <3>4
      <4> QED BY <3>2, <3>3, <3>4, <4>1
    <3>5. CASE k # m - 1
      <4>1. k + 1 # m /\ k + 1 # n /\ k + 1 < m /\ (k + 1) + 1 \in 1 .. n
        BY <2>2, <3>5
      <4>2. p[k + 1] = o[(k + 1) + 1]
        BY <1>1, <3>1, <4>1
      <4> QED BY <3>1, <3>2, <3>3, <3>5, <4>1, <4>2
    <3> QED BY <3>4, <3>5
  <2>3. CASE k > m
    <3>1. k # m /\ ~(k < m) /\ k # 1 /\ k # m - 1
      BY <2>3
    <3>2. p[k] = o[k] /\ nx[p[k]] = next[o[k]]
      BY <1>1, <1>4, <1>5, <3>1
    <3>3. next[o[k]] = IF k = n THEN NULL ELSE o[k + 1]
      BY <3>1 DEF Chain
    <3>4. CASE k = n
      BY <3>2, <3>3, <3>4
    <3>5. CASE k # n
      <4>1. k + 1 \in 1 .. n /\ k + 1 # m /\ ~(k + 1 < m)
        BY <2>3, <3>5
      <4>2. p[k + 1] = o[k + 1]
        BY <1>1, <4>1
      <4> QED BY <3>1, <3>2, <3>3, <3>5, <4>2
    <3> QED BY <3>4, <3>5
  <2> QED BY <2>1, <2>2, <2>3
<1>7. next[head] = IF m = 1 \/ n = 1 THEN NULL ELSE o[1 + 1]
  BY <1>2, <1>3 DEF Chain
<1>8. next[head] = IF m - 1 = 0 THEN NULL ELSE p[1]
  <2>1. CASE m = 1
    BY <1>7, <2>1
  <2>2. CASE m # 1
    <3>1. n # 1 /\ 1 # m /\ 1 < m /\ m - 1 # 0
      BY <2>2
    <3> QED BY <1>1, <1>2, <1>7, <2>2, <3>1
  <2> QED BY <2>1, <2>2
<1>9. (IF next[head] = NULL THEN NULL ELSE end) = IF m - 1 = 0 THEN NULL ELSE p[m - 1]
  <2>1. CASE m = 1
    BY <1>7, <2>1
  <2>2. CASE m # 1
    <3>1. n # 1 /\ 1 + 1 \in 1 .. n /\ m - 1 # 0 /\ m - 1 \in 1 .. n /\ m - 1 < m /\ m - 1 # m
          /\ (m - 1) + 1 = m
      BY <2>2
    <3>2. next[head] # NULL
      BY <1>5, <1>7, <2>2, <3>1
    <3>3. p[m - 1] = o[m] /\ end = o[m]
      BY <1>1, <1>2, <3>1 DEF Chain
    <3> QED BY <3>1, <3>2, <3>3
  <2> QED BY <2>1, <2>2
<1>10. head = IF m - 1 = n THEN NULL ELSE p[(m - 1) + 1]
  BY <1>1, <1>2, <1>3
<1> QED BY <1>3, <1>6, <1>8, <1>9, <1>10 DEF Chain, p, nx

\* mv2head: node j + 1 is chained before the head.
LEMMA MoveChain ==
  ASSUME NEW n \in Nat, NEW m \in 1 .. n, NEW o, Permuted(n, o),
         NEW head, NEW end, NEW blank, NEW next \in [1 .. n -> 0 .. n],
         Chain(n, m, o, head, end, blank, next),
         NEW j \in 1 .. m - 1, NEW pre, NEW cur, pre = o[j], cur = o[j + 1]
  PROVE  Chain(n, m, ToFront(n, o, j + 1), cur, IF cur = end THEN pre ELSE end, blank,
               [[next EXCEPT ![pre] = next[cur]] EXCEPT ![cur] = head])
<1> DEFINE p == ToFront(n, o, j + 1)
           nx == [[next EXCEPT ![pre] = next[cur]] EXCEPT ![cur] = head]
<1>1. \A k \in 1 .. n : p[k] = IF k = 1 THEN o[j + 1] ELSE IF k <= j + 1 THEN o[k - 1] ELSE o[k]
  BY DEF ToFront
<1>2. j \in 1 .. n /\ j + 1 \in 1 .. n /\ 1 \in 1 .. n /\ j # m /\ j # n /\ m # 0 /\ j # j + 1
  OBVIOUS
<1>3. pre \in 1 .. n /\ cur \in 1 .. n /\ pre # cur
  BY <1>2 DEF Permuted
<1>4. \A k \in 1 .. n : nx[k] = IF k = cur THEN head ELSE IF k = pre THEN next[cur] ELSE next[k]
  BY <1>3
<1>5. \A k \in 1 .. n : /\ o[k] \in 1 .. n
                        /\ o[k] = cur <=> k = j + 1
                        /\ o[k] = pre <=> k = j
  BY <1>2, <1>3 DEF Permuted
<1> HIDE DEF p, nx
<1>6. ASSUME NEW k \in 1 .. n
      PROVE  nx[p[k]] = IF k = m \/ k = n THEN NULL ELSE p[k + 1]
  <2>1. CASE k = 1
    <3>1. p[k] = cur /\ nx[p[k]] = head /\ head = o[1]
      BY <1>1, <1>2, <1>3, <1>4, <2>1 DEF Chain
    <3>2. k + 1 \in 1 .. n /\ k + 1 # 1 /\ k + 1 <= j + 1 /\ (k + 1) - 1 = 1 /\ k # m /\ k # n
      BY <1>2, <2>1
    <3>3. p[k + 1] = o[1]
      BY <1>1, <3>2
    <3> QED BY <3>1, <3>2, <3>3
  <2>2. CASE k # 1 /\ k <= j
    <3>1. /\ k - 1 \in 1 .. n /\ k - 1 # j + 1 /\ k - 1 # j /\ (k - 1) + 1 = k /\ k <= j + 1
          /\ k - 1 # m /\ k - 1 # n /\ k # m /\ k # n
          /\ k + 1 \in 1 .. n /\ k + 1 # 1 /\ k + 1 <= j + 1 /\ (k + 1) - 1 = k
      BY <1>2, <2>2
    <3>2. p[k] = o[k - 1] /\ p[k + 1] = o[k]
      BY <1>1, <2>2, <3>1
    <3>3. nx[p[k]] = next[o[k - 1]]
      BY <1>4, <1>5, <3>1, <3>2, ZenonT(60)
    <3>4. next[o[k - 1]] = o[k]
      BY <3>1 DEF Chain
    <3> QED BY <3>1, <3>2, <3>3, <3>4
  <2>3. CASE k = j + 1
    <3>1. k # 1 /\ k <= j + 1 /\ k - 1 = j
      BY <2>3
    <3>2. p[k] = pre /\ nx[p[k]] = next[cur]
      BY <1>1, <1>3, <1>4, <3>1
    <3>3. next[cur] = IF k = m \/ k = n THEN NULL ELSE o[k + 1]
      BY <1>2, <2>3 DEF Chain
    <3>4. CASE k = m \/ k = n
      BY <3>2, <3>3, <3>4
    <3>5. CASE ~(k = m \/ k = n)
      <4>1. k + 1 \in 1 .. n /\ k + 1 # 1 /\ ~(k + 1 <= j + 1)
        BY <2>3, <3>5
      <4>2. p[k + 1] = o[k + 1]
        BY <1>1, <4>1
      <4> QED BY <3>2, <3>3, <3>5, <4>2
    <3> QED BY <3>4, <3>5
  <2>4. CASE k > j + 1
    <3>1. k # 1 /\ ~(k <= j + 1) /\ k # j /\ k # j + 1
      BY <2>4
    <3>2. p[k] = o[k] /\ nx[p[k]] = next[o[k]]
      BY <1>1, <1>4, <1>5, <3>1
    <3>3. next[o[k]] = IF k = m \/ k = n THEN NULL ELSE o[k + 1]
      BY DEF Chain
    <3>4. CASE k = m \/ k = n
      BY <3>2, <3>3, <3>4
    <3>5. CASE ~(k = m \/ k = n)
      <4>1. k + 1 \in 1 .. n /\ k + 1 # 1 /\ ~(k + 1 <= j + 1)
        BY <2>4, <3>5
      <4>2. p[k + 1] = o[k + 1]
        BY <1>1, <4>1
      <4> QED BY <3>2, <3>3, <3>5, <4>2
    <3> QED BY <3>4, <3>5
  <2> QED BY <2>1, <2>2, <2>3, <2>4
<1>7. (IF cur = end THEN pre ELSE end) = p[m]
  <2>1. end = o[m] /\ m \in 1 .. n /\ m # 1
    BY <1>2 DEF Chain
  <2>2. CASE m = j + 1
    <3>1. m <= j + 1 /\ m - 1 = j
      BY <2>2
    <3>2. p[m] = pre
      BY <1>1, <2>1, <3>1
    <3> QED BY <2>1, <2>2, <3>2
  <2>3. CASE m # j + 1
    <3>1. ~(m <= j + 1)
      BY <2>3
    <3>2. p[m] = o[m]
      BY <1>1, <2>1, <3>1
    <3>3. end # cur
      BY <1>5, <2>1, <2>3
    <3> QED BY <2>1, <3>2, <3>3
  <2> QED BY <2>2, <2>3
<1>8. blank = IF m = n THEN NULL ELSE p[m + 1]
  <2>1. ASSUME m # n PROVE p[m + 1] = o[m + 1]
    <3>1. m + 1 \in 1 .. n /\ m + 1 # 1 /\ ~(m + 1 <= j + 1)
      BY <2>1
    <3> QED BY <1>1, <3>1
  <2> QED BY <2>1 DEF Chain
<1>9. cur = p[1]
  BY <1>1, <1>2
<1> QED BY <1>2, <1>6, <1>7, <1>8, <1>9 DEF Chain, p, nx

\* sl_expand: d nodes are chained before the blank ones.
Grown(n, m, d, o) == [k \in 1 .. n + d |-> IF k <= m THEN o[k]
                                           ELSE IF k <= m + d THEN n + (k - m) ELSE o[k - d]]

GrownNext(n, d, blank, next) ==
  [i \in 1 .. n + d |-> IF i \in 1 .. n THEN next[i] ELSE IF i = n + d THEN blank ELSE i + 1]

\* New nodes between the used and the blank ones leave a permutation.
LEMMA GrownPermuted ==
  ASSUME NEW n \in Nat, NEW m \in 0 .. n, NEW o, Permuted(n, o), NEW d \in Nat
  PROVE  Permuted(n + d, Grown(n, m, d, o))
<1> DEFINE p == Grown(n, m, d, o)
<1>1. \A k \in 1 .. n + d : p[k] = IF k <= m THEN o[k]
                                   ELSE IF k <= m + d THEN n + (k - m) ELSE o[k - d]
  BY DEF Grown
<1>2. \A k \in 1 .. n : o[k] \in 1 .. n
  BY DEF Permuted
<1>3. ASSUME NEW k \in 1 .. n + d
      PROVE  /\ p[k] \in 1 .. n + d
             /\ k <= m => k \in 1 .. n /\ p[k] = o[k]
             /\ k > m /\ k <= m + d => p[k] = n + (k - m)
             /\ k > m + d => k - d \in 1 .. n /\ p[k] = o[k - d]
  <2> HIDE DEF p
  <2>1. CASE k <= m
    <3>1. k \in 1 .. n /\ p[k] = o[k] /\ ~(k > m) /\ ~(k > m + d)
      BY <1>1, <2>1
    <3>2. o[k] \in 1 .. n
      BY <1>2, <3>1
    <3>3. p[k] \in 1 .. n + d
      BY <3>1, <3>2
    <3> QED BY <3>1, <3>3
  <2>2. CASE k > m /\ k <= m + d
    <3>1. ~(k <= m) /\ ~(k > m + d) /\ n + (k - m) \in 1 .. n + d
      BY <2>2
    <3>2. p[k] = n + (k - m)
      BY <1>1, <2>2, <3>1
    <3> QED BY <3>1, <3>2
  <2>3. CASE k > m + d
    <3>1. ~(k <= m) /\ ~(k <= m + d) /\ k - d \in 1 .. n
      BY <2>3
    <3>2. p[k] = o[k - d]
      BY <1>1, <3>1
    <3>3. o[k - d] \in 1 .. n
      BY <1>2, <3>1
    <3>4. p[k] \in 1 .. n + d
      BY <3>2, <3>3
    <3> QED BY <3>1, <3>2, <3>4
  <2> QED BY <2>1, <2>2, <2>3
<1>4. p \in [1 .. n + d -> 1 .. n + d]
  <2>1. p = [k \in 1 .. n + d |-> p[k]]
    BY DEF Grown
  <2> HIDE DEF p
  <2> QED BY <1>3, <2>1
<1> HIDE DEF p
<1>5. ASSUME NEW a \in 1 .. n + d, NEW b \in 1 .. n + d, p[a] = p[b] PROVE a = b
  <2>1. ASSUME NEW k \in 1 .. n + d
        PROVE  p[k] > n <=> (k > m /\ k <= m + d)
    <3>1. CASE k <= m
      <4>1. p[k] \in 1 .. n
        BY <1>2, <1>3, <3>1
      <4> QED BY <3>1, <4>1
    <3>2. CASE k > m /\ k <= m + d
      BY <1>3, <3>2
    <3>3. CASE k > m + d
      <4>1. p[k] \in 1 .. n
        BY <1>2, <1>3, <3>3
      <4> QED BY <3>3, <4>1
    <3> QED BY <3>1, <3>2, <3>3
  <2>2. CASE a > m /\ a <= m + d
    <3>1. b > m /\ b <= m + d
      BY <1>5, <2>1, <2>2
    <3>2. n + (a - m) = n + (b - m)
      BY <1>3, <1>5, <2>2, <3>1
    <3> QED BY <3>2
  <2>3. CASE ~(a > m /\ a <= m + d)
    <3>1. ~(b > m /\ b <= m + d)
      BY <1>5, <2>1, <2>3
    <3> DEFINE s(k) == IF k <= m THEN k ELSE k - d
    <3>2. ASSUME NEW k \in 1 .. n + d, ~(k > m /\ k <= m + d)
          PROVE  s(k) \in 1 .. n /\ p[k] = o[s(k)]
      <4>1. CASE k <= m
        BY <1>3, <4>1
      <4>2. CASE k > m + d
        BY <1>3, <4>2
      <4> QED BY <3>2, <4>1, <4>2
    <3>3. s(a) \in 1 .. n /\ s(b) \in 1 .. n /\ o[s(a)] = o[s(b)]
      BY <1>5, <2>3, <3>1, <3>2
    <3>4. s(a) = s(b)
      BY <3>3 DEF Permuted
    <3> QED BY <2>3, <3>1, <3>4
  <2> QED BY <2>2, <2>3
<1>6. ASSUME NEW i \in 1 .. n + d PROVE \E k \in 1 .. n + d : p[k] = i
  <2>1. CASE i > n
    <3>1. m + (i - n) \in 1 .. n + d /\ m + (i - n) > m /\ m + (i - n) <= m + d
          /\ n + ((m + (i - n)) - m) = i
      BY <2>1
    <3>2. p[m + (i - n)] = i
      BY <1>3, <3>1
    <3> QED BY <3>1, <3>2
  <2>2. CASE i <= n
    <3>1. i \in 1 .. n
      BY <2>2
    <3>2. PICK a \in 1 .. n : o[a] = i
      BY <3>1 DEF Permuted
    <3>3. CASE a <= m
      <4>1. a \in 1 .. n + d
        OBVIOUS
      <4> QED BY <1>3, <3>2, <3>3, <4>1
    <3>4. CASE a > m
      <4>1. a + d \in 1 .. n + d /\ a + d > m + d /\ (a + d) - d = a
        BY <3>4
      <4>2. p[a + d] = i
        BY <1>3, <3>2, <4>1
      <4> QED BY <4>1, <4>2
    <3> QED BY <3>3, <3>4
  <2> QED BY <2>1, <2>2
<1> QED BY <1>4, <1>5, <1>6 DEF Permuted, p

\* sl_expand: the new nodes are the first blank ones.
LEMMA GrowChain ==
  ASSUME NEW n \in Nat, NEW m \in 0 .. n, NEW o, Permuted(n, o), NEW d \in Nat \ {0},
         NEW head, NEW end, NEW blank, NEW next \in [1 .. n -> 0 .. n],
         Chain(n, m, o, head, end, blank, next)
  PROVE  Chain(n + d, m, Grown(n, m, d, o), head, end, n + 1,
               GrownNext(n, d, blank, next))
<1> DEFINE p == Grown(n, m, d, o)
           nx == GrownNext(n, d, blank, next)
<1>1. \A k \in 1 .. n + d : p[k] = IF k <= m THEN o[k]
                                   ELSE IF k <= m + d THEN n + (k - m) ELSE o[k - d]
  BY DEF Grown
<1>2. \A k \in 1 .. n : o[k] \in 1 .. n
  BY DEF Permuted
<1>3. \A i \in 1 .. n + d : nx[i] = IF i \in 1 .. n THEN next[i]
                                    ELSE IF i = n + d THEN blank ELSE i + 1
  BY DEF GrownNext
<1> HIDE DEF p, nx
<1>4. ASSUME NEW k \in 1 .. n + d
      PROVE  nx[p[k]] = IF k = m \/ k = n + d THEN NULL ELSE p[k + 1]
  <2>1. CASE k <= m
    <3>1. k \in 1 .. n /\ p[k] = o[k] /\ k # n + d
      BY <1>1, <2>1
    <3>2. o[k] \in 1 .. n
      BY <1>2, <3>1
    <3>3. nx[p[k]] = next[o[k]]
      BY <1>3, <3>1, <3>2
    <3>4. next[o[k]] = IF k = m \/ k = n THEN NULL ELSE o[k + 1]
      BY <3>1 DEF Chain
    <3>5. CASE k = m
      BY <3>3, <3>4, <3>5
    <3>6. CASE k # m
      <4>1. k # n /\ k + 1 <= m /\ k + 1 \in 1 .. n + d
        BY <2>1, <3>6
      <4>2. p[k + 1] = o[k + 1]
        BY <1>1, <4>1
      <4> QED BY <3>1, <3>3, <3>4, <3>6, <4>1, <4>2
    <3> QED BY <3>5, <3>6
  <2>2. CASE k > m /\ k < m + d
    <3>1. ~(k <= m) /\ k <= m + d /\ k # m /\ k # n + d
          /\ k + 1 \in 1 .. n + d /\ ~(k + 1 <= m) /\ k + 1 <= m + d
      BY <2>2
    <3>2. p[k] = n + (k - m) /\ p[k + 1] = n + ((k + 1) - m)
      BY <1>1, <3>1
    <3>3. n + (k - m) \in 1 .. n + d /\ n + (k - m) \notin 1 .. n /\ n + (k - m) # n + d
          /\ (n + (k - m)) + 1 = n + ((k + 1) - m)
      BY <2>2
    <3>4. nx[n + (k - m)] = (n + (k - m)) + 1
      BY <1>3, <3>3
    <3> QED BY <3>1, <3>2, <3>3, <3>4
  <2>3. CASE k = m + d
    <3>1. ~(k <= m) /\ k <= m + d /\ k # m /\ n + (k - m) = n + d /\ n + d \in 1 .. n + d
          /\ n + d \notin 1 .. n
      BY <2>3
    <3>2. p[k] = n + d
      BY <1>1, <3>1
    <3>3. nx[p[k]] = blank
      BY <1>3, <3>1, <3>2
    <3>4. CASE m = n
      <4>1. blank = NULL /\ k = n + d
        BY <2>3, <3>4 DEF Chain
      <4> QED BY <3>3, <4>1
    <3>5. CASE m # n
      <4>1. k + 1 \in 1 .. n + d /\ ~(k + 1 <= m) /\ ~(k + 1 <= m + d) /\ (k + 1) - d = m + 1
            /\ k # n + d
        BY <2>3, <3>5
      <4>2. p[k + 1] = o[m + 1]
        BY <1>1, <4>1
      <4>3. blank = o[m + 1]
        BY <3>5 DEF Chain
      <4> QED BY <3>1, <3>3, <4>1, <4>2, <4>3
    <3> QED BY <3>4, <3>5
  <2>4. CASE k > m + d
    <3>1. ~(k <= m) /\ ~(k <= m + d) /\ k # m /\ k - d \in 1 .. n /\ k - d # m
      BY <2>4
    <3>2. p[k] = o[k - d] /\ o[k - d] \in 1 .. n
      BY <1>1, <1>2, <3>1
    <3>3. nx[p[k]] = next[o[k - d]]
      BY <1>3, <3>2, SMTT(60)
    <3>4. next[o[k - d]] = IF k - d = n THEN NULL ELSE o[(k - d) + 1]
      BY <3>1 DEF Chain
    <3>5. CASE k = n + d
      <4>1. k - d = n
        BY <3>5
      <4> QED BY <3>3, <3>4, <3>5, <4>1
    <3>6. CASE k # n + d
      <4>1. k + 1 \in 1 .. n + d /\ ~(k + 1 <= m) /\ ~(k + 1 <= m + d) /\ (k + 1) - d = (k - d) + 1
            /\ k - d # n
        BY <2>4, <3>6
      <4>2. p[k + 1] = o[(k - d) + 1]
        BY <1>1, <4>1
      <4> QED BY <3>1, <3>3, <3>4, <3>6, <4>1, <4>2
    <3> QED BY <3>5, <3>6
  <2> QED BY <2>1, <2>2, <2>3, <2>4
<1>5. head = (IF m = 0 THEN NULL ELSE p[1]) /\ end = (IF m = 0 THEN NULL ELSE p[m])
  <2>1. ASSUME m # 0 PROVE p[1] = o[1] /\ p[m] = o[m]
    <3>1. 1 \in 1 .. n + d /\ m \in 1 .. n + d /\ 1 <= m /\ m <= m
      BY <2>1
    <3> QED BY <1>1, <3>1
  <2> QED BY <2>1 DEF Chain
<1>6. n + 1 = IF m = n + d THEN NULL ELSE p[m + 1]
  <2>1. m # n + d /\ m + 1 \in 1 .. n + d /\ ~(m + 1 <= m) /\ m + 1 <= m + d
        /\ n + ((m + 1) - m) = n + 1
    OBVIOUS
  <2>2. p[m + 1] = n + ((m + 1) - m)
    BY <1>1, <2>1
  <2> QED BY <2>1, <2>2
<1> QED BY <1>4, <1>5, <1>6 DEF Chain, p, nx

\* mk_slist: all nodes are blank.
LEMMA NewChain ==
  ASSUME NEW n \in Nat \ {0}
  PROVE  /\ Permuted(n, [k \in 1 .. n |-> k])
         /\ Chain(n, 0, [k \in 1 .. n |-> k], NULL, NULL, 1, Chained(1, n, NULL))
<1> DEFINE o == [k \in 1 .. n |-> k]
<1>1. Permuted(n, o)
  BY DEF Permuted
<1>2. \A k \in 1 .. n : o[k] = k
  OBVIOUS
<1> HIDE DEF o
<1>3. n # 0 /\ 1 + n - 1 = n /\ 0 + 1 \in 1 .. n
  OBVIOUS
<1>4. \A k \in 1 .. n : Chained(1, n, NULL)[k] = IF k = n THEN NULL ELSE k + 1
  BY <1>3 DEF Chained
<1>5. ASSUME NEW k \in 1 .. n
      PROVE  Chained(1, n, NULL)[o[k]] = IF k = 0 \/ k = n THEN NULL ELSE o[k + 1]
  <2>1. k # 0 /\ (k # n => k + 1 \in 1 .. n)
    OBVIOUS
  <2> QED BY <1>2, <1>4, <2>1
<1>6. 1 = IF 0 = n THEN NULL ELSE o[0 + 1]
  BY <1>2, <1>3
<1> QED BY <1>1, <1>5, <1>6 DEF Chain, o

(***************************************************************************)
(* Where a chain leads                                                     *)
(***************************************************************************)

\* From the first of the places lo .. hi of an order, k links lead to place lo + k, and
\* then nowhere.
LEMMA NodeAtIs ==
  ASSUME NEW sl, sl.capacity \in Nat, NEW o, Permuted(sl.capacity, o),
         NEW lo \in 1 .. sl.capacity + 1, NEW hi \in 0 .. sl.capacity,
         \A k \in lo .. hi : sl.next[o[k]] = IF k = hi THEN NULL ELSE o[k + 1],
         NEW start, start = IF hi < lo THEN NULL ELSE o[lo]
  PROVE  \A k \in 0 .. sl.capacity :
           NodeAt(sl, start)[k] = IF lo + k <= hi THEN o[lo + k] ELSE NULL
<1> DEFINE n == sl.capacity
           nx == sl.next
           at == CHOOSE f : f = [k \in 0 .. sl.capacity |->
                              IF k = 0 THEN start
                              ELSE LET p == f[k - 1] IN IF p = NULL THEN NULL ELSE sl.next[p]]
           g == [k \in 0 .. n |-> IF lo + k <= hi THEN o[lo + k] ELSE NULL]
<1>1. NodeAt(sl, start) = at
  BY DEF NodeAt
<1>2. \A i \in 1 .. n : o[i] \in 1 .. n /\ o[i] # NULL
  <2>1. \A i \in 1 .. n : i # NULL
    BY DEF NULL
  <2> QED BY <2>1 DEF Permuted
<1>3. ASSUME NEW k \in 0 .. n
      PROVE  g[k] = IF k = 0 THEN start
                    ELSE LET p == g[k - 1] IN IF p = NULL THEN NULL ELSE nx[p]
  <2> HIDE DEF n, nx
  <2>0. n \in Nat /\ lo \in 1 .. n + 1 /\ hi \in 0 .. n
    BY DEF n
  <2>1. CASE k = 0
    <3>1. lo + 0 = lo /\ (hi < lo <=> ~(lo <= hi))
      BY <2>0
    <3> QED BY <2>1, <3>1
  <2>2. CASE k # 0
    <3>1. k - 1 \in 0 .. n /\ lo + k = (lo + (k - 1)) + 1
      BY <2>0, <2>2
    <3>2. CASE lo + (k - 1) <= hi
      <4>1. lo + (k - 1) \in lo .. hi /\ lo + (k - 1) \in 1 .. n
        BY <2>0, <3>1, <3>2
      <4>2. g[k - 1] = o[lo + (k - 1)] /\ g[k - 1] # NULL
        BY <1>2, <3>1, <3>2, <4>1
      <4>3. nx[g[k - 1]] = IF lo + (k - 1) = hi THEN NULL ELSE o[(lo + (k - 1)) + 1]
        BY <4>1, <4>2 DEF nx
      <4>4. lo + k <= hi <=> lo + (k - 1) # hi
        BY <2>0, <3>1, <3>2
      <4>5. g[k] = IF lo + k <= hi THEN o[lo + k] ELSE NULL
        OBVIOUS
      <4> HIDE DEF g
      <4> QED BY <2>2, <3>1, <4>2, <4>3, <4>4, <4>5
    <3>3. CASE ~(lo + (k - 1) <= hi)
      <4>1. ~(lo + k <= hi)
        BY <2>0, <3>1, <3>3
      <4>2. g[k - 1] = NULL /\ g[k] = NULL
        BY <3>1, <3>3, <4>1
      <4> HIDE DEF g
      <4> QED BY <2>2, <4>2
    <3> QED BY <3>2, <3>3
  <2> QED BY <2>1, <2>2
<1>4. g = [k \in 0 .. sl.capacity |->
             IF k = 0 THEN start
             ELSE LET p == g[k - 1] IN IF p = NULL THEN NULL ELSE sl.next[p]]
  <2>1. g = [k \in 0 .. n |-> g[k]]
    OBVIOUS
  <2> HIDE DEF g
  <2> QED BY <1>3, <2>1 DEF n, nx
<1> HIDE DEF g
<1>5. at = [k \in 0 .. sl.capacity |->
              IF k = 0 THEN start
              ELSE LET p == at[k - 1] IN IF p = NULL THEN NULL ELSE sl.next[p]]
  BY <1>4
<1> HIDE DEF at
<1> DEFINE G == {k \in 0 .. n : at[k] = g[k]}
<1>6. n \in Nat /\ 0 \in G
  <2>1. n \in Nat /\ 0 \in 0 .. n
    OBVIOUS
  <2>2. at[0] = start
    BY <1>5, <2>1 DEF n
  <2>3. g[0] = start
    BY <1>3, <2>1
  <2> QED BY <2>1, <2>2, <2>3
<1>7. ASSUME NEW k \in 1 .. n, k - 1 \in G PROVE k \in G
  <2>1. k \in 0 .. n /\ k # 0 /\ k - 1 \in 0 .. n
    BY <1>6
  <2>2. at[k] = IF at[k - 1] = NULL THEN NULL ELSE nx[at[k - 1]]
    BY <1>5, <2>1 DEF n, nx
  <2>3. g[k] = IF g[k - 1] = NULL THEN NULL ELSE nx[g[k - 1]]
    BY <1>3, <2>1
  <2>4. at[k - 1] = g[k - 1]
    BY <1>7
  <2> QED BY <2>1, <2>2, <2>3, <2>4
<1>8. \A k \in 0 .. n : k \in G
  <2> HIDE DEF G, n
  <2> QED BY <1>6, <1>7, UpToInduction
<1> QED BY <1>1, <1>8 DEF g, n

(***************************************************************************)
(* Lists                                                                   *)
(***************************************************************************)

\* Lists of n nodes for data from D.
ListRecords(n, D) ==
  [head : 0 .. n, end : 0 .. n, length : 0 .. n, capacity : {n}, blank : 0 .. n,
   data : [1 .. n -> D], next : [1 .. n -> 0 .. n], memlist : Seq(SUBSET Nat)]

\* The nodes of sl are chained in the order o.
Ordered(sl, n, o) ==
  /\ Permuted(n, o)
  /\ Chain(n, sl.length, o, sl.head, sl.end, sl.blank, sl.next)

\* A well formed list of n nodes, all in its blocks.
IsList(sl, n, D) ==
  /\ sl \in ListRecords(n, D)
  /\ \E o : Ordered(sl, n, o)
  /\ sl_free(sl) = 1 .. n

\* The fields of a list record.
LEMMA ListFields ==
  ASSUME NEW n \in Nat, NEW D, NEW sl \in ListRecords(n, D)
  PROVE  /\ sl.head \in 0 .. n /\ sl.end \in 0 .. n /\ sl.blank \in 0 .. n
         /\ sl.length \in 0 .. n /\ sl.capacity = n
         /\ sl.data \in [1 .. n -> D] /\ sl.next \in [1 .. n -> 0 .. n]
         /\ sl.memlist \in Seq(SUBSET Nat)
  BY DEF ListRecords

\* What traverse visits: the data of the used nodes in order.
LEMMA ContentsIs ==
  ASSUME NEW n \in Nat, NEW D, NEW sl \in ListRecords(n, D), NEW o, Ordered(sl, n, o)
  PROVE  /\ Contents(sl) = [k \in 1 .. sl.length |-> sl.data[o[k]]]
         /\ Contents(sl) \in [1 .. sl.length -> D]
         /\ ChainOf(sl, sl.head) = {o[k] : k \in 1 .. sl.length}
         /\ ChainOf(sl, sl.blank) = {o[k] : k \in sl.length + 1 .. n}
<1> DEFINE m == sl.length
<1>1. m \in 0 .. n /\ sl.capacity = n
  BY ListFields
<1>2. Permuted(n, o) /\ Chain(n, m, o, sl.head, sl.end, sl.blank, sl.next)
  BY DEF Ordered
<1>3. \A k \in 1 .. n : sl.next[o[k]] = IF k = m \/ k = n THEN NULL ELSE o[k + 1]
  BY <1>2 DEF Chain
<1>4. \A i \in 1 .. n : o[i] \in 1 .. n /\ o[i] # NULL
  <2>1. \A i \in 1 .. n : i # NULL
    BY DEF NULL
  <2> QED BY <1>2, <2>1 DEF Permuted
<1> HIDE DEF m
<1>5. \A k \in 0 .. n : NodeAt(sl, sl.head)[k] = IF 1 + k <= m THEN o[1 + k] ELSE NULL
  <2>1. 1 \in 1 .. n + 1 /\ m \in 0 .. n
    BY <1>1
  <2>2. sl.head = IF m < 1 THEN NULL ELSE o[1]
    <3>1. m < 1 <=> m = 0
      BY <1>1
    <3> QED BY <1>2, <3>1 DEF Chain
  <2>3. ASSUME NEW k \in 1 .. m PROVE sl.next[o[k]] = IF k = m THEN NULL ELSE o[k + 1]
    <3>1. k \in 1 .. n /\ (k = n => k = m)
      BY <1>1
    <3> QED BY <1>3, <3>1
  <2> QED BY <1>1, <1>2, <2>1, <2>2, <2>3, NodeAtIs, SMTT(60)
<1>6. \A k \in 0 .. n : NodeAt(sl, sl.blank)[k] = IF (m + 1) + k <= n THEN o[(m + 1) + k] ELSE NULL
  <2>1. m + 1 \in 1 .. n + 1 /\ n \in 0 .. n
    BY <1>1
  <2>2. sl.blank = IF n < m + 1 THEN NULL ELSE o[m + 1]
    <3>1. n < m + 1 <=> m = n
      BY <1>1
    <3> QED BY <1>2, <3>1 DEF Chain
  <2>3. ASSUME NEW k \in m + 1 .. n PROVE sl.next[o[k]] = IF k = n THEN NULL ELSE o[k + 1]
    <3>1. k \in 1 .. n /\ k # m
      BY <1>1
    <3> QED BY <1>3, <3>1
  <2> QED BY <1>1, <1>2, <2>1, <2>2, <2>3, NodeAtIs, SMTT(60)
<1>7. \A k \in 1 .. m : k - 1 \in 0 .. n /\ 1 + (k - 1) = k /\ k <= m /\ k \in 1 .. n
  BY <1>1
<1>8. Contents(sl) = [k \in 1 .. m |-> sl.data[o[k]]]
  <2>1. \A k \in 1 .. m : NodeAt(sl, sl.head)[k - 1] = o[k]
    BY <1>5, <1>7
  <2>2. Contents(sl) = [k \in 1 .. m |-> sl.data[NodeAt(sl, sl.head)[k - 1]]]
    BY DEF Contents, m
  <2> QED BY <2>1, <2>2
<1>9. \A k \in 1 .. m : sl.data[o[k]] \in D
  BY <1>4, <1>7, ListFields
<1>10. ChainOf(sl, sl.head) = {o[k] : k \in 1 .. m}
  <2>1. ChainOf(sl, sl.head) = {NodeAt(sl, sl.head)[k] : k \in 0 .. n} \ {NULL}
    BY <1>1 DEF ChainOf
  <2>2. ASSUME NEW k \in 0 .. n, NodeAt(sl, sl.head)[k] # NULL
        PROVE  NodeAt(sl, sl.head)[k] \in {o[l] : l \in 1 .. m}
    <3>1. 1 + k <= m /\ 1 + k \in 1 .. m
      BY <1>1, <1>5, <2>2
    <3>2. NodeAt(sl, sl.head)[k] = o[1 + k]
      BY <1>5, <3>1
    <3> QED BY <3>1, <3>2
  <2>3. ASSUME NEW k \in 1 .. m PROVE \E l \in 0 .. n : o[k] = NodeAt(sl, sl.head)[l]
    BY <1>5, <1>7
  <2>4. \A k \in 1 .. m : o[k] # NULL
    BY <1>4, <1>7
  <2> QED BY <2>1, <2>2, <2>3, <2>4
<1>11. ChainOf(sl, sl.blank) = {o[k] : k \in m + 1 .. n}
  <2>1. ChainOf(sl, sl.blank) = {NodeAt(sl, sl.blank)[k] : k \in 0 .. n} \ {NULL}
    BY <1>1 DEF ChainOf
  <2>2. ASSUME NEW k \in 0 .. n, NodeAt(sl, sl.blank)[k] # NULL
        PROVE  NodeAt(sl, sl.blank)[k] \in {o[l] : l \in m + 1 .. n}
    <3>1. (m + 1) + k <= n /\ (m + 1) + k \in m + 1 .. n
      BY <1>1, <1>6, <2>2
    <3>2. NodeAt(sl, sl.blank)[k] = o[(m + 1) + k]
      BY <1>6, <3>1
    <3> QED BY <3>1, <3>2
  <2>3. ASSUME NEW k \in m + 1 .. n
        PROVE  o[k] # NULL /\ \E l \in 0 .. n : o[k] = NodeAt(sl, sl.blank)[l]
    <3>1. k - (m + 1) \in 0 .. n /\ (m + 1) + (k - (m + 1)) = k /\ k <= n /\ k \in 1 .. n
      BY <1>1
    <3>2. NodeAt(sl, sl.blank)[k - (m + 1)] = o[k]
      BY <1>6, <3>1
    <3> QED BY <1>4, <3>1, <3>2
  <2> QED BY <2>1, <2>2, <2>3
<1> QED BY <1>8, <1>9, <1>10, <1>11 DEF m

\* What a list holds, by the order of its nodes.
LEMMA ContentsOrder ==
  ASSUME NEW n \in Nat, NEW D, NEW sl \in ListRecords(n, D), NEW o, Ordered(sl, n, o)
  PROVE  Contents(sl) = [k \in 1 .. sl.length |-> sl.data[o[k]]]
  BY ContentsIs

\* Such a list is what SListSound says.
LEMMA ListIsSound ==
  ASSUME NEW n \in Nat, NEW D, NEW sl, IsList(sl, n, D)
  PROVE  SListSound(sl)
<1> DEFINE m == sl.length
           used == ChainOf(sl, sl.head)
           blank == IF sl.length = sl.capacity THEN {} ELSE ChainOf(sl, sl.blank)
<1>1. sl \in ListRecords(n, D) /\ sl_free(sl) = 1 .. n
  BY DEF IsList
<1>2. PICK o : Ordered(sl, n, o)
  BY DEF IsList
<1>3. m \in 0 .. n /\ sl.capacity = n
  BY <1>1, ListFields
<1>4. used = {o[k] : k \in 1 .. m} /\ ChainOf(sl, sl.blank) = {o[k] : k \in m + 1 .. n}
  BY <1>1, <1>2, ContentsIs, SMTT(60)
<1>5. blank = {o[k] : k \in m + 1 .. n}
  <2>1. m = n => m + 1 .. n = {}
    BY <1>3
  <2> QED BY <1>3, <1>4, <2>1
<1>6. Permuted(n, o) /\ Chain(n, m, o, sl.head, sl.end, sl.blank, sl.next)
  BY <1>2 DEF Ordered
<1> HIDE DEF m, used, blank
<1>7. /\ \A k \in 1 .. m : k \in 1 .. n
      /\ \A k \in m + 1 .. n : k \in 1 .. n /\ k \notin 1 .. m
      /\ \A k \in 1 .. n : k \in 1 .. m \/ k \in m + 1 .. n
  BY <1>3
<1>8. Cardinality(used) = m
  <2> DEFINE f == [k \in 1 .. m |-> o[k]]
  <2>1. f \in [1 .. m -> used] /\ \A i, j \in 1 .. m : f[i] = f[j] => i = j
    BY <1>4, <1>6, <1>7 DEF Permuted
  <2>2. \A x \in used : \E k \in 1 .. m : f[k] = x
    BY <1>4
  <2> HIDE DEF f
  <2>3. ExistsBijection(1 .. m, used)
    BY <2>1, <2>2 DEF ExistsBijection, Bijection, Injection, Surjection, IsInjective
  <2>4. m \in Nat /\ IsFiniteSet(1 .. m) /\ Cardinality(1 .. m) = m
    <3>1. m \in Nat /\ m \in Int /\ 1 \in Int /\ (IF 1 > m THEN 0 ELSE m - 1 + 1) = m
      BY <1>3
    <3> QED BY <3>1, FS_Interval
  <2> QED BY <2>3, <2>4, FS_Bijection
<1>9. used \cap blank = {}
  <2> SUFFICES ASSUME NEW i \in 1 .. m, NEW j \in m + 1 .. n, o[i] = o[j] PROVE FALSE
    BY <1>4, <1>5
  <2> QED BY <1>6, <1>7 DEF Permuted
<1>10. used \cup blank = 1 .. n
  <2>1. \A k \in 1 .. n : o[k] \in 1 .. n
    BY <1>6 DEF Permuted
  <2>2. ASSUME NEW i \in 1 .. n PROVE i \in used \cup blank
    <3>1. PICK k \in 1 .. n : o[k] = i
      BY <1>6 DEF Permuted
    <3> QED BY <1>4, <1>5, <1>7, <3>1
  <2> QED BY <1>4, <1>5, <1>7, <2>1, <2>2
<1>11. IF m = 0 THEN sl.head = NULL /\ sl.end = NULL
                ELSE sl.end \in used /\ sl.next[sl.end] = NULL
  <2>1. CASE m = 0
    BY <1>6, <2>1 DEF Chain
  <2>2. CASE m # 0
    <3>1. m \in 1 .. m /\ m \in 1 .. n
      BY <1>3, <2>2
    <3>2. sl.end = o[m] /\ sl.next[o[m]] = NULL
      BY <1>6, <2>2, <3>1 DEF Chain
    <3> QED BY <1>4, <2>2, <3>1, <3>2
  <2> QED BY <2>1, <2>2
<1> QED BY <1>1, <1>3, <1>8, <1>9, <1>10, <1>11 DEF SListSound, m, used, blank

\* push puts x before what the list holds.
LEMMA PushIs ==
  ASSUME NEW n \in Nat, NEW D, NEW sl, IsList(sl, n, D), NEW x \in D, sl.length # n
  PROVE  /\ IsList(push(x, sl), n, D)
         /\ push(x, sl).length = sl.length + 1
         /\ Contents(push(x, sl)) = Onto(x, sl.length, Contents(sl))
<1> DEFINE m == sl.length
           spot == sl.blank
           l == push(x, sl)
<1>1. sl \in ListRecords(n, D) /\ sl_free(sl) = 1 .. n
  BY DEF IsList
<1>2. PICK o : Ordered(sl, n, o)
  BY DEF IsList
<1>3. m \in 0 .. n - 1 /\ sl.capacity = n /\ sl.next \in [1 .. n -> 0 .. n]
      /\ sl.data \in [1 .. n -> D] /\ sl.memlist \in Seq(SUBSET Nat)
      /\ sl.head \in 0 .. n /\ sl.end \in 0 .. n
  <2>1. m \in 0 .. n /\ m # n
    BY <1>1, ListFields
  <2>2. m \in 0 .. n - 1
    <3> HIDE DEF m
    <3> QED BY <2>1
  <2> QED BY <1>1, <2>2, ListFields
<1>4. Permuted(n, o) /\ Chain(n, m, o, sl.head, sl.end, spot, sl.next)
  BY <1>2 DEF Ordered
<1> DEFINE p == ToFront(n, o, m + 1)
<1>5. /\ spot \in 1 .. n
      /\ Chain(n, m + 1, p, spot, IF sl.end = NULL THEN spot ELSE sl.end, sl.next[spot],
               [sl.next EXCEPT ![spot] = sl.head])
  <2> HIDE DEF m, spot
  <2> QED BY <1>3, <1>4, PushChain
<1>6. Permuted(n, p) /\ m + 1 \in 1 .. n
  <2>1. m + 1 \in 1 .. n
    BY <1>3, SMTT(60)
  <2> HIDE DEF m
  <2> QED BY <1>4, <2>1, FrontPermuted
<1>7. /\ l.blank = sl.next[spot] /\ l.head = spot
      /\ l.end = IF sl.end = NULL THEN spot ELSE sl.end
      /\ l.data = [sl.data EXCEPT ![spot] = x]
      /\ l.next = [sl.next EXCEPT ![spot] = sl.head]
      /\ l.length = m + 1
      /\ l.capacity = n /\ l.memlist = sl.memlist
      /\ l = [head |-> l.head, end |-> l.end, length |-> l.length, capacity |-> l.capacity,
              blank |-> l.blank, data |-> l.data, next |-> l.next, memlist |-> l.memlist]
  BY <1>1, <1>3 DEF push, ListRecords
<1> HIDE DEF l, p
<1>8. l \in ListRecords(n, D)
  <2>1. l.blank \in 0 .. n /\ l.head \in 0 .. n /\ l.end \in 0 .. n /\ l.length \in 0 .. n
    BY <1>3, <1>5, <1>6, <1>7, SMTT(60)
  <2>2. l.data \in [1 .. n -> D] /\ l.next \in [1 .. n -> 0 .. n]
    BY <1>3, <1>5, <1>7, SMTT(60)
  <2> QED BY <1>3, <1>7, <2>1, <2>2 DEF ListRecords
<1>9. Ordered(l, n, p)
  BY <1>5, <1>6, <1>7 DEF Ordered
<1>10. sl_free(l) = 1 .. n
  BY <1>1, <1>7 DEF sl_free
<1>11. /\ Contents(l) = [k \in 1 .. m + 1 |-> l.data[p[k]]]
       /\ Contents(sl) = [k \in 1 .. m |-> sl.data[o[k]]]
  <2>1. Contents(sl) = [k \in 1 .. m |-> sl.data[o[k]]]
    BY <1>1, <1>2, ContentsOrder
  <2>2. Contents(l) = [k \in 1 .. l.length |-> l.data[p[k]]]
    BY <1>8, <1>9, ContentsOrder
  <2> QED BY <1>7, <2>1, <2>2
<1>12. ASSUME NEW k \in 1 .. m + 1
       PROVE  l.data[p[k]] = IF k = 1 THEN x ELSE Contents(sl)[k - 1]
  <2>1. k \in 1 .. n /\ p[k] = IF k = 1 THEN o[m + 1] ELSE IF k <= m + 1 THEN o[k - 1] ELSE o[k]
    BY <1>6 DEF p, ToFront
  <2>2. spot = o[m + 1]
    BY <1>3, <1>4 DEF Chain
  <2>3. CASE k = 1
    BY <1>3, <1>5, <1>7, <2>1, <2>2, <2>3
  <2>4. CASE k # 1
    <3>1. k - 1 \in 1 .. m /\ k - 1 \in 1 .. n /\ k - 1 # m + 1 /\ k <= m + 1
      BY <1>3, <2>4
    <3>2. p[k] = o[k - 1] /\ o[k - 1] \in 1 .. n /\ o[k - 1] # spot
      <4>1. p[k] = o[k - 1]
        BY <2>1, <2>4, <3>1
      <4>2. o[k - 1] \in 1 .. n /\ o[k - 1] # o[m + 1]
        <5> HIDE DEF m
        <5> QED BY <1>4, <1>6, <3>1 DEF Permuted
      <4> QED BY <2>2, <4>1, <4>2
    <3>3. l.data[o[k - 1]] = sl.data[o[k - 1]]
      BY <1>3, <1>7, <3>2
    <3>4. Contents(sl)[k - 1] = sl.data[o[k - 1]]
      BY <1>11, <3>1
    <3> QED BY <2>4, <3>2, <3>3, <3>4
  <2> QED BY <2>3, <2>4
<1>13. Contents(l) = Onto(x, m, Contents(sl))
  <2> HIDE DEF m
  <2> QED BY <1>11, <1>12 DEF Onto
<1> QED BY <1>7, <1>8, <1>9, <1>10, <1>13 DEF IsList, l

\* append puts x behind.
LEMMA AppendIs ==
  ASSUME NEW n \in Nat, NEW D, NEW sl, IsList(sl, n, D), NEW x \in D, sl.length # n
  PROVE  /\ IsList(append(x, sl), n, D)
         /\ append(x, sl).length = sl.length + 1
         /\ Contents(append(x, sl)) =
              [k \in 1 .. sl.length + 1 |-> IF k = sl.length + 1 THEN x ELSE Contents(sl)[k]]
<1> DEFINE m == sl.length
           spot == sl.blank
           l == append(x, sl)
           nx == AppendNext(n, sl.head, sl.end, spot, sl.next)
<1>1. sl \in ListRecords(n, D) /\ sl_free(sl) = 1 .. n
  BY DEF IsList
<1>2. PICK o : Ordered(sl, n, o)
  BY DEF IsList
<1>3. m \in 0 .. n - 1 /\ sl.capacity = n /\ sl.next \in [1 .. n -> 0 .. n]
      /\ sl.data \in [1 .. n -> D] /\ sl.memlist \in Seq(SUBSET Nat)
      /\ sl.head \in 0 .. n /\ sl.end \in 0 .. n
  <2>1. m \in 0 .. n /\ m # n
    BY <1>1, ListFields
  <2>2. m \in 0 .. n - 1
    <3> HIDE DEF m
    <3> QED BY <2>1
  <2> QED BY <1>1, <2>2, ListFields
<1>4. Permuted(n, o) /\ Chain(n, m, o, sl.head, sl.end, spot, sl.next)
  BY <1>2 DEF Ordered
<1>5. /\ spot \in 1 .. n
      /\ Chain(n, m + 1, o, IF sl.head = NULL THEN spot ELSE sl.head, spot, sl.next[spot], nx)
  <2> HIDE DEF m, spot
  <2> QED BY <1>3, <1>4, AppendChain
<1>6. m + 1 \in 1 .. n
  <2> HIDE DEF m
  <2> QED BY <1>3
<1>7. /\ l.blank = sl.next[spot]
      /\ l.head = IF sl.head = NULL THEN spot ELSE sl.head
      /\ l.end = spot
      /\ l.data = [sl.data EXCEPT ![spot] = x]
      /\ l.next = nx
      /\ l.length = m + 1
      /\ l.capacity = n /\ l.memlist = sl.memlist
      /\ l = [head |-> l.head, end |-> l.end, length |-> l.length, capacity |-> l.capacity,
              blank |-> l.blank, data |-> l.data, next |-> l.next, memlist |-> l.memlist]
  BY <1>1, <1>3 DEF append, ListRecords, AppendNext
<1>14. nx \in [1 .. n -> 0 .. n]
  <2>1. \A i \in 1 .. n : sl.next[i] \in 0 .. n
    BY <1>3
  <2>2. NULL \in 0 .. n /\ spot \in 0 .. n
    BY <1>5 DEF NULL
  <2> HIDE DEF spot
  <2> QED BY <2>1, <2>2 DEF AppendNext
<1> HIDE DEF l, nx
<1>8. l \in ListRecords(n, D)
  <2>1. l.blank \in 0 .. n /\ l.head \in 0 .. n /\ l.end \in 0 .. n /\ l.length \in 0 .. n
    BY <1>3, <1>5, <1>6, <1>7, SMTT(60)
  <2>2. l.data \in [1 .. n -> D] /\ l.next \in [1 .. n -> 0 .. n]
    BY <1>3, <1>5, <1>7, <1>14
  <2> QED BY <1>3, <1>7, <2>1, <2>2 DEF ListRecords
<1>9. Ordered(l, n, o)
  BY <1>4, <1>5, <1>6, <1>7 DEF Ordered
<1>10. sl_free(l) = 1 .. n
  BY <1>1, <1>7 DEF sl_free
<1>11. /\ Contents(l) = [k \in 1 .. m + 1 |-> l.data[o[k]]]
       /\ Contents(sl) = [k \in 1 .. m |-> sl.data[o[k]]]
  <2>1. Contents(sl) = [k \in 1 .. m |-> sl.data[o[k]]]
    BY <1>1, <1>2, ContentsOrder
  <2>2. Contents(l) = [k \in 1 .. l.length |-> l.data[o[k]]]
    BY <1>8, <1>9, ContentsOrder
  <2> QED BY <1>7, <2>1, <2>2
<1>12. ASSUME NEW k \in 1 .. m + 1
       PROVE  l.data[o[k]] = IF k = m + 1 THEN x ELSE Contents(sl)[k]
  <2>1. k \in 1 .. n
    BY <1>6
  <2>2. spot = o[m + 1]
    BY <1>3, <1>4 DEF Chain
  <2>3. CASE k = m + 1
    BY <1>3, <1>5, <1>7, <2>1, <2>2, <2>3
  <2>4. CASE k # m + 1
    <3>1. k \in 1 .. m
      BY <1>3, <2>4
    <3>2. o[k] \in 1 .. n /\ o[k] # spot
      BY <1>4, <1>6, <2>1, <2>2, <2>4 DEF Permuted
    <3>3. l.data[o[k]] = sl.data[o[k]]
      BY <1>3, <1>7, <3>2
    <3>4. Contents(sl)[k] = sl.data[o[k]]
      BY <1>11, <3>1
    <3> QED BY <2>4, <3>3, <3>4
  <2> QED BY <2>3, <2>4
<1>13. Contents(l) = [k \in 1 .. m + 1 |-> IF k = m + 1 THEN x ELSE Contents(sl)[k]]
  <2> HIDE DEF m
  <2> QED BY <1>11, <1>12
<1> QED BY <1>7, <1>8, <1>9, <1>10, <1>13 DEF IsList, l

\* pop takes the first.
LEMMA PopIs ==
  ASSUME NEW n \in Nat, NEW D, NEW sl, IsList(sl, n, D), sl.length # 0
  PROVE  /\ IsList(pop(sl), n, D)
         /\ pop(sl).length = sl.length - 1
         /\ Contents(pop(sl)) = Rest(sl.length, Contents(sl))
         /\ Popped(sl) = Contents(sl)[1] /\ Popped(sl) \in D
<1> DEFINE m == sl.length
           spot == sl.head
           l == pop(sl)
<1>1. sl \in ListRecords(n, D) /\ sl_free(sl) = 1 .. n
  BY DEF IsList
<1>2. PICK o : Ordered(sl, n, o)
  BY DEF IsList
<1>3. m \in 1 .. n /\ sl.capacity = n /\ sl.next \in [1 .. n -> 0 .. n]
      /\ sl.data \in [1 .. n -> D] /\ sl.memlist \in Seq(SUBSET Nat)
      /\ sl.blank \in 0 .. n /\ sl.end \in 0 .. n
  <2>1. m \in 0 .. n /\ m # 0
    BY <1>1, ListFields
  <2>2. m \in 1 .. n
    <3> HIDE DEF m
    <3> QED BY <2>1
  <2> QED BY <1>1, <2>2, ListFields
<1>4. Permuted(n, o) /\ Chain(n, m, o, spot, sl.end, sl.blank, sl.next)
  BY <1>2 DEF Ordered
<1> DEFINE p == ToBack(n, o, m)
<1>5. /\ spot \in 1 .. n
      /\ Chain(n, m - 1, p, sl.next[spot], IF sl.next[spot] = NULL THEN NULL ELSE sl.end, spot,
               [sl.next EXCEPT ![spot] = sl.blank])
  <2> HIDE DEF m, spot
  <2> QED BY <1>3, <1>4, PopChain
<1>6. Permuted(n, p)
  <2> HIDE DEF m
  <2> QED BY <1>3, <1>4, BackPermuted
<1>7. spot # NULL
  BY <1>5 DEF NULL
<1>8. /\ l.head = sl.next[spot]
      /\ l.end = IF sl.next[spot] = NULL THEN NULL ELSE sl.end
      /\ l.blank = spot
      /\ l.data = sl.data
      /\ l.next = [sl.next EXCEPT ![spot] = sl.blank]
      /\ l.length = m - 1
      /\ l.capacity = n /\ l.memlist = sl.memlist
      /\ l = [head |-> l.head, end |-> l.end, length |-> l.length, capacity |-> l.capacity,
              blank |-> l.blank, data |-> l.data, next |-> l.next, memlist |-> l.memlist]
  BY <1>1, <1>3, <1>7 DEF pop, ListRecords
<1> HIDE DEF l, p
<1>9. l \in ListRecords(n, D)
  <2>1. l.blank \in 0 .. n /\ l.head \in 0 .. n /\ l.length \in 0 .. n
    BY <1>3, <1>5, <1>8, SMTT(60)
  <2>2. l.end \in 0 .. n
    BY <1>3, <1>8 DEF NULL
  <2>3. l.data \in [1 .. n -> D] /\ l.next \in [1 .. n -> 0 .. n]
    BY <1>3, <1>5, <1>8, SMTT(60)
  <2> QED BY <1>3, <1>8, <2>1, <2>2, <2>3 DEF ListRecords
<1>10. Ordered(l, n, p)
  BY <1>5, <1>6, <1>8 DEF Ordered
<1>11. sl_free(l) = 1 .. n
  BY <1>1, <1>8 DEF sl_free
<1>12. Contents(sl) = [k \in 1 .. m |-> sl.data[o[k]]]
  BY <1>1, <1>2, ContentsOrder
<1>13. Contents(l) = [k \in 1 .. m - 1 |-> sl.data[p[k]]]
  <2>1. Contents(l) = [k \in 1 .. l.length |-> l.data[p[k]]]
    BY <1>9, <1>10, ContentsOrder
  <2> QED BY <1>8, <2>1
<1>14. ASSUME NEW k \in 1 .. m - 1 PROVE sl.data[p[k]] = Contents(sl)[k + 1]
  <2> HIDE DEF m
  <2>1. k \in 1 .. n /\ k # m /\ k < m /\ k + 1 \in 1 .. m
    BY <1>3
  <2>2. p[k] = o[k + 1]
    BY <2>1 DEF p, ToBack
  <2> QED BY <1>12, <2>1, <2>2
<1>15. Contents(l) = Rest(m, Contents(sl))
  <2> HIDE DEF m
  <2> QED BY <1>13, <1>14 DEF Rest
<1>16. Popped(sl) = Contents(sl)[1] /\ Popped(sl) \in D
  <2>1. spot = o[1] /\ 1 \in 1 .. m
    <3>1. m # 0 /\ 1 \in 1 .. m
      BY <1>3
    <3> QED BY <1>4, <3>1 DEF Chain
  <2>2. Popped(sl) = sl.data[spot]
    BY <1>7 DEF Popped
  <2> QED BY <1>3, <1>5, <1>12, <2>1, <2>2
<1> QED BY <1>8, <1>9, <1>10, <1>11, <1>15, <1>16 DEF IsList, l

\* Relink changes fields of the record that a list is, and adds none.
LEMMA RelinkShape ==
  ASSUME NEW n \in Nat, NEW D, NEW sl \in ListRecords(n, D), NEW pre, NEW cur,
         NEW l, l = Relink(sl, pre, cur)
  PROVE  l = [head |-> l.head, end |-> l.end, length |-> l.length, capacity |-> l.capacity,
              blank |-> l.blank, data |-> l.data, next |-> l.next, memlist |-> l.memlist]
  BY DEF Relink, ListRecords

\* The j-th place of what a list holds moves to the front when its node does.
LEMMA RelinkIs ==
  ASSUME NEW n \in Nat, NEW D, NEW sl, IsList(sl, n, D), NEW o, Ordered(sl, n, o),
         NEW j \in 1 .. sl.length - 1
  PROVE  LET l == Relink(sl, o[j], sl.next[o[j]]) IN
         /\ IsList(l, n, D)
         /\ l.length = sl.length
         /\ Contents(l) = ToFront(sl.length, Contents(sl), j + 1)
<1> DEFINE m == sl.length
           pre == o[j]
           cur == sl.next[pre]
           l == Relink(sl, pre, cur)
           p == ToFront(n, o, j + 1)
           nx == [[sl.next EXCEPT ![pre] = sl.next[cur]] EXCEPT ![cur] = sl.head]
<1>1. sl \in ListRecords(n, D) /\ sl_free(sl) = 1 .. n
  BY DEF IsList
<1>2. m \in 0 .. n /\ sl.capacity = n /\ sl.next \in [1 .. n -> 0 .. n]
      /\ sl.data \in [1 .. n -> D] /\ sl.memlist \in Seq(SUBSET Nat)
      /\ sl.blank \in 0 .. n /\ sl.end \in 0 .. n /\ sl.head \in 0 .. n
  BY <1>1, ListFields
<1>3. m \in 1 .. n /\ j \in 1 .. m - 1 /\ j \in 1 .. n /\ j + 1 \in 1 .. n /\ j + 1 \in 1 .. m
      /\ j # m /\ j # n
  <2>1. j \in 1 .. m - 1 /\ m \in 0 .. n
    BY <1>2
  <2> HIDE DEF m
  <2> QED BY <2>1
<1>4. Permuted(n, o) /\ Chain(n, m, o, sl.head, sl.end, sl.blank, sl.next)
  BY DEF Ordered
<1>5. cur = o[j + 1] /\ pre \in 1 .. n /\ cur \in 1 .. n
  <2>1. cur = o[j + 1]
    BY <1>3, <1>4 DEF Chain
  <2> HIDE DEF cur
  <2> QED BY <1>3, <1>4, <2>1, ZenonT(60) DEF Permuted
<1>6. Chain(n, m, p, cur, IF cur = sl.end THEN pre ELSE sl.end, sl.blank, nx)
  <2> HIDE DEF m, pre, cur
  <2>1. pre = o[j]
    BY DEF pre
  <2> QED BY <1>2, <1>3, <1>4, <1>5, <2>1, MoveChain, ZenonT(60)
<1>7. Permuted(n, p)
  BY <1>3, <1>4, FrontPermuted
<1>8. nx \in [1 .. n -> 0 .. n]
  <2>1. sl.next[cur] \in 0 .. n
    BY <1>2, <1>5
  <2> HIDE DEF cur, pre
  <2> QED BY <1>2, <1>5, <2>1
<1>9. /\ l.head = cur
      /\ l.end = IF cur = sl.end THEN pre ELSE sl.end
      /\ l.blank = sl.blank
      /\ l.data = sl.data
      /\ l.next = nx
      /\ l.length = m
      /\ l.capacity = n /\ l.memlist = sl.memlist
      /\ l = [head |-> l.head, end |-> l.end, length |-> l.length, capacity |-> l.capacity,
              blank |-> l.blank, data |-> l.data, next |-> l.next, memlist |-> l.memlist]
  <2> HIDE DEF cur, pre
  <2>1. l = [head |-> l.head, end |-> l.end, length |-> l.length, capacity |-> l.capacity,
             blank |-> l.blank, data |-> l.data, next |-> l.next, memlist |-> l.memlist]
    <3> HIDE DEF l
    <3>1. l = Relink(sl, pre, cur)
      BY DEF l
    <3> QED BY <1>1, <3>1, RelinkShape
  <2>2. /\ l.head = cur
        /\ l.end = IF cur = sl.end THEN pre ELSE sl.end
        /\ l.blank = sl.blank
        /\ l.data = sl.data
        /\ l.length = m
        /\ l.memlist = sl.memlist
    BY <1>1 DEF Relink, ListRecords
  <2>3. l.capacity = n
    BY <1>1 DEF Relink, ListRecords
  <2>4. l.next = nx
    BY <1>1 DEF Relink, ListRecords
  <2> HIDE DEF l, nx, m
  <2> QED BY <2>1, <2>2, <2>3, <2>4
<1> HIDE DEF l, p, nx
<1>10. l \in ListRecords(n, D)
  <2>1. l.blank \in 0 .. n /\ l.head \in 0 .. n /\ l.length \in 0 .. n /\ l.end \in 0 .. n
    BY <1>2, <1>5, <1>9, SMTT(60)
  <2> QED BY <1>2, <1>8, <1>9, <2>1 DEF ListRecords
<1>11. Ordered(l, n, p)
  BY <1>6, <1>7, <1>9 DEF Ordered
<1>12. sl_free(l) = 1 .. n
  BY <1>1, <1>9 DEF sl_free
<1>13. Contents(sl) = [k \in 1 .. m |-> sl.data[o[k]]]
  BY <1>1, ContentsOrder
<1>14. Contents(l) = [k \in 1 .. m |-> sl.data[p[k]]]
  <2>1. Contents(l) = [k \in 1 .. l.length |-> l.data[p[k]]]
    BY <1>10, <1>11, ContentsOrder
  <2> QED BY <1>9, <2>1
<1>15. ASSUME NEW k \in 1 .. m
       PROVE  sl.data[p[k]] = IF k = 1 THEN Contents(sl)[j + 1]
                              ELSE IF k <= j + 1 THEN Contents(sl)[k - 1] ELSE Contents(sl)[k]
  <2> HIDE DEF m
  <2>1. k \in 1 .. n
    BY <1>3
  <2>2. p[k] = IF k = 1 THEN o[j + 1] ELSE IF k <= j + 1 THEN o[k - 1] ELSE o[k]
    BY <2>1 DEF p, ToFront
  <2>3. CASE k = 1
    BY <1>3, <1>13, <2>2, <2>3
  <2>4. CASE k # 1 /\ k <= j + 1
    <3>1. k - 1 \in 1 .. m
      BY <1>3, <2>4
    <3> QED BY <1>13, <2>2, <2>4, <3>1
  <2>5. CASE k # 1 /\ ~(k <= j + 1)
    BY <1>13, <2>2, <2>5
  <2> QED BY <2>3, <2>4, <2>5
<1>16. Contents(l) = ToFront(m, Contents(sl), j + 1)
  <2> HIDE DEF m
  <2> QED BY <1>14, <1>15 DEF ToFront
<1> QED BY <1>9, <1>10, <1>11, <1>12, <1>16 DEF IsList, l

\* mv2head moves x to the front, wherever it is, and nothing if it is nowhere.
LEMMA MoveIs ==
  ASSUME NEW n \in Nat, NEW D, NEW sl, IsList(sl, n, D), NEW x
  PROVE  /\ IsList(mv2head(x, sl), n, D)
         /\ mv2head(x, sl).length = sl.length
         /\ \/ /\ mv2head(x, sl) = sl
               /\ \A k \in 1 .. sl.length : Contents(sl)[k] # x
            \/ \E j \in 1 .. sl.length :
                 /\ Contents(sl)[j] = x
                 /\ Contents(mv2head(x, sl)) = ToFront(sl.length, Contents(sl), j)
<1> DEFINE m == sl.length
           s == Contents(sl)
           behind == {pre \in ChainOf(sl, sl.head) :
                        sl.next[pre] # NULL /\ sl.data[sl.next[pre]] = x}
<1>1. sl \in ListRecords(n, D)
  BY DEF IsList
<1>2. PICK o : Ordered(sl, n, o)
  BY DEF IsList
<1>3. m \in 0 .. n
  BY <1>1, ListFields
<1>4. Permuted(n, o) /\ Chain(n, m, o, sl.head, sl.end, sl.blank, sl.next)
  BY <1>2 DEF Ordered
<1>5. ChainOf(sl, sl.head) = {o[k] : k \in 1 .. m} /\ s = [k \in 1 .. m |-> sl.data[o[k]]]
  BY <1>1, <1>2, ContentsIs
<1>6. ASSUME NEW k \in 1 .. m
      PROVE  /\ k \in 1 .. n
             /\ sl.next[o[k]] = IF k = m THEN NULL ELSE o[k + 1]
             /\ k # m => k \in 1 .. m - 1 /\ k + 1 \in 1 .. m /\ o[k + 1] # NULL
  <2> HIDE DEF m
  <2>1. k \in 1 .. n /\ (k = n => k = m) /\ (k # m => k \in 1 .. m - 1 /\ k + 1 \in 1 .. m /\ k + 1 \in 1 .. n)
    BY <1>3
  <2>2. \A i \in 1 .. n : i # NULL
    BY DEF NULL
  <2>3. k # m => o[k + 1] # NULL
    BY <1>4, <2>1, <2>2 DEF Permuted
  <2>4. sl.next[o[k]] = IF k = m THEN NULL ELSE o[k + 1]
    BY <1>4, <2>1 DEF Chain
  <2> QED BY <2>1, <2>3, <2>4
<1> HIDE DEF m
<1>7. CASE m = 0
  <2>1. behind = {}
    BY <1>5, <1>7
  <2>2. mv2head(x, sl) = sl
    BY <2>1 DEF mv2head
  <2> QED BY <1>7, <2>2 DEF m
<1>8. CASE m # 0 /\ sl.data[sl.head] = x
  <2>1. sl.head = o[1] /\ 1 \in 1 .. m
    BY <1>3, <1>4, <1>8 DEF Chain
  <2>2. mv2head(x, sl) = sl
    BY <1>8 DEF mv2head
  <2>3. s[1] = x
    BY <1>5, <1>8, <2>1
  <2>4. \A k \in 1 .. m : (k <= 1) => k = 1
    OBVIOUS
  <2>5. ToFront(m, s, 1) = s
    BY <1>5, <2>3, <2>4 DEF ToFront
  <2> QED BY <2>1, <2>2, <2>3, <2>5 DEF m
<1>9. CASE sl.data[sl.head] # x /\ m # 0 /\ behind = {}
  <2>1. mv2head(x, sl) = sl
    BY <1>9 DEF mv2head
  <2>2. ASSUME NEW k \in 1 .. m PROVE s[k] # x
    <3>1. CASE k = 1
      <4>1. sl.head = o[1]
        BY <1>4, <1>9 DEF Chain
      <4> QED BY <1>5, <1>9, <3>1, <4>1
    <3>2. CASE k # 1
      <4>1. k - 1 \in 1 .. m /\ k - 1 # m /\ (k - 1) + 1 = k
        BY <1>3, <3>2
      <4>2. sl.next[o[k - 1]] = o[k] /\ o[k] # NULL
        BY <1>6, <4>1
      <4>3. o[k - 1] \in ChainOf(sl, sl.head)
        BY <1>5, <4>1
      <4>4. sl.data[o[k]] # x
        BY <1>9, <4>2, <4>3
      <4> QED BY <1>5, <4>4
    <3> QED BY <3>1, <3>2
  <2> QED BY <2>1, <2>2 DEF m
<1>10. CASE sl.data[sl.head] # x /\ m # 0 /\ behind # {}
  <2> DEFINE pre == CHOOSE q \in behind : TRUE
  <2>1. mv2head(x, sl) = Relink(sl, pre, sl.next[pre])
    BY <1>10 DEF mv2head
  <2>2. pre \in behind
    BY <1>10
  <2> HIDE DEF pre
  <2>3. pre \in ChainOf(sl, sl.head) /\ sl.next[pre] # NULL /\ sl.data[sl.next[pre]] = x
    BY <2>2
  <2>4. PICK j \in 1 .. m : pre = o[j]
    BY <1>5, <2>3
  <2>5. j # m
    BY <1>6, <2>3, <2>4
  <2>6. j \in 1 .. m - 1 /\ j + 1 \in 1 .. m /\ sl.next[o[j]] = o[j + 1]
    BY <1>6, <2>5
  <2>7. s[j + 1] = x
    BY <1>5, <2>3, <2>4, <2>6
  <2>8. /\ IsList(mv2head(x, sl), n, D)
        /\ mv2head(x, sl).length = sl.length
        /\ Contents(mv2head(x, sl)) = ToFront(m, s, j + 1)
    BY <1>2, <2>1, <2>4, <2>6, RelinkIs DEF m
  <2> QED BY <2>6, <2>7, <2>8 DEF m
<1> QED BY <1>7, <1>8, <1>9, <1>10

\* sl_expand changes fields of the record that a list is, and adds none.
LEMMA GrowShape ==
  ASSUME NEW n \in Nat, NEW D, NEW sl \in ListRecords(n, D), NEW d,
         NEW l, l = sl_expand(sl, d)
  PROVE  l = [head |-> l.head, end |-> l.end, length |-> l.length, capacity |-> l.capacity,
              blank |-> l.blank, data |-> l.data, next |-> l.next, memlist |-> l.memlist]
  BY DEF sl_expand, ListRecords

\* sl_expand(sl, d) adds d blank nodes and leaves what the list holds alone.
LEMMA GrowIs ==
  ASSUME NEW n \in Nat, NEW D, NULL \in D, NEW sl, IsList(sl, n, D), NEW d \in Nat \ {0}
  PROVE  LET l == sl_expand(sl, d) IN
         /\ IsList(l, n + d, D)
         /\ l.length = sl.length
         /\ Contents(l) = Contents(sl)
<1> DEFINE m == sl.length
           l == sl_expand(sl, d)
           dt == [i \in 1 .. n + d |-> IF i \in 1 .. n THEN sl.data[i] ELSE NULL]
           nx == GrownNext(n, d, sl.blank, sl.next)
           ml == <<n + 1 .. n + d>> \o sl.memlist
<1>1. sl \in ListRecords(n, D) /\ sl_free(sl) = 1 .. n
  BY DEF IsList
<1>2. PICK o : Ordered(sl, n, o)
  BY DEF IsList
<1>3. m \in 0 .. n /\ sl.capacity = n /\ sl.next \in [1 .. n -> 0 .. n]
      /\ sl.data \in [1 .. n -> D] /\ sl.memlist \in Seq(SUBSET Nat)
      /\ sl.blank \in 0 .. n /\ sl.end \in 0 .. n /\ sl.head \in 0 .. n
  BY <1>1, ListFields
<1>4. Permuted(n, o) /\ Chain(n, m, o, sl.head, sl.end, sl.blank, sl.next)
  BY <1>2 DEF Ordered
<1> DEFINE p == Grown(n, m, d, o)
<1>5. Chain(n + d, m, p, sl.head, sl.end, n + 1, nx)
  <2> HIDE DEF m
  <2> QED BY <1>3, <1>4, GrowChain
<1>6. Permuted(n + d, p)
  <2> HIDE DEF m
  <2> QED BY <1>3, <1>4, GrownPermuted
<1>7. /\ l.head = sl.head /\ l.end = sl.end /\ l.blank = n + 1
      /\ l.length = m /\ l.capacity = n + d
  BY <1>1, <1>3 DEF sl_expand, ListRecords
<1>8. l.data = dt
  BY <1>1, <1>3 DEF sl_expand, ListRecords
<1>9. l.next = nx
  <2>1. DOMAIN sl.next = 1 .. n
    BY <1>3
  <2>2. \A i \in 1 .. n + d : i \notin 1 .. n => i \in n + 1 .. n + 1 + d - 1
    OBVIOUS
  <2>3. n + 1 + d - 1 = n + d
    OBVIOUS
  <2>4. \A i \in 1 .. n + d : i \notin 1 .. n =>
          Chained(n + 1, d, sl.blank)[i] = IF i = n + d THEN sl.blank ELSE i + 1
    BY <2>2, <2>3 DEF Chained
  <2>5. l.next = [i \in 1 .. sl.capacity + d |->
                    IF i \in DOMAIN sl.next THEN sl.next[i]
                    ELSE Chained(sl.capacity + 1, d, sl.blank)[i]]
    BY <1>1 DEF sl_expand, ListRecords
  <2> HIDE DEF l
  <2>6. l.next = [i \in 1 .. n + d |->
                    IF i \in 1 .. n THEN sl.next[i] ELSE Chained(n + 1, d, sl.blank)[i]]
    BY <1>3, <2>1, <2>5
  <2> QED BY <2>4, <2>6 DEF GrownNext
<1>10. l.memlist = ml
  BY <1>1, <1>3 DEF sl_expand, ListRecords
<1>11. l = [head |-> l.head, end |-> l.end, length |-> l.length, capacity |-> l.capacity,
            blank |-> l.blank, data |-> l.data, next |-> l.next, memlist |-> l.memlist]
  <2> HIDE DEF l
  <2>1. l = sl_expand(sl, d)
    BY DEF l
  <2> QED BY <1>1, <2>1, GrowShape
<1> HIDE DEF l
<1>12. nx \in [1 .. n + d -> 0 .. n + d]
  <2>1. ASSUME NEW i \in 1 .. n + d
        PROVE  (IF i \in 1 .. n THEN sl.next[i] ELSE IF i = n + d THEN sl.blank ELSE i + 1)
                 \in 0 .. n + d
    <3>1. CASE i \in 1 .. n
      BY <1>3, <3>1, SMTT(60)
    <3>2. CASE i \notin 1 .. n
      BY <1>3, <3>2
    <3> QED BY <3>1, <3>2
  <2> QED BY <2>1 DEF GrownNext
<1>13. dt \in [1 .. n + d -> D]
  BY <1>3
<1>14. ml \in Seq(SUBSET Nat) /\ UNION {ml[k] : k \in 1 .. Len(ml)} = 1 .. n + d
  <2>1. n + 1 .. n + d \in SUBSET Nat
    OBVIOUS
  <2> DEFINE new == n + 1 .. n + d
  <2> HIDE DEF new
  <2>2. <<new>> \in Seq(SUBSET Nat) /\ Len(<<new>>) = 1 /\ <<new>>[1] = new
    BY <2>1 DEF new
  <2>3. ml \in Seq(SUBSET Nat)
    BY <1>3, <2>2 DEF new
  <2>4. /\ Len(sl.memlist) \in Nat
        /\ Len(ml) = 1 + Len(sl.memlist)
        /\ \A k \in 1 .. Len(ml) : ml[k] = IF k = 1 THEN new ELSE sl.memlist[k - 1]
    <3>1. Len(sl.memlist) \in Nat
      BY <1>3
    <3> QED BY <1>3, <2>2, <3>1 DEF new
  <2>5. UNION {sl.memlist[k] : k \in 1 .. Len(sl.memlist)} = 1 .. n
    BY <1>1 DEF sl_free
  <2> HIDE DEF ml
  <2> DEFINE was == sl.memlist
             q == Len(sl.memlist)
  <2>6. q \in Nat /\ Len(ml) = 1 + q
    BY <2>4
  <2>7. \A k \in 1 .. q : k + 1 \in 1 .. Len(ml) /\ k + 1 # 1 /\ (k + 1) - 1 = k
    BY <2>6
  <2>8. \A k \in 1 .. Len(ml) : k # 1 => k - 1 \in 1 .. q
    BY <2>6
  <2>9. \A k \in 1 .. q : ml[k + 1] = was[k]
    BY <2>4, <2>7
  <2>10. \A k \in 1 .. Len(ml) : ml[k] = new \/ \E i \in 1 .. q : ml[k] = was[i]
    BY <2>4, <2>8
  <2>11. 1 \in 1 .. Len(ml) /\ ml[1] = new
    BY <2>4, <2>6
  <2>12. UNION {ml[k] : k \in 1 .. Len(ml)} = new \cup UNION {was[k] : k \in 1 .. q}
    <3>1. ASSUME NEW k \in 1 .. Len(ml) PROVE ml[k] \subseteq new \cup UNION {was[i] : i \in 1 .. q}
      BY <2>10
    <3>2. new \subseteq UNION {ml[k] : k \in 1 .. Len(ml)}
      BY <2>11
    <3>3. ASSUME NEW i \in 1 .. q PROVE was[i] \subseteq UNION {ml[k] : k \in 1 .. Len(ml)}
      BY <2>7, <2>9
    <3> HIDE DEF was, q
    <3> QED BY <3>1, <3>2, <3>3
  <2>13. new \cup 1 .. n = 1 .. n + d
    BY DEF new
  <2> QED BY <2>3, <2>5, <2>12, <2>13
<1> HIDE DEF dt, nx, ml, p
<1>15. l \in ListRecords(n + d, D)
  <2>1. l.head \in 0 .. n + d /\ l.end \in 0 .. n + d /\ l.blank \in 0 .. n + d
        /\ l.length \in 0 .. n + d
    BY <1>3, <1>7
  <2> QED BY <1>7, <1>8, <1>9, <1>10, <1>11, <1>12, <1>13, <1>14, <2>1 DEF ListRecords
<1>16. Ordered(l, n + d, p)
  BY <1>5, <1>6, <1>7, <1>9 DEF Ordered
<1>17. sl_free(l) = 1 .. n + d
  BY <1>10, <1>14 DEF sl_free
<1>18. Contents(l) = [k \in 1 .. m |-> l.data[p[k]]]
  <2>1. Contents(l) = [k \in 1 .. l.length |-> l.data[p[k]]]
    BY <1>15, <1>16, ContentsOrder
  <2> QED BY <1>7, <2>1
<1>19. Contents(sl) = [k \in 1 .. m |-> sl.data[o[k]]]
  BY <1>1, <1>2, ContentsOrder
<1>20. ASSUME NEW k \in 1 .. m PROVE l.data[p[k]] = sl.data[o[k]]
  <2> HIDE DEF m
  <2>1. k \in 1 .. n /\ k \in 1 .. n + d /\ k <= m
    BY <1>3
  <2>2. p[k] = o[k]
    BY <2>1 DEF p, Grown
  <2>3. o[k] \in 1 .. n
    BY <1>4, <2>1 DEF Permuted
  <2>4. o[k] \in 1 .. n + d
    BY <2>3
  <2> QED BY <1>8, <2>2, <2>3, <2>4 DEF dt
<1>21. Contents(l) = Contents(sl)
  BY <1>18, <1>19, <1>20
<1> QED BY <1>7, <1>15, <1>16, <1>17, <1>21 DEF IsList, l

\* mk_slist(n) is a list of n blank nodes.
LEMMA NewIs ==
  ASSUME NEW n \in Nat \ {0}, NEW D, NULL \in D
  PROVE  IsList(mk_slist(n), n, D) /\ mk_slist(n).length = 0
<1> DEFINE l == mk_slist(n)
           o == [k \in 1 .. n |-> k]
           nx == Chained(1, n, NULL)
<1>1. Permuted(n, o) /\ Chain(n, 0, o, NULL, NULL, 1, nx)
  BY NewChain
<1>2. nx \in [1 .. n -> 0 .. n]
  <2>1. 1 + n - 1 = n
    OBVIOUS
  <2>2. nx = [i \in 1 .. n |-> IF i = n THEN NULL ELSE i + 1]
    BY <2>1 DEF Chained
  <2>3. \A i \in 1 .. n : (IF i = n THEN NULL ELSE i + 1) \in 0 .. n
    BY DEF NULL
  <2> HIDE DEF nx
  <2> QED BY <2>2, <2>3
<1>3. [i \in 1 .. n |-> NULL] \in [1 .. n -> D]
  OBVIOUS
<1>4. /\ <<1 .. n>> \in Seq(SUBSET Nat)
      /\ UNION {<<1 .. n>>[k] : k \in 1 .. Len(<<1 .. n>>)} = 1 .. n
  <2> DEFINE all == 1 .. n
  <2>1. all \in SUBSET Nat
    OBVIOUS
  <2> HIDE DEF all
  <2>2. <<all>> \in Seq(SUBSET Nat) /\ Len(<<all>>) = 1 /\ <<all>>[1] = all
    BY <2>1
  <2>3. \A k \in 1 .. Len(<<all>>) : k = 1
    BY <2>2
  <2>4. UNION {<<all>>[k] : k \in 1 .. Len(<<all>>)} = all
    BY <2>2, <2>3
  <2> QED BY <2>2, <2>4 DEF all
<1>5. l = [head |-> NULL, end |-> NULL, length |-> 0, capacity |-> n, blank |-> 1,
           data |-> [i \in 1 .. n |-> NULL], next |-> nx, memlist |-> <<1 .. n>>]
  BY DEF mk_slist
<1> HIDE DEF l, nx
<1>6. l \in ListRecords(n, D)
  BY <1>2, <1>3, <1>4, <1>5 DEF ListRecords, NULL
<1>7. Ordered(l, n, o)
  <2> HIDE DEF o
  <2> QED BY <1>1, <1>5 DEF Ordered
<1>8. sl_free(l) = 1 .. n
  BY <1>4, <1>5 DEF sl_free
<1> QED BY <1>5, <1>6, <1>7, <1>8 DEF IsList, l

\* after[k] is what is left of sl after the first k of q pushes.
Pushes(after, q, sl, chunks) ==
  /\ after[0] = sl
  /\ \A k \in 1 .. q : after[k] = push(chunks[k], after[k - 1])

\* The function inside PushAll pushes one chunk after the other.
LEMMA PushAllRuns ==
  ASSUME NEW n \in Nat, NEW D, NEW sl, IsList(sl, n, D), NEW chunks \in Seq(D)
  PROVE  \E after : /\ PushAll(sl, chunks) = after[Len(chunks)]
                    /\ Pushes(after, Len(chunks), sl, chunks)
<1> DEFINE q == Len(chunks)
           V == {s \in ListRecords(n, D) : IsList(s, n, D)}
           F == [p \in Nat \X V |-> IF p[1] \in 1 .. q THEN push(chunks[p[1]], p[2]) ELSE p[2]]
           at == CHOOSE f : f = [k \in 0 .. Len(chunks) |->
                                   IF k = 0 THEN sl ELSE push(chunks[k], f[k - 1])]
<1>1. PushAll(sl, chunks) = at[Len(chunks)]
  BY DEF PushAll
<1>2. q \in Nat /\ \A k \in 1 .. q : chunks[k] \in D
  OBVIOUS
<1>3. sl \in V
  BY DEF IsList
<1>4. ASSUME NEW s \in V, NEW x \in D PROVE push(x, s) \in V
  <2>1. IsList(s, n, D) /\ s \in ListRecords(n, D)
    OBVIOUS
  <2>2. s.capacity = n
    BY <2>1, ListFields
  <2>3. IsList(push(x, s), n, D)
    <3>1. CASE s.length = n
      BY <2>1, <2>2, <3>1 DEF push
    <3>2. CASE s.length # n
      BY <2>1, <3>2, PushIs
    <3> QED BY <3>1, <3>2
  <2> QED BY <2>3 DEF IsList
<1>5. F \in [Nat \X V -> V]
  <2>1. ASSUME NEW p \in Nat \X V
        PROVE  (IF p[1] \in 1 .. q THEN push(chunks[p[1]], p[2]) ELSE p[2]) \in V
    <3>1. p[2] \in V
      BY <2>1
    <3> HIDE DEF V, q
    <3> QED BY <1>2, <1>4, <3>1
  <2> HIDE DEF V, q
  <2> QED BY <2>1
<1>6. PICK f : Repeats(f, q, V, sl, F)
  <2> HIDE DEF V, q, F
  <2> QED BY <1>2, <1>3, <1>5, Recursion
<1>7. f \in [0 .. q -> V] /\ f[0] = sl /\ \A k \in 1 .. q : f[k] = F[<<k, f[k - 1]>>]
  <2> HIDE DEF V, q, F
  <2> QED BY <1>6 DEF Repeats
<1>8. ASSUME NEW k \in 1 .. q PROVE f[k] = push(chunks[k], f[k - 1])
  <2>1. k \in Nat /\ k - 1 \in 0 .. q
    BY <1>2
  <2>2. f[k - 1] \in V
    <3> HIDE DEF V
    <3> QED BY <1>7, <2>1
  <2>3. <<k, f[k - 1]>> \in Nat \X V
    <3> HIDE DEF V
    <3> QED BY <2>1, <2>2
  <2>4. F[<<k, f[k - 1]>>] = push(chunks[k], f[k - 1])
    <3> HIDE DEF V
    <3> QED BY <2>3
  <2> QED BY <1>7, <2>4
<1>9. f = [k \in 0 .. Len(chunks) |-> IF k = 0 THEN sl ELSE push(chunks[k], f[k - 1])]
  <2>1. f = [k \in 0 .. q |-> f[k]]
    <3> HIDE DEF V
    <3> QED BY <1>7
  <2>2. ASSUME NEW k \in 0 .. q PROVE f[k] = IF k = 0 THEN sl ELSE push(chunks[k], f[k - 1])
    <3>1. k # 0 => k \in 1 .. q
      BY <1>2
    <3> QED BY <1>7, <1>8, <3>1
  <2> QED BY <2>1, <2>2 DEF q
<1>10. at = [k \in 0 .. Len(chunks) |-> IF k = 0 THEN sl ELSE push(chunks[k], at[k - 1])]
  BY <1>9
<1> HIDE DEF at
<1>11. Pushes(at, q, sl, chunks)
  <2>1. 0 \in 0 .. q /\ \A k \in 1 .. q : k \in 0 .. q /\ k # 0
    BY <1>2
  <2> QED BY <1>10, <2>1 DEF Pushes
<1> QED BY <1>1, <1>11

\* k chunks, the last one first, before the m elements of s.
Pushed(k, chunks, m, s) ==
  [i \in 1 .. m + k |-> IF i <= k THEN chunks[(k + 1) - i] ELSE s[i - k]]

\* PushAll pushes all chunks, the first one first.
LEMMA PushAllIs ==
  ASSUME NEW n \in Nat, NEW D, NEW sl, IsList(sl, n, D), NEW chunks \in Seq(D),
         sl.length + Len(chunks) <= n
  PROVE  /\ IsList(PushAll(sl, chunks), n, D)
         /\ PushAll(sl, chunks).length = sl.length + Len(chunks)
         /\ Contents(PushAll(sl, chunks)) = Pushed(Len(chunks), chunks, sl.length, Contents(sl))
<1> DEFINE m == sl.length
           q == Len(chunks)
           s == Contents(sl)
<1>1. PICK after : PushAll(sl, chunks) = after[q] /\ Pushes(after, q, sl, chunks)
  BY PushAllRuns
<1>2. q \in Nat /\ m \in 0 .. n /\ (\A k \in 1 .. q : chunks[k] \in D) /\ m + q <= n
  BY ListFields DEF IsList
<1>3. s \in [1 .. m -> D]
  <2>1. sl \in ListRecords(n, D)
    BY DEF IsList
  <2>2. PICK o : Ordered(sl, n, o)
    BY DEF IsList
  <2> QED BY <2>1, <2>2, ContentsIs
<1> DEFINE G == {k \in 0 .. q : /\ IsList(after[k], n, D)
                                /\ after[k].length = m + k
                                /\ Contents(after[k]) = Pushed(k, chunks, m, s)}
<1>4. 0 \in G
  <2>1. after[0] = sl /\ 0 \in 0 .. q
    BY <1>1, <1>2 DEF Pushes
  <2>2. Pushed(0, chunks, m, s) = s
    <3> HIDE DEF m, s
    <3>1. m + 0 = m /\ \A i \in 1 .. m : ~(i <= 0) /\ i - 0 = i
      BY <1>2
    <3>2. s = [i \in 1 .. m |-> s[i]]
      BY <1>3
    <3> QED BY <3>1, <3>2 DEF Pushed
  <2>3. sl.length = m + 0
    BY <1>2
  <2> QED BY <2>1, <2>2, <2>3
<1>5. ASSUME NEW k \in 1 .. q, k - 1 \in G PROVE k \in G
  <2> DEFINE a == after[k - 1]
             x == chunks[k]
             c == Pushed(k - 1, chunks, m, s)
  <2>1. IsList(a, n, D) /\ a.length = m + (k - 1) /\ Contents(a) = c
    BY <1>5
  <2>2. after[k] = push(x, a) /\ x \in D /\ k \in 0 .. q
    BY <1>1, <1>2 DEF Pushes
  <2>3. a.length # n
    <3> HIDE DEF a, m, q
    <3> QED BY <1>2, <2>1
  <2>4. /\ IsList(push(x, a), n, D)
        /\ push(x, a).length = a.length + 1
        /\ Contents(push(x, a)) =
             [i \in 1 .. a.length + 1 |-> IF i = 1 THEN x ELSE Contents(a)[i - 1]]
    <3> HIDE DEF a, x
    <3>1. /\ IsList(push(x, a), n, D)
          /\ push(x, a).length = a.length + 1
          /\ Contents(push(x, a)) = Onto(x, a.length, Contents(a))
      BY <2>1, <2>2, <2>3, PushIs
    <3> QED BY <3>1 DEF Onto
  <2> HIDE DEF a, x, m, q, s
  <2>5. a.length + 1 = m + k
    BY <1>2, <2>1
  <2>6. ASSUME NEW i \in 1 .. m + k
        PROVE  (IF i = 1 THEN x ELSE c[i - 1])
                 = IF i <= k THEN chunks[(k + 1) - i] ELSE s[i - k]
    <3>1. CASE i = 1
      <4>1. i <= k /\ (k + 1) - i = k
        BY <1>2, <3>1
      <4> QED BY <3>1, <4>1 DEF x
    <3>2. CASE i # 1
      <4>1. i - 1 \in 1 .. m + (k - 1) /\ (i - 1 <= k - 1 <=> i <= k)
            /\ ((k - 1) + 1) - (i - 1) = (k + 1) - i /\ (i - 1) - (k - 1) = i - k
        BY <1>2, <3>2
      <4>2. c[i - 1] = IF i - 1 <= k - 1 THEN chunks[((k - 1) + 1) - (i - 1)]
                       ELSE s[(i - 1) - (k - 1)]
        BY <4>1 DEF c, Pushed
      <4> HIDE DEF c
      <4> QED BY <3>2, <4>1, <4>2
    <3> QED BY <3>1, <3>2
  <2>7. Contents(push(x, a)) = [i \in 1 .. m + k |-> IF i = 1 THEN x ELSE c[i - 1]]
    <3> HIDE DEF c
    <3> QED BY <2>1, <2>4, <2>5
  <2>8. Contents(push(x, a)) = Pushed(k, chunks, m, s)
    <3> HIDE DEF c
    <3> QED BY <2>6, <2>7 DEF Pushed
  <2> QED BY <2>2, <2>4, <2>5, <2>8
<1>6. q \in G
  <2>1. \A k \in 0 .. q : k \in G
    <3> HIDE DEF G, q
    <3> QED BY <1>2, <1>4, <1>5, UpToInduction
  <2>2. q \in 0 .. q
    BY <1>2
  <2> HIDE DEF q, G
  <2> QED BY <2>1, <2>2
<1> QED BY <1>1, <1>6

(***************************************************************************)
(* The lists of the allocator                                              *)
(***************************************************************************)

\* What the nodes of pool c and those of an extra list have to do with.
PoolData(c) == PoolChunks(c) \cup {NULL}
ExtraData == Chunks \cup {NULL}

\* While there are n free addresses, n calls of malloc give n of them.
LEMMA MallocIs ==
  ASSUME NEW n \in Nat, Cardinality(Chunks \ live) >= n, MaxChunks \in Nat
  PROVE  /\ Malloc(n) \in Seq(Chunks) /\ Len(Malloc(n)) = n
         /\ \A i \in 1 .. n : Malloc(n)[i] \in Chunks \ live
         /\ \A i, j \in 1 .. n : Malloc(n)[i] = Malloc(n)[j] => i = j
<1> DEFINE S == Chunks \ live
           k == Cardinality(S)
<1>1. IsFiniteSet(S)
  <2>1. IsFiniteSet(Chunks)
    BY FS_Interval DEF Chunks
  <2> QED BY <2>1, FS_Subset
<1>2. k \in Nat /\ ExistsBijection(1 .. k, S)
  <2> HIDE DEF S
  <2> QED BY <1>1, FS_CardinalityType
<1>3. PICK f : f \in [1 .. k -> S] /\ IsInjective(f)
  <2> HIDE DEF k, S
  <2> QED BY <1>2 DEF ExistsBijection, Bijection, Injection
<1>4. [i \in 1 .. n |-> f[i]] \in Injection(1 .. n, S)
  <2>1. n \in 0 .. k
    BY <1>2
  <2> HIDE DEF k, S
  <2>2. 1 .. n \subseteq 1 .. k
    BY <1>2, <2>1
  <2> QED BY <1>3, <2>2 DEF Injection, IsInjective
<1> DEFINE c == Malloc(n)
<1>5. c \in Injection(1 .. n, S)
  <2> HIDE DEF k
  <2> QED BY <1>4 DEF Malloc
<1> HIDE DEF c
<1>6. c \in [1 .. n -> S] /\ IsInjective(c)
  <2> HIDE DEF S
  <2> QED BY <1>5 DEF Injection
<1>7. c \in Seq(Chunks) /\ Len(c) = n
  <2>1. c \in [1 .. n -> Chunks]
    BY <1>6
  <2> QED BY <2>1
<1> QED BY <1>6, <1>7 DEF IsInjective, c

\* The extra lists there can be, with n nodes.
ExtraLists(n) == {sl \in ListRecords(n, ExtraData) : IsList(sl, n, ExtraData)}
Uint16s == 0 .. COUNT_MOD - 1
Elms == UNION {[idle_num : Uint16s, total_num : Uint16s, chunks_list : ExtraLists(n)] :
               n \in Nat \ {0}}

\* Every list is well formed.
ListInv ==
  /\ pool = [c \in PoolCaps |-> pool[c]]
  /\ \A c \in PoolCaps : /\ IsList(pool[c].idle_chunks, chunks_num, PoolData(c))
                         /\ IsList(pool[c].alloced_chunks, chunks_num, PoolData(c))
  /\ elm_table \in [Caps -> {NoElm} \cup Elms]

\* What a count keeps of a number, and of one that fits.
LEMMA Uint16Is ==
  ASSUME NEW n \in Int
  PROVE  Uint16(n) \in Uint16s /\ (n \in Uint16s => Uint16(n) = n)
<1>1. COUNT_MOD \in Nat \ {0}
  BY MmAssumption
<1> QED BY <1>1 DEF Uint16, Uint16s

\* An extra list: its fields, and the list itself.
LEMMA ElmIs ==
  ASSUME NEW e \in Elms
  PROVE  /\ e.idle_num \in Nat /\ e.total_num \in Nat
         /\ e.idle_num \in Uint16s /\ e.total_num \in Uint16s
         /\ e.chunks_list.capacity \in Nat \ {0}
         /\ IsList(e.chunks_list, e.chunks_list.capacity, ExtraData)
         /\ e # NoElm
<1>1. PICK n \in Nat \ {0} :
        e \in [idle_num : Uint16s, total_num : Uint16s, chunks_list : ExtraLists(n)]
  BY DEF Elms
<1>2. /\ e.chunks_list \in ExtraLists(n) /\ e.idle_num \in Uint16s /\ e.total_num \in Uint16s
      /\ e.idle_num \in Nat /\ e.total_num \in Nat
  <2>1. e.chunks_list \in ExtraLists(n) /\ e.idle_num \in Uint16s /\ e.total_num \in Uint16s
    BY <1>1
  <2>2. COUNT_MOD \in Nat
    BY MmAssumption
  <2> QED BY <2>1, <2>2 DEF Uint16s
<1>3. IsList(e.chunks_list, n, ExtraData) /\ e.chunks_list \in ListRecords(n, ExtraData)
  BY <1>2 DEF ExtraLists
<1>4. e.chunks_list.capacity = n
  BY <1>3, ListFields
<1>5. NoElm.chunks_list.capacity = 0
  BY DEF NoElm, mk_slist
<1> QED BY <1>2, <1>3, <1>4, <1>5

\* What makes one.
LEMMA ElmOf ==
  ASSUME NEW n \in Nat \ {0}, NEW sl, IsList(sl, n, ExtraData), NEW i \in Uint16s,
         NEW k \in Uint16s,
         NEW e, e = [idle_num |-> i, total_num |-> k, chunks_list |-> sl]
  PROVE  e \in Elms
<1>1. sl \in ExtraLists(n)
  BY DEF ExtraLists, IsList
<1>2. e \in [idle_num : Uint16s, total_num : Uint16s, chunks_list : ExtraLists(n)]
  BY <1>1
<1> QED BY <1>2 DEF Elms

\* mm_pre_alloc: a full list of the chunks, the last one first.
LEMMA PreAllocIs ==
  ASSUME NEW D, NULL \in D, NEW chunks \in Seq(D), Len(chunks) # 0
  PROVE  /\ IsList(mm_pre_alloc(chunks), Len(chunks), D)
         /\ mm_pre_alloc(chunks).length = Len(chunks)
         /\ Contents(mm_pre_alloc(chunks)) = [i \in 1 .. Len(chunks) |-> chunks[(Len(chunks) + 1) - i]]
<1> DEFINE n == Len(chunks)
           sl == mk_slist(n)
<1>1. n \in Nat \ {0}
  OBVIOUS
<1>2. IsList(sl, n, D) /\ sl.length = 0
  <2> HIDE DEF n
  <2> QED BY <1>1, NewIs
<1>3. sl.length + Len(chunks) <= n
  BY <1>1, <1>2
<1>4. /\ IsList(PushAll(sl, chunks), n, D)
      /\ PushAll(sl, chunks).length = sl.length + n
      /\ Contents(PushAll(sl, chunks)) = Pushed(n, chunks, sl.length, Contents(sl))
  <2> HIDE DEF sl
  <2> QED BY <1>1, <1>2, <1>3, PushAllIs
<1>5. Pushed(n, chunks, 0, Contents(sl)) = [i \in 1 .. n |-> chunks[(n + 1) - i]]
  <2> HIDE DEF n, sl
  <2>1. 0 + n = n /\ \A i \in 1 .. n : i <= n
    BY <1>1
  <2> QED BY <2>1 DEF Pushed
<1>6. 0 + n = n
  BY <1>1
<1> HIDE DEF sl, n
<1>7. mm_pre_alloc(chunks) = PushAll(sl, chunks)
  BY DEF mm_pre_alloc, sl, n
<1> QED BY <1>2, <1>4, <1>5, <1>6, <1>7 DEF n

\* mk_el makes an extra list of the n chunks, all idle.
LEMMA NewElmIs ==
  ASSUME NEW n \in Nat \ {0}, n < COUNT_MOD, Cardinality(Chunks \ live) >= n, MaxChunks \in Nat
  PROVE  /\ NewElm(n) \in Elms
         /\ NewElm(n).idle_num = n /\ NewElm(n).total_num = n
         /\ NewElm(n).chunks_list.capacity = n /\ NewElm(n).chunks_list.length = n
         /\ Contents(NewElm(n).chunks_list) = [i \in 1 .. n |-> Malloc(n)[(n + 1) - i]]
<1> DEFINE chunks == Malloc(n)
           sl == mm_pre_alloc(chunks)
<1>1. chunks \in Seq(Chunks) /\ Len(chunks) = n
  BY MallocIs
<1> HIDE DEF chunks
<1>2. chunks \in Seq(ExtraData) /\ NULL \in ExtraData
  BY <1>1 DEF ExtraData
<1>3. /\ IsList(sl, n, ExtraData) /\ sl.length = n
      /\ Contents(sl) = [i \in 1 .. n |-> chunks[(n + 1) - i]]
  <2>1. Len(chunks) # 0
    BY <1>1
  <2> QED BY <1>1, <1>2, <2>1, PreAllocIs
<1>4. sl.capacity = n
  BY <1>3, ListFields DEF IsList
<1> HIDE DEF sl
<1>0. n \in Uint16s /\ Uint16(n) = n
  <2>1. n \in Uint16s
    BY MmAssumption DEF Uint16s
  <2> QED BY <2>1, Uint16Is
<1>5. NewElm(n) = [idle_num |-> n, total_num |-> n, chunks_list |-> sl]
  BY <1>0 DEF NewElm, sl, chunks
<1>6. NewElm(n) \in Elms
  <2> HIDE DEF NewElm
  <2> QED BY <1>0, <1>3, <1>5, ElmOf
<1> QED BY <1>3, <1>4, <1>5, <1>6 DEF chunks

\* expand_el puts n idle chunks before those that an extra list has.
LEMMA LargerElmIs ==
  ASSUME NEW n \in Nat \ {0}, Cardinality(Chunks \ live) >= n, MaxChunks \in Nat,
         NEW e \in Elms
  PROVE  LET l == LargerElm(e, n)
             m == e.chunks_list.length
         IN  /\ l \in Elms
             /\ l.idle_num = Uint16(e.idle_num + n) /\ l.total_num = Uint16(e.total_num + n)
             /\ l.chunks_list.capacity = e.chunks_list.capacity + n
             /\ l.chunks_list.length = m + n
             /\ Contents(l.chunks_list) = Pushed(n, Malloc(n), m, Contents(e.chunks_list))
<1> DEFINE chunks == Malloc(n)
           was == e.chunks_list
           q == was.capacity
           large == sl_expand(was, n)
           sl == PushAll(large, chunks)
<1>1. chunks \in Seq(Chunks) /\ Len(chunks) = n
  BY MallocIs
<1> HIDE DEF chunks
<1>2. chunks \in Seq(ExtraData) /\ NULL \in ExtraData
  BY <1>1 DEF ExtraData
<1>3. q \in Nat \ {0} /\ IsList(was, q, ExtraData) /\ e.idle_num \in Nat /\ e.total_num \in Nat
  BY ElmIs
<1>4. was.length \in 0 .. q
  <2> HIDE DEF was, q
  <2> QED BY <1>3, ListFields DEF IsList
<1>5. /\ IsList(large, q + n, ExtraData) /\ large.length = was.length
      /\ Contents(large) = Contents(was)
  <2> HIDE DEF was, q
  <2> QED BY <1>2, <1>3, GrowIs
<1>6. q + n \in Nat \ {0} /\ large.length + Len(chunks) <= q + n
  <2> HIDE DEF q, was, large
  <2> QED BY <1>1, <1>3, <1>4, <1>5
<1>7. /\ IsList(sl, q + n, ExtraData) /\ sl.length = large.length + n
      /\ Contents(sl) = Pushed(n, chunks, large.length, Contents(large))
  <2> HIDE DEF q, was, large
  <2> QED BY <1>1, <1>2, <1>5, <1>6, PushAllIs
<1>8. sl.capacity = q + n
  <2> HIDE DEF q, sl
  <2> QED BY <1>6, <1>7, ListFields DEF IsList
<1>9. LargerElm(e, n) = [idle_num |-> Uint16(e.idle_num + n),
                         total_num |-> Uint16(e.total_num + n), chunks_list |-> sl]
  BY DEF LargerElm, chunks
<1> HIDE DEF sl
<1>10. LargerElm(e, n) \in Elms
  <2>1. Uint16(e.idle_num + n) \in Uint16s /\ Uint16(e.total_num + n) \in Uint16s
    <3>1. e.idle_num + n \in Int /\ e.total_num + n \in Int
      BY <1>3
    <3> QED BY <3>1, Uint16Is
  <2> HIDE DEF q
  <2> QED BY <1>6, <1>7, <1>9, <2>1, ElmOf
<1> QED BY <1>5, <1>7, <1>8, <1>9, <1>10 DEF chunks

\* Whatever the list, push, append and pop leave it a list.
LEMMA StaysList ==
  ASSUME NEW n \in Nat, NEW D, NULL \in D, NEW sl, IsList(sl, n, D)
  PROVE  /\ \A x \in D : IsList(push(x, sl), n, D) /\ IsList(append(x, sl), n, D)
         /\ IsList(pop(sl), n, D) /\ Popped(sl) \in D
<1>1. sl \in ListRecords(n, D) /\ sl.capacity = n
  BY ListFields DEF IsList
<1>2. ASSUME NEW x \in D PROVE IsList(push(x, sl), n, D) /\ IsList(append(x, sl), n, D)
  <2>1. CASE sl.length = n
    BY <1>1, <2>1 DEF push, append
  <2>2. CASE sl.length # n
    BY <2>2, PushIs, AppendIs
  <2> QED BY <2>1, <2>2
<1>3. IsList(pop(sl), n, D) /\ Popped(sl) \in D
  <2>1. CASE sl.length = 0
    <3>1. PICK o : Ordered(sl, n, o)
      BY DEF IsList
    <3>2. sl.head = NULL
      BY <2>1, <3>1 DEF Ordered, Chain
    <3> QED BY <3>2 DEF pop, Popped
  <2>2. CASE sl.length # 0
    BY <2>2, PopIs
  <2> QED BY <2>1, <2>2
<1> QED BY <1>2, <1>3

\* An extra list with a new list of chunks and a new number of idle ones.
LEMMA ElmUpdated ==
  ASSUME NEW e \in Elms, NEW l, NEW i
  PROVE  [e EXCEPT !.chunks_list = l, !.idle_num = i]
           = [idle_num |-> i, total_num |-> e.total_num, chunks_list |-> l]
<1>1. PICK n \in Nat \ {0} :
        e \in [idle_num : Uint16s, total_num : Uint16s, chunks_list : ExtraLists(n)]
  BY DEF Elms
<1>2. PICK a, b, c : e = [idle_num |-> a, total_num |-> b, chunks_list |-> c]
  BY <1>1
<1>3. PICK r : r = [e EXCEPT !.chunks_list = l]
  OBVIOUS
<1>4. r = [idle_num |-> a, total_num |-> b, chunks_list |-> l] /\ e.total_num = b
  BY <1>2, <1>3
<1>5. [r EXCEPT !.idle_num = i] = [idle_num |-> i, total_num |-> b, chunks_list |-> l]
  BY <1>4
<1> QED BY <1>3, <1>4, <1>5

\* A count that is not zero goes down by one.
LEMMA OneLess ==
  ASSUME NEW e \in Elms, e.idle_num # 0
  PROVE  e.idle_num - 1 \in Uint16s /\ Uint16(e.idle_num - 1) = e.idle_num - 1
<1>1. e.idle_num \in Uint16s /\ COUNT_MOD \in Nat
  BY ElmIs, MmAssumption
<1>2. e.idle_num - 1 \in Int /\ e.idle_num - 1 \in Uint16s
  BY <1>1 DEF Uint16s
<1> QED BY <1>2, Uint16Is

\* What an extra list may become when a chunk is handed out or comes back.
LEMMA TakenElm ==
  ASSUME NEW e \in Elms, e.idle_num # 0
  PROVE  Taken(e) \in Elms
<1> DEFINE sl == e.chunks_list
           n == sl.capacity
           l == append(Popped(sl), pop(sl))
<1>1. n \in Nat \ {0} /\ IsList(sl, n, ExtraData) /\ NULL \in ExtraData
      /\ e.idle_num \in Uint16s /\ e.total_num \in Uint16s
  BY ElmIs DEF ExtraData
<1>2. IsList(l, n, ExtraData)
  <2> HIDE DEF sl, n
  <2>1. IsList(pop(sl), n, ExtraData) /\ Popped(sl) \in ExtraData
    BY <1>1, StaysList
  <2> QED BY <1>1, <2>1, StaysList
<1>3. e.idle_num - 1 \in Uint16s /\ Uint16(e.idle_num - 1) = e.idle_num - 1
  BY OneLess
<1>4. Taken(e) = [idle_num |-> e.idle_num - 1, total_num |-> e.total_num, chunks_list |-> l]
  <2> HIDE DEF l
  <2> QED BY <1>3, ElmUpdated DEF Taken, l
<1> HIDE DEF l, n
<1> QED BY <1>1, <1>2, <1>3, <1>4, ElmOf

\* An extra list that a chunk is returned to is one.
LEMMA ReturnedElm ==
  ASSUME NEW e \in Elms, NEW x
  PROVE  Returned(e, x) \in Elms
<1> DEFINE sl == e.chunks_list
           n == sl.capacity
           l == mv2head(x, sl)
<1>1. /\ n \in Nat \ {0} /\ IsList(sl, n, ExtraData)
      /\ e.idle_num \in Nat /\ e.total_num \in Uint16s
  BY ElmIs
<1>2. IsList(l, n, ExtraData)
  <2> HIDE DEF sl, n
  <2> QED BY <1>1, MoveIs
<1>3. Uint16(e.idle_num + 1) \in Uint16s
  <2>1. e.idle_num + 1 \in Int
    BY <1>1
  <2> QED BY <2>1, Uint16Is
<1>4. Returned(e, x) = [idle_num |-> Uint16(e.idle_num + 1), total_num |-> e.total_num, chunks_list |-> l]
  <2> HIDE DEF l
  <2> QED BY ElmUpdated DEF Returned, l
<1> HIDE DEF l, n
<1> QED BY <1>1, <1>2, <1>3, <1>4, ElmOf

\* ListInv says what ListsSound does.
LEMMA ListsAreSound ==
  ASSUME ListInv, chunks_num \in Nat
  PROVE  ListsSound
<1> SUFFICES ASSUME NEW sl \in Lists PROVE SListSound(sl)
  BY DEF ListsSound
<1>1. CASE \E c \in PoolCaps : sl \in {pool[c].idle_chunks, pool[c].alloced_chunks}
  <2>1. PICK c \in PoolCaps : sl \in {pool[c].idle_chunks, pool[c].alloced_chunks}
    BY <1>1
  <2>2. IsList(sl, chunks_num, PoolData(c))
    BY <2>1 DEF ListInv
  <2> QED BY <2>2, ListIsSound
<1>2. CASE \E c \in Caps : elm_table[c] # NoElm /\ sl = elm_table[c].chunks_list
  <2>1. PICK c \in Caps : elm_table[c] # NoElm /\ sl = elm_table[c].chunks_list
    BY <1>2
  <2>2. elm_table[c] \in Elms
    BY <2>1 DEF ListInv
  <2>3. sl.capacity \in Nat /\ IsList(sl, sl.capacity, ExtraData)
    BY <2>1, <2>2, ElmIs
  <2> QED BY <2>3, ListIsSound
<1> DEFINE P == UNION {{pool[c].idle_chunks, pool[c].alloced_chunks} : c \in PoolCaps}
           E == {elm_table[c].chunks_list : c \in {d \in Caps : elm_table[d] # NoElm}}
<1>3. sl \in P => \E c \in PoolCaps : sl \in {pool[c].idle_chunks, pool[c].alloced_chunks}
  <2>1. ASSUME sl \in P PROVE \E S \in {{pool[c].idle_chunks, pool[c].alloced_chunks} : c \in PoolCaps} : sl \in S
    BY <2>1
  <2> QED BY <2>1
<1>4. sl \in E => \E c \in Caps : elm_table[c] # NoElm /\ sl = elm_table[c].chunks_list
  OBVIOUS
<1>5. sl \in P \/ sl \in E
  <2>1. Lists = P \cup E
    BY DEF Lists
  <2> HIDE DEF P, E
  <2> QED BY <2>1
<1> HIDE DEF P, E
<1> QED BY <1>1, <1>2, <1>3, <1>4, <1>5

\* At the start.
LEMMA PoolStart ==
  ASSUME NEW c \in PoolCaps
  PROVE  /\ PoolOf(c) \in Seq(PoolChunks(c)) /\ Len(PoolOf(c)) = chunks_num
         /\ IsList(mm_pre_alloc(PoolOf(c)), chunks_num, PoolData(c))
         /\ mm_pre_alloc(PoolOf(c)).length = chunks_num
         /\ Contents(mm_pre_alloc(PoolOf(c))) =
              [i \in 1 .. chunks_num |-> PoolOf(c)[(chunks_num + 1) - i]]
         /\ IsList(mk_slist(chunks_num), chunks_num, PoolData(c))
         /\ mk_slist(chunks_num).length = 0
<1>1. chunks_num \in Nat \ {0} /\ NULL \in PoolData(c)
  BY MmAssumption DEF PoolData
<1>2. PoolOf(c) \in Seq(PoolChunks(c)) /\ Len(PoolOf(c)) = chunks_num
  <2>1. PoolOf(c) = [k \in 1 .. chunks_num |-> PoolOf(c)[k]]
    BY DEF PoolOf
  <2>2. \A k \in 1 .. chunks_num : PoolOf(c)[k] \in PoolChunks(c)
    BY DEF PoolChunks
  <2>3. PoolOf(c) \in [1 .. chunks_num -> PoolChunks(c)]
    <3> DEFINE f == PoolOf(c)
    <3> HIDE DEF f
    <3> QED BY <2>1, <2>2 DEF f
  <2> QED BY <1>1, <2>3
<1>3. PoolOf(c) \in Seq(PoolData(c))
  BY <1>2 DEF PoolData
<1>4. Len(PoolOf(c)) # 0
  BY <1>1, <1>2
<1>5. /\ IsList(mm_pre_alloc(PoolOf(c)), chunks_num, PoolData(c))
      /\ mm_pre_alloc(PoolOf(c)).length = chunks_num
      /\ Contents(mm_pre_alloc(PoolOf(c))) =
           [i \in 1 .. chunks_num |-> PoolOf(c)[(chunks_num + 1) - i]]
  <2> DEFINE f == PoolOf(c)
  <2> HIDE DEF f
  <2>1. /\ IsList(mm_pre_alloc(f), Len(f), PoolData(c))
        /\ mm_pre_alloc(f).length = Len(f)
        /\ Contents(mm_pre_alloc(f)) = [i \in 1 .. Len(f) |-> f[(Len(f) + 1) - i]]
    BY <1>1, <1>3, <1>4, PreAllocIs DEF f
  <2> QED BY <1>2, <2>1 DEF f
<1> QED BY <1>1, <1>2, <1>5, NewIs

\* The lists that mm_init makes are well formed.
LEMMA ListInit ==
  ASSUME Init
  PROVE  ListInv
<1>1. pool = [c \in PoolCaps |-> [idle_num |-> chunks_num,
                                  idle_chunks |-> mm_pre_alloc(PoolOf(c)),
                                  alloced_chunks |-> mk_slist(chunks_num)]]
  BY DEF Init
<1>2. pool = [c \in PoolCaps |-> pool[c]]
  BY <1>1
<1>3. ASSUME NEW c \in PoolCaps
      PROVE  /\ IsList(pool[c].idle_chunks, chunks_num, PoolData(c))
             /\ IsList(pool[c].alloced_chunks, chunks_num, PoolData(c))
  <2>1. pool[c].idle_chunks = mm_pre_alloc(PoolOf(c)) /\ pool[c].alloced_chunks = mk_slist(chunks_num)
    BY <1>1
  <2> QED BY <2>1, PoolStart
<1>4. elm_table \in [Caps -> {NoElm} \cup Elms]
  BY DEF Init
<1> QED BY <1>2, <1>3, <1>4 DEF ListInv

\* A new entry of elm_table.
LEMMA ElmEntry ==
  ASSUME elm_table \in [Caps -> {NoElm} \cup Elms], NEW c, NEW e \in {NoElm} \cup Elms
  PROVE  [elm_table EXCEPT ![c] = e] \in [Caps -> {NoElm} \cup Elms]
<1> DEFINE S == {NoElm} \cup Elms
<1> HIDE DEF S
<1> QED BY DEF S

\* A step that makes an extra list or lets it grow.
LEMMA ObtainLists ==
  ASSUME ListInv, NEW c, NEW e \in Elms, Obtain(c, e, DEFAULT_EXTRA), UNCHANGED pool
  PROVE  ListInv'
<1>1. elm_table' \in [Caps -> {NoElm} \cup Elms]
  BY ElmEntry DEF Obtain, ListInv
<1> QED BY <1>1 DEF ListInv

\* A step that writes one pool.
LEMMA PoolLists ==
  ASSUME ListInv, NEW c \in PoolCaps, NEW p, pool' = [pool EXCEPT ![c] = p],
         IsList(p.idle_chunks, chunks_num, PoolData(c)),
         IsList(p.alloced_chunks, chunks_num, PoolData(c)),
         UNCHANGED elm_table
  PROVE  ListInv'
<1>1. pool = [d \in PoolCaps |-> pool[d]]
  BY DEF ListInv
<1>2. pool' = [d \in PoolCaps |-> IF d = c THEN p ELSE pool[d]]
  BY <1>1
<1>3. \A d \in PoolCaps : pool'[d] = IF d = c THEN p ELSE pool[d]
  BY <1>2
<1>4. pool' = [d \in PoolCaps |-> pool'[d]]
  BY <1>2
<1>5. \A d \in PoolCaps : /\ IsList(pool'[d].idle_chunks, chunks_num, PoolData(d))
                          /\ IsList(pool'[d].alloced_chunks, chunks_num, PoolData(d))
  BY <1>3 DEF ListInv
<1>6. elm_table' \in [Caps -> {NoElm} \cup Elms]
  BY DEF ListInv
<1> QED BY <1>4, <1>5, <1>6 DEF ListInv

\* A thread that is given a class without pool touches no pool.
LEMMA NoPool ==
  ASSUME ListInv, NEW c, c \notin PoolCaps, NEW p
  PROVE  [pool EXCEPT ![c] = p] = pool
  BY DEF ListInv

\* The step of FreeExtra that is defined.
FreeBack(t) == pc[t] = "free_extra" /\ cap[t] \notin raw /\ GiveBack(t)

\* The other one reads a list that is gone.
LEMMA FreeExtraIs ==
  ASSUME NEW t, FreeExtra(t)
  PROVE  FreeBack(t) \/ (pc[t] = "free_extra" /\ Fault)
  BY DEF FreeExtra, FreeBack

\* Every step leaves the lists well formed.
LEMMA ListStep ==
  ASSUME ListInv, [Next]_vars
  PROVE  ListInv'
<1>1. /\ MaxChunks \in Nat /\ chunks_num \in Nat \ {0}
      /\ DEFAULT_EXTRA \in Nat \ {0} /\ DEFAULT_EXTRA < COUNT_MOD
  BY MmAssumption
<1>2. CASE UNCHANGED <<pool, elm_table>>
  BY <1>2 DEF ListInv
<1>3. ASSUME NEW t \in Threads, FillEl(t) PROVE ListInv'
  <2>1. Obtain(cap[t], NewElm(DEFAULT_EXTRA), DEFAULT_EXTRA) /\ UNCHANGED pool
    BY <1>3 DEF FillEl
  <2>2. NewElm(DEFAULT_EXTRA) \in Elms
    BY <1>1, <2>1, NewElmIs DEF Obtain
  <2> QED BY <2>1, <2>2, ObtainLists
<1>4. ASSUME NEW t \in Threads, ExpandEl(t) PROVE ListInv'
  <2>1. CASE elm_table[cap[t]] = NoElm
    BY <1>2, <1>4, <2>1 DEF ExpandEl, Fault, memVars
  <2>2. CASE elm_table[cap[t]] # NoElm
    <3> DEFINE e == LargerElm(elm_table[cap[t]], DEFAULT_EXTRA)
    <3>1. Obtain(cap[t], e, DEFAULT_EXTRA) /\ UNCHANGED pool
      <4>1. /\ Obtain(cap[t], LargerElm(elm_table[cap[t]], DEFAULT_EXTRA), DEFAULT_EXTRA)
            /\ UNCHANGED <<pool, raw, size, cap, ptr, node, old, held, status>>
        BY <1>4, <2>2 DEF ExpandEl
      <4> QED BY <4>1
    <3>2. CASE cap[t] \in Caps
      <4>1. elm_table[cap[t]] \in Elms
        BY <2>2, <3>2 DEF ListInv
      <4>2. e \in Elms
        BY <1>1, <3>1, <4>1, LargerElmIs DEF Obtain
      <4> HIDE DEF e
      <4> QED BY <3>1, <4>2, ObtainLists
    <3>3. CASE cap[t] \notin Caps
      <4> HIDE DEF e
      <4>1. elm_table' = elm_table
        BY <3>1, <3>3 DEF Obtain, ListInv
      <4> QED BY <1>2, <3>1, <4>1
    <3> QED BY <3>2, <3>3
  <2> QED BY <2>1, <2>2
<1>5. ASSUME NEW t \in Threads, Refill(t) PROVE ListInv'
  <2> DEFINE was == elm_table[cap[t]]
             e == LargerElm(was, DEFAULT_EXTRA)
  <2>1. CASE was = NoElm
    <3>1. Obtain(cap[t], NewElm(DEFAULT_EXTRA), DEFAULT_EXTRA) /\ UNCHANGED pool
      BY <1>5, <2>1 DEF Refill
    <3>2. NewElm(DEFAULT_EXTRA) \in Elms
      BY <1>1, <3>1, NewElmIs DEF Obtain
    <3> QED BY <3>1, <3>2, ObtainLists
  <2>2. CASE was # NoElm /\ was.idle_num = 0
    <3>1. Obtain(cap[t], e, DEFAULT_EXTRA) /\ UNCHANGED pool
      <4>1. /\ Obtain(cap[t], LargerElm(elm_table[cap[t]], DEFAULT_EXTRA), DEFAULT_EXTRA)
            /\ UNCHANGED <<pool, raw, size, cap, ptr, node, old, held, status>>
        BY <1>5, <2>2 DEF Refill
      <4> QED BY <4>1
    <3>2. CASE cap[t] \in Caps
      <4>1. was \in Elms
        BY <2>2, <3>2 DEF ListInv
      <4>2. e \in Elms
        BY <1>1, <3>1, <4>1, LargerElmIs DEF Obtain
      <4> HIDE DEF e
      <4> QED BY <3>1, <4>2, ObtainLists
    <3>3. CASE cap[t] \notin Caps
      <4> HIDE DEF e
      <4>1. elm_table' = elm_table
        BY <3>1, <3>3 DEF Obtain, ListInv
      <4> QED BY <1>2, <3>1, <4>1
    <3> QED BY <3>2, <3>3
  <2>3. CASE was # NoElm /\ was.idle_num # 0
    BY <1>2, <1>5, <2>3 DEF Refill
  <2> QED BY <2>1, <2>2, <2>3
<1>6. ASSUME NEW t \in Threads, SelectPreAlloced(t) PROVE ListInv'
  <2> DEFINE c == cap[t]
             idle == pool[c].idle_chunks
             out == pool[c].alloced_chunks
             p == [idle_num |-> pool[c].idle_num - 1, idle_chunks |-> pop(idle),
                   alloced_chunks |-> push(Popped(idle), out)]
  <2>1. CASE pool[c].idle_num = 0
    BY <1>2, <1>6, <2>1 DEF SelectPreAlloced, memVars
  <2>2. CASE pool[c].idle_num # 0
    <3>1. pool' = [pool EXCEPT ![c] = p] /\ UNCHANGED elm_table
      BY <1>6, <2>2 DEF SelectPreAlloced, GiveChunk
    <3>2. CASE c \in PoolCaps
      <4>1. /\ IsList(idle, chunks_num, PoolData(c)) /\ IsList(out, chunks_num, PoolData(c))
            /\ NULL \in PoolData(c)
        BY <3>2 DEF ListInv, PoolData
      <4>2. /\ IsList(pop(idle), chunks_num, PoolData(c))
            /\ IsList(push(Popped(idle), out), chunks_num, PoolData(c))
        <5> HIDE DEF c, idle, out
        <5> QED BY <1>1, <4>1, StaysList
      <4> DEFINE i == pop(idle)
                 o == push(Popped(idle), out)
      <4> HIDE DEF c, i, o
      <4>3. p.idle_chunks = i /\ p.alloced_chunks = o
        BY DEF i, o
      <4> HIDE DEF p
      <4> QED BY <3>1, <3>2, <4>2, <4>3, PoolLists DEF i, o
    <3>3. CASE c \notin PoolCaps
      <4> HIDE DEF p, c
      <4>1. pool' = pool
        BY <3>1, <3>3, NoPool
      <4> QED BY <1>2, <3>1, <4>1
    <3> QED BY <3>2, <3>3
  <2> QED BY <2>1, <2>2
<1>7. ASSUME NEW t \in Threads, SelectExtra(t) PROVE ListInv'
  <2> DEFINE e == elm_table[cap[t]]
  <2>1. CASE e.idle_num = 0
    BY <1>2, <1>7, <2>1 DEF SelectExtra, memVars
  <2>2. CASE e.idle_num # 0
    <3>1. elm_table' = [elm_table EXCEPT ![cap[t]] = Taken(e)] /\ UNCHANGED pool
      BY <1>7, <2>2 DEF SelectExtra, GiveChunk
    <3>2. CASE cap[t] \in Caps
      <4>1. e \in Elms
        <5>1. e # NoElm
          BY <2>2 DEF NoElm
        <5> QED BY <3>2, <5>1 DEF ListInv
      <4>2. Taken(e) \in Elms
        <5> HIDE DEF e
        <5> QED BY <2>2, <4>1, TakenElm
      <4> DEFINE x == Taken(e)
      <4> HIDE DEF x
      <4>3. elm_table' \in [Caps -> {NoElm} \cup Elms]
        BY <3>1, <4>2, ElmEntry DEF ListInv, x
      <4> QED BY <3>1, <4>3 DEF ListInv
    <3>3. CASE cap[t] \notin Caps
      <4> DEFINE x == Taken(e)
      <4> HIDE DEF x
      <4>1. elm_table' = elm_table
        BY <3>1, <3>3 DEF ListInv, x
      <4> QED BY <1>2, <3>1, <4>1
    <3> QED BY <3>2, <3>3
  <2> QED BY <2>1, <2>2
<1>8. ASSUME NEW t \in Threads, FreePreAlloced(t) PROVE ListInv'
  <2> DEFINE c == cap[t]
             idle == pool[c].idle_chunks
             front == mv2head(ptr[t], pool[c].alloced_chunks)
             p == [idle_num |-> pool[c].idle_num + 1,
                   idle_chunks |-> push(Popped(front), idle), alloced_chunks |-> pop(front)]
  <2>1. pool' = [pool EXCEPT ![c] = p] /\ UNCHANGED elm_table
    BY <1>8 DEF FreePreAlloced
  <2>2. CASE c \in PoolCaps
    <3>1. /\ IsList(idle, chunks_num, PoolData(c))
          /\ IsList(pool[c].alloced_chunks, chunks_num, PoolData(c))
          /\ NULL \in PoolData(c)
      BY <2>2 DEF ListInv, PoolData
    <3>2. IsList(front, chunks_num, PoolData(c))
      <4> HIDE DEF c
      <4> QED BY <1>1, <3>1, MoveIs
    <3>3. /\ IsList(pop(front), chunks_num, PoolData(c))
          /\ IsList(push(Popped(front), idle), chunks_num, PoolData(c))
      <4> HIDE DEF c, idle, front
      <4> QED BY <1>1, <3>1, <3>2, StaysList
    <3> DEFINE i == push(Popped(front), idle)
               o == pop(front)
    <3> HIDE DEF c, i, o
    <3>4. p.idle_chunks = i /\ p.alloced_chunks = o
      BY DEF i, o
    <3> HIDE DEF p
    <3> QED BY <2>1, <2>2, <3>3, <3>4, PoolLists DEF i, o
  <2>3. CASE c \notin PoolCaps
    <3> HIDE DEF p, c
    <3>1. pool' = pool
      BY <2>1, <2>3, NoPool
    <3> QED BY <1>2, <2>1, <3>1
  <2> QED BY <2>2, <2>3
<1>9. ASSUME NEW t \in Threads, FreeBack(t) PROVE ListInv'
  <2> DEFINE e == elm_table[cap[t]]
             x == Returned(e, ptr[t])
  <2>1. CASE e = NoElm
    BY <1>2, <1>9, <2>1 DEF FreeBack, GiveBack
  <2>2. CASE e # NoElm /\ AllIdle(e)
    <3>1. elm_table' = [elm_table EXCEPT ![cap[t]] = NoElm] /\ UNCHANGED pool
      BY <1>9, <2>2 DEF FreeBack, GiveBack
    <3>2. elm_table' \in [Caps -> {NoElm} \cup Elms]
      BY <3>1, ElmEntry DEF ListInv
    <3> QED BY <3>1, <3>2 DEF ListInv
  <2>3. CASE e # NoElm /\ ~AllIdle(e)
    <3>1. elm_table' = [elm_table EXCEPT ![cap[t]] = x] /\ UNCHANGED pool
      BY <1>9, <2>3 DEF FreeBack, GiveBack
    <3>2. CASE cap[t] \in Caps
      <4>1. e \in Elms
        BY <2>3, <3>2 DEF ListInv
      <4>2. x \in Elms
        <5> HIDE DEF e
        <5> QED BY <4>1, ReturnedElm
      <4> HIDE DEF x
      <4>3. elm_table' \in [Caps -> {NoElm} \cup Elms]
        BY <3>1, <4>2, ElmEntry DEF ListInv
      <4> QED BY <3>1, <4>3 DEF ListInv
    <3>3. CASE cap[t] \notin Caps
      <4> HIDE DEF x
      <4>1. elm_table' = elm_table
        BY <3>1, <3>3 DEF ListInv
      <4> QED BY <1>2, <3>1, <4>1
    <3> QED BY <3>2, <3>3
  <2> QED BY <2>1, <2>2, <2>3
<1>13. ASSUME NEW t \in Threads, FreeExtra(t) PROVE ListInv'
  BY <1>2, <1>9, <1>13, FreeExtraIs DEF Fault, memVars
<1>10. CASE UNCHANGED vars
  BY <1>2, <1>10 DEF vars, memVars
<1>11. ASSUME NEW t \in Threads, CallOf(t) PROVE ListInv'
  BY <1>2, <1>11 DEF CallOf, Alloc, Free, Realloc, Fault, memVars
<1>12. ASSUME NEW t \in Threads, Step(t) PROVE ListInv'
  <2>1. CASE AllocAgain(t) \/ LookAgain(t) \/ Find(t) \/ Memcpy(t)
    BY <1>2, <2>1 DEF AllocAgain, LookAgain, Find, Memcpy, Fault, memVars
  <2>2. CASE MkEl(t)
    BY <1>2, <2>2 DEF MkEl
  <2> QED BY <1>3, <1>4, <1>5, <1>6, <1>7, <1>8, <1>13, <1>12, <2>1, <2>2 DEF Step
<1> QED BY <1>10, <1>11, <1>12 DEF Next

\* The lists of slist.c stay well formed in every state of the allocator.
THEOREM ListsAreWellFormed == Spec => []ListsSound
<1>1. chunks_num \in Nat
  BY MmAssumption
<1>2. Spec => []ListInv
  BY ListInit, ListStep, PTL DEF Spec
<1>3. ListInv => ListsSound
  BY <1>1, ListsAreSound
<1> QED BY <1>2, <1>3, PTL

(***************************************************************************)
(* Size classes                                                            *)
(***************************************************************************)

\* pow[k] is 2^k, for k up to x.
Doubles(pow, x) ==
  /\ pow \in [0 .. x -> Nat \ {0}]
  /\ pow[0] = 1
  /\ \A k \in 1 .. x : pow[k] = 2 * pow[k - 1]

\* The function inside Pow2 doubles.
LEMMA PowRuns ==
  ASSUME NEW x \in Nat
  PROVE  \E pow : Pow2(x) = pow[x] /\ Doubles(pow, x)
<1> DEFINE V == Nat \ {0}
           F == [p \in Nat \X V |-> 2 * p[2]]
           at == CHOOSE f : f = [k \in 0 .. x |-> IF k = 0 THEN 1 ELSE 2 * f[k - 1]]
<1>1. Pow2(x) = at[x]
  BY DEF Pow2
<1>2. 1 \in V /\ F \in [Nat \X V -> V]
  <2>1. ASSUME NEW p \in Nat \X V PROVE 2 * p[2] \in V
    OBVIOUS
  <2> QED BY <2>1
<1>3. PICK f : Repeats(f, x, V, 1, F)
  <2> HIDE DEF V, F
  <2> QED BY <1>2, Recursion
<1>4. f \in [0 .. x -> V] /\ f[0] = 1 /\ \A k \in 1 .. x : f[k] = F[<<k, f[k - 1]>>]
  <2> HIDE DEF V, F
  <2> QED BY <1>3 DEF Repeats
<1>5. ASSUME NEW k \in 1 .. x PROVE f[k] = 2 * f[k - 1]
  <2>1. k \in Nat /\ k - 1 \in 0 .. x
    OBVIOUS
  <2>2. <<k, f[k - 1]>> \in Nat \X V
    <3> HIDE DEF V
    <3> QED BY <1>4, <2>1
  <2> QED BY <1>4, <2>2
<1>6. f = [k \in 0 .. x |-> IF k = 0 THEN 1 ELSE 2 * f[k - 1]]
  <2>1. f = [k \in 0 .. x |-> f[k]]
    <3> HIDE DEF V
    <3> QED BY <1>4
  <2>2. ASSUME NEW k \in 0 .. x PROVE f[k] = IF k = 0 THEN 1 ELSE 2 * f[k - 1]
    <3>1. k # 0 => k \in 1 .. x
      OBVIOUS
    <3> QED BY <1>4, <1>5, <3>1
  <2> QED BY <2>1, <2>2
<1>7. at = [k \in 0 .. x |-> IF k = 0 THEN 1 ELSE 2 * at[k - 1]]
  BY <1>6
<1> HIDE DEF at
<1>8. at[0] = 1 /\ \A k \in 1 .. x : at[k] = 2 * at[k - 1]
  <2>1. 0 \in 0 .. x /\ \A k \in 1 .. x : k \in 0 .. x /\ k # 0
    OBVIOUS
  <2> QED BY <1>7, <2>1
<1> DEFINE G == {k \in 0 .. x : at[k] \in V}
<1>9. \A k \in 0 .. x : k \in G
  <2>1. 0 \in G
    BY <1>8
  <2>2. ASSUME NEW k \in 1 .. x, k - 1 \in G PROVE k \in G
    BY <1>8, <2>2
  <2> HIDE DEF G
  <2> QED BY <2>1, <2>2, UpToInduction
<1>10. at \in [0 .. x -> V]
  <2>1. at = [k \in 0 .. x |-> at[k]]
    BY <1>7
  <2>2. \A k \in 0 .. x : at[k] \in V
    BY <1>9
  <2> HIDE DEF V
  <2> QED BY <2>1, <2>2
<1> QED BY <1>1, <1>8, <1>10 DEF Doubles

\* 2^0 is 1, and 2^(x + 1) twice 2^x.
LEMMA PowIs ==
  /\ Pow2(0) = 1
  /\ \A x \in Nat : Pow2(x) \in Nat \ {0} /\ Pow2(x + 1) = 2 * Pow2(x)
<1>1. Pow2(0) = 1
  BY PowRuns DEF Doubles
<1>2. ASSUME NEW x \in Nat
      PROVE  Pow2(x) \in Nat \ {0} /\ Pow2(x + 1) = 2 * Pow2(x)
  <2>1. PICK f : Pow2(x) = f[x] /\ Doubles(f, x)
    BY PowRuns
  <2>2. PICK g : Pow2(x + 1) = g[x + 1] /\ Doubles(g, x + 1)
    BY PowRuns
  <2> DEFINE G == {k \in 0 .. x : f[k] = g[k]}
  <2>3. 0 \in G
    BY <2>1, <2>2 DEF Doubles
  <2>4. ASSUME NEW k \in 1 .. x, k - 1 \in G PROVE k \in G
    BY <2>1, <2>2, <2>4 DEF Doubles
  <2>5. \A k \in 0 .. x : k \in G
    <3> HIDE DEF G
    <3> QED BY <2>3, <2>4, UpToInduction
  <2>6. f[x] = g[x] /\ f[x] \in Nat \ {0}
    BY <2>1, <2>5 DEF Doubles
  <2>7. g[x + 1] = 2 * g[x]
    <3>1. x + 1 \in 1 .. x + 1 /\ (x + 1) - 1 = x
      OBVIOUS
    <3> QED BY <2>2, <3>1 DEF Doubles
  <2> QED BY <2>1, <2>2, <2>6, <2>7
<1> QED BY <1>1, <1>2

\* 2^(a + b) is 2^a times 2^b.
LEMMA PowSum ==
  ASSUME NEW a \in Nat, NEW b \in Nat
  PROVE  Pow2(a + b) = Pow2(a) * Pow2(b)
<1> DEFINE G == {k \in 0 .. b : Pow2(a + k) = Pow2(a) * Pow2(k)}
<1>1. 0 \in G
  <2>1. Pow2(0) = 1 /\ Pow2(a) \in Nat /\ a + 0 = a
    BY PowIs
  <2> QED BY <2>1
<1>2. ASSUME NEW k \in 1 .. b, k - 1 \in G PROVE k \in G
  <2> DEFINE i == k - 1
  <2>1. i \in Nat /\ a + i \in Nat /\ i + 1 = k /\ (a + i) + 1 = a + k
    OBVIOUS
  <2>2. Pow2(a + i) = Pow2(a) * Pow2(i)
    BY <1>2
  <2> HIDE DEF i
  <2>3. Pow2(i + 1) = 2 * Pow2(i) /\ Pow2((a + i) + 1) = 2 * Pow2(a + i)
    BY <2>1, PowIs
  <2>4. Pow2(a) \in Nat /\ Pow2(i) \in Nat
    BY <2>1, PowIs
  <2>5. 2 * (Pow2(a) * Pow2(i)) = Pow2(a) * (2 * Pow2(i))
    BY <2>4
  <2> QED BY <2>1, <2>2, <2>3, <2>5
<1>3. \A k \in 0 .. b : k \in G
  <2> HIDE DEF G
  <2> QED BY <1>1, <1>2, UpToInduction
<1> QED BY <1>3

\* Powers of two grow, and faster than their exponents.
LEMMA PowOrder ==
  ASSUME NEW a \in Nat, NEW b \in Nat
  PROVE  /\ a < Pow2(a)
         /\ a <= b => Pow2(a) <= Pow2(b)
<1>1. a < Pow2(a)
  <2> DEFINE G == {k \in 0 .. a : k < Pow2(k)}
  <2>1. 0 \in G
    BY PowIs
  <2>2. ASSUME NEW k \in 1 .. a, k - 1 \in G PROVE k \in G
    <3>1. k - 1 \in Nat /\ (k - 1) + 1 = k
      OBVIOUS
    <3>2. Pow2(k) = 2 * Pow2(k - 1) /\ Pow2(k - 1) \in Nat
      BY <3>1, PowIs
    <3> QED BY <2>2, <3>2
  <2>3. \A k \in 0 .. a : k \in G
    <3> HIDE DEF G
    <3> QED BY <2>1, <2>2, UpToInduction
  <2> QED BY <2>3
<1>2. ASSUME a <= b PROVE Pow2(a) <= Pow2(b)
  <2>1. b - a \in Nat /\ a + (b - a) = b
    BY <1>2
  <2>2. Pow2(b) = Pow2(a) * Pow2(b - a)
    BY <2>1, PowSum
  <2>3. Pow2(a) \in Nat \ {0} /\ Pow2(b - a) \in Nat \ {0}
    BY <2>1, PowIs
  <2>4. \A u, v \in Nat \ {0} : u <= u * v
    OBVIOUS
  <2> QED BY <2>2, <2>3, <2>4
<1> QED BY <1>1, <1>2

\* The remainder of a smaller number.
LEMMA SmallRemainder ==
  ASSUME NEW m \in Nat, NEW x \in 0 .. m - 1
  PROVE  x % m = x
  OBVIOUS

\* v is x, shifted up until at most the upper 2^(HALVINGS - k) bits of it may be zero.
Halved(v, x, k) ==
  /\ v.c \in Nat /\ v.n \in Nat
  /\ Pow2(HALVINGS - k) <= v.c /\ v.c <= UINT32_BITS
  /\ v.n = x * Pow2(UINT32_BITS - v.c)
  /\ Pow2(UINT32_BITS - Pow2(HALVINGS - k)) <= v.n /\ v.n < Pow2(UINT32_BITS)

\* A step of first_bit halves what is left to look at.
LEMMA HalvedStep ==
  ASSUME NEW x \in Nat, NEW k \in 1 .. HALVINGS, NEW v, Halved(v, x, k - 1)
  PROVE  Halved(HalfStep(v, Pow2(HALVINGS - k)), x, k)
<1> DEFINE T == UINT32_BITS
           s == Pow2(HALVINGS - k)
           w == HalfStep(v, s)
<1>1. HALVINGS \in Nat /\ HALVINGS - k \in Nat /\ HALVINGS - (k - 1) = (HALVINGS - k) + 1
  BY MmAssumption
<1>2. Pow2(HALVINGS - (k - 1)) = 2 * s /\ s \in Nat \ {0} /\ T \in Nat \ {0}
  BY <1>1, PowIs DEF UINT32_BITS
<1> HIDE DEF s, T
<1>3. /\ v.c \in Nat /\ v.n \in Nat /\ 2 * s <= v.c /\ v.c <= T
      /\ v.n = x * Pow2(T - v.c)
      /\ Pow2(T - 2 * s) <= v.n /\ v.n < Pow2(T)
  BY <1>2 DEF Halved, T
<1>4. w = IF v.n < Pow2(T - s) THEN [c |-> v.c - s, n |-> v.n * Pow2(s)] ELSE v
  BY DEF HalfStep, T
<1> HIDE DEF w
<1>5. CASE v.n < Pow2(T - s)
  <2>1. w.c = v.c - s /\ w.n = v.n * Pow2(s)
    BY <1>4, <1>5
  <2>2. /\ T - v.c \in Nat /\ T - 2 * s \in Nat /\ T - s \in Nat
        /\ (T - 2 * s) + s = T - s /\ (T - s) + s = T
        /\ v.c - s \in Nat /\ T - (v.c - s) = (T - v.c) + s /\ s <= v.c - s /\ v.c - s <= T
    BY <1>2, <1>3
  <2>3. /\ Pow2(T - s) = Pow2(T - 2 * s) * Pow2(s)
        /\ Pow2(T) = Pow2(T - s) * Pow2(s)
        /\ Pow2(T - (v.c - s)) = Pow2(T - v.c) * Pow2(s)
    <3>1. Pow2((T - 2 * s) + s) = Pow2(T - 2 * s) * Pow2(s)
      BY <1>2, <2>2, PowSum
    <3>2. Pow2((T - s) + s) = Pow2(T - s) * Pow2(s)
      BY <1>2, <2>2, PowSum
    <3>3. Pow2((T - v.c) + s) = Pow2(T - v.c) * Pow2(s)
      BY <1>2, <2>2, PowSum
    <3> QED BY <2>2, <3>1, <3>2, <3>3
  <2>4. /\ Pow2(s) \in Nat \ {0} /\ Pow2(T - s) \in Nat /\ Pow2(T - 2 * s) \in Nat
        /\ Pow2(T - v.c) \in Nat
    BY <1>2, <2>2, PowIs
  <2>5. \A a, b \in Nat, m \in Nat \ {0} : (a <= b => a * m <= b * m) /\ (a < b => a * m < b * m)
    OBVIOUS
  <2>6. \A a, b, m \in Nat : (a * b) * m = a * (b * m)
    OBVIOUS
  <2>7. v.n * Pow2(s) < Pow2(T)
    BY <1>3, <1>5, <2>3, <2>4, <2>5
  <2>8. Pow2(T - s) <= v.n * Pow2(s)
    BY <1>3, <2>3, <2>4, <2>5
  <2>9. v.n * Pow2(s) = x * Pow2(T - (v.c - s))
    BY <1>3, <2>3, <2>4, <2>6
  <2>10. v.n * Pow2(s) \in Nat
    BY <1>3, <2>4
  <2>11. /\ w.c \in Nat /\ w.n \in Nat /\ s <= w.c /\ w.c <= T
         /\ w.n = x * Pow2(T - w.c) /\ Pow2(T - s) <= w.n /\ w.n < Pow2(T)
    BY <2>1, <2>2, <2>7, <2>8, <2>9, <2>10
  <2> QED BY <2>11 DEF Halved, w, s, T
<1>6. CASE ~(v.n < Pow2(T - s))
  <2>1. w = v
    BY <1>4, <1>6
  <2>2. T - s \in Nat /\ s <= v.c
    BY <1>2, <1>3
  <2>3. Pow2(T - s) \in Nat
    BY <2>2, PowIs
  <2>4. Pow2(T - s) <= v.n
    BY <1>3, <1>6, <2>3
  <2>5. Halved(v, x, k)
    BY <1>3, <2>2, <2>4 DEF Halved, s, T
  <2> QED BY <2>1, <2>5 DEF w, s
<1> QED BY <1>5, <1>6

\* after[k] is what k steps of first_bit make of x.
Halves(after, x) ==
  /\ after[0] = [c |-> UINT32_BITS, n |-> x]
  /\ \A k \in 1 .. HALVINGS : after[k] = HalfStep(after[k - 1], Pow2(HALVINGS - k))

\* The function inside first_bit takes one step after the other.
LEMMA FirstBitRuns ==
  ASSUME NEW x \in Nat \ {0}, x < Pow2(UINT32_BITS)
  PROVE  \E after : first_bit(x) = after[HALVINGS].c /\ Halves(after, x)
<1> DEFINE T == UINT32_BITS
           V == [c : Int, n : Nat]
           F == [p \in Nat \X V |-> IF p[1] \in 1 .. HALVINGS
                                    THEN HalfStep(p[2], Pow2(HALVINGS - p[1])) ELSE p[2]]
           base == [c |-> T, n |-> x]
           at == CHOOSE f : f = [k \in 0 .. HALVINGS |->
                                   IF k = 0 THEN [c |-> UINT32_BITS, n |-> x % Pow2(UINT32_BITS)]
                                   ELSE HalfStep(f[k - 1], Pow2(HALVINGS - k))]
<1>1. HALVINGS \in Nat /\ T \in Nat /\ Pow2(T) \in Nat
  BY MmAssumption, PowIs DEF UINT32_BITS
<1>2. x % Pow2(T) = x
  <2>1. x \in 0 .. Pow2(T) - 1
    BY <1>1 DEF T
  <2> QED BY <1>1, <2>1, SmallRemainder
<1>3. first_bit(x) = at[HALVINGS].c
  BY <1>2 DEF first_bit
<1> HIDE DEF T
<1>4. ASSUME NEW v \in V, NEW s \in Nat PROVE HalfStep(v, s) \in V
  <2>1. Pow2(s) \in Nat
    BY PowIs
  <2>2. v.c - s \in Int /\ v.n * Pow2(s) \in Nat
    BY <2>1
  <2> QED BY <2>2 DEF HalfStep
<1>5. \A k \in 1 .. HALVINGS : Pow2(HALVINGS - k) \in Nat
  <2>1. \A k \in 1 .. HALVINGS : HALVINGS - k \in Nat
    BY <1>1
  <2> QED BY <2>1, PowIs
<1>6. F \in [Nat \X V -> V]
  <2>1. ASSUME NEW p \in Nat \X V
        PROVE  (IF p[1] \in 1 .. HALVINGS THEN HalfStep(p[2], Pow2(HALVINGS - p[1])) ELSE p[2]) \in V
    <3>1. p[2] \in V
      BY <2>1
    <3> HIDE DEF V
    <3> QED BY <1>4, <1>5, <3>1
  <2> HIDE DEF V
  <2> QED BY <2>1
<1>7. base \in V
  BY <1>1
<1>8. PICK f : Repeats(f, HALVINGS, V, base, F)
  <2> HIDE DEF V, F, base
  <2> QED BY <1>1, <1>6, <1>7, Recursion
<1>9. f \in [0 .. HALVINGS -> V] /\ f[0] = base
      /\ \A k \in 1 .. HALVINGS : f[k] = F[<<k, f[k - 1]>>]
  <2> HIDE DEF V, F, base
  <2> QED BY <1>8 DEF Repeats
<1> HIDE DEF base
<1>10. ASSUME NEW k \in 1 .. HALVINGS PROVE f[k] = HalfStep(f[k - 1], Pow2(HALVINGS - k))
  <2>1. k \in Nat /\ k - 1 \in 0 .. HALVINGS
    BY <1>1
  <2> HIDE DEF V
  <2>2. <<k, f[k - 1]>> \in Nat \X V
    BY <1>9, <2>1
  <2>3. F[<<k, f[k - 1]>>] = HalfStep(f[k - 1], Pow2(HALVINGS - k))
    BY <2>2
  <2> QED BY <1>9, <2>3
<1>11. f = [k \in 0 .. HALVINGS |->
             IF k = 0 THEN [c |-> UINT32_BITS, n |-> x % Pow2(UINT32_BITS)]
             ELSE HalfStep(f[k - 1], Pow2(HALVINGS - k))]
  <2>1. f = [k \in 0 .. HALVINGS |-> f[k]]
    <3> HIDE DEF V
    <3> QED BY <1>9
  <2>2. base = [c |-> UINT32_BITS, n |-> x % Pow2(UINT32_BITS)]
    BY <1>2 DEF base, T
  <2>3. ASSUME NEW k \in 0 .. HALVINGS
        PROVE  f[k] = IF k = 0 THEN base ELSE HalfStep(f[k - 1], Pow2(HALVINGS - k))
    <3>1. k # 0 => k \in 1 .. HALVINGS
      BY <1>1
    <3> QED BY <1>9, <1>10, <3>1
  <2> QED BY <2>1, <2>2, <2>3
<1>12. at = [k \in 0 .. HALVINGS |->
              IF k = 0 THEN [c |-> UINT32_BITS, n |-> x % Pow2(UINT32_BITS)]
              ELSE HalfStep(at[k - 1], Pow2(HALVINGS - k))]
  BY <1>11
<1> HIDE DEF at
<1>13. Halves(at, x)
  <2>1. 0 \in 0 .. HALVINGS /\ \A k \in 1 .. HALVINGS : k \in 0 .. HALVINGS /\ k # 0
    BY <1>1
  <2>2. at[0] = [c |-> UINT32_BITS, n |-> x]
    BY <1>2, <1>12, <2>1 DEF T
  <2>3. \A k \in 1 .. HALVINGS : at[k] = HalfStep(at[k - 1], Pow2(HALVINGS - k))
    BY <1>12, <2>1
  <2> QED BY <2>2, <2>3 DEF Halves
<1> QED BY <1>3, <1>13

\* first_bit is the position of the highest bit of any number that its width holds.
THEOREM FirstBitIsHighest ==
  ASSUME NEW x \in Nat \ {0}, x < Pow2(UINT32_BITS)
  PROVE  /\ first_bit(x) \in 1 .. UINT32_BITS
         /\ Pow2(first_bit(x) - 1) <= x /\ x < Pow2(first_bit(x))
<1> DEFINE T == UINT32_BITS
<1>1. HALVINGS \in Nat /\ T = Pow2(HALVINGS) /\ T \in Nat \ {0} /\ Pow2(T) \in Nat \ {0}
  BY MmAssumption, PowIs DEF UINT32_BITS
<1>2. PICK at : first_bit(x) = at[HALVINGS].c /\ Halves(at, x)
  BY FirstBitRuns
<1> DEFINE G == {k \in 0 .. HALVINGS : Halved(at[k], x, k)}
<1>3. 0 \in G
  <2>1. at[0] = [c |-> T, n |-> x]
    BY <1>2 DEF Halves
  <2>2. Pow2(T - T) = 1 /\ x * 1 = x
    BY <1>1, PowIs
  <2>3. HALVINGS - 0 = HALVINGS /\ T - T = 0
    BY <1>1
  <2>4. Pow2(T - Pow2(HALVINGS - 0)) = 1
    BY <1>1, <2>2, <2>3
  <2>5. Halved(at[0], x, 0)
    <3> HIDE DEF T
    <3>1. at[0].c = T /\ at[0].n = x
      BY <2>1
    <3>2. x < Pow2(T)
      BY DEF T
    <3>3. Pow2(HALVINGS - 0) = T
      BY <1>1, <2>3
    <3>4. /\ at[0].c \in Nat /\ at[0].n \in Nat
          /\ Pow2(HALVINGS - 0) <= at[0].c /\ at[0].c <= T
          /\ at[0].n = x * Pow2(T - at[0].c)
          /\ Pow2(T - Pow2(HALVINGS - 0)) <= at[0].n /\ at[0].n < Pow2(T)
      BY <1>1, <2>2, <2>4, <3>1, <3>2, <3>3
    <3> QED BY <3>4 DEF Halved, T
  <2> QED BY <1>1, <2>5
<1>4. ASSUME NEW k \in 1 .. HALVINGS, k - 1 \in G PROVE k \in G
  <2>1. Halved(at[k - 1], x, k - 1) /\ k \in 0 .. HALVINGS
    BY <1>1, <1>4
  <2>2. at[k] = HalfStep(at[k - 1], Pow2(HALVINGS - k))
    BY <1>2 DEF Halves
  <2> QED BY <2>1, <2>2, HalvedStep
<1>5. Halved(at[HALVINGS], x, HALVINGS)
  <2>1. \A k \in 0 .. HALVINGS : k \in G
    <3> HIDE DEF G
    <3> QED BY <1>1, <1>3, <1>4, UpToInduction
  <2> QED BY <1>1, <2>1
<1> DEFINE c == first_bit(x)
<1>6. Pow2(HALVINGS - HALVINGS) = 1
  BY <1>1, PowIs
<1> HIDE DEF c, T
<1>7. /\ c \in Nat /\ 1 <= c /\ c <= T
      /\ Pow2(T - 1) <= x * Pow2(T - c) /\ x * Pow2(T - c) < Pow2(T)
  BY <1>2, <1>5, <1>6 DEF Halved, c, T
<1>8. /\ T - c \in Nat /\ c - 1 \in Nat /\ (c - 1) + (T - c) = T - 1 /\ c + (T - c) = T
  BY <1>1, <1>7
<1>9. /\ Pow2(T - 1) = Pow2(c - 1) * Pow2(T - c) /\ Pow2(T) = Pow2(c) * Pow2(T - c)
      /\ Pow2(T - c) \in Nat \ {0} /\ Pow2(c) \in Nat /\ Pow2(c - 1) \in Nat
  <2>1. Pow2((c - 1) + (T - c)) = Pow2(c - 1) * Pow2(T - c)
    BY <1>8, PowSum
  <2>2. Pow2(c + (T - c)) = Pow2(c) * Pow2(T - c)
    BY <1>7, <1>8, PowSum
  <2>3. Pow2(T - c) \in Nat \ {0} /\ Pow2(c) \in Nat /\ Pow2(c - 1) \in Nat
    BY <1>7, <1>8, PowIs
  <2> QED BY <1>8, <2>1, <2>2, <2>3
<1>10. \A a, b \in Nat, m \in Nat \ {0} : (a * m <= b * m => a <= b) /\ (a * m < b * m => a < b)
  OBVIOUS
<1>11. Pow2(c - 1) <= x /\ x < Pow2(c)
  BY <1>7, <1>9, <1>10
<1>12. c \in 1 .. T
  BY <1>1, <1>7
<1> QED BY <1>11, <1>12 DEF c, T

\* LOG2 of a number that 32 bits hold is the place of its highest bit.
LEMMA LogIs ==
  ASSUME NEW x \in Nat \ {0}, x < Pow2(UINT32_BITS)
  PROVE  LOG2(x) = first_bit(x) - 1
<1> DEFINE T == UINT32_BITS
           c == first_bit(x)
<1>1. c \in 1 .. T
  BY FirstBitIsHighest
<1>2. T \in Nat /\ T < Pow2(T) /\ Pow2(T) \in Nat
  <2>1. T \in Nat
    BY MmAssumption, PowIs DEF UINT32_BITS
  <2> HIDE DEF T
  <2> QED BY <2>1, PowIs, PowOrder
<1>3. c - 1 \in 0 .. Pow2(T) - 1
  <2> HIDE DEF c, T
  <2> QED BY <1>1, <1>2
<1> DEFINE k == c - 1
<1>4. k % Pow2(T) = k
  <2> HIDE DEF k, T
  <2> QED BY <1>2, <1>3, SmallRemainder DEF k
<1> QED BY <1>4 DEF LOG2

\* The remainder of a negative number.
LEMMA NegativeRemainder ==
  ASSUME NEW m \in Nat \ {0}, NEW a \in 1 .. m - 1
  PROVE  (-a) % m = m - a
  OBVIOUS

\* What the macro POW2 gives, as an int and as the uint64 of the comparison.
LEMMA MacroIs ==
  LET T == UINT32_BITS IN
  /\ T \in Nat /\ T > 2
  /\ \A k \in 0 .. T - 2 : POW2(k) = Pow2(k) /\ Pow2(k) % Pow2(2 * T) = Pow2(k)
  /\ \A x \in Nat : x < Pow2(T) => ~(x > POW2(T - 1) % Pow2(2 * T))
<1> DEFINE T == UINT32_BITS
<1>1. T \in Nat /\ T > 2
  <2>1. /\ HALVINGS \in Nat /\ BIGGEST_CAP \in Nat \ {0} /\ BIGGEST_CAP <= Pow2(HALVINGS) - 2
        /\ Pow2(HALVINGS) \in Nat
    BY MmAssumption, PowIs
  <2>2. T = Pow2(HALVINGS)
    BY DEF UINT32_BITS
  <2> HIDE DEF T
  <2> QED BY <2>1, <2>2
<1>2. \A k : POW2(k) = IF k = T - 1 THEN -Pow2(k) ELSE Pow2(k)
  BY DEF POW2
<1> HIDE DEF T
<1> DEFINE h == Pow2(T - 1)
           m == Pow2(2 * T)
<1>3. h \in Nat \ {0} /\ m \in Nat \ {0} /\ Pow2(T) = 2 * h /\ m = Pow2(T) * Pow2(T)
  <2>1. T - 1 \in Nat /\ (T - 1) + 1 = T /\ 2 * T \in Nat /\ 2 * T = T + T
    BY <1>1
  <2> QED BY <1>1, <2>1, PowIs, PowSum
<1>4. ASSUME NEW k \in 0 .. T - 2 PROVE POW2(k) = Pow2(k) /\ Pow2(k) % m = Pow2(k)
  <2>1. k # T - 1 /\ k \in Nat /\ k <= T - 1
    BY <1>1
  <2>2. Pow2(k) \in Nat /\ Pow2(k) <= h
    <3>1. T - 1 \in Nat
      BY <1>1
    <3>2. Pow2(k) \in Nat
      BY <2>1, PowIs
    <3>3. \A b \in Nat : k <= b => Pow2(k) <= Pow2(b)
      BY <2>1, PowOrder
    <3> QED BY <2>1, <3>1, <3>2, <3>3
  <2>3. h < m
    <3> HIDE DEF h, m
    <3>1. h < Pow2(T) /\ Pow2(T) \in Nat /\ Pow2(T) >= 1
      BY <1>3
    <3>2. \A u \in Nat : u >= 1 => u <= u * u
      OBVIOUS
    <3>3. Pow2(T) <= m
      BY <1>3, <3>1, <3>2
    <3> QED BY <1>3, <3>1, <3>3
  <2> DEFINE p == Pow2(k)
  <2>4. p \in 0 .. m - 1
    <3> HIDE DEF h, m, p
    <3> QED BY <1>3, <2>2, <2>3 DEF p
  <2>5. p % m = p
    <3> HIDE DEF m, p
    <3> QED BY <1>3, <2>4, SmallRemainder
  <2> QED BY <1>2, <2>1, <2>5
<1>5. ASSUME NEW x \in Nat, x < Pow2(T) PROVE ~(x > POW2(T - 1) % m)
  <2>1. POW2(T - 1) = -h
    BY <1>2
  <2> HIDE DEF h, m
  <2>2. m = 4 * (h * h) /\ h <= h * h
    BY <1>3
  <2>3. h \in 1 .. m - 1 /\ m - h >= 2 * h
    BY <1>3, <2>2
  <2>4. (-h) % m = m - h
    BY <1>3, <2>3, NegativeRemainder
  <2> QED BY <1>3, <1>5, <2>1, <2>3, <2>4
<1> QED BY <1>1, <1>4, <1>5 DEF T

\* A size of up to 2^30 bytes gets the smallest class with room for it.  For a larger one
\* that 32 bits hold, dc_alloc comes to class 31, for which no table has an entry: up to
\* 2^31 rounding up leads there, and beyond it the int POW2(31) is negative, as a uint64
\* larger than any size, so that nothing is rounded up (dc_mm1.c:15-16, 187-189).
THEOREM CapIsSmallest ==
  ASSUME NEW x \in Nat \ {0}, x < Pow2(UINT32_BITS)
  PROVE  /\ x <= Pow2(UINT32_BITS - 2) =>
              /\ Cap(x) \in 0 .. UINT32_BITS - 2
              /\ x <= POW2(Cap(x))
              /\ Cap(x) # 0 => POW2(Cap(x) - 1) < x
         /\ x > Pow2(UINT32_BITS - 2) => Cap(x) = UINT32_BITS - 1 /\ BadCap(Cap(x))
<1> DEFINE T == UINT32_BITS
           c == first_bit(x)
           M == Pow2(2 * T)
<1>1. c \in 1 .. T /\ Pow2(c - 1) <= x /\ x < Pow2(c) /\ LOG2(x) = c - 1
  BY FirstBitIsHighest, LogIs
<1>2. /\ T \in Nat /\ T > 2
      /\ \A k \in 0 .. T - 2 : POW2(k) = Pow2(k) /\ Pow2(k) % M = Pow2(k)
      /\ ~(x > POW2(T - 1) % M)
  BY MacroIs
<1>3. Cap(x) = IF LOG2(x) < T /\ x > POW2(LOG2(x)) % M THEN LOG2(x) + 1 ELSE LOG2(x)
  BY DEF Cap
<1>4. BIGGEST_CAP \in Nat /\ BIGGEST_CAP <= T - 2
  BY MmAssumption DEF UINT32_BITS
<1> HIDE DEF c, T, M
<1>5. c - 1 < T /\ c - 1 \in Nat /\ c \in Nat /\ (c - 1) + 1 = c
  BY <1>1, <1>2
<1>6. /\ \A a, b \in Nat : a <= b => Pow2(a) <= Pow2(b)
      /\ \A a \in Nat : Pow2(a) \in Nat \ {0} /\ Pow2(a + 1) = 2 * Pow2(a)
  BY PowIs, PowOrder
<1>7. CASE c = T
  <2>1. Cap(x) = T - 1
    BY <1>1, <1>2, <1>3, <1>5, <1>7
  <2>2. x > Pow2(T - 2)
    <3>1. T - 2 \in Nat /\ (T - 2) + 1 = T - 1
      BY <1>2
    <3> QED BY <1>1, <1>6, <1>7, <3>1
  <2>3. BadCap(T - 1)
    BY <1>2, <1>4 DEF BadCap
  <2>4. ~(x <= Pow2(T - 2))
    <3>1. T - 2 \in Nat
      BY <1>2
    <3> QED BY <1>6, <2>2, <3>1
  <2> QED BY <2>1, <2>3, <2>4 DEF T
<1>8. CASE c # T
  <2>1. c - 1 \in 0 .. T - 2 /\ c \in 1 .. T - 1
    BY <1>1, <1>2, <1>8
  <2>2. Cap(x) = IF x > Pow2(c - 1) THEN c ELSE c - 1
    BY <1>1, <1>2, <1>3, <1>5, <2>1
  <2>3. CASE x > Pow2(c - 1) /\ c = T - 1
    <3>1. Cap(x) = T - 1 /\ T - 2 = c - 1 /\ T - 2 \in Nat
      BY <1>2, <2>2, <2>3
    <3>2. ~(x <= Pow2(T - 2)) /\ BadCap(T - 1)
      <4>1. BadCap(T - 1)
        BY <1>2, <1>4 DEF BadCap
      <4> QED BY <1>6, <2>3, <3>1, <4>1
    <3> QED BY <3>1, <3>2 DEF T
  <2>4. CASE x > Pow2(c - 1) /\ c # T - 1
    <3>1. c \in 0 .. T - 2 /\ Cap(x) = c /\ POW2(c) = Pow2(c) /\ POW2(c - 1) = Pow2(c - 1)
      BY <1>2, <2>1, <2>2, <2>4
    <3>2. x <= Pow2(c) /\ Pow2(c - 1) < x /\ Pow2(c) <= Pow2(T - 2)
      <4>1. T - 2 \in Nat /\ c <= T - 2
        BY <1>2, <3>1
      <4> QED BY <1>1, <1>5, <1>6, <2>4, <4>1
    <3>3. ~(x > Pow2(T - 2))
      <4>1. T - 2 \in Nat
        BY <1>2
      <4> QED BY <1>5, <1>6, <3>2, <4>1
    <3> QED BY <3>1, <3>2, <3>3 DEF T
  <2>5. CASE ~(x > Pow2(c - 1))
    <3>1. Cap(x) = c - 1 /\ c - 1 \in 0 .. T - 2 /\ POW2(c - 1) = Pow2(c - 1)
      BY <1>2, <2>1, <2>2, <2>5
    <3>2. x = Pow2(c - 1)
      BY <1>1, <1>5, <1>6, <2>5
    <3>3. ~(x > Pow2(T - 2)) /\ x <= Pow2(c - 1)
      <4>1. T - 2 \in Nat /\ c - 1 <= T - 2
        BY <1>2, <3>1
      <4> QED BY <1>5, <1>6, <3>2, <4>1
    <3>4. c - 1 # 0 => POW2((c - 1) - 1) < x
      <4>1. ASSUME c - 1 # 0
            PROVE  (c - 1) - 1 \in Nat /\ ((c - 1) - 1) + 1 = c - 1 /\ (c - 1) - 1 \in 0 .. T - 2
        BY <1>2, <1>5, <3>1, <4>1
      <4>2. ASSUME c - 1 # 0 PROVE Pow2((c - 1) - 1) < Pow2(c - 1)
        <5>1. ASSUME NEW a \in Nat, NEW b, a + 1 = b PROVE Pow2(a) < Pow2(b)
          <6>1. Pow2(a) \in Nat \ {0} /\ Pow2(b) = 2 * Pow2(a)
            BY <1>6, <5>1
          <6> QED BY <6>1
        <5> QED BY <4>1, <4>2, <5>1
      <4> QED BY <1>2, <3>2, <4>1, <4>2
    <3> QED BY <3>1, <3>3, <3>4 DEF T
  <2> QED BY <2>3, <2>4, <2>5
<1> QED BY <1>7, <1>8

(***************************************************************************)
(* The books of the allocator                                              *)
(***************************************************************************)

Pools == UNION {PoolChunks(c) : c \in PoolCaps}
Alloced(c) == Contents(pool[c].alloced_chunks)
Extra(c) == Contents(elm_table[c].chunks_list)
Distinct(s) == \A i, j \in DOMAIN s : s[i] = s[j] => i = j
Has(s, x) == \E i \in DOMAIN s : s[i] = x

\* Where a thread is while it allocates from a pool, from an extra list, and while it
\* frees.
AllocPool == {"refill", "select_pre_alloced"}
AllocExtra == {"mk_el", "fill", "idle_num", "expand_el"}
Allocating == AllocPool \cup AllocExtra \cup {"dc_alloc", "select_extra"}
Freeing == {"find", "free_pre_alloced", "free_extra"}

\* A thread that is at a place of the code, with a class and a size: they agree.
Classed(at, c, s, rs) ==
  /\ at \in Allocating \cup Freeing \cup {"idle", "memcpy"}
  /\ c \in Caps
  /\ s \in Sizes \cup {0}
  /\ at \in Allocating => s \in Sizes /\ c = Cap(s)
  /\ at \in AllocPool \cup {"find", "free_pre_alloced"} => c \in PoolCaps
  /\ at \in AllocExtra => c \notin PoolCaps
  /\ at = "fill" => c \in rs

ClassInv ==
  /\ pc = [t \in Threads |-> pc[t]] /\ cap = [t \in Threads |-> cap[t]]
  /\ size = [t \in Threads |-> size[t]]
  /\ \A t \in Threads : Classed(pc[t], cap[t], size[t], raw)

\* An extra list that is being made is made by one thread.
RawBooks ==
  /\ raw \subseteq Caps \ PoolCaps
  /\ \A c \in raw : elm_table[c] = NoElm /\ \E t \in Threads : pc[t] = "fill" /\ cap[t] = c
  /\ \A t, u \in Threads : pc[t] = "fill" /\ pc[u] = "fill" /\ cap[t] = cap[u] => t = u

\* The word before a chunk tells its class.
HdrBooks ==
  /\ live \subseteq Chunks
  /\ \A x \in live : hdr[x] \in Caps
  /\ \A c \in PoolCaps : \A x \in PoolChunks(c) : x \in live /\ hdr[x] = c

\* An extra list e of class c is full of different chunks of that class, going by the
\* words h before them, and holds none of a pool.
ElmOk(c, e, h) ==
  e # NoElm =>
    /\ e.chunks_list.capacity = e.chunks_list.length
    /\ Distinct(Contents(e.chunks_list))
    /\ \A x : Has(Contents(e.chunks_list), x) => x \in DOMAIN h \ Pools /\ h[x] = c

ElmBooks(c) == ElmOk(c, elm_table[c], hdr)

\* Of what the system gave, whatever a thread lost.
MemInv ==
  /\ ClassInv
  /\ RawBooks
  /\ HdrBooks
  /\ \A c \in Caps : ElmBooks(c)

(***************************************************************************)
(* Threads and their classes                                               *)
(***************************************************************************)

\* A step of thread t to place a, with class k and size z.
LEMMA ClassMoves ==
  ASSUME ClassInv, NEW t \in Threads, NEW a, NEW k, NEW z,
         pc' = [pc EXCEPT ![t] = a], cap' = [cap EXCEPT ![t] = k],
         size' = [size EXCEPT ![t] = z], Classed(a, k, z, raw'),
         \A u \in Threads : u # t /\ pc[u] = "fill" => cap[u] \in raw'
  PROVE  ClassInv'
<1>1. /\ pc' = [u \in Threads |-> IF u = t THEN a ELSE pc[u]]
      /\ cap' = [u \in Threads |-> IF u = t THEN k ELSE cap[u]]
      /\ size' = [u \in Threads |-> IF u = t THEN z ELSE size[u]]
  BY DEF ClassInv
<1>2. ASSUME NEW u \in Threads PROVE Classed(pc'[u], cap'[u], size'[u], raw')
  <2>1. CASE u = t
    BY <1>1, <2>1
  <2>2. CASE u # t
    <3>1. Classed(pc[u], cap[u], size[u], raw)
      BY DEF ClassInv
    <3>2. pc'[u] = pc[u] /\ cap'[u] = cap[u] /\ size'[u] = size[u]
      BY <1>1, <2>2
    <3> QED BY <2>2, <3>1, <3>2 DEF Classed
  <2> QED BY <2>1, <2>2
<1>3. /\ pc' = [u \in Threads |-> pc'[u]] /\ cap' = [u \in Threads |-> cap'[u]]
      /\ size' = [u \in Threads |-> size'[u]]
  BY <1>1
<1> QED BY <1>2, <1>3 DEF ClassInv

\* One that has nothing to do with making a list.
LEMMA QuietMoves ==
  ASSUME ClassInv, RawBooks, NEW t \in Threads, NEW a, NEW k, NEW z,
         pc' = [pc EXCEPT ![t] = a], cap' = [cap EXCEPT ![t] = k],
         size' = [size EXCEPT ![t] = z], Classed(a, k, z, raw),
         pc[t] # "fill", a # "fill", raw' = raw, \A c \in raw : elm_table'[c] = NoElm
  PROVE  ClassInv' /\ RawBooks'
<1>1. \A u \in Threads : u # t /\ pc[u] = "fill" => cap[u] \in raw'
  BY DEF ClassInv, Classed
<1>2. ClassInv'
  BY <1>1, ClassMoves
<1>3. \A u \in Threads : /\ u # t => pc'[u] = pc[u] /\ cap'[u] = cap[u]
                         /\ u = t => pc'[u] = a
  BY DEF ClassInv
<1>4. \A c \in raw' : elm_table'[c] = NoElm /\ \E u \in Threads : pc'[u] = "fill" /\ cap'[u] = c
  BY <1>3 DEF RawBooks
<1>5. \A u, v \in Threads : pc'[u] = "fill" /\ pc'[v] = "fill" /\ cap'[u] = cap'[v] => u = v
  BY <1>3 DEF RawBooks
<1> QED BY <1>2, <1>4, <1>5 DEF RawBooks

\* Where dc_alloc goes with a class.
LEMMA LookClassed ==
  ASSUME NEW c \in Caps, NEW s \in Sizes, c = Cap(s), NEW rs
  PROVE  Classed(Look(c), c, s, rs) /\ Look(c) # "fill"
  BY DEF Classed, Look, Allocating, AllocPool, AllocExtra, Freeing

\* Where dc_free goes with a chunk.
LEMMA FreeClassed ==
  ASSUME HdrBooks, NEW x \in live, NEW s \in Sizes \cup {0}, NEW rs
  PROVE  /\ hdr[x] \in PoolCaps => Classed("find", hdr[x], s, rs)
         /\ Classed("free_extra", hdr[x], s, rs)
  BY DEF HdrBooks, Classed, Allocating, AllocPool, AllocExtra, Freeing

\* Between calls, and before it copies, a thread has no class.
LEMMA RestClassed ==
  ASSUME NEW rs
  PROVE  Classed("idle", 0, 0, rs) /\ Classed("memcpy", 0, 0, rs)
<1>1. 0 \in Caps
  BY MmAssumption DEF Caps
<1> QED BY <1>1 DEF Classed, Allocating, AllocPool, AllocExtra, Freeing

\* What first_bit makes of its argument once it is cut.
CutBit(x) ==
  LET after[k \in 0 .. HALVINGS] == IF k = 0 THEN [c |-> UINT32_BITS, n |-> x]
                                    ELSE HalfStep(after[k - 1], Pow2(HALVINGS - k))
  IN  IF x = 0 THEN 0 ELSE after[HALVINGS].c

\* LOG2 gives a number, even when the upper bits of a size are lost.
LEMMA LogNatural ==
  ASSUME NEW s \in Sizes
  PROVE  LOG2(s) \in Nat
<1> DEFINE m == Pow2(UINT32_BITS)
           y == s % m
<1>1. UINT32_BITS \in Nat /\ m \in Nat \ {0} /\ s \in Nat \ {0}
  BY MmAssumption, PowIs DEF UINT32_BITS
<1>2. y \in 0 .. m - 1
  <2> HIDE DEF m
  <2> QED BY <1>1
<1>3. first_bit(s) \in Int
  <2>1. CASE y = 0
    BY <2>1 DEF first_bit
  <2>2. CASE y # 0
    <3>1. y \in Nat \ {0} /\ y < Pow2(UINT32_BITS)
      <4> HIDE DEF y, m
      <4> QED BY <1>1, <1>2, <2>2 DEF m
    <3>2. first_bit(y) \in Int
      <4> HIDE DEF y, m
      <4>1. first_bit(y) \in 1 .. UINT32_BITS
        BY <3>1, FirstBitIsHighest
      <4> QED BY <1>1, <4>1
    <3>3. y % Pow2(UINT32_BITS) = s % Pow2(UINT32_BITS)
      <4> HIDE DEF y, m
      <4>1. y % m = y
        BY <1>1, <1>2, SmallRemainder
      <4> QED BY <4>1 DEF y, m
    <3>4. first_bit(s) = first_bit(y)
      <4> HIDE DEF y
      <4>1. first_bit(s) = CutBit(s % Pow2(UINT32_BITS)) /\ first_bit(y) = CutBit(y % Pow2(UINT32_BITS))
        BY DEF first_bit, CutBit
      <4> QED BY <3>3, <4>1
    <3> QED BY <3>2, <3>4
  <2> QED BY <2>1, <2>2
<1> DEFINE k == first_bit(s) - 1
<1>4. k \in Int
  BY <1>3
<1>5. k % m \in Nat
  <2> HIDE DEF k, m
  <2> QED BY <1>1, <1>4
<1> QED BY <1>5 DEF LOG2

\* The class of a size is a number.
LEMMA CapNatural ==
  ASSUME NEW s \in Sizes
  PROVE  Cap(s) \in Nat
  BY LogNatural DEF Cap

\* The steps that leave lists and threads as they are.
LEMMA ClassStays ==
  ASSUME ClassInv, RawBooks, UNCHANGED <<pc, cap, size, raw, elm_table>>
  PROVE  ClassInv' /\ RawBooks'
  BY DEF ClassInv, RawBooks

\* A thread that does not move, or keeps its class or size.
LEMMA UnchangedAt ==
  ASSUME ClassInv, NEW t
  PROVE  pc = [pc EXCEPT ![t] = pc[t]] /\ cap = [cap EXCEPT ![t] = cap[t]]
         /\ size = [size EXCEPT ![t] = size[t]]
  BY DEF ClassInv

\* dc_free starts with the class of its chunk.
LEMMA FreeMoves ==
  ASSUME ClassInv, RawBooks, HdrBooks, NEW t \in Threads, NEW x \in live, FreeStart(t, x),
         UNCHANGED <<memVars, size>>, pc[t] # "fill"
  PROVE  ClassInv' /\ RawBooks'
<1> DEFINE a == IF hdr[x] \in PoolCaps THEN "find" ELSE "free_extra"
<1>1. Classed(a, hdr[x], size[t], raw)
  BY FreeClassed DEF ClassInv, Classed
<1>2. /\ pc' = [pc EXCEPT ![t] = a] /\ cap' = [cap EXCEPT ![t] = hdr[x]]
      /\ size' = [size EXCEPT ![t] = size[t]] /\ raw' = raw /\ elm_table' = elm_table
  BY UnchangedAt DEF FreeStart, Goto, memVars
<1>3. \A c \in raw : elm_table'[c] = NoElm
  BY <1>2 DEF RawBooks
<1>4. a # "fill"
  OBVIOUS
<1> HIDE DEF a
<1> QED BY <1>1, <1>2, <1>3, <1>4, QuietMoves

\* The calls keep threads and classes in agreement ...
LEMMA ClassCall ==
  ASSUME ListInv, MemInv, NEW t \in Threads, CallOf(t)
  PROVE  ClassInv' /\ RawBooks'
<1>1. ClassInv /\ RawBooks /\ HdrBooks
  BY DEF MemInv
<1>2. ASSUME Fault PROVE ClassInv' /\ RawBooks'
  BY <1>1, <1>2, ClassStays DEF Fault, memVars, threadVars
<1>3. ASSUME NEW s \in Sizes, ~BadCap(Cap(s)), pc[t] = "idle",
             size' = [size EXCEPT ![t] = s], cap' = [cap EXCEPT ![t] = Cap(s)],
             Goto(t, Look(Cap(s))), UNCHANGED memVars
      PROVE  ClassInv' /\ RawBooks'
  <2>1. Cap(s) \in Caps
    <3>1. Cap(s) \in Nat /\ BIGGEST_CAP \in Nat
      BY CapNatural, MmAssumption
    <3> QED BY <1>3, <3>1 DEF BadCap, Caps
  <2>2. Classed(Look(Cap(s)), Cap(s), s, raw) /\ Look(Cap(s)) # "fill"
    BY <2>1, LookClassed
  <2>3. pc' = [pc EXCEPT ![t] = Look(Cap(s))] /\ raw' = raw /\ elm_table' = elm_table
    BY <1>3 DEF Goto, memVars
  <2>4. \A c \in raw : elm_table'[c] = NoElm
    BY <1>1, <2>3 DEF RawBooks
  <2> QED BY <1>1, <1>3, <2>2, <2>3, <2>4, QuietMoves
<1>4. ASSUME NEW s \in Sizes, Alloc(t, s) PROVE ClassInv' /\ RawBooks'
  BY <1>2, <1>3, <1>4 DEF Alloc
<1>5. ASSUME NEW h \in held[t], NEW s \in Sizes, Realloc(t, h, s) PROVE ClassInv' /\ RawBooks'
  BY <1>2, <1>3, <1>5 DEF Realloc
<1>6. ASSUME NEW h \in held[t], Free(t, h) PROVE ClassInv' /\ RawBooks'
  <2>1. CASE h.chunk \notin live \/ (hdr[h.chunk] \notin PoolCaps /\ IsNull(hdr[h.chunk]))
    BY <1>2, <1>6, <2>1 DEF Free
  <2>2. CASE ~(h.chunk \notin live \/ (hdr[h.chunk] \notin PoolCaps /\ IsNull(hdr[h.chunk])))
    <3>1. /\ h.chunk \in live /\ FreeStart(t, h.chunk) /\ UNCHANGED <<memVars, size>>
          /\ pc[t] = "idle"
      BY <1>6, <2>2 DEF Free
    <3> QED BY <1>1, <3>1, FreeMoves
  <2> QED BY <2>1, <2>2
<1> QED BY <1>4, <1>5, <1>6 DEF CallOf

\* ... and so do the steps inside them.
LEMMA ClassWork ==
  ASSUME ListInv, MemInv, NEW t \in Threads, Step(t)
  PROVE  ClassInv' /\ RawBooks'
<1>1. ClassInv /\ RawBooks /\ HdrBooks
  BY DEF MemInv
<1>2. ASSUME Fault PROVE ClassInv' /\ RawBooks'
  BY <1>1, <1>2, ClassStays DEF Fault, memVars, threadVars
<1>3. Classed(pc[t], cap[t], size[t], raw)
  BY <1>1 DEF ClassInv
<1>4. \A c \in raw : elm_table[c] = NoElm /\ c \notin PoolCaps
  BY <1>1 DEF RawBooks
<1>5. ASSUME NEW a, a # "fill", pc[t] # "fill", Goto(t, a), UNCHANGED <<cap, size, raw>>,
             Classed(a, cap[t], size[t], raw), \A c \in raw : elm_table'[c] = NoElm
      PROVE  ClassInv' /\ RawBooks'
  <2>1. pc' = [pc EXCEPT ![t] = a] /\ cap' = [cap EXCEPT ![t] = cap[t]]
        /\ size' = [size EXCEPT ![t] = size[t]] /\ raw' = raw
    BY <1>1, <1>5, UnchangedAt DEF Goto
  <2> QED BY <1>1, <1>5, <2>1, QuietMoves
<1>6. \A a \in {"dc_alloc", "select_extra"} :
        pc[t] \in Allocating => Classed(a, cap[t], size[t], raw) /\ a # "fill"
  BY <1>3 DEF Classed, Allocating, AllocPool, AllocExtra, Freeing
<1>7. AllocAgain(t) => ClassInv' /\ RawBooks'
  <2> SUFFICES ASSUME AllocAgain(t) PROVE ClassInv' /\ RawBooks'
    OBVIOUS
  <2>1. pc[t] = "dc_alloc" /\ Goto(t, Look(cap[t])) /\ UNCHANGED <<cap, size, raw, elm_table>>
    BY DEF AllocAgain, memVars
  <2>2. cap[t] \in Caps /\ size[t] \in Sizes /\ cap[t] = Cap(size[t])
    BY <1>3, <2>1 DEF Classed, Allocating
  <2>3. Classed(Look(cap[t]), cap[t], size[t], raw) /\ Look(cap[t]) # "fill"
    BY <2>2, LookClassed
  <2> QED BY <1>4, <1>5, <2>1, <2>3
<1>8. LookAgain(t) => ClassInv' /\ RawBooks'
  <2> SUFFICES ASSUME LookAgain(t) PROVE ClassInv' /\ RawBooks'
    OBVIOUS
  <2>1. CASE IsNull(cap[t])
    BY <1>2, <2>1 DEF LookAgain
  <2>2. CASE ~IsNull(cap[t])
    <3>1. pc[t] = "idle_num" /\ (Goto(t, "expand_el") \/ Goto(t, "select_extra"))
          /\ UNCHANGED <<cap, size, raw, elm_table>>
      BY <2>2 DEF LookAgain, memVars
    <3>2. Classed("expand_el", cap[t], size[t], raw) /\ Classed("select_extra", cap[t], size[t], raw)
      BY <1>3, <3>1 DEF Classed, Allocating, AllocPool, AllocExtra, Freeing
    <3> QED BY <1>4, <1>5, <3>1, <3>2
  <2> QED BY <2>1, <2>2
<1>9. MkEl(t) => ClassInv' /\ RawBooks'
  <2> SUFFICES ASSUME MkEl(t) PROVE ClassInv' /\ RawBooks'
    OBVIOUS
  <2>1. pc[t] = "mk_el" /\ cap[t] \notin raw /\ UNCHANGED <<cap, size, elm_table>>
    BY DEF MkEl
  <2>2. CASE elm_table[cap[t]] = NoElm
    <3>1. raw' = raw \cup {cap[t]} /\ Goto(t, "fill")
      BY <2>2 DEF MkEl
    <3>2. Classed("fill", cap[t], size[t], raw')
      BY <1>3, <2>1, <3>1 DEF Classed, Allocating, AllocPool, AllocExtra, Freeing
    <3>3. \A u \in Threads : u # t /\ pc[u] = "fill" => cap[u] \in raw'
      BY <1>1, <3>1 DEF ClassInv, Classed
    <3>4. pc' = [pc EXCEPT ![t] = "fill"] /\ cap' = [cap EXCEPT ![t] = cap[t]]
          /\ size' = [size EXCEPT ![t] = size[t]]
      BY <1>1, <2>1, <3>1, UnchangedAt DEF Goto
    <3>5. ClassInv'
      BY <1>1, <3>2, <3>3, <3>4, ClassMoves
    <3>6. \A u \in Threads : cap'[u] = cap[u] /\ pc'[u] = IF u = t THEN "fill" ELSE pc[u]
      BY <1>1, <2>1, <3>4 DEF ClassInv
    <3>7. \A u \in Threads : pc[u] = "fill" => cap[u] # cap[t]
      BY <1>1, <2>1 DEF ClassInv, Classed
    <3>8. raw' \subseteq Caps \ PoolCaps
      BY <1>1, <1>3, <2>1, <3>1 DEF RawBooks, Classed, AllocExtra
    <3>9. \A c \in raw' : elm_table'[c] = NoElm /\ \E u \in Threads : pc'[u] = "fill" /\ cap'[u] = c
      BY <1>1, <2>1, <2>2, <3>1, <3>6 DEF RawBooks
    <3>10. \A u, v \in Threads : pc'[u] = "fill" /\ pc'[v] = "fill" /\ cap'[u] = cap'[v] => u = v
      BY <1>1, <3>6, <3>7 DEF RawBooks
    <3> QED BY <3>5, <3>8, <3>9, <3>10 DEF RawBooks
  <2>3. CASE elm_table[cap[t]] # NoElm
    <3>1. raw' = raw /\ Goto(t, "select_extra")
      BY <2>3 DEF MkEl
    <3>2. pc[t] \in Allocating
      BY <2>1 DEF Allocating, AllocExtra
    <3> QED BY <1>4, <1>5, <1>6, <2>1, <3>1, <3>2
  <2> QED BY <2>2, <2>3
<1>10. FillEl(t) => ClassInv' /\ RawBooks'
  <2> SUFFICES ASSUME FillEl(t) PROVE ClassInv' /\ RawBooks'
    OBVIOUS
  <2>1. /\ pc[t] = "fill" /\ raw' = raw \ {cap[t]} /\ Goto(t, "select_extra")
        /\ UNCHANGED <<cap, size>>
        /\ elm_table' = [elm_table EXCEPT ![cap[t]] = NewElm(DEFAULT_EXTRA)]
    BY DEF FillEl, Obtain
  <2>2. Classed("select_extra", cap[t], size[t], raw')
    BY <1>3, <2>1 DEF Classed, Allocating, AllocPool, AllocExtra, Freeing
  <2>3. \A u \in Threads : u # t /\ pc[u] = "fill" => cap[u] # cap[t]
    BY <1>1, <2>1 DEF RawBooks
  <2>4. \A u \in Threads : u # t /\ pc[u] = "fill" => cap[u] \in raw'
    BY <1>1, <2>1, <2>3 DEF ClassInv, Classed
  <2>5. pc' = [pc EXCEPT ![t] = "select_extra"] /\ cap' = [cap EXCEPT ![t] = cap[t]]
        /\ size' = [size EXCEPT ![t] = size[t]]
    BY <1>1, <2>1, UnchangedAt DEF Goto
  <2>6. ClassInv'
    BY <1>1, <2>2, <2>4, <2>5, ClassMoves
  <2>7. \A u \in Threads : cap'[u] = cap[u] /\ pc'[u] = IF u = t THEN "select_extra" ELSE pc[u]
    BY <1>1, <2>1, <2>5 DEF ClassInv
  <2>8. \A c \in raw' : elm_table'[c] = elm_table[c]
    <3> HIDE DEF NewElm
    <3> QED BY <1>1, <2>1 DEF ListInv, RawBooks
  <2>9. \A c \in raw' : elm_table'[c] = NoElm /\ \E u \in Threads : pc'[u] = "fill" /\ cap'[u] = c
    BY <1>1, <2>1, <2>7, <2>8 DEF RawBooks
  <2>10. \A u, v \in Threads : pc'[u] = "fill" /\ pc'[v] = "fill" /\ cap'[u] = cap'[v] => u = v
    BY <1>1, <2>7 DEF RawBooks
  <2>11. raw' \subseteq Caps \ PoolCaps
    BY <1>1, <2>1 DEF RawBooks
  <2> QED BY <2>6, <2>9, <2>10, <2>11 DEF RawBooks
<1>11. ASSUME NEW e, elm_table' = [elm_table EXCEPT ![cap[t]] = e], cap[t] \notin raw
       PROVE  \A c \in raw : elm_table'[c] = NoElm
  BY <1>1, <1>4, <1>11 DEF ListInv, RawBooks
<1>12. ExpandEl(t) => ClassInv' /\ RawBooks'
  <2> SUFFICES ASSUME ExpandEl(t) PROVE ClassInv' /\ RawBooks'
    OBVIOUS
  <2>1. CASE elm_table[cap[t]] = NoElm
    BY <1>2, <2>1 DEF ExpandEl
  <2>2. CASE elm_table[cap[t]] # NoElm
    <3> DEFINE e == LargerElm(elm_table[cap[t]], DEFAULT_EXTRA)
    <3>1. /\ pc[t] = "expand_el" /\ cap[t] \notin raw /\ Goto(t, "select_extra")
          /\ UNCHANGED <<cap, size, raw>> /\ elm_table' = [elm_table EXCEPT ![cap[t]] = e]
      BY <2>2 DEF ExpandEl, Obtain
    <3> HIDE DEF e
    <3>2. pc[t] \in Allocating
      BY <3>1 DEF Allocating, AllocExtra
    <3> QED BY <1>5, <1>6, <1>11, <3>1, <3>2
  <2> QED BY <2>1, <2>2
<1>13. Refill(t) => ClassInv' /\ RawBooks'
  <2> SUFFICES ASSUME Refill(t) PROVE ClassInv' /\ RawBooks'
    OBVIOUS
  <2>1. pc[t] = "refill" /\ Goto(t, "select_extra") /\ UNCHANGED <<cap, size, raw>>
    BY DEF Refill
  <2>2. elm_table' = elm_table \/ \E e : elm_table' = [elm_table EXCEPT ![cap[t]] = e]
    BY DEF Refill, Obtain
  <2>3. cap[t] \notin raw
    BY <1>3, <1>4, <2>1 DEF Classed, AllocPool
  <2>4. \A c \in raw : elm_table'[c] = NoElm
    BY <1>4, <1>11, <2>2, <2>3
  <2>5. pc[t] \in Allocating
    BY <2>1 DEF Allocating, AllocPool
  <2> QED BY <1>5, <1>6, <2>1, <2>4, <2>5
<1>14. ASSUME NEW x, GiveChunk(t, x), pc[t] # "fill", \A c \in raw : elm_table'[c] = NoElm
       PROVE  ClassInv' /\ RawBooks'
  <2>1. /\ cap' = [cap EXCEPT ![t] = 0] /\ size' = [size EXCEPT ![t] = 0] /\ raw' = raw
        /\ \/ pc' = [pc EXCEPT ![t] = "idle"]
           \/ pc' = [pc EXCEPT ![t] = "memcpy"]
    BY <1>14 DEF GiveChunk, Goto
  <2> QED BY <1>1, <1>14, <2>1, RestClassed, QuietMoves
<1>15. SelectPreAlloced(t) => ClassInv' /\ RawBooks'
  <2> SUFFICES ASSUME SelectPreAlloced(t) PROVE ClassInv' /\ RawBooks'
    OBVIOUS
  <2>1. pc[t] = "select_pre_alloced" /\ pc[t] \in Allocating
    BY DEF SelectPreAlloced, Allocating, AllocPool
  <2>2. CASE pool[cap[t]].idle_num = 0
    <3>1. Goto(t, "dc_alloc") /\ UNCHANGED <<cap, size, raw, elm_table>>
      BY <2>2 DEF SelectPreAlloced, memVars
    <3> QED BY <1>4, <1>5, <1>6, <2>1, <3>1
  <2>3. CASE pool[cap[t]].idle_num # 0
    <3>1. GiveChunk(t, Popped(pool[cap[t]].idle_chunks)) /\ UNCHANGED elm_table
      BY <2>3 DEF SelectPreAlloced
    <3> QED BY <1>4, <1>14, <2>1, <3>1
  <2> QED BY <2>2, <2>3
<1>16. SelectExtra(t) => ClassInv' /\ RawBooks'
  <2> SUFFICES ASSUME SelectExtra(t) PROVE ClassInv' /\ RawBooks'
    OBVIOUS
  <2>1. pc[t] = "select_extra" /\ pc[t] \in Allocating /\ cap[t] \notin raw
    BY DEF SelectExtra, Allocating
  <2>2. CASE elm_table[cap[t]].idle_num = 0
    <3>1. Goto(t, "dc_alloc") /\ UNCHANGED <<cap, size, raw, elm_table>>
      BY <2>2 DEF SelectExtra, memVars
    <3> QED BY <1>4, <1>5, <1>6, <2>1, <3>1
  <2>3. CASE elm_table[cap[t]].idle_num # 0
    <3> DEFINE e == Taken(elm_table[cap[t]])
               x == Popped(elm_table[cap[t]].chunks_list)
    <3>1. GiveChunk(t, x) /\ elm_table' = [elm_table EXCEPT ![cap[t]] = e]
      BY <2>3 DEF SelectExtra
    <3> HIDE DEF e, x
    <3> QED BY <1>11, <1>14, <2>1, <3>1
  <2> QED BY <2>2, <2>3
<1>17. Find(t) => ClassInv' /\ RawBooks'
  <2> SUFFICES ASSUME Find(t) PROVE ClassInv' /\ RawBooks'
    OBVIOUS
  <2>1. /\ pc[t] = "find" /\ UNCHANGED <<cap, size, raw, elm_table>>
        /\ Goto(t, "free_extra") \/ Goto(t, "free_pre_alloced") \/ UNCHANGED pc
    BY DEF Find, memVars
  <2>2. Classed("free_extra", cap[t], size[t], raw)
        /\ Classed("free_pre_alloced", cap[t], size[t], raw)
    BY <1>3, <2>1 DEF Classed, Allocating, AllocPool, AllocExtra, Freeing
  <2>3. CASE UNCHANGED pc
    BY <1>1, <2>1, <2>3, ClassStays
  <2> QED BY <1>4, <1>5, <2>1, <2>2, <2>3
<1>18. ASSUME FreeEnd(t), pc[t] # "fill", \A c \in raw : elm_table'[c] = NoElm
       PROVE  ClassInv' /\ RawBooks'
  <2>1. /\ cap' = [cap EXCEPT ![t] = 0] /\ raw' = raw /\ pc' = [pc EXCEPT ![t] = "idle"]
        /\ size' = [size EXCEPT ![t] = size[t]]
    BY <1>1, <1>18, UnchangedAt DEF FreeEnd, Goto
  <2>2. Classed("idle", 0, size[t], raw)
    <3>1. 0 \in Caps
      BY MmAssumption DEF Caps
    <3> QED BY <1>3, <3>1 DEF Classed, Allocating, AllocPool, AllocExtra, Freeing
  <2> QED BY <1>1, <1>18, <2>1, <2>2, QuietMoves
<1>19. FreePreAlloced(t) => ClassInv' /\ RawBooks'
  BY <1>4, <1>18 DEF FreePreAlloced
<1>20. FreeExtra(t) => ClassInv' /\ RawBooks'
  <2> SUFFICES ASSUME FreeBack(t) PROVE ClassInv' /\ RawBooks'
    BY <1>2, FreeExtraIs
  <2>1. /\ pc[t] = "free_extra" /\ cap[t] \notin raw /\ FreeEnd(t)
        /\ \/ elm_table' = elm_table
           \/ \E e : elm_table' = [elm_table EXCEPT ![cap[t]] = e]
    BY DEF FreeBack, GiveBack
  <2> QED BY <1>4, <1>11, <1>18, <2>1
<1>21. Memcpy(t) => ClassInv' /\ RawBooks'
  <2> SUFFICES ASSUME Memcpy(t) PROVE ClassInv' /\ RawBooks'
    OBVIOUS
  <2> DEFINE bad == \/ ~({old[t], ptr[t]} \subseteq live)
                    \/ POW2(hdr[old[t]]) > POW2(hdr[ptr[t]])
                    \/ hdr[old[t]] \notin PoolCaps /\ IsNull(hdr[old[t]])
  <2>1. CASE bad
    BY <1>2, <2>1 DEF Memcpy
  <2>2. CASE ~bad
    <3>1. /\ old[t] \in live /\ FreeStart(t, old[t]) /\ UNCHANGED <<memVars, size>>
          /\ pc[t] = "memcpy"
      BY <2>2 DEF Memcpy
    <3> QED BY <1>1, <3>1, FreeMoves
  <2> QED BY <2>1, <2>2
<1> QED BY <1>7, <1>8, <1>9, <1>10, <1>12, <1>13, <1>15, <1>16, <1>17, <1>19, <1>20, <1>21
        DEF Step

(***************************************************************************)
(* What lists hold                                                         *)
(***************************************************************************)

\* What a list holds is a sequence of its length.
LEMMA HoldsIs ==
  ASSUME NEW n \in Nat, NEW D, NEW sl, IsList(sl, n, D)
  PROVE  Contents(sl) \in [1 .. sl.length -> D] /\ sl.length \in 0 .. n /\ sl.capacity = n
<1>1. sl \in ListRecords(n, D)
  BY DEF IsList
<1>2. PICK o : Ordered(sl, n, o)
  BY DEF IsList
<1> QED BY <1>1, <1>2, ContentsIs, ListFields

\* r is s in the order that p gives.
Shuffled(r, m, s, p) == r = [k \in 1 .. m |-> s[p[k]]]

\* A sequence in another order holds the same.
LEMMA ShuffledSame ==
  ASSUME NEW m \in Nat, NEW D, NEW s \in [1 .. m -> D], NEW p, Permuted(m, p),
         NEW r, Shuffled(r, m, s, p)
  PROVE  /\ r \in [1 .. m -> D]
         /\ Distinct(s) => Distinct(r)
         /\ \A x : Has(r, x) <=> Has(s, x)
<1>1. \A k \in 1 .. m : p[k] \in 1 .. m
  BY DEF Permuted
<1>2. DOMAIN r = 1 .. m /\ DOMAIN s = 1 .. m /\ \A k \in 1 .. m : r[k] = s[p[k]]
  BY DEF Shuffled
<1>3. r \in [1 .. m -> D]
  BY <1>1 DEF Shuffled
<1>4. ASSUME Distinct(s) PROVE Distinct(r)
  <2>1. ASSUME NEW i \in 1 .. m, NEW j \in 1 .. m, r[i] = r[j] PROVE i = j
    <3>1. s[p[i]] = s[p[j]]
      BY <1>2, <2>1
    <3>2. p[i] = p[j]
      BY <1>1, <1>2, <1>4, <3>1 DEF Distinct
    <3> QED BY <3>2 DEF Permuted
  <2> QED BY <1>2, <2>1 DEF Distinct
<1>5. ASSUME NEW x PROVE Has(r, x) <=> Has(s, x)
  <2>1. ASSUME NEW k \in 1 .. m, s[k] = x PROVE \E i \in 1 .. m : r[i] = x
    <3>1. PICK i \in 1 .. m : p[i] = k
      BY DEF Permuted
    <3> QED BY <1>2, <2>1, <3>1
  <2>2. ASSUME NEW k \in 1 .. m, r[k] = x PROVE \E i \in 1 .. m : s[i] = x
    BY <1>1, <1>2, <2>2
  <2> QED BY <1>2, <2>1, <2>2 DEF Has
<1> QED BY <1>3, <1>4, <1>5

\* The order as it is.
LEMMA IdentityPermuted ==
  ASSUME NEW m \in Nat
  PROVE  Permuted(m, [k \in 1 .. m |-> k])
  BY DEF Permuted

\* A sequence with one of its members moved to the front holds the same ...
LEMMA FrontSame ==
  ASSUME NEW m \in Nat, NEW D, NEW s \in [1 .. m -> D], NEW j \in 1 .. m
  PROVE  /\ ToFront(m, s, j) \in [1 .. m -> D]
         /\ Distinct(s) => Distinct(ToFront(m, s, j))
         /\ \A x : Has(ToFront(m, s, j), x) <=> Has(s, x)
<1> DEFINE id == [k \in 1 .. m |-> k]
           p == ToFront(m, id, j)
<1>1. Permuted(m, p)
  <2> HIDE DEF id
  <2> QED BY IdentityPermuted, FrontPermuted DEF id
<1>2. ASSUME NEW k \in 1 .. m
      PROVE  s[p[k]] = IF k = 1 THEN s[j] ELSE IF k <= j THEN s[k - 1] ELSE s[k]
  <2>1. k # 1 => k - 1 \in 1 .. m
    OBVIOUS
  <2>2. p[k] = IF k = 1 THEN id[j] ELSE IF k <= j THEN id[k - 1] ELSE id[k]
    BY DEF ToFront
  <2>3. p[k] = IF k = 1 THEN j ELSE IF k <= j THEN k - 1 ELSE k
    BY <2>1, <2>2
  <2> HIDE DEF p
  <2> QED BY <2>3
<1> HIDE DEF p
<1>3. ToFront(m, s, j) = [k \in 1 .. m |-> s[p[k]]]
  BY <1>2 DEF ToFront
<1> DEFINE r == ToFront(m, s, j)
<1> HIDE DEF r
<1>4. /\ r \in [1 .. m -> D]
      /\ Distinct(s) => Distinct(r)
      /\ \A x : Has(r, x) <=> Has(s, x)
  <2>1. Shuffled(r, m, s, p)
    BY <1>3 DEF Shuffled, r
  <2> QED BY <1>1, <2>1, ShuffledSame
<1> QED BY <1>4 DEF r

\* ... and so does one whose first member is moved to the back.
LEMMA BackSame ==
  ASSUME NEW m \in Nat, NEW D, NEW s \in [1 .. m -> D], NEW j \in 1 .. m
  PROVE  /\ ToBack(m, s, j) \in [1 .. m -> D]
         /\ Distinct(s) => Distinct(ToBack(m, s, j))
         /\ \A x : Has(ToBack(m, s, j), x) <=> Has(s, x)
<1> DEFINE id == [k \in 1 .. m |-> k]
           p == ToBack(m, id, j)
<1>1. Permuted(m, p)
  <2> HIDE DEF id
  <2> QED BY IdentityPermuted, BackPermuted DEF id
<1>2. ASSUME NEW k \in 1 .. m
      PROVE  s[p[k]] = IF k = j THEN s[1] ELSE IF k < j THEN s[k + 1] ELSE s[k]
  <2>1. 1 \in 1 .. m /\ (k < j => k + 1 \in 1 .. m)
    OBVIOUS
  <2>2. p[k] = IF k = j THEN id[1] ELSE IF k < j THEN id[k + 1] ELSE id[k]
    BY DEF ToBack
  <2>3. p[k] = IF k = j THEN 1 ELSE IF k < j THEN k + 1 ELSE k
    BY <2>1, <2>2
  <2> HIDE DEF p
  <2> QED BY <2>3
<1> HIDE DEF p
<1>3. ToBack(m, s, j) = [k \in 1 .. m |-> s[p[k]]]
  BY <1>2 DEF ToBack
<1> DEFINE r == ToBack(m, s, j)
<1> HIDE DEF r
<1>4. /\ r \in [1 .. m -> D]
      /\ Distinct(s) => Distinct(r)
      /\ \A x : Has(r, x) <=> Has(s, x)
  <2>1. Shuffled(r, m, s, p)
    BY <1>3 DEF Shuffled, r
  <2> QED BY <1>1, <2>1, ShuffledSame
<1> QED BY <1>4 DEF r

\* n different chunks that are not in s.
NewTo(n, ch, s) == /\ \A i, j \in 1 .. n : ch[i] = ch[j] => i = j
                   /\ \A i \in 1 .. n : ~Has(s, ch[i])

OneOf(n, ch, x) == \E i \in 1 .. n : ch[i] = x

\* n chunks before a sequence that has none of them.
LEMMA PushedSame ==
  ASSUME NEW n \in Nat, NEW m \in Nat, NEW D, NEW s \in [1 .. m -> D], NEW ch,
         NewTo(n, ch, s), Distinct(s)
  PROVE  /\ DOMAIN Pushed(n, ch, m, s) = 1 .. m + n
         /\ Distinct(Pushed(n, ch, m, s))
         /\ \A x : Has(Pushed(n, ch, m, s), x) <=> Has(s, x) \/ OneOf(n, ch, x)
<1> DEFINE r == Pushed(n, ch, m, s)
<1>0. /\ \A i, j \in 1 .. n : ch[i] = ch[j] => i = j
      /\ \A i \in 1 .. n : ~Has(s, ch[i])
  BY DEF NewTo
<1>1. /\ DOMAIN r = 1 .. m + n /\ DOMAIN s = 1 .. m
      /\ \A k \in 1 .. m + n : r[k] = IF k <= n THEN ch[(n + 1) - k] ELSE s[k - n]
  BY DEF Pushed
<1> HIDE DEF r
<1>2. \A k \in 1 .. m + n : /\ k <= n => (n + 1) - k \in 1 .. n
                            /\ ~(k <= n) => k - n \in 1 .. m
  OBVIOUS
<1>3. ASSUME NEW i \in 1 .. m + n, NEW j \in 1 .. m + n, r[i] = r[j] PROVE i = j
  <2>1. CASE i <= n /\ j <= n
    <3>1. ch[(n + 1) - i] = ch[(n + 1) - j]
      BY <1>1, <1>3, <2>1
    <3>2. (n + 1) - i = (n + 1) - j
      BY <1>0, <1>2, <2>1, <3>1
    <3> QED BY <3>2
  <2>2. CASE ~(i <= n) /\ ~(j <= n)
    <3>1. s[i - n] = s[j - n]
      BY <1>1, <1>3, <2>2
    <3>2. i - n = j - n
      BY <1>1, <1>2, <2>2, <3>1 DEF Distinct
    <3> QED BY <3>2
  <2>3. CASE i <= n /\ ~(j <= n)
    <3>1. ch[(n + 1) - i] = s[j - n]
      BY <1>1, <1>3, <2>3
    <3> QED BY <1>0, <1>1, <1>2, <2>3, <3>1 DEF Has
  <2>4. CASE ~(i <= n) /\ j <= n
    <3>1. ch[(n + 1) - j] = s[i - n]
      BY <1>1, <1>3, <2>4
    <3> QED BY <1>0, <1>1, <1>2, <2>4, <3>1 DEF Has
  <2> QED BY <2>1, <2>2, <2>3, <2>4
<1>4. ASSUME NEW x PROVE Has(r, x) <=> Has(s, x) \/ \E i \in 1 .. n : ch[i] = x
  <2>1. ASSUME NEW i \in 1 .. n, ch[i] = x PROVE \E k \in 1 .. m + n : r[k] = x
    <3>1. (n + 1) - i \in 1 .. m + n /\ (n + 1) - i <= n /\ (n + 1) - ((n + 1) - i) = i
      OBVIOUS
    <3>2. r[(n + 1) - i] = ch[i]
      BY <1>1, <3>1
    <3> QED BY <2>1, <3>1, <3>2
  <2>2. ASSUME NEW i \in 1 .. m, s[i] = x PROVE \E k \in 1 .. m + n : r[k] = x
    <3>1. i + n \in 1 .. m + n /\ ~(i + n <= n) /\ (i + n) - n = i
      OBVIOUS
    <3>2. r[i + n] = s[i]
      BY <1>1, <3>1
    <3> QED BY <2>2, <3>1, <3>2
  <2>3. ASSUME NEW k \in 1 .. m + n, r[k] = x
        PROVE  (\E i \in 1 .. m : s[i] = x) \/ \E i \in 1 .. n : ch[i] = x
    BY <1>1, <1>2, <2>3
  <2> QED BY <1>1, <2>1, <2>2, <2>3 DEF Has
<1> QED BY <1>1, <1>3, <1>4 DEF Distinct, OneOf, r

\* select_extra takes the first chunk, which goes to the end.
LEMMA TakenIs ==
  ASSUME NEW e \in Elms, e.idle_num # 0, e.chunks_list.length # 0
  PROVE  LET l == Taken(e)
             m == e.chunks_list.length
         IN  /\ l \in Elms
             /\ l.idle_num = e.idle_num - 1 /\ l.total_num = e.total_num
             /\ l.chunks_list.capacity = e.chunks_list.capacity
             /\ l.chunks_list.length = m
             /\ Contents(l.chunks_list) = ToBack(m, Contents(e.chunks_list), m)
             /\ Popped(e.chunks_list) = Contents(e.chunks_list)[1]
<1> DEFINE sl == e.chunks_list
           m == sl.length
           n == sl.capacity
           q == pop(sl)
           x == Popped(sl)
           r == append(x, q)
           s == Contents(sl)
<1>1. n \in Nat \ {0} /\ IsList(sl, n, ExtraData)
  BY ElmIs
<1> HIDE DEF n
<1>2. m \in 0 .. n /\ m # 0 /\ s \in [1 .. m -> ExtraData]
  BY <1>1, HoldsIs
<1>3. /\ IsList(q, n, ExtraData) /\ q.length = m - 1
      /\ Contents(q) = [k \in 1 .. m - 1 |-> s[k + 1]]
      /\ x = s[1] /\ x \in ExtraData
  <2>1. Contents(q) = Rest(m, s)
    <3> HIDE DEF sl
    <3> QED BY <1>1, <1>2, PopIs
  <2>2. IsList(q, n, ExtraData) /\ q.length = m - 1 /\ x = s[1] /\ x \in ExtraData
    <3> HIDE DEF sl
    <3> QED BY <1>1, <1>2, PopIs
  <2> QED BY <2>1, <2>2 DEF Rest
<1> HIDE DEF sl, m, q, x
<1>4. q.length # n /\ q.length + 1 = m
  BY <1>1, <1>2, <1>3
<1>5. /\ IsList(r, n, ExtraData) /\ r.length = m
      /\ Contents(r) = [k \in 1 .. m |-> IF k = m THEN x ELSE Contents(q)[k]]
  <2>1. /\ IsList(r, n, ExtraData) /\ r.length = q.length + 1
        /\ Contents(r) = [k \in 1 .. q.length + 1 |->
                            IF k = q.length + 1 THEN x ELSE Contents(q)[k]]
    <3>1. IsList(q, n, ExtraData) /\ x \in ExtraData /\ q.length # n /\ n \in Nat
      BY <1>1, <1>3, <1>4
    <3> QED BY ONLY <3>1, AppendIs DEF r
  <2> HIDE DEF r
  <2> QED BY <1>4, <2>1
<1> HIDE DEF r, s
<1>6. r.capacity = n
  BY <1>1, <1>5, HoldsIs
<1>7. ASSUME NEW k \in 1 .. m
      PROVE  (IF k = m THEN x ELSE Contents(q)[k])
               = IF k = m THEN s[1] ELSE IF k < m THEN s[k + 1] ELSE s[k]
  <2>1. k # m => k < m /\ k \in 1 .. m - 1
    BY <1>2
  <2> QED BY <1>3, <2>1
<1>8. Contents(r) = ToBack(m, s, m)
  BY <1>5, <1>7 DEF ToBack
<1>9. Taken(e) = [idle_num |-> e.idle_num - 1, total_num |-> e.total_num, chunks_list |-> r]
  BY OneLess, ElmUpdated DEF Taken, r, x, q, sl
<1>10. Taken(e) \in Elms
  BY TakenElm
<1> QED BY <1>3, <1>5, <1>6, <1>8, <1>9, <1>10 DEF sl, m, n, x, s

\* dc_free moves a chunk to the front.
LEMMA ReturnedIs ==
  ASSUME NEW e \in Elms, NEW x
  PROVE  LET l == Returned(e, x)
             m == e.chunks_list.length
             s == Contents(e.chunks_list)
         IN  /\ l \in Elms
             /\ l.idle_num = Uint16(e.idle_num + 1) /\ l.total_num = e.total_num
             /\ l.chunks_list.capacity = e.chunks_list.capacity
             /\ l.chunks_list.length = m
             /\ \/ ~Has(s, x) /\ Contents(l.chunks_list) = s
                \/ \E j \in 1 .. m : s[j] = x /\ Contents(l.chunks_list) = ToFront(m, s, j)
<1> DEFINE sl == e.chunks_list
           m == sl.length
           n == sl.capacity
           r == mv2head(x, sl)
           s == Contents(sl)
<1>1. n \in Nat \ {0} /\ IsList(sl, n, ExtraData)
  BY ElmIs
<1> HIDE DEF n
<1>2. m \in 0 .. n /\ s \in [1 .. m -> ExtraData]
  BY <1>1, HoldsIs
<1> HIDE DEF sl
<1>3. /\ IsList(r, n, ExtraData) /\ r.length = m
      /\ \/ r = sl /\ \A k \in 1 .. m : s[k] # x
         \/ \E j \in 1 .. m : s[j] = x /\ Contents(r) = ToFront(m, s, j)
  BY <1>1, MoveIs
<1> HIDE DEF m, r
<1>4. r.capacity = n
  BY <1>1, <1>3, HoldsIs
<1>5. \/ ~Has(s, x) /\ Contents(r) = s
      \/ \E j \in 1 .. m : s[j] = x /\ Contents(r) = ToFront(m, s, j)
  <2>1. CASE r = sl /\ \A k \in 1 .. m : s[k] # x
    <3>1. DOMAIN s = 1 .. m
      <4> HIDE DEF s
      <4> QED BY <1>2
    <3>2. ~Has(s, x)
      BY <2>1, <3>1 DEF Has
    <3> QED BY <2>1, <3>2
  <2>2. CASE \E j \in 1 .. m : s[j] = x /\ Contents(r) = ToFront(m, s, j)
    BY <2>2
  <2> QED BY <1>3, <2>1, <2>2
<1> HIDE DEF s
<1>6. Returned(e, x) = [idle_num |-> Uint16(e.idle_num + 1), total_num |-> e.total_num,
                        chunks_list |-> r]
  BY ElmUpdated DEF Returned, r, sl
<1>7. Returned(e, x) \in Elms
  BY ReturnedElm
<1> QED BY <1>3, <1>4, <1>5, <1>6, <1>7 DEF sl, m, n, s

(***************************************************************************)
(* What the extra lists hold                                               *)
(***************************************************************************)

\* A list keeps its chunks while the words before them stay.
LEMMA ElmStays ==
  ASSUME NEW c, NEW e, NEW h, NEW g, ElmOk(c, e, h),
         \A x \in DOMAIN h \ Pools :
            h[x] = c /\ Has(Contents(e.chunks_list), x) => x \in DOMAIN g /\ g[x] = c
  PROVE  ElmOk(c, e, g)
<1> DEFINE s == Contents(e.chunks_list)
<1> HIDE DEF s
<1>1. CASE e = NoElm
  BY <1>1 DEF ElmOk
<1>2. CASE e # NoElm
  <2>1. /\ e.chunks_list.capacity = e.chunks_list.length
        /\ Distinct(s) /\ \A x : Has(s, x) => x \in DOMAIN h \ Pools /\ h[x] = c
    BY <1>2 DEF ElmOk, s
  <2>2. \A x : Has(s, x) => x \in DOMAIN g \ Pools /\ g[x] = c
    BY <2>1 DEF s
  <2> QED BY <2>1, <2>2 DEF ElmOk, s
<1> QED BY <1>1, <1>2

\* The list that mk_el makes, and the one that expand_el makes, with n chunks ch that
\* were free.
LEMMA NewElmOk ==
  ASSUME NEW n \in Nat \ {0}, n < COUNT_MOD, Cardinality(Chunks \ live) >= n, MaxChunks \in Nat,
         NEW c, NEW g,
         \A i \in 1 .. n : Malloc(n)[i] \in DOMAIN g \ Pools /\ g[Malloc(n)[i]] = c
  PROVE  NewElm(n) \in Elms /\ ElmOk(c, NewElm(n), g)
<1> DEFINE ch == Malloc(n)
           e == NewElm(n)
           s == Contents(e.chunks_list)
<1>1. /\ e \in Elms /\ e.chunks_list.capacity = n /\ e.chunks_list.length = n
      /\ s = [i \in 1 .. n |-> ch[(n + 1) - i]]
  BY NewElmIs
<1>2. \A i, j \in 1 .. n : ch[i] = ch[j] => i = j
  BY MallocIs
<1> HIDE DEF ch, e, s
<1>3. DOMAIN s = 1 .. n /\ \A i \in 1 .. n : s[i] = ch[(n + 1) - i] /\ (n + 1) - i \in 1 .. n
  BY <1>1
<1>4. ASSUME NEW i \in 1 .. n, NEW j \in 1 .. n, s[i] = s[j] PROVE i = j
  <2>1. (n + 1) - i = (n + 1) - j
    BY <1>2, <1>3, <1>4, ZenonT(60)
  <2> QED BY <2>1
<1>5. \A x : Has(s, x) => x \in DOMAIN g \ Pools /\ g[x] = c
  BY <1>3 DEF Has, ch
<1>6. Distinct(s)
  BY <1>3, <1>4 DEF Distinct
<1>7. ElmOk(c, e, g)
  BY <1>1, <1>5, <1>6 DEF ElmOk, s
<1> QED BY <1>1, <1>7 DEF e

\* An extra list that grows has n more chunks of its class.
LEMMA LargerElmOk ==
  ASSUME NEW n \in Nat \ {0}, Cardinality(Chunks \ live) >= n, MaxChunks \in Nat,
         NEW e \in Elms, NEW c, NEW g, ElmOk(c, e, hdr),
         \A i \in 1 .. n : Malloc(n)[i] \in DOMAIN g \ Pools /\ g[Malloc(n)[i]] = c,
         \A x \in live : x \in DOMAIN g /\ g[x] = hdr[x]
  PROVE  LargerElm(e, n) \in Elms /\ ElmOk(c, LargerElm(e, n), g)
<1> DEFINE ch == Malloc(n)
           l == LargerElm(e, n)
           m == e.chunks_list.length
           s == Contents(e.chunks_list)
           r == Contents(l.chunks_list)
<1>1. /\ l \in Elms
      /\ l.chunks_list.capacity = e.chunks_list.capacity + n
      /\ l.chunks_list.length = m + n /\ r = Pushed(n, ch, m, s)
  BY LargerElmIs
<1>2. /\ \A i, j \in 1 .. n : ch[i] = ch[j] => i = j
      /\ \A i \in 1 .. n : ch[i] \notin live
  BY MallocIs
<1>3. /\ e # NoElm /\ e.chunks_list.capacity \in Nat
      /\ IsList(e.chunks_list, e.chunks_list.capacity, ExtraData)
  BY ElmIs
<1>4. m \in Nat /\ s \in [1 .. m -> ExtraData]
  <2> DEFINE sl == e.chunks_list
  <2> HIDE DEF sl
  <2> QED BY <1>3, HoldsIs DEF sl
<1>5. /\ e.chunks_list.capacity = m
      /\ Distinct(s) /\ \A x : Has(s, x) => x \in live \ Pools /\ hdr[x] = c
  BY <1>3 DEF ElmOk, live
<1> HIDE DEF ch, l, m, s, r
<1>6. NewTo(n, ch, s)
  BY <1>2, <1>5 DEF NewTo
<1>7. Distinct(r) /\ \A x : Has(r, x) <=> Has(s, x) \/ OneOf(n, ch, x)
  BY <1>1, <1>4, <1>5, <1>6, PushedSame
<1>8. \A x : Has(r, x) => x \in DOMAIN g \ Pools /\ g[x] = c
  BY <1>5, <1>7 DEF OneOf, ch
<1>9. l.chunks_list.capacity = l.chunks_list.length
  BY <1>1, <1>5
<1>10. ElmOk(c, l, g)
  BY <1>7, <1>8, <1>9 DEF ElmOk, r
<1> QED BY <1>1, <1>10 DEF l

\* What the books say while class c is given chunks of the system.
LEMMA ObtainBooks ==
  ASSUME ListInv, HdrBooks, \A d \in Caps : ElmBooks(d), NEW c \in Caps, NEW e,
         Obtain(c, e, DEFAULT_EXTRA),
         \/ e = NewElm(DEFAULT_EXTRA)
         \/ elm_table[c] # NoElm /\ e = LargerElm(elm_table[c], DEFAULT_EXTRA)
  PROVE  HdrBooks' /\ \A d \in Caps : ElmBooks(d)'
<1> DEFINE n == DEFAULT_EXTRA
           ch == Malloc(n)
           g == hdr'
<1>1. /\ n \in Nat \ {0} /\ n < COUNT_MOD /\ MaxChunks \in Nat
      /\ Cardinality(Chunks \ live) >= n
  BY MmAssumption DEF Obtain
<1>2. /\ ch \in Seq(Chunks) /\ Len(ch) = n
      /\ \A i \in 1 .. n : ch[i] \in Chunks \ live
  BY <1>1, MallocIs
<1>3. /\ elm_table' = [elm_table EXCEPT ![c] = e]
      /\ g = [x \in live \cup ToSet(ch) |-> IF x \in live THEN hdr[x] ELSE c]
  BY DEF Obtain
<1> HIDE DEF ch, n, g
<1>4. \A i \in 1 .. n : ch[i] \in ToSet(ch)
  BY <1>1, <1>2 DEF ToSet
<1>5. \A x \in ToSet(ch) : x \in Chunks \ live
  BY <1>1, <1>2 DEF ToSet
<1>6. /\ \A x \in live : x \in DOMAIN g /\ g[x] = hdr[x]
      /\ \A x \in ToSet(ch) : x \in DOMAIN g /\ g[x] = c
      /\ DOMAIN g = live \cup ToSet(ch)
  BY <1>3, <1>5
<1>7. \A x \in Pools : x \in live
  BY DEF HdrBooks, Pools
<1>8. HdrBooks'
  <2>1. DOMAIN g \subseteq Chunks /\ \A x \in DOMAIN g : g[x] \in Caps
    BY <1>5, <1>6 DEF HdrBooks
  <2>2. \A d \in PoolCaps : \A x \in PoolChunks(d) : x \in DOMAIN g /\ g[x] = d
    BY <1>6 DEF HdrBooks
  <2> QED BY <2>1, <2>2 DEF HdrBooks, g, live
<1>9. \A i \in 1 .. n : ch[i] \in DOMAIN g \ Pools /\ g[ch[i]] = c
  BY <1>4, <1>5, <1>6, <1>7
<1>10. e \in Elms /\ ElmOk(c, e, g)
  <2>1. CASE e = NewElm(n)
    BY <1>1, <1>9, <2>1, NewElmOk DEF ch
  <2>2. CASE elm_table[c] # NoElm /\ e = LargerElm(elm_table[c], n)
    <3>1. elm_table[c] \in Elms /\ ElmOk(c, elm_table[c], hdr)
      BY <2>2 DEF ListInv, ElmBooks
    <3> QED BY <1>1, <1>6, <1>9, <2>2, <3>1, LargerElmOk DEF ch
  <2> QED BY <2>1, <2>2 DEF n
<1>11. ASSUME NEW d \in Caps PROVE ElmOk(d, elm_table'[d], g)
  <2>1. CASE d = c
    BY <1>3, <1>10, <2>1 DEF ListInv
  <2>2. CASE d # c
    <3>1. elm_table'[d] = elm_table[d] /\ ElmOk(d, elm_table[d], hdr)
      BY <1>3, <2>2 DEF ListInv, ElmBooks
    <3>2. \A x \in DOMAIN hdr \ Pools :
             hdr[x] = d /\ Has(Contents(elm_table[d].chunks_list), x) => x \in DOMAIN g /\ g[x] = d
      BY <1>6 DEF live
    <3> QED BY <3>1, <3>2, ElmStays
  <2> QED BY <2>1, <2>2
<1> QED BY <1>8, <1>11 DEF ElmBooks, g

\* The list that select_extra leaves, and the one that dc_free leaves.
LEMMA TakenOk ==
  ASSUME NEW e \in Elms, e.idle_num # 0, NEW c, NEW h, ElmOk(c, e, h)
  PROVE  Taken(e) \in Elms /\ ElmOk(c, Taken(e), h)
<1> DEFINE l == Taken(e)
           m == e.chunks_list.length
           s == Contents(e.chunks_list)
           r == Contents(l.chunks_list)
<1>1. /\ e # NoElm /\ e.chunks_list.capacity \in Nat \ {0}
      /\ IsList(e.chunks_list, e.chunks_list.capacity, ExtraData)
  BY ElmIs
<1>2. /\ e.chunks_list.capacity = m
      /\ Distinct(s) /\ \A x : Has(s, x) => x \in DOMAIN h \ Pools /\ h[x] = c
  BY <1>1 DEF ElmOk
<1>3. m \in Nat \ {0} /\ s \in [1 .. m -> ExtraData]
  <2> DEFINE sl == e.chunks_list
  <2>1. s \in [1 .. sl.length -> ExtraData] /\ sl.length \in Nat
    <3> HIDE DEF sl
    <3> QED BY <1>1, HoldsIs DEF sl
  <2> QED BY <1>1, <1>2, <2>1
<1>4. /\ l \in Elms
      /\ l.chunks_list.capacity = e.chunks_list.capacity
      /\ l.chunks_list.length = m /\ r = ToBack(m, s, m)
  BY <1>3, TakenIs
<1> HIDE DEF l, m, s, r
<1>5. Distinct(r) /\ \A x : Has(r, x) <=> Has(s, x)
  <2>1. m \in 1 .. m
    BY <1>3
  <2> QED BY <1>2, <1>3, <1>4, <2>1, BackSame
<1>6. ElmOk(c, l, h)
  BY <1>2, <1>4, <1>5 DEF ElmOk, r
<1> QED BY <1>4, <1>6 DEF l

\* An extra list that a chunk is returned to holds the same chunks.
LEMMA ReturnedOk ==
  ASSUME NEW e \in Elms, NEW y, NEW c, NEW h, ElmOk(c, e, h)
  PROVE  /\ Returned(e, y) \in Elms /\ ElmOk(c, Returned(e, y), h)
         /\ \A x : Has(Contents(Returned(e, y).chunks_list), x) <=> Has(Contents(e.chunks_list), x)
<1> DEFINE l == Returned(e, y)
           m == e.chunks_list.length
           s == Contents(e.chunks_list)
           r == Contents(l.chunks_list)
<1>1. /\ e # NoElm /\ e.chunks_list.capacity \in Nat \ {0}
      /\ IsList(e.chunks_list, e.chunks_list.capacity, ExtraData)
  BY ElmIs
<1>2. /\ e.chunks_list.capacity = m
      /\ Distinct(s) /\ \A x : Has(s, x) => x \in DOMAIN h \ Pools /\ h[x] = c
  BY <1>1 DEF ElmOk
<1>3. m \in Nat /\ s \in [1 .. m -> ExtraData]
  <2> DEFINE sl == e.chunks_list
  <2>1. s \in [1 .. sl.length -> ExtraData] /\ sl.length \in Nat
    <3> HIDE DEF sl
    <3> QED BY <1>1, HoldsIs DEF sl
  <2> QED BY <2>1
<1>4. /\ l \in Elms
      /\ l.chunks_list.capacity = e.chunks_list.capacity
      /\ l.chunks_list.length = m
      /\ r = s \/ \E j \in 1 .. m : r = ToFront(m, s, j)
  BY ReturnedIs
<1> HIDE DEF l, m, s, r
<1>5. Distinct(r) /\ \A x : Has(r, x) <=> Has(s, x)
  <2>1. CASE r = s
    BY <1>2, <2>1
  <2>2. ASSUME NEW j \in 1 .. m, r = ToFront(m, s, j) PROVE Distinct(r) /\ \A x : Has(r, x) <=> Has(s, x)
    BY <1>2, <1>3, <2>2, FrontSame
  <2> QED BY <1>4, <2>1, <2>2
<1>6. ElmOk(c, l, h)
  BY <1>2, <1>4, <1>5 DEF ElmOk, r
<1> QED BY <1>4, <1>5, <1>6 DEF l, r, s

\* Class c has another extra list.
LEMMA SwapBooks ==
  ASSUME ListInv, HdrBooks, \A d \in Caps : ElmBooks(d), NEW c \in Caps, NEW e,
         elm_table' = [elm_table EXCEPT ![c] = e], UNCHANGED hdr, ElmOk(c, e, hdr)
  PROVE  HdrBooks' /\ \A d \in Caps : ElmBooks(d)'
<1>1. HdrBooks'
  BY DEF HdrBooks, live
<1>2. ASSUME NEW d \in Caps PROVE ElmOk(d, elm_table'[d], hdr)
  <2>1. CASE d = c
    BY <2>1 DEF ListInv
  <2>2. CASE d # c
    BY <2>2 DEF ListInv, ElmBooks
  <2> QED BY <2>1, <2>2
<1> QED BY <1>1, <1>2 DEF ElmBooks

\* Class c gives all its chunks back.
LEMMA DropBooks ==
  ASSUME ListInv, HdrBooks, \A d \in Caps : ElmBooks(d), NEW c \in Caps, elm_table[c] # NoElm,
         elm_table' = [elm_table EXCEPT ![c] = NoElm],
         hdr' = Restrict(hdr, live \ ToSet(Extra(c)))
  PROVE  HdrBooks' /\ \A d \in Caps : ElmBooks(d)'
<1> DEFINE s == Extra(c)
           g == hdr'
<1>1. /\ \A x \in ToSet(s) : Has(s, x)
      /\ \A x : Has(s, x) => x \in live \ Pools /\ hdr[x] = c
  BY DEF ElmBooks, ElmOk, Extra, live, ToSet, Has
<1>2. DOMAIN g = live \ ToSet(s) /\ \A x \in live \ ToSet(s) : g[x] = hdr[x]
  BY DEF Restrict
<1> HIDE DEF g, s
<1>3. HdrBooks'
  <2>1. DOMAIN g \subseteq Chunks /\ \A x \in DOMAIN g : g[x] \in Caps
    BY <1>2 DEF HdrBooks
  <2>2. ASSUME NEW d \in PoolCaps, NEW x \in PoolChunks(d) PROVE x \in DOMAIN g /\ g[x] = d
    <3>1. x \in live /\ x \in Pools /\ hdr[x] = d
      BY DEF HdrBooks, Pools
    <3> QED BY <1>1, <1>2, <3>1
  <2> QED BY <2>1, <2>2 DEF HdrBooks, live, g
<1>4. ASSUME NEW d \in Caps PROVE ElmOk(d, elm_table'[d], g)
  <2>1. CASE d = c
    BY <2>1 DEF ListInv, ElmOk
  <2>2. CASE d # c
    <3>1. elm_table'[d] = elm_table[d] /\ ElmOk(d, elm_table[d], hdr)
      BY <2>2 DEF ListInv, ElmBooks
    <3>2. \A x \in DOMAIN hdr \ Pools :
             hdr[x] = d /\ Has(Contents(elm_table[d].chunks_list), x) => x \in DOMAIN g /\ g[x] = d
      BY <1>1, <1>2, <2>2 DEF live
    <3> QED BY <3>1, <3>2, ElmStays
  <2> QED BY <2>1, <2>2
<1> QED BY <1>3, <1>4 DEF ElmBooks, g

\* The steps that touch neither the chunks of the system nor the extra lists.
LEMMA SameBooks ==
  ASSUME HdrBooks, \A d \in Caps : ElmBooks(d), UNCHANGED <<elm_table, hdr>>
  PROVE  HdrBooks' /\ \A d \in Caps : ElmBooks(d)'
  BY DEF HdrBooks, ElmBooks, live

\* The books of the extra lists stay right.
LEMMA BooksStep ==
  ASSUME ListInv, MemInv, [Next]_vars
  PROVE  HdrBooks' /\ \A d \in Caps : ElmBooks(d)'
<1>1. HdrBooks /\ (\A d \in Caps : ElmBooks(d)) /\ RawBooks
  BY DEF MemInv
<1>2. CASE UNCHANGED <<elm_table, hdr>>
  BY <1>1, <1>2, SameBooks
<1>3. \A t \in Threads : cap[t] \in Caps
  BY DEF MemInv, ClassInv, Classed
<1>4. \A c \in Caps : elm_table[c] # NoElm => elm_table[c] \in Elms /\ ElmOk(c, elm_table[c], hdr)
  BY <1>1 DEF ListInv, ElmBooks
<1>5. ASSUME NEW t \in Threads, FillEl(t) PROVE HdrBooks' /\ \A d \in Caps : ElmBooks(d)'
  <2>1. Obtain(cap[t], NewElm(DEFAULT_EXTRA), DEFAULT_EXTRA)
    BY <1>5 DEF FillEl
  <2> QED BY <1>1, <1>3, <2>1, ObtainBooks
<1>6. ASSUME NEW t \in Threads, ExpandEl(t) PROVE HdrBooks' /\ \A d \in Caps : ElmBooks(d)'
  <2>1. CASE elm_table[cap[t]] = NoElm
    BY <1>2, <1>6, <2>1 DEF ExpandEl, Fault, memVars
  <2>2. CASE elm_table[cap[t]] # NoElm
    <3>1. Obtain(cap[t], LargerElm(elm_table[cap[t]], DEFAULT_EXTRA), DEFAULT_EXTRA)
      BY <1>6, <2>2 DEF ExpandEl
    <3> QED BY <1>1, <1>3, <2>2, <3>1, ObtainBooks
  <2> QED BY <2>1, <2>2
<1>7. ASSUME NEW t \in Threads, Refill(t) PROVE HdrBooks' /\ \A d \in Caps : ElmBooks(d)'
  <2>1. CASE elm_table[cap[t]] = NoElm
    <3>1. Obtain(cap[t], NewElm(DEFAULT_EXTRA), DEFAULT_EXTRA)
      BY <1>7, <2>1 DEF Refill
    <3> QED BY <1>1, <1>3, <3>1, ObtainBooks
  <2>2. CASE elm_table[cap[t]] # NoElm /\ elm_table[cap[t]].idle_num = 0
    <3>1. Obtain(cap[t], LargerElm(elm_table[cap[t]], DEFAULT_EXTRA), DEFAULT_EXTRA)
      BY <1>7, <2>2 DEF Refill
    <3> QED BY <1>1, <1>3, <2>2, <3>1, ObtainBooks
  <2>3. CASE elm_table[cap[t]] # NoElm /\ elm_table[cap[t]].idle_num # 0
    BY <1>2, <1>7, <2>3 DEF Refill
  <2> QED BY <2>1, <2>2, <2>3
<1>8. ASSUME NEW t \in Threads, SelectExtra(t) PROVE HdrBooks' /\ \A d \in Caps : ElmBooks(d)'
  <2> DEFINE e == elm_table[cap[t]]
  <2>1. CASE e.idle_num = 0
    BY <1>2, <1>8, <2>1 DEF SelectExtra, memVars
  <2>2. CASE e.idle_num # 0
    <3>1. elm_table' = [elm_table EXCEPT ![cap[t]] = Taken(e)] /\ UNCHANGED hdr
      BY <1>8, <2>2 DEF SelectExtra, GiveChunk
    <3>2. e # NoElm
      BY <2>2 DEF NoElm
    <3>3. e \in Elms /\ ElmOk(cap[t], e, hdr)
      BY <1>3, <1>4, <3>2
    <3> DEFINE l == Taken(e)
    <3>4. ElmOk(cap[t], l, hdr)
      <4> HIDE DEF e
      <4> QED BY <2>2, <3>3, TakenOk
    <3> HIDE DEF l
    <3> QED BY <1>1, <1>3, <3>1, <3>4, SwapBooks DEF l
  <2> QED BY <2>1, <2>2
<1>9. ASSUME NEW t \in Threads, FreeBack(t) PROVE HdrBooks' /\ \A d \in Caps : ElmBooks(d)'
  <2> DEFINE e == elm_table[cap[t]]
             l == Returned(e, ptr[t])
  <2>1. CASE e = NoElm
    BY <1>2, <1>9, <2>1 DEF FreeBack, GiveBack
  <2>2. CASE e # NoElm /\ AllIdle(e)
    <3>1. /\ elm_table' = [elm_table EXCEPT ![cap[t]] = NoElm]
          /\ hdr' = Restrict(hdr, live \ ToSet(Extra(cap[t])))
      BY <1>9, <2>2 DEF FreeBack, GiveBack, Extra
    <3> QED BY <1>1, <1>3, <2>2, <3>1, DropBooks
  <2>3. CASE e # NoElm /\ ~AllIdle(e)
    <3>1. elm_table' = [elm_table EXCEPT ![cap[t]] = l] /\ UNCHANGED hdr
      BY <1>9, <2>3 DEF FreeBack, GiveBack
    <3>2. e \in Elms /\ ElmOk(cap[t], e, hdr)
      BY <1>3, <1>4, <2>3
    <3>3. ElmOk(cap[t], l, hdr)
      <4> HIDE DEF e
      <4> QED BY <3>2, ReturnedOk
    <3> HIDE DEF l
    <3> QED BY <1>1, <1>3, <3>1, <3>3, SwapBooks
  <2> QED BY <2>1, <2>2, <2>3
<1>13. ASSUME NEW t \in Threads, FreeExtra(t) PROVE HdrBooks' /\ \A d \in Caps : ElmBooks(d)'
  BY <1>2, <1>9, <1>13, FreeExtraIs DEF Fault, memVars
<1>10. CASE UNCHANGED vars
  BY <1>2, <1>10 DEF vars, memVars
<1>11. ASSUME NEW t \in Threads, CallOf(t) PROVE HdrBooks' /\ \A d \in Caps : ElmBooks(d)'
  BY <1>2, <1>11 DEF CallOf, Alloc, Free, Realloc, Fault, memVars
<1>12. ASSUME NEW t \in Threads, Step(t) PROVE HdrBooks' /\ \A d \in Caps : ElmBooks(d)'
  <2>1. CASE AllocAgain(t) \/ LookAgain(t) \/ Find(t) \/ Memcpy(t) \/ MkEl(t)
    BY <1>2, <2>1 DEF AllocAgain, LookAgain, Find, Memcpy, MkEl, Fault, memVars
  <2>2. CASE SelectPreAlloced(t) \/ FreePreAlloced(t)
    BY <1>2, <2>2 DEF SelectPreAlloced, GiveChunk, FreePreAlloced, memVars
  <2> QED BY <1>5, <1>6, <1>7, <1>8, <1>13, <1>12, <2>1, <2>2 DEF Step
<1> QED BY <1>10, <1>11, <1>12 DEF Next

(***************************************************************************)
(* The books hold                                                          *)
(***************************************************************************)

\* No chunk belongs to two pools.
LEMMA PoolsApart ==
  ASSUME NEW c \in PoolCaps, NEW d \in PoolCaps, NEW x, x \in PoolChunks(c), x \in PoolChunks(d)
  PROVE  c = d
<1> DEFINE n == chunks_num
<1>1. n \in Nat \ {0} /\ BIG \in Nat /\ c \in Nat /\ d \in Nat /\ c <= BIG /\ d <= BIG
  BY MmAssumption DEF PoolCaps
<1> DEFINE a == BIG - c
           b == BIG - d
<1>2. a \in Nat /\ b \in Nat
  BY <1>1
<1>3. PICK i \in 1 .. n : x = a * n + i
  BY DEF PoolChunks, PoolOf
<1>4. PICK j \in 1 .. n : x = b * n + j
  BY DEF PoolChunks, PoolOf
<1>5. a * n \in Nat /\ b * n \in Nat
  <2> HIDE DEF a, b, n
  <2> QED BY <1>1, <1>2
<1>6. ASSUME NEW k \in Nat, NEW m \in Nat, k < m PROVE m * n >= k * n + n
  <2> HIDE DEF n
  <2>1. (k + 1) * n = k * n + n /\ (m - (k + 1)) * n \in Nat
    <3>1. m - (k + 1) \in Nat
      BY <1>6
    <3> QED BY <1>1, <3>1
  <2>2. m * n = (k + 1) * n + (m - (k + 1)) * n
    BY <1>1
  <2> QED BY <1>1, <2>1, <2>2
<1>7. ~(a < b) /\ ~(b < a)
  <2> HIDE DEF a, b
  <2>1. CASE a < b
    <3>1. b * n >= a * n + n
      BY <1>2, <1>6, <2>1
    <3> DEFINE p == a * n
               q == b * n
    <3> HIDE DEF p, q, n
    <3> QED BY <1>1, <1>3, <1>4, <1>5, <3>1 DEF p, q
  <2>2. CASE b < a
    <3>1. a * n >= b * n + n
      BY <1>2, <1>6, <2>2
    <3> DEFINE p == a * n
               q == b * n
    <3> HIDE DEF p, q, n
    <3> QED BY <1>1, <1>3, <1>4, <1>5, <3>1 DEF p, q
  <2> QED BY <2>1, <2>2
<1> QED BY <1>1, <1>2, <1>7

\* The pools' chunks are addresses of the model.
LEMMA PoolInChunks ==
  ASSUME NEW c \in PoolCaps
  PROVE  PoolChunks(c) \subseteq Chunks
<1> DEFINE n == chunks_num
           a == BIG - c
<1>1. /\ n \in Nat \ {0} /\ BIG \in Nat /\ SMALL \in Nat /\ MaxChunks \in Nat /\ c \in Nat
      /\ SMALL <= c /\ c <= BIG /\ (BIG - SMALL + 1) * n <= MaxChunks
  BY MmAssumption DEF PoolCaps
<1>2. a \in Nat /\ a <= BIG - SMALL /\ BIG - SMALL \in Nat
  BY <1>1
<1> DEFINE b == BIG - SMALL
<1>3. b * n + n <= MaxChunks /\ a * n <= b * n /\ a * n \in Nat
  <2>1. b + 1 = BIG - SMALL + 1
    BY <1>1
  <2> HIDE DEF n, b, a
  <2>2. (b + 1) * n = b * n + n
    BY <1>1, <1>2 DEF b
  <2>3. b - a \in Nat
    BY <1>1, <1>2 DEF b
  <2>4. (b - a) * n \in Nat /\ b * n = a * n + (b - a) * n /\ a * n \in Nat /\ b * n \in Nat
    BY <1>1, <1>2, <2>3 DEF b
  <2>5. (b - a) * n \in Nat /\ a * n \in Nat /\ b * n = a * n + (b - a) * n
    BY <2>4
  <2>6. a * n <= b * n
    <3> DEFINE p == a * n
               q == (b - a) * n
    <3> HIDE DEF p, q
    <3> QED BY <2>5 DEF p, q
  <2> QED BY <1>1, <2>1, <2>2, <2>4, <2>6 DEF b
<1>4. ASSUME NEW x \in PoolChunks(c) PROVE x \in Chunks
  <2>1. PICK i \in 1 .. n : x = a * n + i
    BY DEF PoolChunks, PoolOf
  <2> DEFINE p == a * n
             q == b * n
  <2>2. q \in Int
    BY <1>1
  <2> HIDE DEF p, q, n
  <2> QED BY <1>1, <1>3, <2>1, <2>2 DEF p, q, Chunks
<1> QED BY <1>4

\* The books that mm_init makes agree with what the system gave.
LEMMA MemInit ==
  ASSUME Init
  PROVE  MemInv
<1>1. 0 \in Caps
  BY MmAssumption DEF Caps
<1>2. ClassInv
  BY <1>1 DEF Init, ClassInv, Classed, Allocating, AllocPool, AllocExtra, Freeing
<1>3. RawBooks
  BY DEF Init, RawBooks
<1>4. HdrBooks
  <2>1. live = Pools /\ \A x \in Pools : hdr[x] = ClassOf(x)
    BY DEF Init, live, Pools
  <2>2. ASSUME NEW c \in PoolCaps, NEW x \in PoolChunks(c) PROVE x \in live /\ hdr[x] = c
    <3>1. x \in Pools
      BY DEF Pools
    <3>2. \A d \in PoolCaps : x \in PoolChunks(d) => d = c
      BY PoolsApart
    <3>3. ClassOf(x) = c
      BY <3>2 DEF ClassOf
    <3> QED BY <2>1, <3>1, <3>3
  <2>3. PoolCaps \subseteq Caps
    BY MmAssumption DEF PoolCaps, Caps
  <2>4. live \subseteq Chunks /\ \A x \in live : hdr[x] \in Caps
    BY <2>1, <2>2, <2>3, PoolInChunks DEF Pools
  <2> QED BY <2>2, <2>4 DEF HdrBooks
<1>5. \A c \in Caps : ElmBooks(c)
  BY DEF Init, ElmBooks, ElmOk
<1> QED BY <1>2, <1>3, <1>4, <1>5 DEF MemInv

\* Every step leaves them so.
LEMMA MemStep ==
  ASSUME ListInv, MemInv, [Next]_vars
  PROVE  MemInv'
<1>1. HdrBooks' /\ \A d \in Caps : ElmBooks(d)'
  BY BooksStep
<1>2. ClassInv' /\ RawBooks'
  <2>1. CASE UNCHANGED vars
    BY <2>1, ClassStays DEF MemInv, vars, memVars, threadVars
  <2>2. CASE Next
    BY <2>2, ClassCall, ClassWork DEF Next
  <2> QED BY <2>1, <2>2
<1> QED BY <1>1, <1>2 DEF MemInv

(***************************************************************************)
(* Threads and their chunks                                                *)
(***************************************************************************)

\* What a thread has to do with chunks at a place of the code: with its class, ptr, old,
\* node and what it holds.
Handling(at, c, p, o, nd, hs) ==
  /\ p \in Chunks \cup {NULL} /\ o \in Chunks \cup {NULL}
  /\ nd \in 0 .. chunks_num
  /\ hs \subseteq [chunk : Chunks, size : Sizes]
  /\ at = "idle" => p = NULL /\ o = NULL
  /\ at \in Allocating => p = NULL
  /\ at = "memcpy" => o # NULL /\ \E h \in hs : h.chunk = p
  /\ at \in Freeing => p # NULL /\ o = NULL
  /\ at = "free_pre_alloced" => p \in PoolChunks(c)

ThreadInv ==
  /\ ptr = [t \in Threads |-> ptr[t]] /\ old = [t \in Threads |-> old[t]]
  /\ node = [t \in Threads |-> node[t]] /\ held = [t \in Threads |-> held[t]]
  /\ \A t \in Threads : Handling(pc[t], cap[t], ptr[t], old[t], node[t], held[t])
  /\ missed \in BOOLEAN /\ status \in {"run", "fault"} /\ calls \in 0 .. MaxCalls

\* The chunks of a thread; Out(t) is With(ptr[t], old[t], held[t]).
With(p, o, hs) == {h.chunk : h \in hs} \cup ({o, p} \ {NULL})

\* Of the chunks of K, a thread has each one once: to use, to move or to free.
Once(at, p, o, hs, K) ==
  /\ at \in Freeing /\ p \in K => \A h \in hs : h.chunk # p
  /\ o \in K => \A h \in hs : h.chunk # o
  /\ \A g, h \in hs : g.chunk = h.chunk /\ g.chunk \in K => g = h

UseBooks(K) ==
  /\ \A t \in Threads : Once(pc[t], ptr[t], old[t], held[t], K)
  /\ \A t, u \in Threads : \A x \in K : x \in Out(t) /\ x \in Out(u) => t = u

\* A thread that frees a chunk of K knows its class.
Freed(K) == \A t \in Threads : pc[t] \in Freeing /\ ptr[t] \in K => hdr[ptr[t]] = cap[t]

\* Pool p of class c is split between its two lists, and what threads have of it is on
\* the allocated one.
PoolOk(c, p, out) ==
  /\ p.idle_num = p.idle_chunks.length
  /\ p.idle_chunks.length + p.alloced_chunks.length = chunks_num
  /\ Distinct(Contents(p.idle_chunks)) /\ Distinct(Contents(p.alloced_chunks))
  /\ \A x : Has(Contents(p.idle_chunks), x) \/ Has(Contents(p.alloced_chunks), x) => x \in PoolChunks(c)
  /\ \A x \in PoolChunks(c) : Has(Contents(p.idle_chunks), x) <=> ~Has(Contents(p.alloced_chunks), x)
  /\ \A x \in PoolChunks(c) : x \in out => Has(Contents(p.alloced_chunks), x)

PoolBooks(c) == PoolOk(c, pool[c], AllOut)

\* What holds of the pools, even once a search has gone astray.
PoolInv ==
  /\ ThreadInv
  /\ UseBooks(Pools) /\ Freed(Pools)
  /\ \A c \in PoolCaps : PoolBooks(c)

\* Thread t goes to place a, with a class, ptr, old, node and what it holds.
Moved(t, a, k, p, o, nd, hs) ==
  /\ pc' = [pc EXCEPT ![t] = a] /\ cap' = [cap EXCEPT ![t] = k]
  /\ ptr' = [ptr EXCEPT ![t] = p] /\ old' = [old EXCEPT ![t] = o]
  /\ node' = [node EXCEPT ![t] = nd] /\ held' = [held EXCEPT ![t] = hs]

\* What is in the variables of threads after a step of thread t.
LEMMA MovedIs ==
  ASSUME ClassInv, ThreadInv, NEW t \in Threads, NEW a, NEW k, NEW p, NEW o, NEW nd, NEW hs,
         Moved(t, a, k, p, o, nd, hs)
  PROVE  /\ pc'[t] = a /\ cap'[t] = k /\ ptr'[t] = p /\ old'[t] = o /\ node'[t] = nd /\ held'[t] = hs
         /\ \A u \in Threads : u # t =>
              /\ pc'[u] = pc[u] /\ cap'[u] = cap[u] /\ ptr'[u] = ptr[u]
              /\ old'[u] = old[u] /\ node'[u] = node[u] /\ held'[u] = held[u]
         /\ ptr' = [u \in Threads |-> ptr'[u]] /\ old' = [u \in Threads |-> old'[u]]
         /\ node' = [u \in Threads |-> node'[u]] /\ held' = [u \in Threads |-> held'[u]]
<1>1. /\ pc' = [u \in Threads |-> IF u = t THEN a ELSE pc[u]]
      /\ cap' = [u \in Threads |-> IF u = t THEN k ELSE cap[u]]
      /\ ptr' = [u \in Threads |-> IF u = t THEN p ELSE ptr[u]]
      /\ old' = [u \in Threads |-> IF u = t THEN o ELSE old[u]]
      /\ node' = [u \in Threads |-> IF u = t THEN nd ELSE node[u]]
      /\ held' = [u \in Threads |-> IF u = t THEN hs ELSE held[u]]
  BY DEF ClassInv, ThreadInv, Moved
<1> QED BY <1>1

\* A thread that is at home where it goes.
LEMMA ThreadMoves ==
  ASSUME ClassInv, ThreadInv, NEW t \in Threads, NEW a, NEW k, NEW p, NEW o, NEW nd, NEW hs,
         Moved(t, a, k, p, o, nd, hs), Handling(a, k, p, o, nd, hs),
         missed' \in BOOLEAN, status' \in {"run", "fault"}, calls' \in 0 .. MaxCalls
  PROVE  ThreadInv'
<1>1. /\ pc'[t] = a /\ cap'[t] = k /\ ptr'[t] = p /\ old'[t] = o /\ node'[t] = nd /\ held'[t] = hs
      /\ \A u \in Threads : u # t =>
           /\ pc'[u] = pc[u] /\ cap'[u] = cap[u] /\ ptr'[u] = ptr[u]
           /\ old'[u] = old[u] /\ node'[u] = node[u] /\ held'[u] = held[u]
  BY MovedIs
<1>2. /\ ptr' = [u \in Threads |-> ptr'[u]] /\ old' = [u \in Threads |-> old'[u]]
      /\ node' = [u \in Threads |-> node'[u]] /\ held' = [u \in Threads |-> held'[u]]
  BY MovedIs
<1>3. ASSUME NEW u \in Threads
      PROVE  Handling(pc'[u], cap'[u], ptr'[u], old'[u], node'[u], held'[u])
  <2>1. CASE u = t
    BY <1>1, <2>1
  <2>2. CASE u # t
    <3>1. Handling(pc[u], cap[u], ptr[u], old[u], node[u], held[u])
      BY DEF ThreadInv
    <3> QED BY <1>1, <2>2, <3>1
  <2> QED BY <2>1, <2>2
<1> QED BY <1>2, <1>3 DEF ThreadInv

\* What With has.
LEMMA WithIs ==
  ASSUME NEW p, NEW o, NEW hs, NEW x
  PROVE  x \in With(p, o, hs) <=> (\E h \in hs : h.chunk = x) \/ (x # NULL /\ (x = p \/ x = o))
  BY DEF With

\* What a thread has, now and after a step.
LEMMA OutIs ==
  ASSUME NEW t
  PROVE  Out(t) = With(ptr[t], old[t], held[t]) /\ Out(t)' = With(ptr'[t], old'[t], held'[t])
  BY DEF Out, With

\* What threads have after a step of thread t.
LEMMA OutMoves ==
  ASSUME ClassInv, ThreadInv, NEW t \in Threads, NEW a, NEW k, NEW p, NEW o, NEW nd, NEW hs,
         Moved(t, a, k, p, o, nd, hs)
  PROVE  /\ Out(t)' = With(p, o, hs)
         /\ \A u \in Threads : u # t => Out(u)' = Out(u)
         /\ \A x : x \in AllOut' <=>
              x \in With(p, o, hs) \/ \E u \in Threads : u # t /\ x \in Out(u)
<1>1. Out(t)' = With(p, o, hs)
  BY MovedIs, OutIs
<1>2. ASSUME NEW u \in Threads, u # t PROVE Out(u)' = Out(u)
  <2>1. held'[u] = held[u] /\ old'[u] = old[u] /\ ptr'[u] = ptr[u]
    BY <1>2, MovedIs
  <2> QED BY <2>1 DEF Out
<1>3. ASSUME NEW x PROVE x \in AllOut' <=> \E u \in Threads : x \in Out(u)'
  BY DEF AllOut
<1> QED BY <1>1, <1>2, <1>3

\* A thread that gets no chunk of K but what it had or nobody had.
LEMMA UseMoves ==
  ASSUME ClassInv, ThreadInv, NEW t \in Threads, NEW a, NEW k, NEW p, NEW o, NEW nd, NEW hs,
         Moved(t, a, k, p, o, nd, hs), NEW K, UseBooks(K), Once(a, p, o, hs, K),
         \A x \in K : x \in With(p, o, hs) => x \in Out(t) \/ x \notin AllOut
  PROVE  UseBooks(K)'
<1>1. /\ Out(t)' = With(p, o, hs)
      /\ \A u \in Threads : u # t => Out(u)' = Out(u)
  BY OutMoves
<1>2. ASSUME NEW u \in Threads PROVE Once(pc'[u], ptr'[u], old'[u], held'[u], K)
  <2>1. CASE u = t
    <3>1. pc'[t] = a /\ ptr'[t] = p /\ old'[t] = o /\ held'[t] = hs
      BY MovedIs
    <3> QED BY <2>1, <3>1
  <2>2. CASE u # t
    <3>1. pc'[u] = pc[u] /\ ptr'[u] = ptr[u] /\ old'[u] = old[u] /\ held'[u] = held[u]
      BY <2>2, MovedIs
    <3>2. Once(pc[u], ptr[u], old[u], held[u], K)
      BY DEF UseBooks
    <3> QED BY <3>1, <3>2
  <2> QED BY <2>1, <2>2
<1>3. \A u \in Threads : \A x : x \in Out(u) => x \in AllOut
  BY DEF AllOut
<1>4. ASSUME NEW u \in Threads, NEW v \in Threads, NEW x \in K, x \in Out(u)', x \in Out(v)'
      PROVE  u = v
  <2>1. ASSUME NEW w \in Threads, w # t, x \in Out(w)', x \in Out(t)' PROVE FALSE
    <3>1. x \in Out(w) /\ x \in With(p, o, hs)
      BY <1>1, <2>1
    <3>2. x \in Out(t)
      BY <1>3, <3>1
    <3> QED BY <2>1, <3>1, <3>2 DEF UseBooks
  <2>2. CASE u # t /\ v # t
    <3>1. x \in Out(u) /\ x \in Out(v)
      BY <1>1, <1>4, <2>2
    <3> QED BY <3>1 DEF UseBooks
  <2> QED BY <1>4, <2>1, <2>2
<1> QED BY <1>2, <1>4 DEF UseBooks

\* The steps of a thread by what they do with its chunks: nothing; it starts to free one,
\* to move one, or to free the one it has moved; it is given x; it is done with ptr.
Keeps(t) == \E a, k, nd : /\ Moved(t, a, k, ptr[t], old[t], nd, held[t])
                          /\ a \in Freeing => pc[t] \in Freeing /\ k = cap[t]
Frees(t) == \E a, nd : \E h \in held[t] :
              /\ Moved(t, a, hdr[h.chunk], h.chunk, old[t], nd, held[t] \ {h})
              /\ pc[t] = "idle"
Reallocs(t) == \E k : \E a \in Allocating : \E h \in held[t] :
                 /\ Moved(t, a, k, ptr[t], h.chunk, node[t], held[t] \ {h})
                 /\ pc[t] = "idle"
Copies(t) == \E a, nd : /\ Moved(t, a, hdr[old[t]], old[t], NULL, nd, held[t])
                        /\ pc[t] = "memcpy"
Quiet(t) == Keeps(t) \/ Frees(t) \/ Reallocs(t) \/ Copies(t)

Gives(t, x) == \E a \in {"idle", "memcpy"}, z \in Sizes :
                 /\ Moved(t, a, 0, IF old[t] = NULL THEN NULL ELSE x, old[t], node[t],
                          held[t] \cup {[chunk |-> x, size |-> z]})
                 /\ pc[t] \in Allocating
Ends(t) == /\ Moved(t, "idle", 0, NULL, old[t], node[t], held[t])
           /\ pc[t] \in Freeing

\* The threads that are freeing a chunk of K after a step know what its class was.
ClassKept(K) == \A u \in Threads : pc'[u] \in Freeing /\ ptr'[u] \in K => hdr[ptr'[u]] = cap'[u]

\* A thread that frees a chunk of K after its step does so with its class.
LEMMA ClassMoved ==
  ASSUME ClassInv, ThreadInv, NEW t \in Threads, NEW a, NEW k, NEW p, NEW o, NEW nd, NEW hs,
         Moved(t, a, k, p, o, nd, hs), NEW K, Freed(K), a \in Freeing /\ p \in K => hdr[p] = k
  PROVE  ClassKept(K)
<1>1. /\ pc'[t] = a /\ cap'[t] = k /\ ptr'[t] = p
      /\ \A u \in Threads : u # t => pc'[u] = pc[u] /\ cap'[u] = cap[u] /\ ptr'[u] = ptr[u]
  BY MovedIs
<1> QED BY <1>1 DEF ClassKept, Freed

\* What holds of a thread by where it is.
LEMMA HandlingOf ==
  ASSUME ThreadInv, NEW t \in Threads, NEW K, UseBooks(K)
  PROVE  /\ Handling(pc[t], cap[t], ptr[t], old[t], node[t], held[t])
         /\ Once(pc[t], ptr[t], old[t], held[t], K)
         /\ Out(t) = With(ptr[t], old[t], held[t])
         /\ \A x : x \in Out(t) => x \in AllOut
  BY OutIs DEF ThreadInv, UseBooks, AllOut

\* The same chunks for t, as t has them after a step.
LEMMA UseSame ==
  ASSUME ClassInv, ThreadInv, NEW t \in Threads, NEW a, NEW k, NEW p, NEW o, NEW nd, NEW hs,
         Moved(t, a, k, p, o, nd, hs), NEW K, UseBooks(K), Freed(K), Once(a, p, o, hs, K),
         a \in Freeing /\ p \in K => hdr[p] = k,
         \A x : x \in With(p, o, hs) <=> x \in Out(t)
  PROVE  /\ UseBooks(K)' /\ ClassKept(K)
         /\ \A x : x \in AllOut' <=> x \in AllOut
<1>1. ClassKept(K)
  BY ClassMoved
<1>2. UseBooks(K)'
  BY UseMoves
<1>3. \A x : x \in AllOut' <=> x \in With(p, o, hs) \/ \E u \in Threads : u # t /\ x \in Out(u)
  BY OutMoves
<1>4. \A x : x \in AllOut <=> \E u \in Threads : x \in Out(u)
  BY DEF AllOut
<1> QED BY <1>1, <1>2, <1>3, <1>4

\* A thread that is not given a chunk and is not done with one: threads have what they had.
LEMMA UseQuiet ==
  ASSUME ClassInv, ThreadInv, NEW t \in Threads, Quiet(t), NEW K, UseBooks(K), Freed(K)
  PROVE  /\ UseBooks(K)' /\ ClassKept(K)
         /\ \A x : x \in AllOut' <=> x \in AllOut
<1>1. /\ Handling(pc[t], cap[t], ptr[t], old[t], node[t], held[t])
      /\ Once(pc[t], ptr[t], old[t], held[t], K)
      /\ Out(t) = With(ptr[t], old[t], held[t])
  BY HandlingOf
<1>2. CASE Keeps(t)
  <2>1. PICK a, k, nd : /\ Moved(t, a, k, ptr[t], old[t], nd, held[t])
                        /\ a \in Freeing => pc[t] \in Freeing /\ k = cap[t]
    BY <1>2 DEF Keeps
  <2>2. Once(a, ptr[t], old[t], held[t], K)
    BY <1>1, <2>1 DEF Once
  <2>3. a \in Freeing /\ ptr[t] \in K => hdr[ptr[t]] = k
    BY <2>1 DEF Freed
  <2> QED BY <1>1, <2>1, <2>2, <2>3, UseSame
<1>3. CASE Frees(t)
  <2>1. PICK a, nd : \E h \in held[t] :
              /\ Moved(t, a, hdr[h.chunk], h.chunk, old[t], nd, held[t] \ {h})
              /\ pc[t] = "idle"
    BY <1>3 DEF Frees
  <2>2. PICK h \in held[t] : /\ Moved(t, a, hdr[h.chunk], h.chunk, old[t], nd, held[t] \ {h})
                             /\ pc[t] = "idle"
    BY <2>1
  <2> DEFINE x == h.chunk
             hs == held[t] \ {h}
  <2>3. ptr[t] = NULL /\ old[t] = NULL /\ x \in Chunks
    BY <1>1, <2>2 DEF Handling
  <2>4. x # NULL /\ NULL \notin Chunks
    BY <2>3 DEF Chunks, NULL
  <2>5. Once(a, x, old[t], hs, K)
    BY <1>1, <2>3, <2>4 DEF Once
  <2>6. ASSUME NEW y PROVE y \in With(x, old[t], hs) <=> y \in Out(t)
    <3>1. y \in With(x, old[t], hs) <=> (\E g \in hs : g.chunk = y) \/ y = x
      BY <2>3, <2>4, WithIs
    <3>2. y \in Out(t) <=> \E g \in held[t] : g.chunk = y
      BY <1>1, <2>3, WithIs
    <3> QED BY <3>1, <3>2
  <2> HIDE DEF x, hs
  <2> QED BY <2>2, <2>5, <2>6, UseSame DEF x, hs
<1>4. CASE Reallocs(t)
  <2>0. PICK k : \E a \in Allocating : \E h \in held[t] :
              /\ Moved(t, a, k, ptr[t], h.chunk, node[t], held[t] \ {h})
              /\ pc[t] = "idle"
    BY <1>4 DEF Reallocs
  <2>1. PICK a \in Allocating : \E h \in held[t] :
              /\ Moved(t, a, k, ptr[t], h.chunk, node[t], held[t] \ {h})
              /\ pc[t] = "idle"
    BY <2>0
  <2>2. PICK h \in held[t] : /\ Moved(t, a, k, ptr[t], h.chunk, node[t], held[t] \ {h})
                             /\ pc[t] = "idle"
    BY <2>1
  <2> DEFINE x == h.chunk
             hs == held[t] \ {h}
  <2>3. ptr[t] = NULL /\ old[t] = NULL /\ x \in Chunks
    BY <1>1, <2>2 DEF Handling
  <2>4. x # NULL /\ a \notin Freeing
    BY <2>1, <2>3 DEF Chunks, NULL, Freeing, Allocating, AllocPool, AllocExtra
  <2>5. Once(a, ptr[t], x, hs, K)
    BY <1>1, <2>3, <2>4 DEF Once
  <2>6. ASSUME NEW y PROVE y \in With(ptr[t], x, hs) <=> y \in Out(t)
    <3>1. y \in With(ptr[t], x, hs) <=> (\E g \in hs : g.chunk = y) \/ y = x
      BY <2>3, <2>4, WithIs
    <3>2. y \in Out(t) <=> \E g \in held[t] : g.chunk = y
      BY <1>1, <2>3, WithIs
    <3> QED BY <3>1, <3>2
  <2> HIDE DEF x, hs
  <2> QED BY <2>2, <2>4, <2>5, <2>6, UseSame DEF x, hs
<1>5. CASE Copies(t)
  <2>1. PICK a, nd : /\ Moved(t, a, hdr[old[t]], old[t], NULL, nd, held[t])
                     /\ pc[t] = "memcpy"
    BY <1>5 DEF Copies
  <2>2. old[t] # NULL /\ \E h \in held[t] : h.chunk = ptr[t]
    BY <1>1, <2>1 DEF Handling
  <2>3. Once(a, old[t], NULL, held[t], K)
    <3>1. \A h \in held[t] : h.chunk # NULL
      BY <1>1 DEF Handling, Chunks, NULL
    <3> QED BY <1>1, <3>1 DEF Once
  <2>4. ASSUME NEW y PROVE y \in With(old[t], NULL, held[t]) <=> y \in Out(t)
    BY <1>1, <2>2, WithIs
  <2> QED BY <2>1, <2>3, <2>4, UseSame
<1> QED BY <1>2, <1>3, <1>4, <1>5 DEF Quiet

\* A thread is given chunk x: threads have x besides.
LEMMA UseGives ==
  ASSUME ClassInv, ThreadInv, NEW t \in Threads, NEW x \in Chunks, Gives(t, x), NEW K,
         UseBooks(K), Freed(K), x \in K => x \notin AllOut
  PROVE  /\ UseBooks(K)' /\ ClassKept(K)
         /\ \A y : y \in AllOut' <=> y \in AllOut \/ y = x
<1>1. /\ Handling(pc[t], cap[t], ptr[t], old[t], node[t], held[t])
      /\ Once(pc[t], ptr[t], old[t], held[t], K)
      /\ Out(t) = With(ptr[t], old[t], held[t])
      /\ \A y : y \in Out(t) => y \in AllOut
  BY HandlingOf
<1>2. PICK a \in {"idle", "memcpy"}, z \in Sizes :
                 /\ Moved(t, a, 0, IF old[t] = NULL THEN NULL ELSE x, old[t], node[t],
                          held[t] \cup {[chunk |-> x, size |-> z]})
                 /\ pc[t] \in Allocating
  BY DEF Gives
<1> DEFINE p == IF old[t] = NULL THEN NULL ELSE x
           g == [chunk |-> x, size |-> z]
           hs == held[t] \cup {g}
<1>3. ptr[t] = NULL /\ x # NULL /\ a \notin Freeing
  BY <1>1, <1>2 DEF Handling, Chunks, NULL, Freeing
<1>4. g.chunk = x
  OBVIOUS
<1> HIDE DEF g
<1>5. ASSUME NEW y PROVE y \in With(p, old[t], hs) <=> y \in Out(t) \/ y = x
  <2>1. (\E h \in hs : h.chunk = y) <=> (\E h \in held[t] : h.chunk = y) \/ y = x
    BY <1>4
  <2>2. p = NULL \/ p = x
    OBVIOUS
  <2>3. y \in Out(t) <=> (\E h \in held[t] : h.chunk = y) \/ (y # NULL /\ y = old[t])
    BY <1>1, <1>3, WithIs
  <2> HIDE DEF p, hs
  <2>4. y \in With(p, old[t], hs) <=> (\E h \in hs : h.chunk = y) \/ (y # NULL /\ (y = p \/ y = old[t]))
    BY WithIs
  <2> QED BY <1>3, <2>1, <2>2, <2>3, <2>4
<1>6. ASSUME x \in K PROVE (\A h \in held[t] : h.chunk # x) /\ old[t] # x
  <2>1. x \notin Out(t)
    BY <1>1, <1>6
  <2> QED BY <1>1, <1>3, <2>1, WithIs
<1>7. Once(a, p, old[t], hs, K)
  <2>1. old[t] \in K => \A h \in hs : h.chunk # old[t]
    BY <1>1, <1>4, <1>6 DEF Once
  <2>2. ASSUME NEW f \in hs, NEW h \in hs, f.chunk = h.chunk, f.chunk \in K PROVE f = h
    BY <1>1, <1>4, <1>6, <2>2 DEF Once
  <2> HIDE DEF hs, p
  <2> QED BY <1>3, <2>1, <2>2 DEF Once
<1>8. Moved(t, a, 0, p, old[t], node[t], hs)
  BY <1>2 DEF g
<1> HIDE DEF p, hs
<1>9. ClassKept(K)
  BY <1>3, <1>8, ClassMoved
<1>10. UseBooks(K)'
  <2>1. \A y \in K : y \in With(p, old[t], hs) => y \in Out(t) \/ y \notin AllOut
    BY <1>5
  <2> QED BY <1>7, <1>8, <2>1, UseMoves
<1>11. \A y : y \in AllOut' <=> y \in With(p, old[t], hs) \/ \E u \in Threads : u # t /\ y \in Out(u)
  BY <1>8, OutMoves
<1>12. \A y : y \in AllOut <=> \E u \in Threads : y \in Out(u)
  BY DEF AllOut
<1> QED BY <1>5, <1>9, <1>10, <1>11, <1>12

\* A thread is done with ptr: threads have the others still, and nobody else has it.
LEMMA UseEnds ==
  ASSUME ClassInv, ThreadInv, NEW t \in Threads, Ends(t), NEW K, UseBooks(K), Freed(K)
  PROVE  /\ UseBooks(K)' /\ ClassKept(K)
         /\ \A y : y \in AllOut' => y \in AllOut
         /\ \A y : y \in AllOut /\ y # ptr[t] => y \in AllOut'
         /\ ptr[t] \in AllOut /\ (ptr[t] \in K => ptr[t] \notin AllOut')
<1>1. /\ Handling(pc[t], cap[t], ptr[t], old[t], node[t], held[t])
      /\ Once(pc[t], ptr[t], old[t], held[t], K)
      /\ Out(t) = With(ptr[t], old[t], held[t])
      /\ \A y : y \in Out(t) => y \in AllOut
  BY HandlingOf
<1>2. Moved(t, "idle", 0, NULL, old[t], node[t], held[t]) /\ pc[t] \in Freeing
  BY DEF Ends
<1>3. ptr[t] # NULL /\ old[t] = NULL /\ "idle" \notin Freeing
  BY <1>1, <1>2 DEF Handling, Freeing
<1>4. ASSUME NEW y
      PROVE  /\ y \in With(NULL, old[t], held[t]) <=> \E h \in held[t] : h.chunk = y
             /\ y \in Out(t) <=> (\E h \in held[t] : h.chunk = y) \/ y = ptr[t]
  BY <1>1, <1>3, WithIs
<1>5. ClassKept(K)
  BY <1>2, <1>3, ClassMoved
<1>6. UseBooks(K)'
  <2>1. Once("idle", NULL, old[t], held[t], K)
    BY <1>1, <1>3 DEF Once
  <2>2. \A y \in K : y \in With(NULL, old[t], held[t]) => y \in Out(t) \/ y \notin AllOut
    BY <1>4
  <2> QED BY <1>2, <2>1, <2>2, UseMoves
<1>7. \A y : y \in AllOut' <=>
         y \in With(NULL, old[t], held[t]) \/ \E u \in Threads : u # t /\ y \in Out(u)
  BY <1>2, OutMoves
<1>8. \A y : y \in AllOut <=> \E u \in Threads : y \in Out(u)
  BY DEF AllOut
<1>9. ptr[t] \in AllOut
  BY <1>4, <1>8
<1>10. ASSUME ptr[t] \in K PROVE ptr[t] \notin AllOut'
  <2>1. ptr[t] \notin With(NULL, old[t], held[t])
    BY <1>1, <1>2, <1>4, <1>10 DEF Once
  <2>2. ASSUME NEW u \in Threads, u # t PROVE ptr[t] \notin Out(u)
    <3>1. ptr[t] \in Out(t)
      BY <1>4
    <3> QED BY <1>10, <2>2, <3>1 DEF UseBooks
  <2> QED BY <1>7, <2>1, <2>2
<1>11. \A y : y \in AllOut' => y \in AllOut
  BY <1>4, <1>7, <1>8
<1>12. \A y : y \in AllOut /\ y # ptr[t] => y \in AllOut'
  BY <1>4, <1>7, <1>8
<1> QED BY <1>5, <1>6, <1>9, <1>10, <1>11, <1>12

\* The first idle chunk of a pool, and of an extra list.
LEMMA PopPool ==
  ASSUME ListInv, NEW c \in PoolCaps, PoolBooks(c), pool[c].idle_num # 0
  PROVE  /\ Popped(pool[c].idle_chunks) \in PoolChunks(c)
         /\ Popped(pool[c].idle_chunks) \in Chunks
         /\ Popped(pool[c].idle_chunks) \notin AllOut
<1> DEFINE sl == pool[c].idle_chunks
           s == Contents(sl)
<1>1. chunks_num \in Nat /\ IsList(sl, chunks_num, PoolData(c))
  BY MmAssumption DEF ListInv
<1>2. /\ sl.length # 0
      /\ \A x : Has(s, x) => x \in PoolChunks(c) /\ x \notin AllOut
  BY DEF PoolBooks, PoolOk
<1>3. Popped(sl) = s[1] /\ Has(s, s[1])
  <2>1. s \in [1 .. sl.length -> PoolData(c)] /\ sl.length \in Nat
    <3> HIDE DEF sl
    <3> QED BY <1>1, HoldsIs
  <2>2. Popped(sl) = s[1]
    <3> HIDE DEF sl
    <3> QED BY <1>1, <1>2, PopIs
  <2>3. 1 \in DOMAIN s
    <3> HIDE DEF sl, s
    <3> QED BY <1>2, <2>1
  <2> HIDE DEF s
  <2> QED BY <2>2, <2>3 DEF Has
<1> QED BY <1>2, <1>3, PoolInChunks

\* What select_extra takes from an extra list is one of its chunks, of its class.
LEMMA PopExtra ==
  ASSUME ListInv, MemInv, NEW c \in Caps, elm_table[c].idle_num # 0
  PROVE  /\ elm_table[c] \in Elms
         /\ elm_table[c].chunks_list.length \in Nat \ {0}
         /\ Extra(c) \in [1 .. elm_table[c].chunks_list.length -> ExtraData]
         /\ Popped(elm_table[c].chunks_list) = Extra(c)[1]
         /\ Extra(c)[1] \in live \ Pools /\ hdr[Extra(c)[1]] = c
         /\ Extra(c)[1] \in Chunks
<1> DEFINE e == elm_table[c]
           sl == e.chunks_list
           s == Contents(sl)
<1>1. e # NoElm
  BY DEF NoElm
<1>2. e \in Elms
  BY <1>1 DEF ListInv
<1>3. /\ sl.capacity = sl.length
      /\ \A x : Has(s, x) => x \in live \ Pools /\ hdr[x] = c
  BY <1>1 DEF MemInv, ElmBooks, ElmOk, live
<1>4. sl.capacity \in Nat \ {0} /\ IsList(sl, sl.capacity, ExtraData)
  BY <1>2, ElmIs
<1>5. s \in [1 .. sl.length -> ExtraData] /\ sl.length \in Nat \ {0}
  <2>1. s \in [1 .. sl.length -> ExtraData]
    <3> HIDE DEF sl
    <3> QED BY <1>4, HoldsIs
  <2> QED BY <1>3, <1>4, <2>1
<1>6. Popped(sl) = s[1]
  <2> HIDE DEF sl
  <2> QED BY <1>4, <1>5, PopIs
<1>7. Has(s, s[1])
  <2> HIDE DEF sl, s
  <2> QED BY <1>5 DEF Has
<1>8. s[1] \in live \ Pools /\ hdr[s[1]] = c
  <2> HIDE DEF s
  <2> QED BY <1>3, <1>7
<1>9. s[1] \in Chunks
  BY <1>8 DEF MemInv, HdrBooks
<1> QED BY <1>2, <1>3, <1>5, <1>6, <1>8, <1>9 DEF Extra

\* A thread that does not move.
LEMMA ThreadStays ==
  ASSUME ThreadInv, UNCHANGED <<threadVars, missed>>, status' \in {"run", "fault"},
         calls' \in 0 .. MaxCalls
  PROVE  ThreadInv'
<1>1. /\ UNCHANGED <<pc, cap, ptr, old, node, held, missed>>
  BY DEF threadVars
<1> QED BY <1>1 DEF ThreadInv

\* On the way to a chunk a thread has none to free.
LEMMA HandlingWork ==
  ASSUME NEW b \in Allocating \cup {"idle"}, NEW a \in Allocating, NEW c, NEW k, NEW p, NEW o, NEW nd,
         NEW hs, Handling(b, c, p, o, nd, hs)
  PROVE  Handling(a, k, p, o, nd, hs) /\ a \notin Freeing
  BY DEF Handling, Allocating, AllocPool, AllocExtra, Freeing

\* dc_free starts on chunk x.
LEMMA FreeStartMoves ==
  ASSUME ListInv, ClassInv, ThreadInv, NEW t \in Threads, NEW x \in Chunks, NEW hs,
         FreeStart(t, x), old' = [old EXCEPT ![t] = NULL], held' = [held EXCEPT ![t] = hs],
         hs \subseteq held[t]
  PROVE  \E a \in {"find", "free_extra"} : \E nd \in 0 .. chunks_num :
            Moved(t, a, hdr[x], x, NULL, nd, hs) /\ Handling(a, hdr[x], x, NULL, nd, hs)
<1>1. Handling(pc[t], cap[t], ptr[t], old[t], node[t], held[t])
  BY DEF ThreadInv
<1>2. node[t] \in 0 .. chunks_num /\ hs \subseteq [chunk : Chunks, size : Sizes]
  BY <1>1 DEF Handling
<1>3. x # NULL
  BY DEF Chunks, NULL
<1>4. ASSUME NEW a \in {"find", "free_extra"}, NEW nd \in 0 .. chunks_num
      PROVE  Handling(a, hdr[x], x, NULL, nd, hs)
  BY <1>2, <1>3 DEF Handling, Allocating, AllocPool, AllocExtra, Freeing
<1>5. CASE hdr[x] \in PoolCaps
  <2> DEFINE nd == pool[hdr[x]].alloced_chunks.head
  <2>1. nd \in 0 .. chunks_num
    <3>1. /\ chunks_num \in Nat
          /\ pool[hdr[x]].alloced_chunks \in ListRecords(chunks_num, PoolData(hdr[x]))
      BY <1>5, MmAssumption DEF ListInv, IsList
    <3> QED BY <3>1, ListFields
  <2>2. Moved(t, "find", hdr[x], x, NULL, nd, hs)
    BY <1>5 DEF FreeStart, Moved, Goto
  <2> HIDE DEF nd
  <2> QED BY <1>4, <2>1, <2>2
<1>6. CASE hdr[x] \notin PoolCaps
  <2>1. Moved(t, "free_extra", hdr[x], x, NULL, node[t], hs)
    <3>1. node' = [node EXCEPT ![t] = node[t]]
      BY <1>6 DEF FreeStart, ThreadInv
    <3> QED BY <1>6, <3>1 DEF FreeStart, Moved, Goto
  <2> QED BY <1>2, <1>4, <2>1
<1> QED BY <1>5, <1>6

\* The parts of a thread that do not change.
LEMMA SamePlace ==
  ASSUME ThreadInv, ClassInv, NEW t
  PROVE  /\ cap = [cap EXCEPT ![t] = cap[t]] /\ ptr = [ptr EXCEPT ![t] = ptr[t]]
         /\ old = [old EXCEPT ![t] = old[t]] /\ node = [node EXCEPT ![t] = node[t]]
         /\ held = [held EXCEPT ![t] = held[t]]
  BY DEF ThreadInv, ClassInv

\* A call: what it does with chunks.
LEMMA ThreadCall ==
  ASSUME ListInv, MemInv, ThreadInv, status = "run", NEW t \in Threads, CallOf(t)
  PROVE  /\ ThreadInv'
         /\ Quiet(t) \/ UNCHANGED threadVars
         /\ UNCHANGED <<memVars, missed>>
<1>1. ClassInv /\ Handling(pc[t], cap[t], ptr[t], old[t], node[t], held[t])
  BY DEF MemInv, ThreadInv
<1>2. calls' \in 0 .. MaxCalls /\ missed \in BOOLEAN
  BY MmAssumption DEF CallOf, ThreadInv
<1>3. ASSUME Fault PROVE ThreadInv' /\ UNCHANGED <<threadVars, memVars, missed>>
  BY <1>2, <1>3, ThreadStays DEF Fault
<1>4. \A s : Look(s) \in Allocating
  BY DEF Look, Allocating, AllocPool, AllocExtra
<1>5. ASSUME NEW s \in Sizes, Alloc(t, s)
      PROVE  ThreadInv' /\ (Keeps(t) \/ UNCHANGED threadVars) /\ UNCHANGED <<memVars, missed>>
  <2>1. CASE BadCap(Cap(s))
    BY <1>3, <1>5, <2>1 DEF Alloc
  <2>2. CASE ~BadCap(Cap(s))
    <3> DEFINE a == Look(Cap(s))
               k == Cap(s)
    <3>1. /\ pc[t] = "idle" /\ UNCHANGED <<memVars, status, missed>>
          /\ Moved(t, a, k, ptr[t], old[t], node[t], held[t])
      <4>1. /\ pc[t] = "idle" /\ UNCHANGED <<memVars, status, missed>>
            /\ UNCHANGED <<ptr, old, node, held>>
            /\ pc' = [pc EXCEPT ![t] = a] /\ cap' = [cap EXCEPT ![t] = k]
        BY <1>5, <2>2 DEF Alloc, Goto
      <4> QED BY <1>1, <4>1, SamePlace DEF Moved
    <3>2. a \in Allocating
      BY <1>4
    <3> HIDE DEF a, k
    <3>3. Handling(a, k, ptr[t], old[t], node[t], held[t]) /\ a \notin Freeing
      BY <1>1, <3>1, <3>2, HandlingWork
    <3>4. ThreadInv'
      BY <1>1, <1>2, <3>1, <3>3, ThreadMoves
    <3> QED BY <3>1, <3>3, <3>4 DEF Keeps
  <2> QED BY <2>1, <2>2
<1>6. ASSUME NEW h \in held[t], NEW s \in Sizes, Realloc(t, h, s)
      PROVE  ThreadInv' /\ (Reallocs(t) \/ UNCHANGED threadVars) /\ UNCHANGED <<memVars, missed>>
  <2>1. CASE BadCap(Cap(s))
    BY <1>3, <1>6, <2>1 DEF Realloc
  <2>2. CASE ~BadCap(Cap(s))
    <3> DEFINE a == Look(Cap(s))
               k == Cap(s)
               hs == held[t] \ {h}
    <3>1. /\ pc[t] = "idle" /\ UNCHANGED <<memVars, status, missed>>
          /\ Moved(t, a, k, ptr[t], h.chunk, node[t], hs)
      <4>1. /\ pc[t] = "idle" /\ UNCHANGED <<memVars, status, missed>>
            /\ UNCHANGED <<ptr, node>> /\ held' = [held EXCEPT ![t] = hs]
            /\ pc' = [pc EXCEPT ![t] = a] /\ cap' = [cap EXCEPT ![t] = k]
            /\ old' = [old EXCEPT ![t] = h.chunk]
        BY <1>6, <2>2 DEF Realloc, Goto
      <4> QED BY <1>1, <4>1, SamePlace DEF Moved
    <3>2. a \in Allocating
      BY <1>4
    <3> HIDE DEF a, k
    <3>3. Handling(a, k, ptr[t], old[t], node[t], held[t]) /\ a \notin Freeing
      BY <1>1, <3>1, <3>2, HandlingWork
    <3>4. h.chunk \in Chunks
      BY <1>1 DEF Handling
    <3>5. Handling(a, k, ptr[t], h.chunk, node[t], hs)
      BY <3>2, <3>3, <3>4 DEF Handling, Allocating, AllocPool, AllocExtra
    <3> HIDE DEF hs
    <3>6. ThreadInv'
      BY <1>1, <1>2, <3>1, <3>5, ThreadMoves
    <3> QED BY <3>1, <3>2, <3>6 DEF Reallocs, hs
  <2> QED BY <2>1, <2>2
<1>7. ASSUME NEW h \in held[t], Free(t, h)
      PROVE  ThreadInv' /\ (Frees(t) \/ UNCHANGED threadVars) /\ UNCHANGED <<memVars, missed>>
  <2>1. CASE h.chunk \notin live \/ (hdr[h.chunk] \notin PoolCaps /\ IsNull(hdr[h.chunk]))
    BY <1>3, <1>7, <2>1 DEF Free
  <2>2. CASE ~(h.chunk \notin live \/ (hdr[h.chunk] \notin PoolCaps /\ IsNull(hdr[h.chunk])))
    <3> DEFINE hs == held[t] \ {h}
               x == h.chunk
    <3>1. /\ pc[t] = "idle" /\ UNCHANGED <<memVars, status, missed>> /\ FreeStart(t, x)
          /\ held' = [held EXCEPT ![t] = hs] /\ UNCHANGED old
      BY <1>7, <2>2 DEF Free
    <3>2. old[t] = NULL /\ x \in Chunks /\ hs \subseteq held[t]
      BY <1>1, <3>1 DEF Handling
    <3>3. old' = [old EXCEPT ![t] = NULL]
      BY <1>1, <3>1, <3>2, SamePlace
    <3> HIDE DEF hs, x
    <3>4. PICK a \in {"find", "free_extra"}, nd \in 0 .. chunks_num :
            Moved(t, a, hdr[x], x, NULL, nd, hs) /\ Handling(a, hdr[x], x, NULL, nd, hs)
      BY <1>1, <3>1, <3>2, <3>3, FreeStartMoves
    <3>5. ThreadInv'
      BY <1>1, <1>2, <3>1, <3>4, ThreadMoves
    <3>6. Frees(t)
      BY <3>1, <3>2, <3>4 DEF Frees, hs, x
    <3> QED BY <3>1, <3>5, <3>6
  <2> QED BY <2>1, <2>2
<1> QED BY <1>5, <1>6, <1>7 DEF CallOf, Quiet

\* The steps on the way to a chunk.
LEMMA ThreadSeeks ==
  ASSUME ListInv, MemInv, ThreadInv, status = "run", NEW t \in Threads, UNCHANGED calls,
         AllocAgain(t) \/ LookAgain(t) \/ MkEl(t) \/ FillEl(t) \/ ExpandEl(t) \/ Refill(t)
  PROVE  /\ ThreadInv'
         /\ Keeps(t) \/ UNCHANGED threadVars
         /\ UNCHANGED pool
<1>1. ClassInv /\ Handling(pc[t], cap[t], ptr[t], old[t], node[t], held[t])
  BY DEF MemInv, ThreadInv
<1>2. calls' \in 0 .. MaxCalls /\ missed \in BOOLEAN
  BY DEF ThreadInv
<1>3. ASSUME Fault PROVE ThreadInv' /\ UNCHANGED <<threadVars, pool>>
  <2>1. UNCHANGED <<threadVars, missed>> /\ status' = "fault" /\ UNCHANGED pool
    BY <1>3 DEF Fault, memVars
  <2> QED BY <1>2, <2>1, ThreadStays
<1>4. ASSUME NEW a \in Allocating, pc[t] \in Allocating, Goto(t, a),
             UNCHANGED <<pool, cap, ptr, old, node, held, status>>, missed' \in BOOLEAN
      PROVE  ThreadInv' /\ Keeps(t) /\ UNCHANGED pool
  <2>1. Moved(t, a, cap[t], ptr[t], old[t], node[t], held[t])
    BY <1>1, <1>4, SamePlace DEF Moved, Goto
  <2>2. Handling(a, cap[t], ptr[t], old[t], node[t], held[t]) /\ a \notin Freeing
    BY <1>1, <1>4, HandlingWork
  <2>3. ThreadInv'
    BY <1>1, <1>2, <1>4, <2>1, <2>2, ThreadMoves
  <2> QED BY <1>4, <2>1, <2>2, <2>3 DEF Keeps
<1>5. /\ \A s : Look(s) \in Allocating
      /\ {"dc_alloc", "idle_num", "mk_el", "fill", "expand_el", "refill", "select_extra"} \subseteq Allocating
  BY DEF Look, Allocating, AllocPool, AllocExtra
<1>6. ASSUME AllocAgain(t) PROVE ThreadInv' /\ Keeps(t) /\ UNCHANGED pool
  <2>1. /\ Goto(t, Look(cap[t])) /\ pc[t] = "dc_alloc"
        /\ UNCHANGED <<pool, cap, ptr, old, node, held, status>>
        /\ missed' \in BOOLEAN
    BY <1>2, <1>6 DEF AllocAgain, memVars
  <2> QED BY <1>4, <1>5, <2>1
<1>7. ASSUME LookAgain(t)
      PROVE  ThreadInv' /\ (Keeps(t) \/ UNCHANGED threadVars) /\ UNCHANGED pool
  <2>1. CASE IsNull(cap[t])
    BY <1>3, <1>7, <2>1 DEF LookAgain
  <2>2. CASE ~IsNull(cap[t])
    <3>1. /\ Goto(t, "expand_el") \/ Goto(t, "select_extra")
          /\ pc[t] = "idle_num" /\ UNCHANGED <<pool, cap, ptr, old, node, held, status>>
          /\ missed' \in BOOLEAN
      BY <1>2, <1>7, <2>2 DEF LookAgain, memVars
    <3> QED BY <1>4, <1>5, <3>1
  <2> QED BY <2>1, <2>2
<1>8. ASSUME MkEl(t) PROVE ThreadInv' /\ Keeps(t) /\ UNCHANGED pool
  <2>1. /\ Goto(t, "fill") \/ Goto(t, "select_extra")
        /\ pc[t] = "mk_el" /\ UNCHANGED <<pool, cap, ptr, old, node, held, status>>
        /\ missed' \in BOOLEAN
    BY <1>2, <1>8 DEF MkEl
  <2> QED BY <1>4, <1>5, <2>1
<1>9. ASSUME FillEl(t) PROVE ThreadInv' /\ Keeps(t) /\ UNCHANGED pool
  <2>1. /\ Goto(t, "select_extra")
        /\ pc[t] = "fill" /\ UNCHANGED <<pool, cap, ptr, old, node, held, status>>
        /\ missed' \in BOOLEAN
    BY <1>2, <1>9 DEF FillEl
  <2> QED BY <1>4, <1>5, <2>1
<1>10. ASSUME ExpandEl(t)
       PROVE  ThreadInv' /\ (Keeps(t) \/ UNCHANGED threadVars) /\ UNCHANGED pool
  <2>1. CASE elm_table[cap[t]] = NoElm
    BY <1>3, <1>10, <2>1 DEF ExpandEl
  <2>2. CASE elm_table[cap[t]] # NoElm
    <3>1. /\ Goto(t, "select_extra")
          /\ pc[t] = "expand_el" /\ UNCHANGED <<pool, cap, ptr, old, node, held, status>>
          /\ missed' \in BOOLEAN
      BY <1>2, <1>10, <2>2 DEF ExpandEl
    <3> QED BY <1>4, <1>5, <3>1
  <2> QED BY <2>1, <2>2
<1>11. ASSUME Refill(t) PROVE ThreadInv' /\ Keeps(t) /\ UNCHANGED pool
  <2>1. /\ Goto(t, "select_extra")
        /\ pc[t] = "refill" /\ UNCHANGED <<pool, cap, ptr, old, node, held, status>>
        /\ missed' \in BOOLEAN
    BY <1>2, <1>11 DEF Refill
  <2> QED BY <1>4, <1>5, <2>1
<1> QED BY <1>6, <1>7, <1>8, <1>9, <1>10, <1>11

\* The steps that find a chunk's node, or do not.
LEMMA ThreadFinds ==
  ASSUME ListInv, MemInv, ThreadInv, status = "run", NEW t \in Threads, UNCHANGED calls, Find(t)
  PROVE  ThreadInv' /\ Keeps(t) /\ UNCHANGED memVars
<1> DEFINE c == cap[t]
           sl == pool[c].alloced_chunks
<1>1. /\ ClassInv /\ Handling(pc[t], cap[t], ptr[t], old[t], node[t], held[t])
      /\ Classed(pc[t], cap[t], size[t], raw)
  BY DEF MemInv, ThreadInv, ClassInv
<1>2. /\ pc[t] = "find" /\ UNCHANGED <<memVars, cap, ptr, old, held, status>>
      /\ pc[t] \in Freeing
  BY DEF Find, Freeing
<1>3. c \in PoolCaps
  BY <1>1, <1>2 DEF Classed
<1>4. /\ chunks_num \in Nat /\ sl.data \in [1 .. chunks_num -> PoolData(c)]
      /\ sl.next \in [1 .. chunks_num -> 0 .. chunks_num]
  <2>1. chunks_num \in Nat /\ sl \in ListRecords(chunks_num, PoolData(c))
    BY <1>3, MmAssumption DEF ListInv, IsList
  <2> HIDE DEF sl
  <2> QED BY <2>1, ListFields
<1>5. missed' \in BOOLEAN
  BY DEF Find, ThreadInv
<1>6. ASSUME NEW a, NEW nd \in 0 .. chunks_num, a \in {"find", "free_pre_alloced", "free_extra"},
             a = "free_pre_alloced" => ptr[t] \in PoolChunks(c),
             pc' = [pc EXCEPT ![t] = a], node' = [node EXCEPT ![t] = nd]
      PROVE  ThreadInv' /\ Keeps(t)
  <2>1. Moved(t, a, cap[t], ptr[t], old[t], nd, held[t])
    BY <1>1, <1>2, <1>6, SamePlace DEF Moved
  <2>2. Handling(a, cap[t], ptr[t], old[t], nd, held[t])
    BY <1>1, <1>2, <1>6 DEF Handling, Allocating, AllocPool, AllocExtra, Freeing
  <2>3. calls' \in 0 .. MaxCalls /\ status' \in {"run", "fault"}
    BY <1>2 DEF ThreadInv
  <2>4. ThreadInv'
    BY <1>1, <1>5, <2>1, <2>2, <2>3, ThreadMoves
  <2> QED BY <1>2, <2>1, <2>4 DEF Keeps
<1>7. node[t] \in 0 .. chunks_num /\ ptr[t] # NULL
  BY <1>1, <1>2 DEF Handling
<1>8. CASE node[t] = NULL
  <2>1. pc' = [pc EXCEPT ![t] = "free_extra"] /\ node' = [node EXCEPT ![t] = node[t]]
    BY <1>1, <1>8, SamePlace DEF Find, Goto
  <2> QED BY <1>2, <1>6, <1>7, <2>1
<1>9. CASE node[t] # NULL /\ sl.data[node[t]] = ptr[t]
  <2>1. pc' = [pc EXCEPT ![t] = "free_pre_alloced"] /\ node' = [node EXCEPT ![t] = NULL]
    BY <1>9 DEF Find, Goto
  <2>2. node[t] \in 1 .. chunks_num /\ NULL \in 0 .. chunks_num
    BY <1>4, <1>7, <1>9 DEF NULL
  <2>3. sl.data[node[t]] \in PoolData(c)
    <3> HIDE DEF sl
    <3> QED BY <1>4, <2>2
  <2>4. ptr[t] \in PoolChunks(c)
    BY <1>7, <1>9, <2>3 DEF PoolData
  <2> QED BY <1>2, <1>6, <2>1, <2>2, <2>4
<1>10. CASE node[t] # NULL /\ sl.data[node[t]] # ptr[t]
  <2> DEFINE nd == sl.next[node[t]]
  <2>1. pc' = [pc EXCEPT ![t] = "find"] /\ node' = [node EXCEPT ![t] = nd]
    <3>1. node' = [node EXCEPT ![t] = nd] /\ pc' = pc
      BY <1>10 DEF Find
    <3> QED BY <1>1, <1>2, <3>1, UnchangedAt
  <2>2. node[t] \in 1 .. chunks_num
    BY <1>4, <1>7, <1>10 DEF NULL
  <2>3. nd \in 0 .. chunks_num
    <3> HIDE DEF sl
    <3> QED BY <1>4, <2>2
  <2> HIDE DEF nd
  <2> QED BY <1>2, <1>6, <2>1, <2>3
<1> QED BY <1>2, <1>8, <1>9, <1>10

\* dc_realloc goes on to free the old chunk.
LEMMA ThreadCopies ==
  ASSUME ListInv, MemInv, ThreadInv, status = "run", NEW t \in Threads, UNCHANGED calls, Memcpy(t)
  PROVE  /\ ThreadInv'
         /\ Copies(t) \/ UNCHANGED threadVars
         /\ UNCHANGED <<memVars, missed>>
<1>1. ClassInv /\ Handling(pc[t], cap[t], ptr[t], old[t], node[t], held[t])
  BY DEF MemInv, ThreadInv
<1>2. calls' \in 0 .. MaxCalls /\ missed \in BOOLEAN
  BY DEF ThreadInv
<1> DEFINE bad == \/ ~({old[t], ptr[t]} \subseteq live)
                  \/ POW2(hdr[old[t]]) > POW2(hdr[ptr[t]])
                  \/ hdr[old[t]] \notin PoolCaps /\ IsNull(hdr[old[t]])
<1>3. CASE bad
  <2>1. UNCHANGED <<threadVars, memVars, missed>> /\ status' = "fault"
    BY <1>3 DEF Memcpy, Fault
  <2> QED BY <1>2, <2>1, ThreadStays
<1>4. CASE ~bad
  <2>1. /\ pc[t] = "memcpy" /\ FreeStart(t, old[t]) /\ old' = [old EXCEPT ![t] = NULL]
        /\ UNCHANGED <<memVars, size, held, status, missed>>
    BY <1>4 DEF Memcpy
  <2>2. old[t] \in Chunks
    BY <1>1, <2>1 DEF Handling
  <2>3. held' = [held EXCEPT ![t] = held[t]] /\ held[t] \subseteq held[t]
    BY <1>1, <2>1, SamePlace
  <2> DEFINE x == old[t]
             hs == held[t]
  <2> HIDE DEF x, hs, bad
  <2>4. PICK a \in {"find", "free_extra"}, nd \in 0 .. chunks_num :
          Moved(t, a, hdr[x], x, NULL, nd, hs) /\ Handling(a, hdr[x], x, NULL, nd, hs)
    BY <1>1, <2>1, <2>2, <2>3, FreeStartMoves DEF x, hs
  <2>5. ThreadInv'
    BY <1>1, <1>2, <2>1, <2>4, ThreadMoves
  <2>6. Copies(t)
    BY <2>1, <2>4 DEF Copies, hs, x
  <2> QED BY <2>1, <2>5, <2>6
<1> QED BY <1>3, <1>4

\* dc_alloc returns x.
LEMMA ThreadGiven ==
  ASSUME MemInv, ThreadInv, status = "run", NEW t \in Threads, UNCHANGED calls, NEW x \in Chunks,
         GiveChunk(t, x), pc[t] \in Allocating
  PROVE  ThreadInv' /\ Gives(t, x)
<1>1. /\ ClassInv /\ Handling(pc[t], cap[t], ptr[t], old[t], node[t], held[t])
      /\ Classed(pc[t], cap[t], size[t], raw)
  BY DEF MemInv, ThreadInv, ClassInv
<1>2. calls' \in 0 .. MaxCalls /\ missed' \in BOOLEAN /\ status' \in {"run", "fault"}
  BY DEF ThreadInv, GiveChunk
<1> DEFINE p == IF old[t] = NULL THEN NULL ELSE x
           a == IF old[t] = NULL THEN "idle" ELSE "memcpy"
           g == [chunk |-> x, size |-> size[t]]
           hs == held[t] \cup {g}
<1>3. size[t] \in Sizes /\ ptr[t] = NULL
  BY <1>1 DEF Classed, Handling
<1>4. Moved(t, a, 0, p, old[t], node[t], hs)
  <2>1. /\ held' = [held EXCEPT ![t] = hs] /\ cap' = [cap EXCEPT ![t] = 0] /\ UNCHANGED <<old, node>>
    BY DEF GiveChunk
  <2>2. CASE old[t] = NULL
    <3>1. pc' = [pc EXCEPT ![t] = a] /\ ptr' = ptr /\ p = ptr[t]
      BY <1>3, <2>2 DEF GiveChunk, Goto
    <3> HIDE DEF a, p, hs
    <3> QED BY <1>1, <2>1, <3>1, SamePlace DEF Moved
  <2>3. CASE old[t] # NULL
    <3>1. pc' = [pc EXCEPT ![t] = a] /\ ptr' = [ptr EXCEPT ![t] = p]
      BY <2>3 DEF GiveChunk, Goto
    <3> HIDE DEF a, p, hs
    <3> QED BY <1>1, <2>1, <3>1, SamePlace DEF Moved
  <2> QED BY <2>2, <2>3
<1>5. Handling(a, 0, p, old[t], node[t], hs)
  <2>1. g \in [chunk : Chunks, size : Sizes] /\ g.chunk = x
    BY <1>3
  <2> HIDE DEF g
  <2>2. hs \subseteq [chunk : Chunks, size : Sizes] /\ \E h \in hs : h.chunk = x
    BY <1>1, <2>1 DEF Handling
  <2>3. old[t] \in Chunks \cup {NULL} /\ node[t] \in 0 .. chunks_num
    BY <1>1 DEF Handling
  <2> HIDE DEF hs
  <2> QED BY <2>2, <2>3 DEF Handling, Allocating, AllocPool, AllocExtra, Freeing
<1>6. a \in {"idle", "memcpy"}
  OBVIOUS
<1> HIDE DEF a, hs
<1>7. ThreadInv'
  BY <1>1, <1>2, <1>4, <1>5, ThreadMoves
<1>8. Gives(t, x)
  BY <1>3, <1>4, <1>6 DEF Gives, hs
<1> QED BY <1>7, <1>8

\* dc_free returns.
LEMMA ThreadEnds ==
  ASSUME MemInv, ThreadInv, status = "run", NEW t \in Threads, UNCHANGED calls, FreeEnd(t),
         pc[t] \in Freeing
  PROVE  ThreadInv' /\ Ends(t)
<1>1. ClassInv /\ Handling(pc[t], cap[t], ptr[t], old[t], node[t], held[t])
  BY DEF MemInv, ThreadInv
<1>2. calls' \in 0 .. MaxCalls /\ missed' \in BOOLEAN /\ status' \in {"run", "fault"}
  BY DEF ThreadInv, FreeEnd
<1>3. Moved(t, "idle", 0, NULL, old[t], node[t], held[t])
  BY <1>1, SamePlace DEF FreeEnd, Moved, Goto
<1>4. Handling("idle", 0, NULL, old[t], node[t], held[t])
  BY <1>1 DEF Handling, Allocating, AllocPool, AllocExtra, Freeing
<1>5. ThreadInv'
  BY <1>1, <1>2, <1>3, <1>4, ThreadMoves
<1> QED BY <1>3, <1>5 DEF Ends

(***************************************************************************)
(* What the pools hold                                                     *)
(***************************************************************************)

\* A sequence without its first member holds the others.
LEMMA RestSame ==
  ASSUME NEW m \in Nat \ {0}, NEW D, NEW s \in [1 .. m -> D], Distinct(s)
  PROVE  /\ Distinct(Rest(m, s)) /\ Has(s, s[1])
         /\ \A x : Has(Rest(m, s), x) <=> Has(s, x) /\ x # s[1]
<1> DEFINE r == Rest(m, s)
<1>1. /\ DOMAIN r = 1 .. m - 1 /\ DOMAIN s = 1 .. m
      /\ \A k \in 1 .. m - 1 : r[k] = s[k + 1] /\ k + 1 \in 1 .. m /\ k + 1 # 1
  BY DEF Rest
<1> HIDE DEF r
<1>2. \A k \in 1 .. m : k # 1 => k - 1 \in 1 .. m - 1 /\ (k - 1) + 1 = k
  OBVIOUS
<1>3. 1 \in 1 .. m
  OBVIOUS
<1>4. Distinct(r)
  <2>1. ASSUME NEW i \in 1 .. m - 1, NEW j \in 1 .. m - 1, r[i] = r[j] PROVE i = j
    <3>1. i + 1 = j + 1
      BY <1>1, <2>1 DEF Distinct
    <3> QED BY <3>1
  <2> QED BY <1>1, <2>1 DEF Distinct
<1>5. ASSUME NEW x PROVE Has(r, x) <=> Has(s, x) /\ x # s[1]
  <2>1. ASSUME NEW k \in 1 .. m - 1, r[k] = x PROVE Has(s, x) /\ x # s[1]
    BY <1>1, <1>3, <2>1 DEF Has, Distinct
  <2>2. ASSUME NEW k \in 1 .. m, s[k] = x, x # s[1] PROVE \E i \in 1 .. m - 1 : r[i] = x
    <3>1. k # 1
      BY <2>2
    <3>2. r[k - 1] = s[k]
      BY <1>1, <1>2, <3>1
    <3> QED BY <1>2, <2>2, <3>1, <3>2
  <2> QED BY <1>1, <2>1, <2>2 DEF Has
<1>6. Has(s, s[1])
  BY <1>1, <1>3 DEF Has
<1> QED BY <1>4, <1>5, <1>6 DEF r

\* A sequence with x in front holds x besides.
LEMMA OntoSame ==
  ASSUME NEW m \in Nat, NEW D, NEW s \in [1 .. m -> D], Distinct(s), NEW x, ~Has(s, x)
  PROVE  /\ Distinct(Onto(x, m, s))
         /\ \A y : Has(Onto(x, m, s), y) <=> Has(s, y) \/ y = x
<1> DEFINE r == Onto(x, m, s)
<1>1. /\ DOMAIN r = 1 .. m + 1 /\ DOMAIN s = 1 .. m
      /\ \A k \in 1 .. m + 1 : r[k] = IF k = 1 THEN x ELSE s[k - 1]
  BY DEF Onto
<1> HIDE DEF r
<1>2. /\ \A k \in 1 .. m + 1 : k # 1 => k - 1 \in 1 .. m
      /\ \A k \in 1 .. m : k + 1 \in 1 .. m + 1 /\ k + 1 # 1 /\ (k + 1) - 1 = k
      /\ 1 \in 1 .. m + 1
  OBVIOUS
<1>3. ASSUME NEW i \in 1 .. m + 1, NEW j \in 1 .. m + 1, r[i] = r[j] PROVE i = j
  <2>1. CASE i # 1 /\ j # 1
    <3>1. i - 1 = j - 1
      BY <1>1, <1>2, <1>3, <2>1 DEF Distinct
    <3> QED BY <3>1
  <2>2. CASE i = 1 /\ j # 1
    BY <1>1, <1>2, <1>3, <2>2 DEF Has
  <2>3. CASE i # 1 /\ j = 1
    BY <1>1, <1>2, <1>3, <2>3 DEF Has
  <2> QED BY <2>1, <2>2, <2>3
<1>4. ASSUME NEW y PROVE Has(r, y) <=> Has(s, y) \/ y = x
  <2>1. ASSUME NEW k \in 1 .. m, s[k] = y PROVE \E i \in 1 .. m + 1 : r[i] = y
    <3>1. r[k + 1] = s[k]
      BY <1>1, <1>2
    <3> QED BY <1>2, <2>1, <3>1
  <2>2. ASSUME NEW i \in 1 .. m + 1, r[i] = y PROVE y = x \/ \E k \in 1 .. m : s[k] = y
    BY <1>1, <1>2, <2>2
  <2>3. r[1] = x
    BY <1>1, <1>2
  <2> QED BY <1>1, <1>2, <2>1, <2>2, <2>3 DEF Has
<1> QED BY <1>1, <1>3, <1>4 DEF Distinct, r

\* select_pre_alloced moves the first idle chunk to the allocated ones.
LEMMA PoolTakes ==
  ASSUME NEW n \in Nat \ {0}, n = chunks_num, NEW c \in PoolCaps, NEW p, NEW out,
         NEW i, NEW l, i = p.idle_chunks, l = p.alloced_chunks,
         IsList(i, n, PoolData(c)), IsList(l, n, PoolData(c)),
         PoolOk(c, p, out), p.idle_num # 0, NEW more, \A y : y \in more => y \in out \/ y = Popped(i),
         NEW q, q.idle_num = p.idle_num - 1, q.idle_chunks = pop(i),
         q.alloced_chunks = push(Popped(i), l)
  PROVE  /\ PoolOk(c, q, more) /\ Popped(i) \in PoolChunks(c)
         /\ \A y : Has(Contents(q.alloced_chunks), y) <=> Has(Contents(l), y) \/ y = Popped(i)
<1> DEFINE s == Contents(i)
           r == Contents(l)
           x == Popped(i)
           m == i.length
           k == l.length
<1>1. /\ p.idle_num = m /\ m + k = n /\ Distinct(s) /\ Distinct(r)
      /\ \A y : Has(s, y) \/ Has(r, y) => y \in PoolChunks(c)
      /\ \A y \in PoolChunks(c) : Has(s, y) <=> ~Has(r, y)
      /\ \A y \in PoolChunks(c) : y \in out => Has(r, y)
  BY DEF PoolOk
<1>2. m \in 0 .. n /\ k \in 0 .. n /\ s \in [1 .. m -> PoolData(c)] /\ r \in [1 .. k -> PoolData(c)]
  BY HoldsIs
<1>3. m # 0 /\ m \in Nat \ {0} /\ k \in Nat /\ k # n
  BY <1>1, <1>2, SMTT(60)
<1>4. /\ pop(i).length = m - 1 /\ Contents(pop(i)) = Rest(m, s) /\ x = s[1] /\ x \in PoolData(c)
  BY <1>3, PopIs
<1>5. push(x, l).length = k + 1 /\ Contents(push(x, l)) = Onto(x, k, r)
  BY <1>3, <1>4, PushIs
<1> HIDE DEF s, r, x, m, k
<1>6. /\ Distinct(Rest(m, s)) /\ Has(s, x)
      /\ \A y : Has(Rest(m, s), y) <=> Has(s, y) /\ y # x
  BY <1>1, <1>2, <1>3, <1>4, RestSame, ZenonT(60)
<1>7. x \in PoolChunks(c) /\ ~Has(r, x)
  BY <1>1, <1>6
<1>8. /\ Distinct(Onto(x, k, r))
      /\ \A y : Has(Onto(x, k, r), y) <=> Has(r, y) \/ y = x
  <2>1. k \in Nat /\ r \in [1 .. k -> PoolData(c)] /\ Distinct(r) /\ ~Has(r, x)
    BY <1>1, <1>2, <1>3, <1>7
  <2> QED BY ONLY <2>1, OntoSame
<1>9. m - 1 + (k + 1) = n
  BY <1>1, <1>2
<1> DEFINE si == Contents(q.idle_chunks)
           ri == Contents(q.alloced_chunks)
<1>10. si = Rest(m, s) /\ ri = Onto(x, k, r) /\ q.idle_chunks.length = m - 1
       /\ q.alloced_chunks.length = k + 1 /\ q.idle_num = m - 1
  BY <1>1, <1>4, <1>5 DEF x
<1> HIDE DEF si, ri
<1>11. /\ \A y : Has(si, y) \/ Has(ri, y) => y \in PoolChunks(c)
       /\ \A y \in PoolChunks(c) : Has(si, y) <=> ~Has(ri, y)
  BY <1>1, <1>6, <1>7, <1>8, <1>10
<1>12. \A y \in PoolChunks(c) : y \in more => Has(ri, y)
  BY <1>1, <1>8, <1>10 DEF x
<1>13. Distinct(si) /\ Distinct(ri)
  BY <1>6, <1>8, <1>10
<1>14. q.idle_num = q.idle_chunks.length /\ q.idle_chunks.length + q.alloced_chunks.length = chunks_num
  BY <1>9, <1>10
<1>15. PoolOk(c, q, more)
  BY <1>11, <1>12, <1>13, <1>14 DEF PoolOk, si, ri
<1>16. \A y : Has(ri, y) <=> Has(r, y) \/ y = x
  BY <1>8, <1>10
<1> QED BY <1>7, <1>15, <1>16 DEF x, ri, r

\* dc_free moves chunk x back to the idle ones.
LEMMA PoolReturns ==
  ASSUME NEW c \in PoolCaps, NEW p, NEW out, NEW x \in PoolChunks(c), x \in out,
         IsList(p.idle_chunks, chunks_num, PoolData(c)),
         IsList(p.alloced_chunks, chunks_num, PoolData(c)), PoolOk(c, p, out),
         NEW less, \A y : y \in less => y \in out /\ y # x,
         NEW q, q.idle_num = p.idle_num + 1,
         q.idle_chunks = push(Popped(mv2head(x, p.alloced_chunks)), p.idle_chunks),
         q.alloced_chunks = pop(mv2head(x, p.alloced_chunks))
  PROVE  /\ PoolOk(c, q, less) /\ Popped(mv2head(x, p.alloced_chunks)) = x
         /\ \A y : Has(Contents(q.alloced_chunks), y) <=>
                   Has(Contents(p.alloced_chunks), y) /\ y # x
<1> SUFFICES ASSUME NEW n \in Nat \ {0}, n = chunks_num,
                    NEW i, NEW l, i = p.idle_chunks, l = p.alloced_chunks,
                    IsList(i, n, PoolData(c)), IsList(l, n, PoolData(c)),
                    NEW f, f = mv2head(x, l),
                    q.idle_chunks = push(Popped(f), i), q.alloced_chunks = pop(f)
             PROVE  /\ PoolOk(c, q, less) /\ Popped(f) = x
                    /\ \A y : Has(Contents(q.alloced_chunks), y) <=> Has(Contents(l), y) /\ y # x
  BY MmAssumption
<1> DEFINE s == Contents(i)
           r == Contents(l)
           g == Contents(f)
           m == i.length
           k == l.length
<1>1. /\ p.idle_num = m /\ m + k = n /\ Distinct(s) /\ Distinct(r)
      /\ \A y : Has(s, y) \/ Has(r, y) => y \in PoolChunks(c)
      /\ \A y \in PoolChunks(c) : Has(s, y) <=> ~Has(r, y)
      /\ \A y \in PoolChunks(c) : y \in out => Has(r, y)
  BY DEF PoolOk
<1>2. m \in 0 .. n /\ k \in 0 .. n /\ s \in [1 .. m -> PoolData(c)] /\ r \in [1 .. k -> PoolData(c)]
  BY HoldsIs
<1>3. Has(r, x)
  BY <1>1
<1>4. /\ IsList(f, n, PoolData(c)) /\ f.length = k
      /\ \/ \A j \in 1 .. k : r[j] # x
         \/ \E j \in 1 .. k : r[j] = x /\ g = ToFront(k, r, j)
  BY MoveIs
<1> HIDE DEF s, r, g, m, k
<1>5. PICK j \in 1 .. k : r[j] = x /\ g = ToFront(k, r, j)
  <2>1. DOMAIN r = 1 .. k
    BY <1>2
  <2> QED BY <1>3, <1>4, <2>1 DEF Has
<1>6. k \in Nat \ {0} /\ m \in Nat /\ m # n /\ k # 0
  BY <1>1, <1>2, <1>5
<1>7. g \in [1 .. k -> PoolData(c)] /\ Distinct(g) /\ \A y : Has(g, y) <=> Has(r, y)
  BY <1>1, <1>2, <1>5, <1>6, FrontSame
<1>8. g[1] = x
  <2>1. 1 \in 1 .. k
    BY <1>6
  <2> QED BY <1>5, <2>1 DEF ToFront
<1>9. /\ pop(f).length = k - 1 /\ Contents(pop(f)) = Rest(k, g) /\ Popped(f) = x /\ x \in PoolData(c)
  <2>1. /\ pop(f).length = f.length - 1 /\ Popped(f) = Contents(f)[1]
        /\ Contents(pop(f)) = Rest(f.length, Contents(f))
    BY <1>4, <1>6, PopIs
  <2> QED BY <1>4, <1>8, <2>1 DEF g, PoolData
<1>10. push(x, i).length = m + 1 /\ Contents(push(x, i)) = Onto(x, m, s)
  <2>1. /\ push(x, i).length = i.length + 1
        /\ Contents(push(x, i)) = Onto(x, i.length, Contents(i))
    BY <1>6, <1>9, PushIs DEF m
  <2> QED BY <2>1 DEF m, s
<1>11. /\ Distinct(Rest(k, g))
       /\ \A y : Has(Rest(k, g), y) <=> Has(r, y) /\ y # x
  BY <1>6, <1>7, <1>8, RestSame
<1>12. ~Has(s, x)
  BY <1>1, <1>3
<1>13. /\ Distinct(Onto(x, m, s))
       /\ \A y : Has(Onto(x, m, s), y) <=> Has(s, y) \/ y = x
  BY <1>1, <1>2, <1>6, <1>12, OntoSame
<1> DEFINE si == Contents(q.idle_chunks)
           ri == Contents(q.alloced_chunks)
<1>14. si = Onto(x, m, s) /\ ri = Rest(k, g) /\ q.idle_chunks.length = m + 1
       /\ q.alloced_chunks.length = k - 1 /\ q.idle_num = m + 1
  BY <1>1, <1>9, <1>10
<1> HIDE DEF si, ri
<1>15. /\ \A y : Has(si, y) \/ Has(ri, y) => y \in PoolChunks(c)
       /\ \A y \in PoolChunks(c) : Has(si, y) <=> ~Has(ri, y)
  BY <1>1, <1>11, <1>13, <1>14
<1>16. \A y \in PoolChunks(c) : y \in less => Has(ri, y)
  BY <1>1, <1>11, <1>14
<1>17. Distinct(si) /\ Distinct(ri)
  BY <1>11, <1>13, <1>14
<1>18. q.idle_num = q.idle_chunks.length /\ q.idle_chunks.length + q.alloced_chunks.length = chunks_num
  <2>1. m + 1 + (k - 1) = n
    BY <1>1, <1>2
  <2> QED BY <1>14, <2>1
<1>19. PoolOk(c, q, less)
  BY <1>15, <1>16, <1>17, <1>18 DEF PoolOk, si, ri
<1>20. \A y : Has(ri, y) <=> Has(r, y) /\ y # x
  BY <1>11, <1>14
<1> QED BY <1>9, <1>19, <1>20 DEF ri, r

\* What threads have when none moves.
LEMMA UseStays ==
  ASSUME UNCHANGED threadVars, NEW K, UseBooks(K), Freed(K)
  PROVE  /\ UseBooks(K)' /\ ClassKept(K)
         /\ \A x : x \in AllOut' <=> x \in AllOut
<1>1. UNCHANGED <<pc, cap, ptr, old, held>>
  BY DEF threadVars
<1>2. /\ \A t \in Threads : Out(t)' = Out(t)
      /\ AllOut' = AllOut
  BY <1>1 DEF Out, AllOut
<1>3. UseBooks(K)'
  BY <1>1, <1>2 DEF UseBooks
<1>4. ClassKept(K)
  BY <1>1 DEF ClassKept, Freed
<1> QED BY <1>2, <1>3, <1>4

\* Who frees a chunk of K knows its class, if the step leaves the words before them.
LEMMA FreedKeeps ==
  ASSUME NEW K, ClassKept(K),
         \A u \in Threads : pc'[u] \in Freeing /\ ptr'[u] \in K => hdr'[ptr'[u]] = hdr[ptr'[u]]
  PROVE  Freed(K)'
  BY DEF ClassKept, Freed

\* The class of a pool's chunk does not change.
LEMMA PoolHdr ==
  ASSUME HdrBooks, HdrBooks', NEW x \in Pools
  PROVE  hdr'[x] = hdr[x] /\ x \in live
<1>1. PICK c \in PoolCaps : x \in PoolChunks(c)
  BY DEF Pools
<1>2. hdr[x] = c /\ x \in live
  BY <1>1 DEF HdrBooks
<1>3. hdr'[x] = c
  BY <1>1 DEF HdrBooks
<1> QED BY <1>2, <1>3

\* The pools' books with other chunks in use.
LEMMA PoolKeeps ==
  ASSUME \A c \in PoolCaps : PoolBooks(c), UNCHANGED pool,
         \A x \in Pools : x \in AllOut' => x \in AllOut
  PROVE  \A c \in PoolCaps : PoolBooks(c)'
<1>1. ASSUME NEW c \in PoolCaps PROVE PoolOk(c, pool[c], AllOut')
  <2>1. \A x \in PoolChunks(c) : x \in Pools
    BY DEF Pools
  <2>2. PoolOk(c, pool[c], AllOut)
    BY DEF PoolBooks
  <2> QED BY <2>1, <2>2 DEF PoolOk
<1> QED BY <1>1 DEF PoolBooks

\* A step that leaves the pools and what threads have of them.
LEMMA PoolQuiet ==
  ASSUME MemInv, PoolInv, HdrBooks', ThreadInv', UNCHANGED pool,
         (\E t \in Threads : Quiet(t)) \/ UNCHANGED threadVars
  PROVE  PoolInv'
<1>1. ClassInv /\ HdrBooks /\ ThreadInv /\ UseBooks(Pools) /\ Freed(Pools)
  BY DEF MemInv, PoolInv
<1>2. /\ UseBooks(Pools)' /\ ClassKept(Pools)
      /\ \A x : x \in AllOut' <=> x \in AllOut
  BY <1>1, UseQuiet, UseStays
<1>3. Freed(Pools)'
  BY <1>1, <1>2, PoolHdr, FreedKeeps
<1>4. \A c \in PoolCaps : PoolBooks(c)'
  BY <1>2, PoolKeeps DEF PoolInv
<1> QED BY <1>2, <1>3, <1>4 DEF PoolInv

\* A pool gets other lists.
LEMMA PoolSwap ==
  ASSUME ListInv, NEW c \in PoolCaps, NEW p, pool' = [pool EXCEPT ![c] = p],
         \A d \in PoolCaps : PoolBooks(d), PoolOk(c, p, AllOut'),
         \A x \in Pools : x \notin PoolChunks(c) /\ x \in AllOut' => x \in AllOut
  PROVE  \A d \in PoolCaps : PoolBooks(d)'
<1>1. ASSUME NEW d \in PoolCaps PROVE PoolOk(d, pool'[d], AllOut')
  <2>1. pool'[d] = IF d = c THEN p ELSE pool[d]
    BY DEF ListInv
  <2>2. CASE d = c
    BY <2>1, <2>2
  <2>3. CASE d # c
    <3>1. \A x \in PoolChunks(d) : x \in Pools /\ x \notin PoolChunks(c)
      BY <2>3, PoolsApart DEF Pools
    <3>2. PoolOk(d, pool[d], AllOut)
      BY DEF PoolBooks
    <3>3. PoolOk(d, pool[d], AllOut')
      BY <3>1, <3>2 DEF PoolOk
    <3> QED BY <2>1, <2>3, <3>3
  <2> QED BY <2>2, <2>3
<1> QED BY <1>1 DEF PoolBooks

\* select_pre_alloced: a chunk of the pool.
LEMMA PoolTake ==
  ASSUME ListInv, MemInv, PoolInv, HdrBooks', status = "run", NEW t \in Threads, UNCHANGED calls,
         SelectPreAlloced(t), pool[cap[t]].idle_num # 0,
         NEW x, x = Popped(pool[cap[t]].idle_chunks)
  PROVE  /\ PoolInv' /\ x \in Pools /\ x \in Chunks /\ Gives(t, x)
         /\ cap[t] \in PoolCaps /\ UNCHANGED <<elm_table, hdr, raw, missed>>
         /\ \A c \in PoolCaps : \A y : Has(Alloced(c)', y) => Has(Alloced(c), y) \/ y = x
<1> DEFINE c == cap[t]
           i == pool[c].idle_chunks
           l == pool[c].alloced_chunks
           q == [idle_num |-> pool[c].idle_num - 1, idle_chunks |-> pop(i),
                 alloced_chunks |-> push(x, l)]
<1>1. ClassInv /\ HdrBooks /\ ThreadInv /\ UseBooks(Pools) /\ Freed(Pools)
  BY DEF MemInv, PoolInv
<1>2. /\ pc[t] = "select_pre_alloced" /\ pool' = [pool EXCEPT ![c] = q]
      /\ GiveChunk(t, x) /\ UNCHANGED elm_table
  BY DEF SelectPreAlloced
<1>3. c \in PoolCaps
  BY <1>1, <1>2 DEF ClassInv, Classed, AllocPool
<1>4. PoolBooks(c) /\ PoolOk(c, pool[c], AllOut) /\ pool[c].idle_num # 0
  BY <1>3 DEF PoolInv, PoolBooks
<1>5. x \in PoolChunks(c) /\ x \in Chunks /\ x \notin AllOut
  BY <1>3, <1>4, PopPool
<1>6. x \in Pools
  BY <1>3, <1>5 DEF Pools
<1>7. pc[t] \in Allocating
  BY <1>2 DEF Allocating, AllocPool
<1>8. ThreadInv' /\ Gives(t, x)
  BY <1>1, <1>2, <1>5, <1>7, ThreadGiven
<1>9. /\ UseBooks(Pools)' /\ ClassKept(Pools)
      /\ \A y : y \in AllOut' <=> y \in AllOut \/ y = x
  BY <1>1, <1>5, <1>8, UseGives
<1>10. Freed(Pools)'
  BY <1>1, <1>9, PoolHdr, FreedKeeps
<1>11. /\ PoolOk(c, q, AllOut')
       /\ \A y : Has(Contents(q.alloced_chunks), y) <=> Has(Contents(l), y) \/ y = x
  <2>1. /\ chunks_num \in Nat \ {0}
        /\ IsList(i, chunks_num, PoolData(c)) /\ IsList(l, chunks_num, PoolData(c))
    BY <1>3, MmAssumption DEF ListInv
  <2> DEFINE p == pool[c]
             out == AllOut
             more == AllOut'
  <2>2. /\ q.idle_num = p.idle_num - 1 /\ q.idle_chunks = pop(i)
        /\ q.alloced_chunks = push(Popped(i), l)
        /\ i = p.idle_chunks /\ l = p.alloced_chunks /\ x = Popped(i)
        /\ PoolOk(c, p, out) /\ p.idle_num # 0
        /\ \A y : y \in more => y \in out \/ y = Popped(i)
    BY <1>4, <1>9
  <2> HIDE DEF q, p, out, more, i, l, c
  <2>3. /\ PoolOk(c, q, more)
        /\ \A y : Has(Contents(q.alloced_chunks), y) <=> Has(Contents(l), y) \/ y = Popped(i)
    BY <1>3, <2>1, <2>2, PoolTakes
  <2> QED BY <2>2, <2>3 DEF more
<1> HIDE DEF q
<1>12. \A d \in PoolCaps : PoolBooks(d)'
  <2>1. \A y \in Pools : y \notin PoolChunks(c) /\ y \in AllOut' => y \in AllOut
    BY <1>5, <1>9
  <2> HIDE DEF c
  <2> QED BY <1>2, <1>3, <1>11, <2>1, PoolSwap DEF PoolInv
<1>13. PoolInv'
  BY <1>8, <1>9, <1>10, <1>12 DEF PoolInv
<1>14. ASSUME NEW d \in PoolCaps, NEW y, Has(Alloced(d)', y) PROVE Has(Alloced(d), y) \/ y = x
  <2>1. pool'[d] = IF d = c THEN q ELSE pool[d]
    BY <1>2 DEF ListInv
  <2>2. CASE d = c
    BY <1>11, <1>14, <2>1, <2>2 DEF Alloced
  <2>3. CASE d # c
    BY <1>14, <2>1, <2>3 DEF Alloced
  <2> QED BY <2>2, <2>3
<1>15. UNCHANGED <<elm_table, hdr, raw, missed>>
  BY <1>2 DEF GiveChunk
<1> QED BY <1>3, <1>5, <1>6, <1>8, <1>13, <1>14, <1>15

\* dc_free puts a chunk back into its pool.
LEMMA PoolReturn ==
  ASSUME ListInv, MemInv, PoolInv, HdrBooks', status = "run", NEW t \in Threads, UNCHANGED calls,
         FreePreAlloced(t), NEW x, x = ptr[t]
  PROVE  /\ PoolInv' /\ x \in Pools /\ Ends(t)
         /\ UNCHANGED <<elm_table, hdr, raw, missed>>
         /\ \A c \in PoolCaps : \A y : Has(Alloced(c)', y) => Has(Alloced(c), y) /\ y # x
<1> DEFINE c == cap[t]
           i == pool[c].idle_chunks
           l == pool[c].alloced_chunks
           f == mv2head(x, l)
           q == [idle_num |-> pool[c].idle_num + 1, idle_chunks |-> push(Popped(f), i),
                 alloced_chunks |-> pop(f)]
<1>1. /\ ClassInv /\ HdrBooks /\ ThreadInv /\ UseBooks(Pools) /\ Freed(Pools)
      /\ Handling(pc[t], cap[t], ptr[t], old[t], node[t], held[t])
  BY DEF MemInv, PoolInv, ThreadInv
<1>2. /\ pc[t] = "free_pre_alloced" /\ pool' = [pool EXCEPT ![c] = q]
      /\ FreeEnd(t) /\ UNCHANGED <<elm_table, hdr>>
  BY DEF FreePreAlloced
<1>3. c \in PoolCaps /\ x \in PoolChunks(c) /\ pc[t] \in Freeing
  BY <1>1, <1>2 DEF ClassInv, Classed, Handling, Freeing
<1>4. PoolOk(c, pool[c], AllOut)
  BY <1>3 DEF PoolInv, PoolBooks
<1>5. x \in Pools
  BY <1>3 DEF Pools
<1>6. ThreadInv' /\ Ends(t)
  <2>1. FreeEnd(t)
    BY <1>2
  <2> QED BY <1>1, <1>3, <2>1, ThreadEnds
<1>7. /\ UseBooks(Pools)' /\ ClassKept(Pools)
      /\ \A y : y \in AllOut' => y \in AllOut
      /\ x \in AllOut /\ x \notin AllOut'
  BY <1>1, <1>5, <1>6, UseEnds
<1>8. Freed(Pools)'
  BY <1>1, <1>7, PoolHdr, FreedKeeps
<1>9. /\ PoolOk(c, q, AllOut')
      /\ \A y : Has(Contents(q.alloced_chunks), y) <=> Has(Contents(l), y) /\ y # x
  <2>1. /\ chunks_num \in Nat \ {0}
        /\ IsList(i, chunks_num, PoolData(c)) /\ IsList(l, chunks_num, PoolData(c))
    BY <1>3, MmAssumption DEF ListInv
  <2> DEFINE p == pool[c]
             out == AllOut
             less == AllOut'
  <2>2. /\ q.idle_num = p.idle_num + 1 /\ l = p.alloced_chunks
        /\ q.idle_chunks = push(Popped(mv2head(x, p.alloced_chunks)), p.idle_chunks)
        /\ q.alloced_chunks = pop(mv2head(x, p.alloced_chunks))
        /\ IsList(p.idle_chunks, chunks_num, PoolData(c))
        /\ IsList(p.alloced_chunks, chunks_num, PoolData(c))
        /\ PoolOk(c, p, out) /\ x \in out
        /\ \A y : y \in less => y \in out /\ y # x
    BY <1>4, <1>7, <2>1
  <2> HIDE DEF q, p, out, less, i, l, f, c
  <2>3. /\ PoolOk(c, q, less)
        /\ \A y : Has(Contents(q.alloced_chunks), y) <=> Has(Contents(l), y) /\ y # x
    <3>1. c \in PoolCaps /\ x \in PoolChunks(c)
      BY <1>3
    <3> QED BY ONLY <2>2, <3>1, PoolReturns, SMTT(60)
  <2> QED BY <2>3 DEF less
<1> HIDE DEF q
<1>10. \A d \in PoolCaps : PoolBooks(d)'
  <2>1. \A y \in Pools : y \notin PoolChunks(c) /\ y \in AllOut' => y \in AllOut
    BY <1>7
  <2> HIDE DEF c
  <2> QED BY <1>2, <1>3, <1>9, <2>1, PoolSwap DEF PoolInv
<1>11. PoolInv'
  BY <1>6, <1>7, <1>8, <1>10 DEF PoolInv
<1>12. ASSUME NEW d \in PoolCaps, NEW y, Has(Alloced(d)', y) PROVE Has(Alloced(d), y) /\ y # x
  <2>1. pool'[d] = IF d = c THEN q ELSE pool[d]
    BY <1>2 DEF ListInv
  <2>2. CASE d = c
    BY <1>9, <1>12, <2>1, <2>2 DEF Alloced
  <2>3. CASE d # c
    <3>1. Has(Alloced(d), y)
      BY <1>12, <2>1, <2>3 DEF Alloced
    <3>2. x \notin PoolChunks(d)
      BY <1>3, <2>3, PoolsApart
    <3>3. y \in PoolChunks(d)
      BY <3>1 DEF PoolInv, PoolBooks, PoolOk, Alloced
    <3> QED BY <3>1, <3>2, <3>3
  <2> QED BY <2>2, <2>3
<1>13. UNCHANGED <<elm_table, hdr, raw, missed>>
  BY <1>2 DEF FreeEnd
<1> QED BY <1>5, <1>6, <1>11, <1>12, <1>13

\* The pools when a thread gets a chunk that is not of one, and when it is done with
\* such a chunk, or with a pool's chunk that its search did not find.
LEMMA PoolGives ==
  ASSUME MemInv, PoolInv, HdrBooks', ThreadInv', UNCHANGED pool, NEW t \in Threads,
         NEW x \in Chunks, x \notin Pools, Gives(t, x)
  PROVE  PoolInv'
<1>1. ClassInv /\ HdrBooks /\ ThreadInv /\ UseBooks(Pools) /\ Freed(Pools)
  BY DEF MemInv, PoolInv
<1>2. /\ UseBooks(Pools)' /\ ClassKept(Pools)
      /\ \A y : y \in AllOut' <=> y \in AllOut \/ y = x
  BY <1>1, UseGives
<1>3. Freed(Pools)'
  BY <1>1, <1>2, PoolHdr, FreedKeeps
<1>4. \A c \in PoolCaps : PoolBooks(c)'
  BY <1>2, PoolKeeps DEF PoolInv
<1> QED BY <1>2, <1>3, <1>4 DEF PoolInv

\* A thread is done with a chunk that goes to no pool.
LEMMA PoolEnds ==
  ASSUME MemInv, PoolInv, HdrBooks', ThreadInv', UNCHANGED pool, NEW t \in Threads, Ends(t)
  PROVE  PoolInv'
<1>1. ClassInv /\ HdrBooks /\ ThreadInv /\ UseBooks(Pools) /\ Freed(Pools)
  BY DEF MemInv, PoolInv
<1>2. /\ UseBooks(Pools)' /\ ClassKept(Pools)
      /\ \A y : y \in AllOut' => y \in AllOut
  BY <1>1, UseEnds
<1>3. Freed(Pools)'
  BY <1>1, <1>2, PoolHdr, FreedKeeps
<1>4. \A c \in PoolCaps : PoolBooks(c)'
  BY <1>2, PoolKeeps DEF PoolInv
<1> QED BY <1>2, <1>3, <1>4 DEF PoolInv

\* A thread that found nothing idle starts dc_alloc again.
LEMMA ThreadTurns ==
  ASSUME MemInv, ThreadInv, NEW t \in Threads, pc[t] \in Allocating, Goto(t, "dc_alloc"),
         UNCHANGED <<memVars, size, cap, ptr, node, old, held, status, missed, calls>>
  PROVE  ThreadInv' /\ Keeps(t)
<1>1. ClassInv /\ Handling(pc[t], cap[t], ptr[t], old[t], node[t], held[t])
  BY DEF MemInv, ThreadInv
<1>2. calls' \in 0 .. MaxCalls /\ missed' \in BOOLEAN /\ status' \in {"run", "fault"}
  BY DEF ThreadInv
<1>3. Moved(t, "dc_alloc", cap[t], ptr[t], old[t], node[t], held[t])
  BY <1>1, SamePlace DEF Moved, Goto
<1>4. Handling("dc_alloc", cap[t], ptr[t], old[t], node[t], held[t]) /\ "dc_alloc" \notin Freeing
  BY <1>1, HandlingWork DEF Allocating
<1>5. ThreadInv'
  BY <1>1, <1>2, <1>3, <1>4, ThreadMoves
<1> QED BY <1>3, <1>4, <1>5 DEF Keeps

\* select_extra gives its thread the first chunk of the extra list.
LEMMA ExtraGiven ==
  ASSUME ListInv, MemInv, ThreadInv, status = "run", NEW t \in Threads, UNCHANGED calls,
         SelectExtra(t), elm_table[cap[t]].idle_num # 0, NEW x, x = Extra(cap[t])[1]
  PROVE  /\ ThreadInv' /\ Gives(t, x) /\ x \in Chunks
         /\ x \in live \ Pools /\ hdr[x] = cap[t] /\ cap[t] \in Caps \ raw
         /\ elm_table' = [elm_table EXCEPT ![cap[t]] = Taken(@)]
         /\ UNCHANGED <<pool, raw, hdr, missed>>
<1>1. pc[t] \in Allocating /\ cap[t] \in Caps
  BY DEF SelectExtra, Allocating, MemInv, ClassInv, Classed
<1>2. /\ x \in live \ Pools /\ hdr[x] = cap[t] /\ x \in Chunks
      /\ x = Popped(elm_table[cap[t]].chunks_list)
  BY <1>1, PopExtra
<1>3. /\ GiveChunk(t, x) /\ cap[t] \notin raw /\ UNCHANGED pool
      /\ elm_table' = [elm_table EXCEPT ![cap[t]] = Taken(@)]
  BY <1>2 DEF SelectExtra
<1>4. ThreadInv' /\ Gives(t, x)
  BY <1>1, <1>2, <1>3, ThreadGiven
<1> QED BY <1>1, <1>2, <1>3, <1>4 DEF GiveChunk

\* dc_free is done with a chunk that it did not look for in a pool or did not find there.
LEMMA ExtraEnds ==
  ASSUME MemInv, ThreadInv, status = "run", NEW t \in Threads, UNCHANGED calls, FreeBack(t)
  PROVE  /\ ThreadInv' /\ Ends(t) /\ cap[t] \in Caps \ raw
         /\ UNCHANGED <<pool, raw, missed>>
<1>1. pc[t] \in Freeing /\ cap[t] \in Caps /\ FreeEnd(t)
  BY DEF FreeBack, GiveBack, Freeing, MemInv, ClassInv, Classed
<1>2. ThreadInv' /\ Ends(t)
  BY <1>1, ThreadEnds
<1> QED BY <1>1, <1>2 DEF FreeBack, GiveBack, FreeEnd

\* A step after which nothing is said leaves the books alone.
LEMMA FaultStays ==
  ASSUME ThreadInv, UNCHANGED calls, Fault
  PROVE  ThreadInv' /\ UNCHANGED <<threadVars, memVars, missed>>
<1>1. UNCHANGED <<threadVars, memVars, missed>> /\ status' = "fault"
  BY DEF Fault
<1>2. calls' \in 0 .. MaxCalls
  BY DEF ThreadInv
<1> QED BY <1>1, <1>2, ThreadStays

\* The pools' books hold, whatever searches do.
LEMMA PoolStep ==
  ASSUME ListInv, MemInv, PoolInv, [Next]_vars
  PROVE  PoolInv'
<1>1. HdrBooks' /\ ThreadInv
  BY BooksStep DEF PoolInv
<1>2. CASE UNCHANGED vars
  <2>1. UNCHANGED <<threadVars, missed, status, calls, pool>>
    BY <1>2 DEF vars, memVars
  <2>2. ThreadInv'
    BY <1>1, <2>1, ThreadStays DEF ThreadInv
  <2> QED BY <1>1, <2>1, <2>2, PoolQuiet
<1>3. ASSUME NEW t \in Threads, status = "run", CallOf(t) PROVE PoolInv'
  <2>1. /\ ThreadInv' /\ UNCHANGED memVars
        /\ Quiet(t) \/ UNCHANGED threadVars
    BY <1>1, <1>3, ThreadCall
  <2> QED BY <1>1, <2>1, PoolQuiet DEF memVars
<1>4. ASSUME NEW t \in Threads, status = "run", Step(t), UNCHANGED calls PROVE PoolInv'
  <2>1. CASE AllocAgain(t) \/ LookAgain(t) \/ MkEl(t) \/ FillEl(t) \/ ExpandEl(t) \/ Refill(t)
    <3>1. ThreadInv' /\ (Keeps(t) \/ UNCHANGED threadVars) /\ UNCHANGED pool
      BY <1>1, <1>4, <2>1, ThreadSeeks
    <3> QED BY <1>1, <3>1, PoolQuiet DEF Quiet
  <2>2. CASE SelectPreAlloced(t)
    <3>1. CASE pool[cap[t]].idle_num = 0
      <4>1. pc[t] \in Allocating
        BY <2>2 DEF SelectPreAlloced, Allocating, AllocPool
      <4>2. Goto(t, "dc_alloc") /\ UNCHANGED <<memVars, size, cap, ptr, node, old, held, status, missed>>
        BY <2>2, <3>1 DEF SelectPreAlloced
      <4>3. ThreadInv' /\ Keeps(t)
        BY <1>1, <1>4, <4>1, <4>2, ThreadTurns
      <4> QED BY <1>1, <4>2, <4>3, PoolQuiet DEF Quiet, memVars
    <3>2. CASE pool[cap[t]].idle_num # 0
      BY <1>1, <1>4, <2>2, <3>2, PoolTake
    <3> QED BY <3>1, <3>2
  <2>3. CASE SelectExtra(t)
    <3>1. CASE elm_table[cap[t]].idle_num = 0
      <4>1. pc[t] \in Allocating
        BY <2>3 DEF SelectExtra, Allocating
      <4>2. Goto(t, "dc_alloc") /\ UNCHANGED <<memVars, size, cap, ptr, node, old, held, status, missed>>
        BY <2>3, <3>1 DEF SelectExtra
      <4>3. ThreadInv' /\ Keeps(t)
        BY <1>1, <1>4, <4>1, <4>2, ThreadTurns
      <4> QED BY <1>1, <4>2, <4>3, PoolQuiet DEF Quiet, memVars
    <3>2. CASE elm_table[cap[t]].idle_num # 0
      <4> DEFINE x == Extra(cap[t])[1]
      <4> HIDE DEF x
      <4>1. ThreadInv' /\ Gives(t, x) /\ x \in Chunks /\ x \notin Pools /\ UNCHANGED pool
        BY <1>1, <1>4, <2>3, <3>2, ExtraGiven DEF x
      <4> QED BY <1>1, <4>1, PoolGives
    <3> QED BY <3>1, <3>2
  <2>4. CASE Find(t)
    <3>1. ThreadInv' /\ Keeps(t) /\ UNCHANGED memVars
      BY <1>1, <1>4, <2>4, ThreadFinds
    <3> QED BY <1>1, <3>1, PoolQuiet DEF Quiet, memVars
  <2>5. CASE FreePreAlloced(t)
    BY <1>1, <1>4, <2>5, PoolReturn
  <2>6. CASE FreeExtra(t)
    <3>1. CASE FreeBack(t)
      <4>1. ThreadInv' /\ Ends(t) /\ UNCHANGED pool
        BY <1>1, <1>4, <3>1, ExtraEnds
      <4> QED BY <1>1, <4>1, PoolEnds
    <3>2. CASE Fault
      <4>1. ThreadInv' /\ UNCHANGED <<threadVars, memVars>>
        BY <1>1, <1>4, <3>2, FaultStays
      <4> QED BY <1>1, <4>1, PoolQuiet DEF memVars
    <3> QED BY <2>6, <3>1, <3>2, FreeExtraIs
  <2>7. CASE Memcpy(t)
    <3>1. ThreadInv' /\ (Copies(t) \/ UNCHANGED threadVars) /\ UNCHANGED memVars
      BY <1>1, <1>4, <2>7, ThreadCopies
    <3> QED BY <1>1, <3>1, PoolQuiet DEF Quiet, memVars
  <2> QED BY <1>4, <2>1, <2>2, <2>3, <2>4, <2>5, <2>6, <2>7 DEF Step
<1> QED BY <1>2, <1>3, <1>4 DEF Next

\* r is f backwards.
Backwards(n, f, r) == r = [i \in 1 .. n |-> f[(n + 1) - i]]

\* A list that has all of f holds it backwards.
LEMMA ReversedSame ==
  ASSUME NEW n \in Nat, NEW f, \A i, j \in 1 .. n : f[i] = f[j] => i = j,
         NEW r, Backwards(n, f, r)
  PROVE  Distinct(r) /\ \A x : Has(r, x) <=> \E k \in 1 .. n : f[k] = x
<1>1. DOMAIN r = 1 .. n /\ \A i \in 1 .. n : r[i] = f[(n + 1) - i]
  BY DEF Backwards
<1>2. \A i \in 1 .. n : (n + 1) - i \in 1 .. n /\ (n + 1) - ((n + 1) - i) = i
  OBVIOUS
<1>3. ASSUME NEW i \in 1 .. n, NEW j \in 1 .. n, r[i] = r[j] PROVE i = j
  <2>1. f[(n + 1) - i] = f[(n + 1) - j]
    BY <1>1, <1>3
  <2>2. (n + 1) - i = (n + 1) - j
    BY <1>2, <2>1
  <2> QED BY <2>2
<1>4. ASSUME NEW x, NEW k \in 1 .. n, f[k] = x PROVE \E i \in 1 .. n : r[i] = x
  <2>1. r[(n + 1) - k] = f[k]
    BY <1>1, <1>2
  <2> QED BY <1>2, <1>4, <2>1
<1>5. ASSUME NEW x, NEW i \in 1 .. n, r[i] = x PROVE \E k \in 1 .. n : f[k] = x
  BY <1>1, <1>2, <1>5
<1> QED BY <1>1, <1>3, <1>4, <1>5 DEF Distinct, Has

\* A list without nodes holds nothing.
LEMMA NoneHeld ==
  ASSUME NEW n \in Nat, NEW D, NEW sl, IsList(sl, n, D), sl.length = 0
  PROVE  Distinct(Contents(sl)) /\ \A x : ~Has(Contents(sl), x)
<1> DEFINE s == Contents(sl)
<1>1. s \in [1 .. sl.length -> D]
  BY HoldsIs
<1> HIDE DEF s
<1>2. DOMAIN s = {}
  BY <1>1
<1> QED BY <1>2 DEF Distinct, Has, s

\* What holds when mm_init returns.
LEMMA PoolInit ==
  ASSUME Init
  PROVE  /\ PoolInv /\ AllOut = {}
         /\ \A c \in PoolCaps : \A x : ~Has(Alloced(c), x)
<1>1. AllOut = {}
  BY DEF Init, AllOut, Out
<1>2. ThreadInv
  <2>1. chunks_num \in Nat /\ 0 \in 0 .. chunks_num /\ MaxCalls \in Nat /\ 0 \in 0 .. MaxCalls
    BY MmAssumption
  <2>2. \A c : Handling("idle", c, NULL, NULL, 0, {})
    BY <2>1 DEF Handling, Allocating, AllocPool, AllocExtra, Freeing
  <2> QED BY <2>1, <2>2 DEF Init, ThreadInv, NULL
<1>3. UseBooks(Pools) /\ Freed(Pools)
  <2>1. \A t \in Threads : Once(pc[t], ptr[t], old[t], held[t], Pools) /\ pc[t] \notin Freeing
    <3>1. NULL \notin Pools
      BY PoolInChunks DEF Pools, Chunks, NULL
    <3> QED BY <3>1 DEF Init, Once, Freeing
  <2>2. \A t \in Threads : Out(t) = {}
    BY DEF Init, Out
  <2> QED BY <2>1, <2>2 DEF UseBooks, Freed
<1>4. ASSUME NEW c \in PoolCaps
      PROVE  PoolOk(c, pool[c], {}) /\ \A x : ~Has(Contents(pool[c].alloced_chunks), x)
  <2> DEFINE f == PoolOf(c)
             i == mm_pre_alloc(f)
             l == mk_slist(chunks_num)
             s == Contents(i)
  <2>1. chunks_num \in Nat
    BY MmAssumption
  <2>2. pool[c].idle_num = chunks_num /\ pool[c].idle_chunks = i /\ pool[c].alloced_chunks = l
    BY DEF Init
  <2>3. /\ i.length = chunks_num /\ s = [k \in 1 .. chunks_num |-> f[(chunks_num + 1) - k]]
        /\ IsList(l, chunks_num, PoolData(c)) /\ l.length = 0
    BY PoolStart
  <2>4. \A k, m \in 1 .. chunks_num : f[k] = f[m] => k = m
    <3> DEFINE a == (BIG - c) * chunks_num
    <3>1. a \in Int
      BY MmAssumption DEF PoolCaps
    <3>2. \A k \in 1 .. chunks_num : f[k] = a + k
      BY DEF PoolOf
    <3> HIDE DEF a, f
    <3> QED BY <2>1, <3>1, <3>2
  <2>5. \A x : x \in PoolChunks(c) <=> \E k \in 1 .. chunks_num : f[k] = x
    BY DEF PoolChunks
  <2> HIDE DEF f, i, l, s
  <2>6. Distinct(s) /\ \A x : Has(s, x) <=> x \in PoolChunks(c)
    <3>1. Backwards(chunks_num, f, s)
      BY <2>3 DEF Backwards
    <3>2. Distinct(s) /\ \A x : Has(s, x) <=> \E k \in 1 .. chunks_num : f[k] = x
      BY <2>1, <2>4, <3>1, ReversedSame
    <3> QED BY <2>5, <3>2
  <2>7. Distinct(Contents(l)) /\ \A x : ~Has(Contents(l), x)
    BY <2>1, <2>3, NoneHeld
  <2>8. chunks_num + 0 = chunks_num
    BY <2>1
  <2> DEFINE p == pool[c]
  <2>9. /\ p.idle_num = i.length /\ i.length + l.length = chunks_num
        /\ p.idle_chunks = i /\ p.alloced_chunks = l
    BY <2>2, <2>3, <2>8
  <2> HIDE DEF p
  <2>10. PoolOk(c, p, {})
    BY <2>6, <2>7, <2>9 DEF PoolOk, s
  <2> QED BY <2>7, <2>9, <2>10 DEF p
<1>5. \A c \in PoolCaps : PoolBooks(c)
  BY <1>1, <1>4 DEF PoolBooks
<1> QED BY <1>1, <1>2, <1>3, <1>4, <1>5 DEF PoolInv, Alloced

(***************************************************************************)
(* What is in use of the extra lists                                       *)
(***************************************************************************)

\* Of the sequence s the members in use are those after the first i.
InUse(s, i, out) == \A k \in DOMAIN s : s[k] \in out <=> k > i

\* Of an extra list e, which holds total_num chunks, those in use are the last ones; it has
\* all of them idle only while a thread is about to take one.
ElmUsed(e, out, busy) ==
  e # NoElm =>
    /\ e.chunks_list.length = e.total_num
    /\ e.idle_num <= e.total_num
    /\ InUse(Contents(e.chunks_list), e.idle_num, out)
    /\ e.idle_num = e.total_num => busy

Busy(c) == \E t \in Threads : pc[t] = "select_extra" /\ cap[t] = c

\* No chunk is lost: of what the system gave, every chunk is in a list, and what threads
\* have is still the allocator's.
NoneLost ==
  /\ AllOut \subseteq live
  /\ \A x \in live \ Pools : elm_table[hdr[x]] # NoElm /\ Has(Extra(hdr[x]), x)
  /\ \A c \in PoolCaps : \A x : Has(Alloced(c), x) => x \in AllOut
  /\ \A t \in Threads : pc[t] = "free_extra" => ptr[t] \notin Pools

Extras == Chunks \ Pools

\* What holds of the extra lists, and of the pools beside PoolInv, until a search goes
\* astray.
ExtraInv ==
  /\ UseBooks(Extras) /\ Freed(Extras)
  /\ NoneLost
  /\ \A c \in Caps : ElmUsed(elm_table[c], AllOut, Busy(c))

\* The first member is put to the end, to be used.
LEMMA BackUsed ==
  ASSUME NEW m \in Nat \ {0}, NEW D, NEW s \in [1 .. m -> D], Distinct(s),
         NEW i \in 1 .. m, NEW out, InUse(s, i, out),
         NEW more, \A y : y \in more <=> y \in out \/ y = s[1]
  PROVE  InUse(ToBack(m, s, m), i - 1, more)
<1> DEFINE r == ToBack(m, s, m)
<1>1. /\ DOMAIN r = 1 .. m /\ DOMAIN s = 1 .. m
      /\ \A k \in 1 .. m : r[k] = IF k = m THEN s[1] ELSE IF k < m THEN s[k + 1] ELSE s[k]
  BY DEF ToBack
<1> HIDE DEF r
<1>2. ASSUME NEW k \in 1 .. m PROVE r[k] \in more <=> k > i - 1
  <2>1. CASE k = m
    <3>1. r[k] \in more
      BY <1>1, <2>1
    <3> QED BY <2>1, <3>1
  <2>2. CASE k # m
    <3>1. k + 1 \in 1 .. m /\ k + 1 # 1 /\ 1 \in 1 .. m /\ k < m
      BY <2>2
    <3>2. r[k] = s[k + 1]
      BY <1>1, <3>1
    <3>3. s[k + 1] # s[1]
      BY <1>1, <3>1 DEF Distinct
    <3>4. s[k + 1] \in out <=> k + 1 > i
      BY <1>1, <3>1 DEF InUse
    <3>5. k + 1 > i <=> k > i - 1
      OBVIOUS
    <3> QED BY <3>2, <3>3, <3>4, <3>5
  <2> QED BY <2>1, <2>2
<1> QED BY <1>1, <1>2 DEF InUse, r

\* One that was used comes to the front.
LEMMA FrontUsed ==
  ASSUME NEW m \in Nat, NEW D, NEW s \in [1 .. m -> D], Distinct(s),
         NEW i \in Nat, NEW out, InUse(s, i, out), NEW j \in 1 .. m, s[j] \in out,
         NEW less, \A y : y \in less <=> y \in out /\ y # s[j]
  PROVE  i < j /\ InUse(ToFront(m, s, j), i + 1, less)
<1> DEFINE r == ToFront(m, s, j)
<1>1. /\ DOMAIN r = 1 .. m /\ DOMAIN s = 1 .. m
      /\ \A k \in 1 .. m : r[k] = IF k = 1 THEN s[j] ELSE IF k <= j THEN s[k - 1] ELSE s[k]
  BY DEF ToFront
<1> HIDE DEF r
<1>2. i < j
  <2>1. j > i
    BY <1>1 DEF InUse
  <2> QED BY <2>1
<1>3. ASSUME NEW k \in 1 .. m PROVE r[k] \in less <=> k > i + 1
  <2>1. CASE k = 1
    <3>1. r[k] \notin less
      BY <1>1, <2>1
    <3> QED BY <2>1, <3>1
  <2>2. CASE k # 1 /\ k <= j
    <3>1. k - 1 \in 1 .. m /\ k - 1 # j
      BY <2>2
    <3>2. r[k] = s[k - 1]
      BY <1>1, <2>2
    <3>3. s[k - 1] # s[j]
      BY <1>1, <3>1 DEF Distinct
    <3>4. s[k - 1] \in out <=> k - 1 > i
      BY <1>1, <3>1 DEF InUse
    <3>5. k - 1 > i <=> k > i + 1
      OBVIOUS
    <3> QED BY <3>2, <3>3, <3>4, <3>5
  <2>3. CASE k # 1 /\ ~(k <= j)
    <3>1. r[k] = s[k] /\ k # j
      BY <1>1, <2>3
    <3>2. s[k] # s[j]
      BY <1>1, <3>1 DEF Distinct
    <3>3. s[k] \in out <=> k > i
      BY <1>1 DEF InUse
    <3>4. k > i + 1 /\ k > i
      BY <1>2, <2>3
    <3> QED BY <3>1, <3>2, <3>3, <3>4
  <2> QED BY <2>1, <2>2, <2>3
<1> QED BY <1>1, <1>2, <1>3 DEF InUse, r

\* New ones, that nobody uses, come to the front.
LEMMA PushedUsed ==
  ASSUME NEW n \in Nat, NEW m \in Nat, NEW D, NEW s \in [1 .. m -> D], NEW i \in Nat, NEW out,
         InUse(s, i, out), NEW ch, \A k \in 1 .. n : ch[k] \notin out
  PROVE  InUse(Pushed(n, ch, m, s), i + n, out)
<1> DEFINE r == Pushed(n, ch, m, s)
<1>1. /\ DOMAIN r = 1 .. m + n /\ DOMAIN s = 1 .. m
      /\ \A k \in 1 .. m + n : r[k] = IF k <= n THEN ch[(n + 1) - k] ELSE s[k - n]
  BY DEF Pushed
<1> HIDE DEF r
<1>2. ASSUME NEW k \in 1 .. m + n PROVE r[k] \in out <=> k > i + n
  <2>1. CASE k <= n
    <3>1. (n + 1) - k \in 1 .. n
      BY <2>1
    <3>2. r[k] \notin out
      BY <1>1, <2>1, <3>1
    <3>3. ~(k > i + n)
      BY <2>1
    <3> QED BY <3>2, <3>3
  <2>2. CASE ~(k <= n)
    <3>1. k - n \in 1 .. m
      BY <2>2
    <3>2. r[k] = s[k - n]
      BY <1>1, <2>2
    <3>3. s[k - n] \in out <=> k - n > i
      BY <1>1, <3>1 DEF InUse
    <3>4. k - n > i <=> k > i + n
      OBVIOUS
    <3> QED BY <3>2, <3>3, <3>4
  <2> QED BY <2>1, <2>2
<1> QED BY <1>1, <1>2 DEF InUse, r

\* A list of new ones.
LEMMA BackwardsUsed ==
  ASSUME NEW n \in Nat, NEW ch, NEW out, \A k \in 1 .. n : ch[k] \notin out,
         NEW r, Backwards(n, ch, r)
  PROVE  InUse(r, n, out) /\ \A k \in 1 .. n : Has(r, ch[k])
<1>1. DOMAIN r = 1 .. n /\ \A i \in 1 .. n : r[i] = ch[(n + 1) - i]
  BY DEF Backwards
<1>2. \A i \in 1 .. n : /\ (n + 1) - i \in 1 .. n /\ (n + 1) - ((n + 1) - i) = i
                        /\ ~(i > n)
  OBVIOUS
<1>3. InUse(r, n, out)
  BY <1>1, <1>2 DEF InUse
<1>4. ASSUME NEW k \in 1 .. n PROVE Has(r, ch[k])
  <2>1. r[(n + 1) - k] = ch[k]
    BY <1>1, <1>2
  <2> QED BY <1>1, <1>2, <2>1 DEF Has
<1> QED BY <1>3, <1>4

\* Others in use, but none of the list's.
LEMMA SameUsed ==
  ASSUME NEW e, NEW out, NEW b, ElmUsed(e, out, b),
         NEW now, \A x : Has(Contents(e.chunks_list), x) => (x \in now <=> x \in out),
         NEW d, b => d \/ e.idle_num # e.total_num
  PROVE  ElmUsed(e, now, d)
<1> DEFINE s == Contents(e.chunks_list)
<1>1. \A k \in DOMAIN s : Has(s, s[k])
  BY DEF Has
<1> HIDE DEF s
<1> QED BY <1>1 DEF ElmUsed, InUse, s

\* What mk_el makes.
LEMMA NewUsed ==
  ASSUME NEW n \in Nat \ {0}, n < COUNT_MOD, Cardinality(Chunks \ live) >= n, MaxChunks \in Nat,
         NEW out, \A k \in 1 .. n : Malloc(n)[k] \notin out
  PROVE  /\ ElmUsed(NewElm(n), out, TRUE)
         /\ \A k \in 1 .. n : Has(Contents(NewElm(n).chunks_list), Malloc(n)[k])
<1> DEFINE ch == Malloc(n)
           e == NewElm(n)
           s == Contents(e.chunks_list)
<1>1. /\ e.idle_num = n /\ e.total_num = n /\ e.chunks_list.length = n
      /\ s = [i \in 1 .. n |-> ch[(n + 1) - i]]
  BY NewElmIs
<1>2. \A k \in 1 .. n : ch[k] \notin out
  OBVIOUS
<1> HIDE DEF ch, e, s
<1>3. Backwards(n, ch, s)
  BY <1>1 DEF Backwards
<1>4. InUse(s, n, out) /\ \A k \in 1 .. n : Has(s, ch[k])
  BY <1>2, <1>3, BackwardsUsed
<1>5. ElmUsed(e, out, TRUE)
  BY <1>1, <1>4 DEF ElmUsed, s
<1> QED BY <1>4, <1>5 DEF e, s, ch

\* What an extra list holds.
LEMMA ElmHolds ==
  ASSUME NEW e \in Elms, NEW c, NEW h, ElmOk(c, e, h)
  PROVE  /\ e # NoElm /\ e.idle_num \in Nat /\ e.total_num \in Uint16s
         /\ e.chunks_list.length \in Nat \ {0}
         /\ Contents(e.chunks_list) \in [1 .. e.chunks_list.length -> ExtraData]
         /\ Distinct(Contents(e.chunks_list))
         /\ \A x : Has(Contents(e.chunks_list), x) => x \in DOMAIN h \ Pools /\ h[x] = c
<1>1. /\ e # NoElm /\ e.chunks_list.capacity \in Nat \ {0} /\ e.idle_num \in Nat
      /\ e.total_num \in Uint16s
      /\ IsList(e.chunks_list, e.chunks_list.capacity, ExtraData)
  BY ElmIs
<1>2. /\ e.chunks_list.capacity = e.chunks_list.length
      /\ Distinct(Contents(e.chunks_list))
      /\ \A x : Has(Contents(e.chunks_list), x) => x \in DOMAIN h \ Pools /\ h[x] = c
  BY <1>1 DEF ElmOk
<1> DEFINE sl == e.chunks_list
<1>3. Contents(sl) \in [1 .. sl.length -> ExtraData]
  <2> HIDE DEF sl
  <2> QED BY <1>1, HoldsIs DEF sl
<1> QED BY <1>1, <1>2, <1>3

\* What expand_el makes.
LEMMA LargerUsed ==
  ASSUME NEW n \in Nat \ {0}, Cardinality(Chunks \ live) >= n, MaxChunks \in Nat,
         NEW e \in Elms, e.total_num + n < COUNT_MOD, NEW c, NEW h, ElmOk(c, e, h),
         NEW out, NEW b, ElmUsed(e, out, b), \A k \in 1 .. n : Malloc(n)[k] \notin out,
         \A x : Has(Contents(e.chunks_list), x) => x \in live
  PROVE  /\ ElmUsed(LargerElm(e, n), out, TRUE)
         /\ \A k \in 1 .. n : Has(Contents(LargerElm(e, n).chunks_list), Malloc(n)[k])
         /\ \A x : Has(Contents(e.chunks_list), x) => Has(Contents(LargerElm(e, n).chunks_list), x)
<1> DEFINE ch == Malloc(n)
           l == LargerElm(e, n)
           m == e.total_num
           i == e.idle_num
           s == Contents(e.chunks_list)
           r == Contents(l.chunks_list)
<1>1. /\ e # NoElm /\ e.chunks_list.length = m /\ i \in Nat /\ m \in Nat
      /\ s \in [1 .. m -> ExtraData] /\ Distinct(s)
  BY ElmHolds DEF ElmUsed
<1>3. i <= m /\ InUse(s, i, out)
  BY <1>1 DEF ElmUsed
<1>2. /\ l.idle_num = i + n /\ l.total_num = m + n /\ l.chunks_list.length = m + n
      /\ r = Pushed(n, ch, m, s)
  <2>1. /\ l.idle_num = Uint16(i + n) /\ l.total_num = Uint16(m + n)
        /\ l.chunks_list.length = m + n /\ r = Pushed(n, ch, m, s)
    BY <1>1, LargerElmIs
  <2>2. m + n < COUNT_MOD /\ COUNT_MOD \in Nat
    BY MmAssumption
  <2> HIDE DEF m, i, l, r
  <2>3. i + n \in Int /\ m + n \in Int /\ i + n \in Uint16s /\ m + n \in Uint16s
    BY <1>1, <1>3, <2>2 DEF Uint16s
  <2> QED BY <2>1, <2>3, Uint16Is
<1>4. /\ \A k \in 1 .. n : ch[k] \notin out
      /\ \A j, k \in 1 .. n : ch[j] = ch[k] => j = k
      /\ \A k \in 1 .. n : ~Has(s, ch[k])
  BY MallocIs
<1> HIDE DEF ch, l, m, i, s, r
<1>5. InUse(r, i + n, out)
  BY <1>1, <1>2, <1>3, <1>4, PushedUsed
<1>6. \A x : Has(r, x) <=> Has(s, x) \/ OneOf(n, ch, x)
  <2>1. NewTo(n, ch, s)
    BY <1>4 DEF NewTo
  <2> QED BY <1>1, <1>2, <2>1, PushedSame
<1>7. i + n <= m + n
  BY <1>1, <1>3
<1>8. ElmUsed(l, out, TRUE)
  BY <1>2, <1>5, <1>7 DEF ElmUsed, r
<1> QED BY <1>6, <1>8 DEF OneOf, ch, l, s, r

\* What select_extra leaves: one idle chunk less, so not all are idle.
LEMMA TakenUsed ==
  ASSUME NEW e \in Elms, e.idle_num # 0, NEW c, NEW h, ElmOk(c, e, h),
         NEW out, NEW b, ElmUsed(e, out, b),
         NEW more, \A y : y \in more <=> y \in out \/ y = Contents(e.chunks_list)[1]
  PROVE  /\ ElmUsed(Taken(e), more, FALSE)
         /\ Contents(e.chunks_list)[1] \notin out
         /\ \A x : Has(Contents(Taken(e).chunks_list), x) <=> Has(Contents(e.chunks_list), x)
<1> DEFINE l == Taken(e)
           m == e.total_num
           i == e.idle_num
           s == Contents(e.chunks_list)
           r == Contents(l.chunks_list)
<1>1. /\ e # NoElm /\ e.chunks_list.length = m /\ i \in Nat /\ m \in Nat \ {0}
      /\ s \in [1 .. m -> ExtraData] /\ Distinct(s)
  BY ElmHolds DEF ElmUsed
<1>2. /\ l.idle_num = i - 1 /\ l.total_num = m /\ l.chunks_list.length = m
      /\ r = ToBack(m, s, m)
  BY <1>1, TakenIs
<1>3. i <= m /\ InUse(s, i, out)
  BY <1>1 DEF ElmUsed
<1>4. \A y : y \in more <=> y \in out \/ y = s[1]
  OBVIOUS
<1>5. i # 0
  OBVIOUS
<1> HIDE DEF l, m, i, s, r
<1>6. i \in 1 .. m /\ 1 \in 1 .. m /\ m \in 1 .. m /\ i - 1 <= m /\ i - 1 # m
  BY <1>1, <1>3, <1>5
<1>7. InUse(r, i - 1, more)
  BY <1>1, <1>2, <1>3, <1>4, <1>6, BackUsed
<1>8. \A x : Has(r, x) <=> Has(s, x)
  BY <1>1, <1>2, <1>6, BackSame
<1>9. s[1] \notin out
  <2>1. DOMAIN s = 1 .. m
    BY <1>1
  <2>2. ~(1 > i)
    BY <1>6
  <2> QED BY <1>3, <1>6, <2>1, <2>2 DEF InUse
<1>10. ElmUsed(l, more, FALSE)
  BY <1>2, <1>6, <1>7 DEF ElmUsed, r
<1> QED BY <1>8, <1>9, <1>10 DEF l, s, r

\* What dc_free leaves while others of the list are in use.
LEMMA ReturnedUsed ==
  ASSUME NEW e \in Elms, ~AllIdle(e), NEW c, NEW h, ElmOk(c, e, h),
         NEW out, NEW b, ElmUsed(e, out, b), NEW x \in out, Has(Contents(e.chunks_list), x),
         NEW less, \A y : y \in less <=> y \in out /\ y # x
  PROVE  ElmUsed(Returned(e, x), less, FALSE)
<1> DEFINE l == Returned(e, x)
           m == e.total_num
           i == e.idle_num
           s == Contents(e.chunks_list)
           r == Contents(l.chunks_list)
<1>1. /\ e # NoElm /\ e.chunks_list.length = m /\ i \in Nat /\ m \in Nat \ {0}
      /\ s \in [1 .. m -> ExtraData] /\ Distinct(s)
  BY ElmHolds DEF ElmUsed
<1>2. /\ l.idle_num = Uint16(i + 1) /\ l.total_num = m /\ l.chunks_list.length = m
      /\ \E j \in 1 .. m : s[j] = x /\ r = ToFront(m, s, j)
  BY <1>1, ReturnedIs
<1>3. i <= m /\ InUse(s, i, out) /\ Uint16(i + 1) # m
  BY <1>1 DEF ElmUsed, AllIdle
<1>8. m \in Uint16s /\ COUNT_MOD \in Nat
  BY ElmHolds, MmAssumption
<1> HIDE DEF l, m, i, s, r
<1>4. PICK j \in 1 .. m : s[j] = x /\ r = ToFront(m, s, j)
  BY <1>2
<1>5. i < j /\ InUse(r, i + 1, less)
  BY <1>1, <1>3, <1>4, FrontUsed
<1>6. i + 1 <= m /\ Uint16(i + 1) = i + 1
  <2>1. i + 1 <= m /\ i + 1 \in Int /\ i + 1 \in Uint16s
    BY <1>1, <1>4, <1>5, <1>8 DEF Uint16s
  <2> QED BY <2>1, Uint16Is
<1>7. ElmUsed(l, less, FALSE)
  BY <1>2, <1>3, <1>5, <1>6 DEF ElmUsed, r
<1> QED BY <1>7 DEF l

\* The last chunk of a list that is in use.
LEMMA LastUsed ==
  ASSUME NEW e \in Elms, AllIdle(e), NEW c, NEW h, ElmOk(c, e, h),
         NEW out, NEW b, ElmUsed(e, out, b), NEW x \in out, Has(Contents(e.chunks_list), x),
         NEW y \in out, Has(Contents(e.chunks_list), y)
  PROVE  x = y
<1> DEFINE m == e.total_num
           i == e.idle_num
           s == Contents(e.chunks_list)
<1>1. /\ e # NoElm /\ i \in Nat /\ m \in Nat \ {0} /\ s \in [1 .. m -> ExtraData]
      /\ m \in Uint16s /\ COUNT_MOD \in Nat
  BY ElmHolds, MmAssumption DEF ElmUsed
<1>2. InUse(s, i, out) /\ i + 1 = m
  <2>1. InUse(s, i, out) /\ i <= m /\ Uint16(i + 1) = m
    BY <1>1 DEF ElmUsed, AllIdle
  <2> HIDE DEF s, i, m
  <2>2. CASE i + 1 < COUNT_MOD
    <3>1. i + 1 \in Int /\ i + 1 \in Uint16s
      BY <1>1, <2>2 DEF Uint16s
    <3> QED BY <2>1, <3>1, Uint16Is
  <2>3. CASE ~(i + 1 < COUNT_MOD)
    <3>1. i + 1 = COUNT_MOD
      BY <1>1, <2>1, <2>3 DEF Uint16s
    <3>2. Uint16(i + 1) = 0
      BY <1>1, <3>1 DEF Uint16
    <3> QED BY <1>1, <2>1, <3>2
  <2> QED BY <2>2, <2>3
<1>3. Has(s, x) /\ Has(s, y)
  OBVIOUS
<1> HIDE DEF m, i, s
<1>4. \A k \in 1 .. m : k > i => k = m
  BY <1>1, <1>2
<1>5. DOMAIN s = 1 .. m
  BY <1>1
<1>6. s[m] = x /\ s[m] = y
  BY <1>2, <1>3, <1>4, <1>5 DEF InUse, Has
<1> QED BY <1>6

\* A step of thread t leaves the others where they are.
LEMMA OthersStay ==
  ASSUME ClassInv, ThreadInv, NEW t \in Threads, CallOf(t) \/ Step(t)
  PROVE  \A u \in Threads : u # t => pc'[u] = pc[u] /\ cap'[u] = cap[u] /\ ptr'[u] = ptr[u]
<1> DEFINE Only(f, g) == \A u \in Threads : u # t => g[u] = f[u]
<1>1. \A a : Only(pc, [pc EXCEPT ![t] = a])
  BY DEF ClassInv
<1>2. \A k : Only(cap, [cap EXCEPT ![t] = k])
  BY DEF ClassInv
<1>3. \A p : Only(ptr, [ptr EXCEPT ![t] = p])
  BY DEF ThreadInv
<1>4. Only(pc, pc) /\ Only(cap, cap) /\ Only(ptr, ptr)
  OBVIOUS
<1> HIDE DEF Only
<1>5. CASE AllocAgain(t) \/ LookAgain(t) \/ MkEl(t) \/ FillEl(t)
  <2>1. Only(pc, pc') /\ Only(cap, cap') /\ Only(ptr, ptr')
    BY <1>1, <1>4, <1>5 DEF AllocAgain, LookAgain, MkEl, FillEl, Fault, threadVars, Goto
  <2> QED BY <2>1 DEF Only
<1>6. CASE ExpandEl(t) \/ Refill(t)
  <2>1. Only(pc, pc') /\ Only(cap, cap') /\ Only(ptr, ptr')
    BY <1>1, <1>4, <1>6 DEF ExpandEl, Refill, Fault, threadVars, Goto
  <2> QED BY <2>1 DEF Only
<1>7. CASE SelectPreAlloced(t) \/ SelectExtra(t)
  <2>1. ASSUME NEW x, GiveChunk(t, x) PROVE Only(pc, pc') /\ Only(cap, cap') /\ Only(ptr, ptr')
    BY <1>1, <1>2, <1>3, <1>4, <2>1 DEF GiveChunk, Goto
  <2>2. \/ Goto(t, "dc_alloc") /\ UNCHANGED <<cap, ptr>>
        \/ \E x : GiveChunk(t, x)
    BY <1>7 DEF SelectPreAlloced, SelectExtra
  <2>3. Only(pc, pc') /\ Only(cap, cap') /\ Only(ptr, ptr')
    BY <1>1, <1>4, <2>1, <2>2 DEF Goto
  <2> QED BY <2>3 DEF Only
<1>8. CASE Find(t) \/ FreePreAlloced(t) \/ FreeExtra(t)
  <2>1. Find(t) \/ FreeEnd(t) \/ UNCHANGED <<pc, cap, ptr>>
    BY <1>8 DEF FreePreAlloced, FreeExtra, GiveBack, Fault, threadVars
  <2>2. Only(pc, pc') /\ Only(cap, cap') /\ Only(ptr, ptr')
    BY <1>1, <1>2, <1>3, <1>4, <2>1, SMTT(60) DEF Find, FreeEnd, Goto
  <2> QED BY <2>2 DEF Only
<1>9. CASE Memcpy(t)
  <2>1. Only(pc, pc') /\ Only(cap, cap') /\ Only(ptr, ptr')
    BY <1>1, <1>2, <1>3, <1>4, <1>9, SMTT(60) DEF Memcpy, FreeStart, Fault, threadVars, Goto
  <2> QED BY <2>1 DEF Only
<1>10. CASE CallOf(t)
  <2>1. Only(pc, pc') /\ Only(cap, cap') /\ Only(ptr, ptr')
    BY <1>1, <1>2, <1>3, <1>4, <1>10, SMTT(60)
    DEF CallOf, Alloc, Free, Realloc, FreeStart, Fault, threadVars, Goto
  <2> QED BY <2>1 DEF Only
<1> QED BY <1>5, <1>6, <1>7, <1>8, <1>9, <1>10 DEF Step

\* A thread about to take a chunk of an extra list stays so until it tries to.
LEMMA BusyStays ==
  ASSUME ClassInv, ThreadInv, NEW t \in Threads, CallOf(t) \/ Step(t), NEW c, Busy(c)
  PROVE  Busy(c)' \/ (SelectExtra(t) /\ cap[t] = c)
<1>1. PICK u \in Threads : pc[u] = "select_extra" /\ cap[u] = c
  BY DEF Busy
<1>2. CASE u # t
  <2>1. pc'[u] = pc[u] /\ cap'[u] = cap[u]
    BY <1>2, OthersStay
  <2> QED BY <1>1, <2>1 DEF Busy
<1>3. CASE u = t
  <2>1. ~CallOf(t)
    BY <1>1, <1>3 DEF CallOf, Alloc, Free, Realloc
  <2>2. SelectExtra(t)
    BY <1>1, <1>3, <2>1 DEF Step, AllocAgain, LookAgain, MkEl, FillEl, ExpandEl, Refill,
      SelectPreAlloced, Find, FreePreAlloced, FreeExtra, Memcpy
  <2> QED BY <1>1, <1>3, <2>2
<1> QED BY <1>2, <1>3

\* A pool's chunk is in the books of its class.
LEMMA PoolOfChunk ==
  ASSUME HdrBooks, NEW x \in Pools
  PROVE  hdr[x] \in PoolCaps /\ x \in PoolChunks(hdr[x])
<1>1. PICK c \in PoolCaps : x \in PoolChunks(c)
  BY DEF Pools
<1>2. hdr[x] = c
  BY <1>1 DEF HdrBooks
<1> QED BY <1>1, <1>2

\* Unless a search went astray, no thread looks for a pool's chunk in an extra list.
LEMMA TidyStays ==
  ASSUME MemInv, PoolInv, NoneLost, NEW t \in Threads, CallOf(t) \/ Step(t), ~missed',
         NEW u \in Threads, pc'[u] = "free_extra"
  PROVE  ptr'[u] \notin Pools
<1>1. ClassInv /\ ThreadInv /\ HdrBooks
  BY DEF MemInv, PoolInv
<1>2. CASE u # t
  <2>1. pc'[u] = pc[u] /\ ptr'[u] = ptr[u]
    BY <1>1, <1>2, OthersStay
  <2> QED BY <2>1 DEF NoneLost
<1>3. CASE u = t
  <2>1. \A a : [pc EXCEPT ![t] = a][t] = a
    BY <1>1 DEF ClassInv
  <2>2. \A p : [ptr EXCEPT ![t] = p][t] = p
    BY <1>1 DEF ThreadInv
  <2>3. pc[t] = "free_extra" => ptr[t] \notin Pools
    BY DEF NoneLost
  <2>4. ASSUME NEW x, FreeStart(t, x) PROVE ptr'[t] \notin Pools
    <3>1. hdr[x] \notin PoolCaps
      BY <1>3, <2>1, <2>4 DEF FreeStart, Goto
    <3>2. x \notin Pools
      BY <1>1, <3>1, PoolOfChunk
    <3> QED BY <2>2, <2>4, <3>2 DEF FreeStart
  <2>5. CASE CallOf(t)
    <3>1. CASE \E s \in Sizes : Alloc(t, s)
      <4>1. \A c : Look(c) # "free_extra"
        BY DEF Look
      <4> QED BY <1>3, <2>1, <2>3, <3>1, <4>1 DEF Alloc, Fault, threadVars, Goto
    <3>2. CASE \E h \in held[t] : Free(t, h)
      BY <1>3, <2>3, <2>4, <3>2 DEF Free, Fault, threadVars
    <3>3. CASE \E h \in held[t] : \E s \in Sizes : Realloc(t, h, s)
      <4>1. \A c : Look(c) # "free_extra"
        BY DEF Look
      <4> QED BY <1>3, <2>1, <2>3, <3>3, <4>1, SMTT(60) DEF Realloc, Fault, threadVars, Goto
    <3> QED BY <2>5, <3>1, <3>2, <3>3 DEF CallOf
  <2>6. CASE AllocAgain(t) \/ LookAgain(t) \/ MkEl(t) \/ FillEl(t)
    <3>1. \A c : Look(c) # "free_extra"
      BY DEF Look
    <3> QED BY <1>3, <2>1, <2>3, <2>6, <3>1
      DEF AllocAgain, LookAgain, MkEl, FillEl, Fault, threadVars, Goto
  <2>7. CASE ExpandEl(t) \/ Refill(t)
    BY <1>3, <2>1, <2>3, <2>7 DEF ExpandEl, Refill, Fault, threadVars, Goto
  <2>8. CASE SelectPreAlloced(t) \/ SelectExtra(t)
    BY <1>3, <2>1, <2>3, <2>8 DEF SelectPreAlloced, SelectExtra, GiveChunk, Goto
  <2>9. CASE FreePreAlloced(t) \/ FreeExtra(t)
    <3>1. FreeEnd(t) \/ UNCHANGED <<pc, cap, ptr>>
      BY <2>9 DEF FreePreAlloced, FreeExtra, GiveBack, Fault, threadVars
    <3> QED BY <1>3, <2>1, <2>3, <3>1 DEF FreeEnd, Goto
  <2>10. CASE Memcpy(t)
    BY <1>3, <2>3, <2>4, <2>10 DEF Memcpy, Fault, threadVars
  <2>11. CASE Find(t)
    <3> DEFINE c == cap[t]
    <3>1. pc[t] = "find" /\ ptr' = ptr
      BY <2>11 DEF Find
    <3>2. node[t] = NULL /\ ptr[t] \notin ToSet(Alloced(c))
      BY <1>3, <2>1, <2>11, <3>1 DEF Find, Goto, Alloced
    <3>3. ASSUME ptr[t] \in Pools PROVE FALSE
      <4>1. hdr[ptr[t]] = c
        BY <3>1, <3>3 DEF PoolInv, Freed, Freeing
      <4>2. c \in PoolCaps /\ ptr[t] \in PoolChunks(c)
        BY <1>1, <3>3, <4>1, PoolOfChunk
      <4>3. ptr[t] \in AllOut
        <5>1. ptr[t] # NULL
          BY <1>1, <3>1 DEF ThreadInv, Handling, Freeing
        <5> QED BY <5>1 DEF AllOut, Out
      <4>4. Has(Alloced(c), ptr[t])
        BY <4>2, <4>3 DEF PoolInv, PoolBooks, PoolOk, Alloced
      <4> QED BY <3>2, <4>4 DEF Has, ToSet
    <3> QED BY <1>3, <3>1, <3>3
  <2> QED BY <2>5, <2>6, <2>7, <2>8, <2>9, <2>10, <2>11 DEF Step
<1> QED BY <1>2, <1>3

\* A thread that frees has a chunk whose word does not change under it.
LEMMA FreedSame ==
  ASSUME ThreadInv', NEW K, ClassKept(K), \A x \in AllOut' : hdr'[x] = hdr[x]
  PROVE  Freed(K)'
<1>1. ASSUME NEW u \in Threads, pc'[u] \in Freeing, ptr'[u] \in K PROVE hdr'[ptr'[u]] = hdr[ptr'[u]]
  <2>1. ptr'[u] # NULL
    BY <1>1 DEF ThreadInv, Handling
  <2>2. ptr'[u] \in AllOut'
    BY <2>1 DEF AllOut, Out
  <2> QED BY <2>2
<1> QED BY <1>1, FreedKeeps

\* What the books of the extra lists hold does not change.
LEMMA ExtraSame ==
  ASSUME ThreadInv', MemInv, ExtraInv, UseBooks(Extras)', ClassKept(Extras),
         UNCHANGED <<elm_table, hdr>>, AllOut' \subseteq live,
         \A x : x \notin Pools => (x \in AllOut' <=> x \in AllOut),
         \A c \in PoolCaps : \A x : Has(Alloced(c)', x) => x \in AllOut',
         \A c : Busy(c) /\ elm_table[c] # NoElm =>
           Busy(c)' \/ elm_table[c].idle_num # elm_table[c].total_num,
         \A u \in Threads : pc'[u] = "free_extra" => ptr'[u] \notin Pools
  PROVE  ExtraInv'
<1>1. Freed(Extras)'
  BY FreedSame
<1>2. live' = live /\ \A c : Extra(c)' = Extra(c)
  BY DEF live, Extra
<1>3. NoneLost'
  BY <1>2 DEF ExtraInv, NoneLost
<1>4. ASSUME NEW c \in Caps PROVE ElmUsed(elm_table[c], AllOut', Busy(c)')
  <2> DEFINE e == elm_table[c]
             out == AllOut
             now == AllOut'
             b == Busy(c)
             d == Busy(c)'
  <2>1. ElmUsed(e, out, b) /\ (b /\ e # NoElm => d \/ e.idle_num # e.total_num)
    BY DEF ExtraInv
  <2>2. \A x : x \notin Pools => (x \in now <=> x \in out)
    OBVIOUS
  <2>3. e # NoElm => \A x : Has(Contents(e.chunks_list), x) => x \notin Pools
    BY DEF MemInv, ElmBooks, ElmOk
  <2> HIDE DEF e, out, now, b, d
  <2>4. ElmUsed(e, now, d)
    <3>1. CASE e = NoElm
      BY <3>1 DEF ElmUsed
    <3>2. CASE e # NoElm
      <4>1. \A x : Has(Contents(e.chunks_list), x) => (x \in now <=> x \in out)
        BY <2>2, <2>3, <3>2
      <4> QED BY <2>1, <3>2, <4>1, SameUsed
    <3> QED BY <3>1, <3>2
  <2> QED BY <2>4 DEF e, now, d
<1> QED BY <1>1, <1>3, <1>4 DEF ExtraInv

\* A list of the others of class c stays as it is.
LEMMA OtherUsed ==
  ASSUME ListInv, MemInv, ExtraInv, NEW c \in Caps, NEW e,
         elm_table' = [elm_table EXCEPT ![c] = e], ElmUsed(e, AllOut', Busy(c)'),
         \A x : x \in AllOut' /\ x \notin AllOut => x \in live /\ hdr[x] = c,
         \A x : x \in AllOut /\ x \notin AllOut' => hdr[x] = c,
         \A d : d # c /\ Busy(d) => Busy(d)'
  PROVE  \A d \in Caps : ElmUsed(elm_table[d], AllOut, Busy(d))'
<1>1. ASSUME NEW d \in Caps PROVE ElmUsed(elm_table'[d], AllOut', Busy(d)')
  <2>1. elm_table'[d] = IF d = c THEN e ELSE elm_table[d]
    BY DEF ListInv
  <2>2. CASE d = c
    BY <2>1, <2>2
  <2>3. CASE d # c
    <3> DEFINE f == elm_table[d]
               out == AllOut
               now == AllOut'
               b == Busy(d)
               k == Busy(d)'
    <3>1. ElmUsed(f, out, b) /\ (b => k)
      BY <2>3 DEF ExtraInv
    <3>2. /\ \A x : x \in now /\ x \notin out => hdr[x] = c
          /\ \A x : x \in out /\ x \notin now => hdr[x] = c
          /\ elm_table'[d] = f
      BY <2>1, <2>3
    <3>3. f # NoElm => \A x : Has(Contents(f.chunks_list), x) => hdr[x] = d
      BY DEF MemInv, ElmBooks, ElmOk
    <3> HIDE DEF f, out, now, b, k
    <3>4. ElmUsed(f, now, k)
      <4>1. CASE f = NoElm
        BY <4>1 DEF ElmUsed
      <4>2. CASE f # NoElm
        <5>1. \A x : Has(Contents(f.chunks_list), x) => (x \in now <=> x \in out)
          BY <2>3, <3>2, <3>3, <4>2
        <5> QED BY <3>1, <5>1, SameUsed
      <4> QED BY <4>1, <4>2
    <3> QED BY <3>2, <3>4 DEF now, k
  <2> QED BY <2>2, <2>3
<1> QED BY <1>1

\* Class c gets chunks of the system.
LEMMA ExtraObtains ==
  ASSUME ListInv, MemInv, ExtraInv, ThreadInv', UseBooks(Extras)', ClassKept(Extras),
         NEW c \in Caps, NEW e, Obtain(c, e, DEFAULT_EXTRA), UNCHANGED pool,
         \/ elm_table[c] = NoElm /\ e = NewElm(DEFAULT_EXTRA)
         \/ /\ elm_table[c] # NoElm /\ e = LargerElm(elm_table[c], DEFAULT_EXTRA)
            /\ ~Wraps(elm_table[c]),
         \A x : x \in AllOut' <=> x \in AllOut, Busy(c)', \A d : Busy(d) => Busy(d)',
         \A u \in Threads : pc'[u] = "free_extra" => ptr'[u] \notin Pools
  PROVE  ExtraInv'
<1> DEFINE n == DEFAULT_EXTRA
           ch == Malloc(n)
           g == hdr'
           f == elm_table[c]
           out == AllOut
           b == Busy(c)
<1>1. /\ n \in Nat \ {0} /\ n < COUNT_MOD /\ MaxChunks \in Nat
      /\ Cardinality(Chunks \ live) >= n
  BY MmAssumption DEF Obtain
<1>2. /\ ch \in Seq(Chunks) /\ Len(ch) = n
      /\ \A i \in 1 .. n : ch[i] \in Chunks \ live
  BY <1>1, MallocIs
<1>3. /\ elm_table' = [elm_table EXCEPT ![c] = e]
      /\ g = [x \in live \cup ToSet(ch) |-> IF x \in live THEN hdr[x] ELSE c]
  BY DEF Obtain
<1>4. /\ \A x \in live : x \in DOMAIN g /\ g[x] = hdr[x]
      /\ \A x \in DOMAIN g : x \notin live => g[x] = c /\ x \in ToSet(ch)
  BY <1>3
<1>5. \A x \in ToSet(ch) : \E i \in 1 .. n : x = ch[i]
  <2> HIDE DEF ch, n
  <2> QED BY <1>1, <1>2 DEF ToSet
<1>6. out \subseteq live
  BY DEF ExtraInv, NoneLost
<1>7. \A k \in 1 .. n : ch[k] \notin out
  BY <1>2, <1>6
<1>8. /\ ElmUsed(e, out, TRUE) /\ e # NoElm
      /\ \A k \in 1 .. n : Has(Contents(e.chunks_list), ch[k])
      /\ \A x : f # NoElm /\ Has(Contents(f.chunks_list), x) => Has(Contents(e.chunks_list), x)
  <2>1. CASE f = NoElm /\ e = NewElm(n)
    <3>1. e # NoElm
      <4>1. NewElm(n) \in Elms
        BY <1>1, NewElmIs
      <4> QED BY <2>1, <4>1, ElmIs
    <3> HIDE DEF n, out, f
    <3> QED BY <1>1, <1>7, <2>1, <3>1, NewUsed
  <2>2. CASE f # NoElm /\ e = LargerElm(f, n) /\ ~Wraps(f)
    <3>1. f \in Elms /\ ElmOk(c, f, hdr) /\ ElmUsed(f, out, b)
      BY <2>2 DEF ListInv, MemInv, ElmBooks, ExtraInv
    <3>2. e # NoElm
      <4>1. LargerElm(f, n) \in Elms
        <5> HIDE DEF f
        <5> QED BY <1>1, <3>1, LargerElmIs
      <4> QED BY <2>2, <4>1, ElmIs
    <3>3. \A x : Has(Contents(f.chunks_list), x) => x \in live
      BY <2>2, <3>1 DEF ElmOk, live
    <3>4. f.total_num + n < COUNT_MOD
      <4>1. f.total_num \in Nat /\ COUNT_MOD \in Nat
        <5> HIDE DEF f
        <5> QED BY <3>1, ElmHolds, MmAssumption DEF Uint16s
      <4> HIDE DEF f
      <4> QED BY <1>1, <2>2, <4>1 DEF Wraps
    <3> HIDE DEF n, out, f, b
    <3> QED BY <1>1, <1>7, <2>2, <3>1, <3>2, <3>3, <3>4, LargerUsed
  <2> QED BY <2>1, <2>2
<1>9. ElmUsed(e, AllOut', Busy(c)')
  <2> DEFINE now == AllOut'
             d == Busy(c)'
  <2>1. d /\ \A x : x \in now <=> x \in out
    OBVIOUS
  <2> HIDE DEF out, now, d
  <2>2. ElmUsed(e, now, d)
    BY <1>8, <2>1, SameUsed
  <2> QED BY <2>2 DEF now, d
<1>10. \A d \in Caps : ElmUsed(elm_table[d], AllOut, Busy(d))'
  <2> HIDE DEF g
  <2> QED BY <1>3, <1>9, OtherUsed
<1>11. \A x \in AllOut' : x \in live /\ hdr'[x] = hdr[x]
  BY <1>4, <1>6
<1>12. Freed(Extras)'
  BY <1>11, FreedSame
<1>13. ASSUME NEW x \in DOMAIN g \ Pools
       PROVE  elm_table'[g[x]] # NoElm /\ Has(Contents(elm_table'[g[x]].chunks_list), x)
  <2>1. elm_table'[c] = e /\ \A d : d # c => elm_table'[d] = elm_table[d]
    <3>1. elm_table \in [Caps -> {NoElm} \cup Elms]
      BY DEF ListInv
    <3> HIDE DEF n, g
    <3> QED BY <1>3, <3>1
  <2>2. CASE x \in live
    <3>1. g[x] = hdr[x] /\ elm_table[hdr[x]] # NoElm /\ Has(Extra(hdr[x]), x)
      BY <1>4, <2>2 DEF ExtraInv, NoneLost
    <3> HIDE DEF g
    <3>2. CASE hdr[x] = c
      BY <1>8, <2>1, <3>1, <3>2 DEF Extra
    <3>3. CASE hdr[x] # c
      BY <2>1, <3>1, <3>3 DEF Extra
    <3> QED BY <3>2, <3>3
  <2>3. CASE x \notin live
    <3>1. g[x] = c /\ x \in ToSet(ch)
      BY <1>4, <2>3
    <3> HIDE DEF g, ch
    <3> QED BY <1>5, <1>8, <2>1, <3>1 DEF Extra
  <2> QED BY <2>2, <2>3
<1>14. NoneLost'
  <2>1. \A d : Alloced(d)' = Alloced(d)
    BY DEF Alloced
  <2>2. AllOut' \subseteq DOMAIN g
    BY <1>4, <1>6
  <2>3. \A d \in PoolCaps : \A x : Has(Alloced(d)', x) => x \in AllOut'
    BY <2>1 DEF ExtraInv, NoneLost
  <2>4. \A x \in DOMAIN g \ Pools : elm_table'[g[x]] # NoElm /\ Has(Contents(elm_table'[g[x]].chunks_list), x)
    BY <1>13
  <2> QED BY <2>2, <2>3, <2>4 DEF NoneLost, live, Extra
<1> QED BY <1>10, <1>12, <1>14 DEF ExtraInv

\* The books of the extra lists when one list changes and no chunk comes or goes.
LEMMA ExtraSwaps ==
  ASSUME ListInv, MemInv, PoolInv, ExtraInv, ThreadInv', UseBooks(Extras)', ClassKept(Extras),
         NEW c \in Caps, NEW e, elm_table' = [elm_table EXCEPT ![c] = e], UNCHANGED <<pool, hdr>>,
         e # NoElm, ElmUsed(e, AllOut', Busy(c)'),
         \A x : Has(Extra(c), x) => Has(Contents(e.chunks_list), x),
         \A x : x \in AllOut' => x \in live, \A x \in Pools : x \in AllOut => x \in AllOut',
         \A x : x \in AllOut' /\ x \notin AllOut => hdr[x] = c,
         \A x : x \in AllOut /\ x \notin AllOut' => hdr[x] = c,
         \A d : d # c /\ Busy(d) => Busy(d)',
         \A u \in Threads : pc'[u] = "free_extra" => ptr'[u] \notin Pools
  PROVE  ExtraInv'
<1>1. \A d \in Caps : ElmUsed(elm_table[d], AllOut, Busy(d))'
  BY OtherUsed
<1>2. Freed(Extras)'
  BY FreedSame
<1>3. elm_table'[c] = e /\ \A d : d # c => elm_table'[d] = elm_table[d]
  BY DEF ListInv
<1>4. ASSUME NEW x \in live \ Pools
      PROVE  elm_table'[hdr[x]] # NoElm /\ Has(Contents(elm_table'[hdr[x]].chunks_list), x)
  <2>1. elm_table[hdr[x]] # NoElm /\ Has(Extra(hdr[x]), x)
    BY DEF ExtraInv, NoneLost
  <2>2. CASE hdr[x] = c
    BY <1>3, <2>1, <2>2
  <2>3. CASE hdr[x] # c
    BY <1>3, <2>1, <2>3 DEF Extra
  <2> QED BY <2>2, <2>3
<1>5. ASSUME NEW d \in PoolCaps, NEW x, Has(Alloced(d)', x) PROVE x \in AllOut'
  <2>1. Has(Alloced(d), x)
    BY <1>5 DEF Alloced
  <2>2. x \in AllOut
    BY <2>1 DEF ExtraInv, NoneLost
  <2>3. x \in Pools
    BY <2>1 DEF PoolInv, PoolBooks, PoolOk, Alloced, Pools
  <2> QED BY <2>2, <2>3
<1>6. NoneLost'
  BY <1>4, <1>5 DEF NoneLost, live, Extra
<1> QED BY <1>1, <1>2, <1>6 DEF ExtraInv

\* select_extra takes the first chunk of an extra list.
LEMMA ExtraTaken ==
  ASSUME ListInv, MemInv, PoolInv, ExtraInv, status = "run", NEW t \in Threads, UNCHANGED calls,
         SelectExtra(t), elm_table[cap[t]].idle_num # 0, ~missed', NEW c, c = cap[t]
  PROVE  ExtraInv'
<1> DEFINE x == Extra(c)[1]
           e == elm_table[c]
           l == Taken(e)
           out == AllOut
           more == AllOut'
           b == Busy(c)
<1>1. /\ ClassInv /\ ThreadInv /\ UseBooks(Extras) /\ Freed(Extras)
  BY DEF MemInv, PoolInv, ExtraInv
<1>2. /\ ThreadInv' /\ Gives(t, x) /\ x \in Chunks
      /\ x \in live \ Pools /\ hdr[x] = c /\ c \in Caps
      /\ elm_table' = [elm_table EXCEPT ![c] = l]
      /\ UNCHANGED <<pool, raw, hdr, missed>>
  BY <1>1, ExtraGiven
<1>3. e \in Elms /\ ElmOk(c, e, hdr) /\ ElmUsed(e, out, b) /\ e.idle_num # 0
  <2>1. e \in Elms
    BY <1>2, PopExtra
  <2> QED BY <1>2, <2>1 DEF MemInv, ElmBooks, ExtraInv
<1>4. x \notin out
  <2> HIDE DEF e, out, b
  <2>1. Contents(e.chunks_list)[1] \notin out
    <3> DEFINE s == out \cup {Contents(e.chunks_list)[1]}
    <3>1. \A y : y \in s <=> y \in out \/ y = Contents(e.chunks_list)[1]
      OBVIOUS
    <3> HIDE DEF s
    <3> QED BY <1>3, <3>1, TakenUsed
  <2> QED BY <2>1 DEF Extra, e
<1>5. /\ UseBooks(Extras)' /\ ClassKept(Extras)
      /\ \A y : y \in more <=> y \in out \/ y = x
  <2> HIDE DEF x
  <2> QED BY <1>1, <1>2, <1>4, UseGives
<1>6. /\ ElmUsed(l, more, FALSE)
      /\ \A y : Has(Extra(c), y) => Has(Contents(l.chunks_list), y)
  <2>1. Extra(c) = Contents(e.chunks_list) /\ x = Contents(e.chunks_list)[1]
    BY DEF Extra
  <2> HIDE DEF e, out, more, b, x
  <2>2. /\ ElmUsed(Taken(e), more, FALSE)
        /\ \A y : Has(Contents(Taken(e).chunks_list), y) <=> Has(Contents(e.chunks_list), y)
    <3>1. \A y : y \in more <=> y \in out \/ y = Contents(e.chunks_list)[1]
      BY <1>5, <2>1
    <3> QED BY <1>3, <3>1, TakenUsed
  <2> QED BY <2>1, <2>2
<1>7. l # NoElm /\ ElmUsed(l, AllOut', Busy(c)')
  <2>1. Taken(e) \in Elms
    <3> HIDE DEF e
    <3> QED BY <1>3, TakenOk
  <2>2. l # NoElm
    <3> HIDE DEF l
    <3> QED BY <2>1, ElmIs DEF l
  <2> DEFINE d == Busy(c)'
  <2> HIDE DEF l, d, more
  <2>3. ElmUsed(l, more, d)
    BY <1>6, SameUsed
  <2> QED BY <2>2, <2>3 DEF more, d
<1>8. \A d : d # c /\ Busy(d) => Busy(d)'
  <2>1. CallOf(t) \/ Step(t)
    BY DEF Step
  <2> QED BY <1>1, <2>1, BusyStays
<1>9. \A u \in Threads : pc'[u] = "free_extra" => ptr'[u] \notin Pools
  <2>1. (CallOf(t) \/ Step(t)) /\ NoneLost
    BY DEF Step, ExtraInv
  <2> QED BY <2>1, TidyStays
<1>10. /\ \A y : y \in AllOut' => y \in live
       /\ \A y \in Pools : y \in AllOut => y \in AllOut'
       /\ \A y : y \in AllOut' /\ y \notin AllOut => hdr[y] = c
       /\ \A y : y \in AllOut /\ y \notin AllOut' => hdr[y] = c
  <2>1. out \subseteq live
    BY DEF ExtraInv, NoneLost
  <2> HIDE DEF x
  <2> QED BY <1>2, <1>5, <2>1
<1> HIDE DEF l, x
<1> QED BY <1>2, <1>5, <1>6, <1>7, <1>8, <1>9, <1>10, ExtraSwaps

\* dc_free puts a chunk back into its extra list, or gives the list back.
LEMMA ExtraReturned ==
  ASSUME ListInv, MemInv, PoolInv, ExtraInv, status = "run", NEW t \in Threads, UNCHANGED calls,
         FreeExtra(t), FreeBack(t), ~missed', NEW c, c = cap[t], NEW x, x = ptr[t]
  PROVE  ExtraInv'
<1> DEFINE e == elm_table[c]
           l == Returned(e, x)
           out == AllOut
           less == AllOut'
           b == Busy(c)
<1>1. /\ ClassInv /\ ThreadInv /\ UseBooks(Extras) /\ Freed(Extras) /\ NoneLost
      /\ Handling(pc[t], cap[t], ptr[t], old[t], node[t], held[t])
  BY DEF MemInv, PoolInv, ExtraInv, ThreadInv
<1>2. pc[t] = "free_extra" /\ pc[t] \in Freeing
  BY DEF FreeBack, Freeing
<1>3. ThreadInv' /\ Ends(t) /\ c \in Caps /\ UNCHANGED <<pool, raw, missed>>
  BY <1>1, ExtraEnds
<1>4. x \notin Pools /\ x \in Extras /\ hdr[x] = c
  <2>1. x \notin Pools /\ x \in Chunks
    BY <1>1, <1>2 DEF NoneLost, Handling
  <2>2. x \in Extras
    BY <2>1 DEF Extras
  <2> QED BY <1>1, <1>2, <2>1, <2>2 DEF Freed
<1>5. /\ UseBooks(Extras)' /\ ClassKept(Extras) /\ x \in out
      /\ \A y : y \in less <=> y \in out /\ y # x
  BY <1>1, <1>3, <1>4, UseEnds
<1>6. x \in live /\ e # NoElm /\ Has(Extra(c), x)
  <2>1. x \in live
    BY <1>1, <1>5 DEF NoneLost
  <2> QED BY <1>1, <1>4, <2>1 DEF NoneLost
<1>7. e \in Elms /\ ElmOk(c, e, hdr) /\ ElmUsed(e, out, b) /\ Extra(c) = Contents(e.chunks_list)
  BY <1>3, <1>6 DEF ListInv, MemInv, ElmBooks, ExtraInv, Extra
<1>8. \A d : Busy(d) => Busy(d)'
  <2>1. CallOf(t) \/ Step(t)
    BY DEF Step
  <2>2. ~SelectExtra(t)
    BY <1>2 DEF SelectExtra
  <2> QED BY <1>1, <2>1, <2>2, BusyStays
<1>9. \A u \in Threads : pc'[u] = "free_extra" => ptr'[u] \notin Pools
  <2>1. CallOf(t) \/ Step(t)
    BY DEF Step
  <2> QED BY <1>1, <2>1, TidyStays
<1>10. out \subseteq live
  BY <1>1 DEF NoneLost
<1>11. CASE ~AllIdle(e)
  <2>1. elm_table' = [elm_table EXCEPT ![c] = l] /\ UNCHANGED hdr
    BY <1>6, <1>11 DEF FreeBack, GiveBack
  <2>2. /\ ElmUsed(Returned(e, x), less, FALSE) /\ Returned(e, x) # NoElm
        /\ \A y : Has(Contents(Returned(e, x).chunks_list), y) <=> Has(Contents(e.chunks_list), y)
    <3>1. Has(Contents(e.chunks_list), x)
      BY <1>6, <1>7
    <3> HIDE DEF e, out, less, b
    <3>2. /\ Returned(e, x) # NoElm
          /\ \A y : Has(Contents(Returned(e, x).chunks_list), y) <=> Has(Contents(e.chunks_list), y)
      <4>1. /\ Returned(e, x) \in Elms
            /\ \A y : Has(Contents(Returned(e, x).chunks_list), y) <=> Has(Contents(e.chunks_list), y)
        BY <1>7, ReturnedOk
      <4> QED BY <4>1, ElmIs
    <3>3. \A y : y \in less <=> y \in out /\ y # x
      BY <1>5
    <3>4. x \in out /\ e \in Elms /\ ElmOk(c, e, hdr) /\ ElmUsed(e, out, b)
      BY <1>5, <1>7
    <3>5. ElmUsed(Returned(e, x), less, FALSE)
      BY ONLY <1>11, <3>1, <3>3, <3>4, ReturnedUsed
    <3> QED BY <3>2, <3>5
  <2> DEFINE d == Busy(c)'
  <2> HIDE DEF l, d, less
  <2>3. ElmUsed(l, less, d)
    BY <2>2, SameUsed DEF l
  <2>4. ElmUsed(l, AllOut', Busy(c)') /\ l # NoElm
    BY <2>2, <2>3 DEF less, d, l
  <2>5. \A y : Has(Extra(c), y) => Has(Contents(l.chunks_list), y)
    BY <1>7, <2>2 DEF l
  <2>6. /\ \A y : y \in AllOut' => y \in live
        /\ \A y \in Pools : y \in AllOut => y \in AllOut'
        /\ \A y : y \in AllOut' /\ y \notin AllOut => hdr[y] = c
        /\ \A y : y \in AllOut /\ y \notin AllOut' => hdr[y] = c
    BY <1>4, <1>5, <1>10 DEF less
  <2> QED BY <1>3, <1>5, <1>8, <1>9, <2>1, <2>4, <2>5, <2>6, ExtraSwaps
<1>12. CASE AllIdle(e)
  <2> DEFINE s == Extra(c)
             g == hdr'
  <2>1. /\ elm_table' = [elm_table EXCEPT ![c] = NoElm]
        /\ g = Restrict(hdr, live \ ToSet(s))
    BY <1>6, <1>12 DEF FreeBack, GiveBack, Extra
  <2>2. DOMAIN g = live \ ToSet(s) /\ \A y \in live \ ToSet(s) : g[y] = hdr[y]
    BY <2>1 DEF Restrict
  <2>3. \A y : y \in ToSet(s) <=> Has(s, y)
    <3> HIDE DEF s
    <3> QED BY DEF ToSet, Has
  <2>4. \A y \in out : Has(s, y) => y = x
    <3> HIDE DEF e, out, b
    <3> QED BY <1>5, <1>6, <1>7, <1>12, LastUsed
  <2>5. \A y : Has(s, y) => y \in live \ Pools /\ hdr[y] = c
    BY <1>6, <1>7 DEF ElmOk, live
  <2> HIDE DEF s, g
  <2>6. ElmUsed(NoElm, AllOut', Busy(c)')
    BY DEF ElmUsed
  <2>7. \A d \in Caps : ElmUsed(elm_table[d], AllOut, Busy(d))'
    <3>1. /\ \A y : y \in AllOut' /\ y \notin AllOut => y \in live /\ hdr[y] = c
          /\ \A y : y \in AllOut /\ y \notin AllOut' => hdr[y] = c
      BY <1>4, <1>5
    <3> QED BY <1>3, <1>8, <2>1, <2>6, <3>1, OtherUsed
  <2>8. \A y \in AllOut' : y \in DOMAIN g /\ hdr'[y] = hdr[y]
    <3>1. \A y \in less : y \in live /\ y \notin ToSet(s)
      BY <1>5, <1>10, <2>3, <2>4
    <3> QED BY <2>2, <3>1 DEF g
  <2>9. Freed(Extras)'
    BY <1>3, <1>5, <2>8, FreedSame
  <2>10. ASSUME NEW y \in DOMAIN g \ Pools
         PROVE  elm_table'[g[y]] # NoElm /\ Has(Contents(elm_table'[g[y]].chunks_list), y)
    <3>1. y \in live /\ g[y] = hdr[y] /\ ~Has(s, y)
      BY <2>2, <2>3
    <3>2. elm_table[hdr[y]] # NoElm /\ Has(Extra(hdr[y]), y)
      BY <1>1, <3>1 DEF NoneLost
    <3>3. hdr[y] # c
      BY <3>1, <3>2 DEF s
    <3>4. elm_table'[hdr[y]] = elm_table[hdr[y]]
      BY <2>1, <3>3 DEF ListInv
    <3> QED BY <3>1, <3>2, <3>4 DEF Extra
  <2>11. ASSUME NEW d \in PoolCaps, NEW y, Has(Alloced(d)', y) PROVE y \in AllOut'
    <3>1. Has(Alloced(d), y)
      BY <1>3, <2>11 DEF Alloced
    <3>2. y \in AllOut
      BY <1>1, <3>1 DEF NoneLost
    <3>3. y \in Pools
      BY <3>1 DEF PoolInv, PoolBooks, PoolOk, Alloced, Pools
    <3> QED BY <1>4, <1>5, <3>2, <3>3
  <2>12. NoneLost'
    <3>1. AllOut' \subseteq DOMAIN g
      BY <2>8
    <3> QED BY <1>9, <2>10, <2>11, <3>1 DEF NoneLost, live, Extra, g
  <2> QED BY <1>5, <2>7, <2>9, <2>12 DEF ExtraInv
<1> QED BY <1>11, <1>12

\* The steps that move a thread and nothing else.
LEMMA ExtraQuiet ==
  ASSUME MemInv, PoolInv, ExtraInv, ThreadInv', NEW t \in Threads, CallOf(t) \/ Step(t), ~missed',
         Quiet(t) \/ UNCHANGED threadVars, UNCHANGED <<pool, elm_table, hdr>>,
         SelectExtra(t) /\ elm_table[cap[t]] # NoElm =>
           elm_table[cap[t]].idle_num # elm_table[cap[t]].total_num
  PROVE  ExtraInv'
<1>1. ClassInv /\ ThreadInv /\ UseBooks(Extras) /\ Freed(Extras) /\ NoneLost
  BY DEF MemInv, PoolInv, ExtraInv
<1>2. /\ UseBooks(Extras)' /\ ClassKept(Extras)
      /\ \A x : x \in AllOut' <=> x \in AllOut
  BY <1>1, UseQuiet, UseStays
<1>3. \A u \in Threads : pc'[u] = "free_extra" => ptr'[u] \notin Pools
  BY <1>1, TidyStays
<1>4. \A c : Busy(c) /\ elm_table[c] # NoElm =>
         Busy(c)' \/ elm_table[c].idle_num # elm_table[c].total_num
  BY <1>1, BusyStays
<1>5. AllOut' \subseteq live
  BY <1>1, <1>2 DEF NoneLost
<1>6. \A c \in PoolCaps : \A x : Has(Alloced(c)', x) => x \in AllOut'
  BY <1>1, <1>2 DEF NoneLost, Alloced
<1> QED BY <1>2, <1>3, <1>4, <1>5, <1>6, ExtraSame

\* When nothing happens.
LEMMA ExtraStutters ==
  ASSUME MemInv, PoolInv, ExtraInv, UNCHANGED vars
  PROVE  ExtraInv'
<1>1. /\ UNCHANGED threadVars /\ UNCHANGED memVars
      /\ UNCHANGED <<missed, status, calls>>
  BY DEF vars
<1>2. ThreadInv'
  BY <1>1, ThreadStays DEF PoolInv, ThreadInv
<1>3. UNCHANGED <<pc, cap, ptr, old, held, pool, elm_table, hdr>>
  BY <1>1 DEF threadVars, memVars
<1>4. /\ UseBooks(Extras)' /\ ClassKept(Extras)
      /\ \A x : x \in AllOut' <=> x \in AllOut
  BY <1>1, UseStays DEF ExtraInv
<1>5. \A u \in Threads : pc'[u] = "free_extra" => ptr'[u] \notin Pools
  BY <1>3 DEF ExtraInv, NoneLost
<1>6. \A c : Busy(c) => Busy(c)'
  BY <1>3 DEF Busy
<1>7. AllOut' \subseteq live
  BY <1>4 DEF ExtraInv, NoneLost
<1>8. \A c \in PoolCaps : \A x : Has(Alloced(c)', x) => x \in AllOut'
  BY <1>3, <1>4 DEF ExtraInv, NoneLost, Alloced
<1> QED BY <1>2, <1>3, <1>4, <1>5, <1>6, <1>7, <1>8, ExtraSame

\* mk_el and expand_el.
LEMMA ExtraGrown ==
  ASSUME ListInv, MemInv, PoolInv, ExtraInv, status = "run", NEW t \in Threads, UNCHANGED calls,
         FillEl(t) \/ ExpandEl(t) \/ Refill(t), ~missed', NEW c, c = cap[t], NEW e,
         Obtain(c, e, DEFAULT_EXTRA), Goto(t, "select_extra"), UNCHANGED cap,
         \/ elm_table[c] = NoElm /\ e = NewElm(DEFAULT_EXTRA)
         \/ /\ elm_table[c] # NoElm /\ e = LargerElm(elm_table[c], DEFAULT_EXTRA)
            /\ ~Wraps(elm_table[c])
  PROVE  ExtraInv'
<1>1. ClassInv /\ ThreadInv /\ UseBooks(Extras) /\ Freed(Extras) /\ NoneLost
  BY DEF MemInv, PoolInv, ExtraInv
<1>2. /\ ThreadInv' /\ UNCHANGED pool
      /\ Keeps(t) \/ UNCHANGED threadVars
  BY <1>1, ThreadSeeks
<1>3. /\ UseBooks(Extras)' /\ ClassKept(Extras)
      /\ \A x : x \in AllOut' <=> x \in AllOut
  BY <1>1, <1>2, UseQuiet, UseStays DEF Quiet
<1>4. (CallOf(t) \/ Step(t)) /\ ~SelectExtra(t)
  BY DEF Step, FillEl, ExpandEl, Refill, SelectExtra
<1>5. \A u \in Threads : pc'[u] = "free_extra" => ptr'[u] \notin Pools
  BY <1>1, <1>4, TidyStays
<1>6. \A d : Busy(d) => Busy(d)'
  BY <1>1, <1>4, BusyStays
<1>7. Busy(c)'
  <2>1. pc'[t] = "select_extra" /\ cap'[t] = c
    BY <1>1 DEF Goto, ClassInv
  <2> QED BY <2>1 DEF Busy
<1>8. c \in Caps
  BY <1>1 DEF ClassInv, Classed
<1> QED BY <1>2, <1>3, <1>5, <1>6, <1>7, <1>8, ExtraObtains

\* A pool's chunk is taken.
LEMMA ExtraPoolTaken ==
  ASSUME ListInv, MemInv, PoolInv, ExtraInv, HdrBooks', status = "run", NEW t \in Threads,
         UNCHANGED calls, SelectPreAlloced(t), pool[cap[t]].idle_num # 0, ~missed'
  PROVE  ExtraInv'
<1> DEFINE x == Popped(pool[cap[t]].idle_chunks)
<1>1. ClassInv /\ ThreadInv /\ UseBooks(Extras) /\ Freed(Extras) /\ NoneLost /\ HdrBooks
  BY DEF MemInv, PoolInv, ExtraInv
<1> HIDE DEF x
<1>2. /\ PoolInv' /\ x \in Pools /\ x \in Chunks /\ Gives(t, x)
      /\ UNCHANGED <<elm_table, hdr, raw, missed>>
      /\ \A c \in PoolCaps : \A y : Has(Alloced(c)', y) => Has(Alloced(c), y) \/ y = x
  BY PoolTake DEF x
<1>3. ThreadInv' /\ x \in live
  BY <1>1, <1>2, PoolHdr DEF PoolInv
<1>4. /\ UseBooks(Extras)' /\ ClassKept(Extras)
      /\ \A y : y \in AllOut' <=> y \in AllOut \/ y = x
  <2>1. x \notin Extras
    BY <1>2 DEF Extras
  <2> QED BY <1>1, <1>2, <2>1, UseGives
<1>5. CallOf(t) \/ Step(t)
  BY DEF Step
<1>6. ~SelectExtra(t)
  BY DEF SelectPreAlloced, SelectExtra
<1>7. \A u \in Threads : pc'[u] = "free_extra" => ptr'[u] \notin Pools
  BY <1>1, <1>5, TidyStays
<1>8. \A d : Busy(d) => Busy(d)'
  BY <1>1, <1>5, <1>6, BusyStays
<1>9. AllOut' \subseteq live
  BY <1>1, <1>3, <1>4 DEF NoneLost
<1>10. \A c \in PoolCaps : \A y : Has(Alloced(c)', y) => y \in AllOut'
  BY <1>1, <1>2, <1>4 DEF NoneLost
<1>11. \A y : y \notin Pools => (y \in AllOut' <=> y \in AllOut)
  BY <1>2, <1>4
<1> QED BY <1>2, <1>3, <1>4, <1>7, <1>8, <1>9, <1>10, <1>11, ExtraSame

\* A pool's chunk is put back.
LEMMA ExtraPoolReturned ==
  ASSUME ListInv, MemInv, PoolInv, ExtraInv, HdrBooks', status = "run", NEW t \in Threads,
         UNCHANGED calls, FreePreAlloced(t), ~missed'
  PROVE  ExtraInv'
<1> DEFINE x == ptr[t]
<1>1. ClassInv /\ ThreadInv /\ UseBooks(Extras) /\ Freed(Extras) /\ NoneLost
  BY DEF MemInv, PoolInv, ExtraInv
<1>2. /\ PoolInv' /\ x \in Pools /\ Ends(t)
      /\ UNCHANGED <<elm_table, hdr, raw, missed>>
      /\ \A c \in PoolCaps : \A y : Has(Alloced(c)', y) => Has(Alloced(c), y) /\ y # x
  <2> HIDE DEF x
  <2> QED BY PoolReturn DEF x
<1>3. ThreadInv'
  BY <1>2 DEF PoolInv
<1>4. /\ UseBooks(Extras)' /\ ClassKept(Extras)
      /\ \A y : y \in AllOut' => y \in AllOut
      /\ \A y : y \in AllOut /\ y # x => y \in AllOut'
  BY <1>1, <1>2, UseEnds
<1>5. CallOf(t) \/ Step(t)
  BY DEF Step
<1>6. ~SelectExtra(t)
  BY DEF FreePreAlloced, SelectExtra
<1>7. \A u \in Threads : pc'[u] = "free_extra" => ptr'[u] \notin Pools
  BY <1>1, <1>5, TidyStays
<1>8. \A d : Busy(d) => Busy(d)'
  BY <1>1, <1>5, <1>6, BusyStays
<1> HIDE DEF x
<1>9. AllOut' \subseteq live
  BY <1>1, <1>4 DEF NoneLost
<1>10. \A c \in PoolCaps : \A y : Has(Alloced(c)', y) => y \in AllOut'
  BY <1>1, <1>2, <1>4 DEF NoneLost
<1>11. \A y : y \notin Pools => (y \in AllOut' <=> y \in AllOut)
  BY <1>2, <1>4
<1> QED BY <1>2, <1>3, <1>4, <1>7, <1>8, <1>9, <1>10, <1>11, ExtraSame

\* The extra lists' books hold until a search goes astray or a count wraps.
LEMMA ExtraStep ==
  ASSUME ListInv, MemInv, PoolInv, ExtraInv, [Next]_vars, ~missed'
  PROVE  ExtraInv'
<1>1. HdrBooks' /\ ThreadInv
  BY BooksStep DEF PoolInv
<1>2. CASE UNCHANGED vars
  BY <1>2, ExtraStutters
<1>3. ASSUME NEW t \in Threads, status = "run", CallOf(t) PROVE ExtraInv'
  <2>1. /\ ThreadInv' /\ UNCHANGED memVars
        /\ Quiet(t) \/ UNCHANGED threadVars
    BY <1>1, <1>3, ThreadCall
  <2>2. ~SelectExtra(t)
    BY <1>3 DEF CallOf, Alloc, Free, Realloc, SelectExtra
  <2>3. UNCHANGED <<pool, elm_table, hdr>>
    BY <2>1 DEF memVars
  <2> QED BY <1>3, <2>1, <2>2, <2>3, ExtraQuiet
<1>4. ASSUME NEW t \in Threads, status = "run", Step(t), UNCHANGED calls PROVE ExtraInv'
  <2>1. CASE AllocAgain(t) \/ LookAgain(t) \/ MkEl(t)
    <3>1. ThreadInv' /\ (Keeps(t) \/ UNCHANGED threadVars) /\ UNCHANGED pool
      BY <1>1, <1>4, <2>1, ThreadSeeks
    <3>2. UNCHANGED <<elm_table, hdr>>
      BY <2>1 DEF AllocAgain, LookAgain, MkEl, Fault, memVars
    <3>3. ~SelectExtra(t)
      BY <2>1 DEF AllocAgain, LookAgain, MkEl, SelectExtra
    <3> QED BY <1>4, <3>1, <3>2, <3>3, ExtraQuiet DEF Quiet
  <2>2. CASE FillEl(t)
    <3>1. cap[t] \in raw
      BY <2>2 DEF FillEl, MemInv, ClassInv, Classed
    <3>2. elm_table[cap[t]] = NoElm
      BY <3>1 DEF MemInv, RawBooks
    <3>3. /\ Obtain(cap[t], NewElm(DEFAULT_EXTRA), DEFAULT_EXTRA)
          /\ Goto(t, "select_extra") /\ UNCHANGED cap
      BY <2>2 DEF FillEl
    <3> QED BY <1>4, <2>2, <3>2, <3>3, ExtraGrown
  <2>3. CASE ExpandEl(t)
    <3>1. CASE elm_table[cap[t]] = NoElm
      <4>1. UNCHANGED <<threadVars, memVars>> /\ ~SelectExtra(t)
        BY <2>3, <3>1 DEF ExpandEl, Fault, SelectExtra
      <4>2. ThreadInv'
        BY <1>1, <1>4, <2>3, ThreadSeeks
      <4> QED BY <1>4, <4>1, <4>2, ExtraQuiet DEF memVars
    <3>2. CASE elm_table[cap[t]] # NoElm
      <4>1. /\ Obtain(cap[t], LargerElm(elm_table[cap[t]], DEFAULT_EXTRA), DEFAULT_EXTRA)
            /\ Goto(t, "select_extra") /\ UNCHANGED cap /\ ~Wraps(elm_table[cap[t]])
        BY <2>3, <3>2 DEF ExpandEl
      <4> QED BY <1>4, <2>3, <3>2, <4>1, ExtraGrown
    <3> QED BY <3>1, <3>2
  <2>4. CASE Refill(t)
    <3>1. Goto(t, "select_extra") /\ UNCHANGED cap
      BY <2>4 DEF Refill
    <3>2. CASE elm_table[cap[t]] = NoElm
      <4>1. Obtain(cap[t], NewElm(DEFAULT_EXTRA), DEFAULT_EXTRA)
        BY <2>4, <3>2 DEF Refill
      <4> QED BY <1>4, <2>4, <3>1, <3>2, <4>1, ExtraGrown
    <3>3. CASE elm_table[cap[t]] # NoElm /\ elm_table[cap[t]].idle_num = 0
      <4>1. /\ Obtain(cap[t], LargerElm(elm_table[cap[t]], DEFAULT_EXTRA), DEFAULT_EXTRA)
            /\ ~Wraps(elm_table[cap[t]])
        BY <2>4, <3>3 DEF Refill
      <4> QED BY <1>4, <2>4, <3>1, <3>3, <4>1, ExtraGrown
    <3>4. CASE elm_table[cap[t]] # NoElm /\ elm_table[cap[t]].idle_num # 0
      <4>1. UNCHANGED <<elm_table, hdr>> /\ ~SelectExtra(t)
        BY <2>4, <3>4 DEF Refill, SelectExtra
      <4>2. ThreadInv' /\ (Keeps(t) \/ UNCHANGED threadVars) /\ UNCHANGED pool
        BY <1>1, <1>4, <2>4, ThreadSeeks
      <4> QED BY <1>4, <4>1, <4>2, ExtraQuiet DEF Quiet
    <3> QED BY <3>2, <3>3, <3>4
  <2>5. CASE SelectPreAlloced(t)
    <3>1. CASE pool[cap[t]].idle_num = 0
      <4>1. pc[t] \in Allocating /\ ~SelectExtra(t)
        BY <2>5 DEF SelectPreAlloced, Allocating, AllocPool, SelectExtra
      <4>2. Goto(t, "dc_alloc") /\ UNCHANGED <<memVars, size, cap, ptr, node, old, held, status, missed>>
        BY <2>5, <3>1 DEF SelectPreAlloced
      <4>3. ThreadInv' /\ Keeps(t)
        BY <1>1, <1>4, <4>1, <4>2, ThreadTurns
      <4> QED BY <1>4, <4>1, <4>2, <4>3, ExtraQuiet DEF Quiet, memVars
    <3>2. CASE pool[cap[t]].idle_num # 0
      BY <1>1, <1>4, <2>5, <3>2, ExtraPoolTaken
    <3> QED BY <3>1, <3>2
  <2>6. CASE SelectExtra(t)
    <3>1. CASE elm_table[cap[t]].idle_num = 0
      <4>1. pc[t] \in Allocating
        BY <2>6 DEF SelectExtra, Allocating
      <4>2. Goto(t, "dc_alloc") /\ UNCHANGED <<memVars, size, cap, ptr, node, old, held, status, missed>>
        BY <2>6, <3>1 DEF SelectExtra
      <4>3. ThreadInv' /\ Keeps(t)
        BY <1>1, <1>4, <4>1, <4>2, ThreadTurns
      <4>4. ASSUME elm_table[cap[t]] # NoElm
            PROVE  elm_table[cap[t]].idle_num # elm_table[cap[t]].total_num
        <5> DEFINE e == elm_table[cap[t]]
        <5>1. e \in Elms /\ ElmOk(cap[t], e, hdr)
          BY <4>4 DEF ListInv, MemInv, ElmBooks, ClassInv, Classed
        <5>2. e.total_num \in Nat \ {0}
          <6>1. e.chunks_list.length = e.total_num
            BY <4>4 DEF ExtraInv, ElmUsed, ClassInv, Classed, MemInv
          <6> HIDE DEF e
          <6> QED BY <5>1, <6>1, ElmHolds
        <5> QED BY <3>1, <5>2
      <4> QED BY <1>4, <4>2, <4>3, <4>4, ExtraQuiet DEF Quiet, memVars
    <3>2. CASE elm_table[cap[t]].idle_num # 0
      BY <1>4, <2>6, <3>2, ExtraTaken
    <3> QED BY <3>1, <3>2
  <2>7. CASE Find(t)
    <3>1. ThreadInv' /\ Keeps(t) /\ UNCHANGED memVars /\ ~SelectExtra(t)
      BY <1>1, <1>4, <2>7, ThreadFinds DEF Find, SelectExtra
    <3> QED BY <1>4, <3>1, ExtraQuiet DEF Quiet, memVars
  <2>8. CASE FreePreAlloced(t)
    BY <1>1, <1>4, <2>8, ExtraPoolReturned
  <2>9. CASE FreeExtra(t)
    <3>1. CASE FreeBack(t)
      BY <1>4, <2>9, <3>1, ExtraReturned
    <3>2. CASE Fault
      <4>1. ThreadInv' /\ UNCHANGED <<threadVars, memVars>>
        BY <1>1, <1>4, <3>2, FaultStays
      <4>2. ~SelectExtra(t)
        BY <2>9 DEF FreeExtra, SelectExtra
      <4> QED BY <1>4, <4>1, <4>2, ExtraQuiet DEF memVars
    <3> QED BY <2>9, <3>1, <3>2, FreeExtraIs
  <2>10. CASE Memcpy(t)
    <3>1. ThreadInv' /\ (Copies(t) \/ UNCHANGED threadVars) /\ UNCHANGED memVars
      BY <1>1, <1>4, <2>10, ThreadCopies
    <3>2. ~SelectExtra(t)
      BY <2>10 DEF Memcpy, SelectExtra
    <3> QED BY <1>4, <3>1, <3>2, ExtraQuiet DEF Quiet, memVars
  <2> QED BY <1>4, <2>1, <2>2, <2>3, <2>4, <2>5, <2>6, <2>7, <2>8, <2>9, <2>10 DEF Step
<1> QED BY <1>2, <1>3, <1>4 DEF Next

\* When mm_init returns there is no extra list.
LEMMA ExtraInit ==
  ASSUME Init
  PROVE  ExtraInv
<1>1. /\ AllOut = {} /\ \A c \in PoolCaps : \A x : ~Has(Alloced(c), x)
  BY PoolInit
<1>2. UseBooks(Extras) /\ Freed(Extras)
  <2>1. \A t \in Threads : Once(pc[t], ptr[t], old[t], held[t], Extras) /\ pc[t] \notin Freeing
    <3>1. NULL \notin Extras
      BY DEF Extras, Chunks, NULL
    <3> QED BY <3>1 DEF Init, Once, Freeing
  <2>2. \A t \in Threads : Out(t) = {}
    BY DEF Init, Out
  <2> QED BY <2>1, <2>2 DEF UseBooks, Freed
<1>3. NoneLost
  <2>1. live = Pools
    BY DEF Init, live, Pools
  <2>2. \A t \in Threads : pc[t] # "free_extra"
    BY DEF Init
  <2> QED BY <1>1, <2>1, <2>2 DEF NoneLost
<1>4. \A c \in Caps : elm_table[c] = NoElm
  BY DEF Init
<1> QED BY <1>2, <1>3, <1>4 DEF ExtraInv, ElmUsed

\* That a search went astray or a count wrapped is not forgotten.
LEMMA MissedStays ==
  ASSUME [Next]_vars, missed \in BOOLEAN, missed
  PROVE  missed'
<1>1. CASE UNCHANGED vars
  BY <1>1 DEF vars
<1>2. ASSUME NEW t \in Threads, CallOf(t) PROVE missed'
  BY <1>2 DEF CallOf, Alloc, Free, Realloc, Fault
<1>3. ASSUME NEW t \in Threads, Step(t) PROVE missed'
  <2>1. CASE AllocAgain(t) \/ LookAgain(t) \/ MkEl(t) \/ FillEl(t) \/ ExpandEl(t) \/ Refill(t)
    BY <2>1 DEF AllocAgain, LookAgain, MkEl, FillEl, ExpandEl, Refill, Fault
  <2>2. CASE SelectPreAlloced(t) \/ SelectExtra(t)
    BY <2>2 DEF SelectPreAlloced, SelectExtra, GiveChunk
  <2>3. CASE Find(t) \/ FreePreAlloced(t) \/ FreeExtra(t) \/ Memcpy(t)
    BY <2>3 DEF Find, FreePreAlloced, FreeExtra, GiveBack, FreeEnd, Memcpy, Fault
  <2> QED BY <1>3, <2>1, <2>2, <2>3 DEF Step
<1> QED BY <1>1, <1>2, <1>3 DEF Next

\* The inductive invariant of the allocator.
Books == /\ ListInv /\ MemInv /\ PoolInv
         /\ missed \/ ExtraInv

\* The invariant holds at the start ...
LEMMA BooksInit ==
  ASSUME Init
  PROVE  Books
  BY ListInit, MemInit, PoolInit, ExtraInit DEF Books

\* ... and after every step.
LEMMA BooksKept ==
  ASSUME Books, [Next]_vars
  PROVE  Books'
<1>1. ListInv' /\ MemInv' /\ PoolInv'
  BY ListStep, MemStep, PoolStep DEF Books
<1>2. missed' \/ ExtraInv'
  <2>1. missed \in BOOLEAN
    BY DEF Books, PoolInv, ThreadInv
  <2>2. CASE missed
    BY <2>1, <2>2, MissedStays
  <2>3. CASE ~missed
    BY <2>3, ExtraStep DEF Books
  <2> QED BY <2>2, <2>3
<1> QED BY <1>1, <1>2 DEF Books

\* Whatever order threads come to the allocator in, its books stay in order: all of them
\* until an unlocked search of dc_free goes astray (dc_mm1.c:271) or the uint16 count of an
\* extra list wraps (dc_mm1.c:98-101), those of the pools and of what the system gave also
\* after it.
THEOREM BooksHold == Spec => []Books
<1>1. Init => Books
  BY BooksInit
<1>2. Books /\ [Next]_vars => Books'
  BY BooksKept
<1> QED BY <1>1, <1>2, PTL DEF Spec

(***************************************************************************)
(* Types                                                                   *)
(***************************************************************************)

\* The words before the chunks are a function, and a step leaves the word of a chunk alone.
HdrIs == hdr = [x \in live |-> hdr[x]]

\* A step leaves the word before a chunk that stays as it is.
LEMMA HdrKept ==
  ASSUME [Next]_vars, HdrIs
  PROVE  HdrIs' /\ \A x \in live : x \in live' => hdr'[x] = hdr[x]
<1>1. CASE hdr' = hdr
  BY <1>1 DEF HdrIs, live
<1>2. ASSUME NEW c, NEW e, NEW n, Obtain(c, e, n)
      PROVE  HdrIs' /\ \A x \in live : x \in live' => hdr'[x] = hdr[x]
  <2>1. hdr' = [x \in live \cup ToSet(Malloc(n)) |-> IF x \in live THEN hdr[x] ELSE c]
    BY <1>2 DEF Obtain
  <2> DEFINE S == live \cup ToSet(Malloc(n))
  <2> HIDE DEF S
  <2>2. /\ DOMAIN hdr' = S /\ \A x \in S : hdr'[x] = IF x \in live THEN hdr[x] ELSE c
        /\ hdr' = [x \in S |-> hdr'[x]]
    BY <2>1 DEF S
  <2> QED BY <2>2 DEF HdrIs, live
<1>3. ASSUME NEW S, hdr' = Restrict(hdr, live \ S)
      PROVE  HdrIs' /\ \A x \in live : x \in live' => hdr'[x] = hdr[x]
  <2> DEFINE T == live \ S
  <2>1. hdr' = [x \in T |-> hdr[x]]
    BY <1>3 DEF Restrict
  <2> HIDE DEF T
  <2>2. /\ DOMAIN hdr' = T /\ \A x \in T : hdr'[x] = hdr[x]
        /\ hdr' = [x \in T |-> hdr'[x]]
    BY <2>1
  <2> QED BY <2>2 DEF HdrIs, live
<1>4. \/ hdr' = hdr
      \/ \E c, e, n : Obtain(c, e, n)
      \/ \E S : hdr' = Restrict(hdr, live \ S)
  <2>1. CASE UNCHANGED vars
    BY <2>1 DEF vars, memVars
  <2>2. ASSUME NEW t \in Threads, CallOf(t) PROVE hdr' = hdr
    BY <2>2 DEF CallOf, Alloc, Free, Realloc, Fault, memVars
  <2>3. ASSUME NEW t \in Threads, FillEl(t) \/ ExpandEl(t) \/ Refill(t)
        PROVE  hdr' = hdr \/ \E c, e, n : Obtain(c, e, n)
    BY <2>3 DEF FillEl, ExpandEl, Refill, Fault, memVars
  <2>4. ASSUME NEW t \in Threads, FreeExtra(t)
        PROVE  hdr' = hdr \/ \E S : hdr' = Restrict(hdr, live \ S)
    BY <2>4 DEF FreeExtra, GiveBack, Fault, memVars
  <2>5. ASSUME NEW t \in Threads,
               \/ AllocAgain(t) \/ LookAgain(t) \/ MkEl(t) \/ SelectPreAlloced(t)
               \/ SelectExtra(t) \/ Find(t) \/ FreePreAlloced(t) \/ Memcpy(t)
        PROVE  hdr' = hdr
    BY <2>5 DEF AllocAgain, LookAgain, MkEl, SelectPreAlloced, SelectExtra, GiveChunk, Find,
      FreePreAlloced, Memcpy, Fault, memVars
  <2> QED BY <2>1, <2>2, <2>3, <2>4, <2>5 DEF Next, Step
<1> QED BY <1>1, <1>2, <1>3, <1>4

\* What an entry of elm_table counts.
LEMMA ElmCounts ==
  ASSUME Books, NEW c \in Caps
  PROVE  /\ elm_table[c].idle_num \in Uint16s /\ elm_table[c].total_num \in Uint16s
         /\ elm_table[c].idle_num <= elm_table[c].total_num \/ missed
<1> DEFINE e == elm_table[c]
<1>1. e \in {NoElm} \cup Elms
  BY DEF Books, ListInv
<1>2. CASE e = NoElm
  <2>1. e.idle_num = 0 /\ e.total_num = 0 /\ COUNT_MOD \in Nat \ {0}
    BY <1>2, MmAssumption DEF NoElm
  <2> QED BY <2>1 DEF Uint16s
<1>3. CASE e # NoElm
  <2>1. e.idle_num \in Uint16s /\ e.total_num \in Uint16s
    BY <1>1, <1>3, ElmIs
  <2>2. missed \/ e.idle_num <= e.total_num
    BY <1>3 DEF Books, ExtraInv, ElmUsed
  <2> QED BY <2>1, <2>2
<1> QED BY <1>2, <1>3

\* The types follow from the books.
LEMMA MmTypes ==
  ASSUME Books, HdrIs
  PROVE  MmTypeOK
<1>1. ASSUME NEW c \in PoolCaps PROVE pool[c].idle_num \in 0 .. chunks_num
  <2> DEFINE p == pool[c]
  <2>1. chunks_num \in Nat /\ IsList(p.idle_chunks, chunks_num, PoolData(c))
    BY <1>1, MmAssumption DEF Books, ListInv
  <2>2. p.idle_num = p.idle_chunks.length
    BY DEF Books, PoolInv, PoolBooks, PoolOk
  <2> HIDE DEF p
  <2>3. p.idle_chunks.length \in 0 .. chunks_num
    BY <2>1, HoldsIs
  <2> QED BY <2>2, <2>3 DEF p
<1>2. raw \subseteq Caps /\ live \subseteq Chunks /\ hdr \in [live -> Caps]
  BY DEF Books, MemInv, RawBooks, HdrBooks, HdrIs
<1>3. size \in [Threads -> Sizes \cup {0}] /\ cap \in [Threads -> Caps]
  <2>1. \A t \in Threads : size[t] \in Sizes \cup {0} /\ cap[t] \in Caps
    BY DEF Books, MemInv, ClassInv, Classed
  <2>2. size = [t \in Threads |-> size[t]] /\ cap = [t \in Threads |-> cap[t]]
    BY DEF Books, MemInv, ClassInv
  <2> QED BY <2>1, <2>2
<1>4. \A t \in Threads : Handling(pc[t], cap[t], ptr[t], old[t], node[t], held[t])
  BY DEF Books, PoolInv, ThreadInv
<1>5. ptr \in [Threads -> Chunks \cup {NULL}] /\ old \in [Threads -> Chunks \cup {NULL}]
  <2>1. ptr = [t \in Threads |-> ptr[t]] /\ old = [t \in Threads |-> old[t]]
    BY DEF Books, PoolInv, ThreadInv
  <2>2. \A t \in Threads : ptr[t] \in Chunks \cup {NULL} /\ old[t] \in Chunks \cup {NULL}
    BY <1>4 DEF Handling
  <2> QED BY <2>1, <2>2
<1>6. ASSUME NEW t \in Threads
      PROVE  node[t] \in 0 .. chunks_num /\ \A h \in held[t] : h.chunk \in Chunks /\ h.size \in Sizes
  BY <1>4 DEF Handling
<1>7. missed \in BOOLEAN /\ status \in {"run", "fault"} /\ calls \in 0 .. MaxCalls
  BY DEF Books, PoolInv, ThreadInv
<1>8. \A c \in Caps : /\ elm_table[c].idle_num \in 0 .. COUNT_MOD - 1
                      /\ elm_table[c].total_num \in 0 .. COUNT_MOD - 1
                      /\ elm_table[c].idle_num <= elm_table[c].total_num \/ missed
  BY ElmCounts DEF Uint16s
<1> QED BY <1>1, <1>2, <1>3, <1>5, <1>6, <1>7, <1>8 DEF MmTypeOK

\* The variables of the allocator keep their types, the counts of the extra lists being cut
\* to theirs; no list counts more idle chunks than chunks, until a search goes astray or a
\* count wraps (dc_mm1.c:76-79, 98-101, 279, 305).
THEOREM MmTypesHold == Spec => []MmTypeOK
<1>1. Init => HdrIs
  BY DEF Init, HdrIs, live
<1>2. HdrIs /\ [Next]_vars => HdrIs'
  BY HdrKept
<1>3. Spec => []HdrIs
  BY <1>1, <1>2, PTL DEF Spec
<1>4. Books /\ HdrIs => MmTypeOK
  BY MmTypes
<1> QED BY <1>3, <1>4, BooksHold, PTL

(***************************************************************************)
(* Room for what was asked for                                             *)
(***************************************************************************)

\* The class of a size has room for it, if 32 bits hold the size.
LEMMA CapFits ==
  ASSUME NEW s \in Sizes, Cap(s) \in Caps, s < Pow2(UINT32_BITS)
  PROVE  s <= POW2(Cap(s))
<1>1. /\ s \in Nat \ {0} /\ UINT32_BITS \in Nat /\ UINT32_BITS > 2
      /\ BIGGEST_CAP \in Nat /\ BIGGEST_CAP <= UINT32_BITS - 2
  BY MmAssumption, MacroIs DEF UINT32_BITS
<1>2. Pow2(UINT32_BITS - 2) \in Nat
  <2>1. UINT32_BITS - 2 \in Nat
    BY <1>1
  <2> QED BY <2>1, PowIs
<1>3. Cap(s) # UINT32_BITS - 1
  BY <1>1 DEF Caps
<1>4. s <= Pow2(UINT32_BITS - 2)
  BY <1>1, <1>2, <1>3, CapIsSmallest
<1> QED BY <1>1, <1>4, CapIsSmallest

\* A chunk of class c has room for size s, if 32 bits hold it.
Roomy(s, c) == s < Pow2(UINT32_BITS) => s <= POW2(c)

\* What a thread holds has room for the size it asked for.
Fit == \A t \in Threads : \A h \in held[t] : Roomy(h.size, hdr[h.chunk])

\* What threads hold after a step they held before, except for a chunk x that t is given.
LEMMA HeldBefore ==
  ASSUME ThreadInv, NEW t \in Threads, CallOf(t) \/ Step(t)
  PROVE  \/ \A u \in Threads : held'[u] \subseteq held[u]
         \/ \E x : /\ GiveChunk(t, x)
                   /\ \/ SelectPreAlloced(t) /\ x = Popped(pool[cap[t]].idle_chunks)
                         /\ pool[cap[t]].idle_num # 0
                      \/ SelectExtra(t) /\ x = Popped(elm_table[cap[t]].chunks_list)
                         /\ elm_table[cap[t]].idle_num # 0
<1>1. ASSUME NEW h, held' = [held EXCEPT ![t] = @ \ {h}]
      PROVE  \A u \in Threads : held'[u] \subseteq held[u]
  <2>1. held' = [u \in Threads |-> IF u = t THEN held[u] \ {h} ELSE held[u]]
    BY <1>1 DEF ThreadInv
  <2> QED BY <2>1
<1>2. CASE CallOf(t)
  BY <1>1, <1>2 DEF CallOf, Alloc, Free, Realloc, Fault, threadVars
<1>3. CASE \/ AllocAgain(t) \/ LookAgain(t) \/ MkEl(t) \/ FillEl(t) \/ ExpandEl(t) \/ Refill(t)
           \/ Find(t) \/ FreePreAlloced(t) \/ FreeExtra(t) \/ Memcpy(t)
  <2>1. held' = held
    BY <1>3 DEF AllocAgain, LookAgain, MkEl, FillEl, ExpandEl, Refill, Find, FreePreAlloced,
      FreeExtra, GiveBack, FreeEnd, Memcpy, Fault, threadVars
  <2> QED BY <2>1
<1>4. CASE SelectPreAlloced(t)
  BY <1>4 DEF SelectPreAlloced
<1>5. CASE SelectExtra(t)
  BY <1>5 DEF SelectExtra
<1> QED BY <1>2, <1>3, <1>4, <1>5 DEF Step

\* A chunk that is handed out has room for the size, unless a search goes astray.
LEMMA FitStep ==
  ASSUME Books, HdrIs, Fit, [Next]_vars, ~missed'
  PROVE  Fit'
<1>1. /\ Books' /\ \A x \in live : x \in live' => hdr'[x] = hdr[x]
      /\ missed \in BOOLEAN
  BY BooksKept, HdrKept DEF Books, PoolInv, ThreadInv
<1>2. ExtraInv /\ ExtraInv'
  BY <1>1, MissedStays DEF Books
<1>3. /\ \A u \in Threads : \A h \in held[u] : h.chunk \in live
      /\ \A u \in Threads : \A h \in held'[u] : h.chunk \in live'
  <2>1. AllOut \subseteq live /\ AllOut' \subseteq live'
    BY <1>2 DEF ExtraInv, NoneLost
  <2>2. \A u \in Threads : \A h \in held[u] : h.chunk \in AllOut
    BY DEF AllOut, Out
  <2>3. \A u \in Threads : \A h \in held'[u] : h.chunk \in AllOut'
    BY DEF AllOut, Out
  <2> QED BY <2>1, <2>2, <2>3
<1>4. ASSUME NEW u \in Threads, NEW h \in held'[u], h \in held[u]
      PROVE  Roomy(h.size, hdr'[h.chunk])
  <2>1. Roomy(h.size, hdr[h.chunk])
    BY <1>4 DEF Fit
  <2>2. hdr'[h.chunk] = hdr[h.chunk]
    BY <1>1, <1>3, <1>4
  <2> QED BY <2>1, <2>2
<1>5. ASSUME NEW t \in Threads, NEW x, GiveChunk(t, x), NEW c, c = cap[t],
             pc[t] \in Allocating, hdr'[x] = c
      PROVE  Fit'
  <2>1. Classed(pc[t], c, size[t], raw)
    BY <1>5 DEF Books, MemInv, ClassInv
  <2>2. Roomy(size[t], c)
    <3>1. size[t] \in Sizes /\ c = Cap(size[t]) /\ c \in Caps
      BY <1>5, <2>1 DEF Classed
    <3> QED BY <3>1, CapFits DEF Roomy
  <2> DEFINE g == [chunk |-> x, size |-> size[t]]
  <2>3. \A u \in Threads : \A h \in held'[u] : h \in held[u] \/ h = g
    <3>1. held' = [held EXCEPT ![t] = @ \cup {g}]
      BY <1>5 DEF GiveChunk
    <3>2. held' = [u \in Threads |-> IF u = t THEN held[u] \cup {g} ELSE held[u]]
      BY <3>1 DEF Books, PoolInv, ThreadInv
    <3> HIDE DEF g
    <3> QED BY <3>2
  <2>4. Roomy(g.size, hdr'[g.chunk])
    BY <1>5, <2>2
  <2> HIDE DEF g
  <2>5. ASSUME NEW u \in Threads, NEW h \in held'[u] PROVE Roomy(h.size, hdr'[h.chunk])
    BY <1>4, <2>3, <2>4
  <2> QED BY <2>5 DEF Fit
<1>6. CASE \A u \in Threads : held'[u] \subseteq held[u]
  <2>1. ASSUME NEW u \in Threads, NEW h \in held'[u] PROVE Roomy(h.size, hdr'[h.chunk])
    BY <1>4, <1>6
  <2> QED BY <2>1 DEF Fit
<1>7. ASSUME NEW t \in Threads, CallOf(t) \/ Step(t) PROVE Fit'
  <2>1. CASE \E x : /\ GiveChunk(t, x)
                    /\ SelectPreAlloced(t) /\ x = Popped(pool[cap[t]].idle_chunks)
                    /\ pool[cap[t]].idle_num # 0
    <3>1. PICK x : /\ GiveChunk(t, x)
                   /\ SelectPreAlloced(t) /\ x = Popped(pool[cap[t]].idle_chunks)
                   /\ pool[cap[t]].idle_num # 0
      BY <2>1
    <3>2. pc[t] = "select_pre_alloced"
      BY <3>1 DEF SelectPreAlloced
    <3>3. cap[t] \in PoolCaps
      BY <3>2 DEF Books, MemInv, ClassInv, Classed, AllocPool
    <3>4. x \in PoolChunks(cap[t])
      BY <3>1, <3>3, PopPool DEF Books, PoolInv
    <3>5. hdr'[x] = cap[t]
      BY <1>1, <3>3, <3>4 DEF Books, MemInv, HdrBooks
    <3>6. pc[t] \in Allocating
      BY <3>2 DEF Allocating, AllocPool
    <3> QED BY <1>5, <3>1, <3>5, <3>6
  <2>2. CASE \E x : /\ GiveChunk(t, x)
                    /\ SelectExtra(t) /\ x = Popped(elm_table[cap[t]].chunks_list)
                    /\ elm_table[cap[t]].idle_num # 0
    <3>1. PICK x : /\ GiveChunk(t, x)
                   /\ SelectExtra(t) /\ x = Popped(elm_table[cap[t]].chunks_list)
                   /\ elm_table[cap[t]].idle_num # 0
      BY <2>2
    <3>2. pc[t] = "select_extra"
      BY <3>1 DEF SelectExtra
    <3>3. cap[t] \in Caps
      BY DEF Books, MemInv, ClassInv, Classed
    <3>4. hdr[x] = cap[t]
      BY <3>1, <3>3, PopExtra DEF Books
    <3>5. hdr' = hdr
      BY <3>1 DEF GiveChunk
    <3>6. pc[t] \in Allocating
      BY <3>2 DEF Allocating
    <3> QED BY <1>5, <3>1, <3>4, <3>5, <3>6
  <2> QED BY <1>6, <1>7, <2>1, <2>2, HeldBefore DEF Books, PoolInv
<1>8. CASE UNCHANGED vars
  BY <1>6, <1>8 DEF vars, threadVars
<1> QED BY <1>7, <1>8 DEF Next

(***************************************************************************)
(* What is in use                                                          *)
(***************************************************************************)

\* The values of a sequence.
LEMMA ToSetIs ==
  ASSUME NEW s, NEW x
  PROVE  x \in ToSet(s) <=> Has(s, x)
  BY DEF ToSet, Has

\* The members of a sequence after the first i.
Later(s, i, m) == ToSet(SubSeq(s, i + 1, m))
IsLater(s, i, m, x) == \E k \in 1 .. m : k > i /\ s[k] = x

\* What comes after the first i.
LEMMA LaterIs ==
  ASSUME NEW m \in Nat, NEW s \in [1 .. m -> ExtraData], NEW i \in 0 .. m, NEW x
  PROVE  x \in Later(s, i, m) <=> IsLater(s, i, m, x)
<1> DEFINE r == SubSeq(s, i + 1, m)
<1>1. i + 1 \in Int /\ m \in Int /\ \A k \in i + 1 .. m : s[k] \in ExtraData
  <2>1. \A k \in i + 1 .. m : k \in 1 .. m
    OBVIOUS
  <2> QED BY <2>1
<1>2. /\ r \in Seq(ExtraData) /\ Len(r) = IF i + 1 <= m THEN m - (i + 1) + 1 ELSE 0
      /\ \A j \in 1 .. m - (i + 1) + 1 : r[j] = s[(i + 1) + j - 1]
  <2> HIDE DEF r
  <2> QED BY <1>1, SubSeqProperties, SMTT(60) DEF r
<1> HIDE DEF r
<1>3. m - (i + 1) + 1 = m - i /\ Len(r) = m - i
  BY <1>2
<1>4. DOMAIN r = 1 .. m - i /\ \A j \in 1 .. m - i : r[j] = s[i + j]
  <2>1. DOMAIN r = 1 .. Len(r)
    BY <1>2
  <2>2. \A j \in 1 .. m - i : (i + 1) + j - 1 = i + j
    OBVIOUS
  <2> QED BY <1>2, <1>3, <2>1, <2>2
<1>5. ASSUME NEW j \in 1 .. m - i, r[j] = x PROVE \E k \in 1 .. m : k > i /\ s[k] = x
  <2>1. i + j \in 1 .. m /\ i + j > i
    OBVIOUS
  <2> QED BY <1>4, <1>5, <2>1
<1>6. ASSUME NEW k \in 1 .. m, k > i, s[k] = x PROVE \E j \in 1 .. m - i : r[j] = x
  <2>1. k - i \in 1 .. m - i /\ i + (k - i) = k
    BY <1>6
  <2> QED BY <1>4, <1>6, <2>1
<1> QED BY <1>4, <1>5, <1>6, ToSetIs DEF Has, Later, IsLater, r

\* A pool's books and what threads have.
LEMMA PoolExact ==
  ASSUME Books, ExtraInv, NEW c \in PoolCaps
  PROVE  /\ pool[c].idle_num = pool[c].idle_chunks.length
         /\ ToSet(Contents(pool[c].alloced_chunks)) \subseteq AllOut
         /\ ToSet(Contents(pool[c].idle_chunks)) \cap AllOut = {}
<1>1. PoolOk(c, pool[c], AllOut)
  BY DEF Books, PoolInv, PoolBooks
<1>2. \A x : Has(Contents(pool[c].alloced_chunks), x) => x \in AllOut
  BY DEF ExtraInv, NoneLost, Alloced
<1>3. \A x : Has(Contents(pool[c].idle_chunks), x) => x \notin AllOut
  BY <1>1 DEF PoolOk
<1> QED BY <1>1, <1>2, <1>3, ToSetIs DEF PoolOk

\* Of the chunks in use, those of class c that are not on its pool's allocated list.
Unpooled(c) == {x \in AllOut : hdr[x] = c} \ (IF c \in PoolCaps THEN ToSet(Contents(pool[c].alloced_chunks)) ELSE {})

\* They are in the extra list of their class.
LEMMA UnpooledIs ==
  ASSUME Books, ExtraInv, NEW c \in Caps, NEW x
  PROVE  x \in Unpooled(c) <=> x \in AllOut /\ elm_table[c] # NoElm /\ Has(Extra(c), x)
<1>1. ASSUME x \in AllOut, hdr[x] = c, x \notin Pools PROVE elm_table[c] # NoElm /\ Has(Extra(c), x)
  BY <1>1 DEF ExtraInv, NoneLost
<1>2. ASSUME x \in AllOut, hdr[x] = c, x \in Pools PROVE c \in PoolCaps /\ Has(Alloced(c), x)
  <2>1. c \in PoolCaps /\ x \in PoolChunks(c)
    BY <1>2, PoolOfChunk DEF Books, MemInv
  <2>2. PoolOk(c, pool[c], AllOut)
    BY <2>1 DEF Books, PoolInv, PoolBooks
  <2> QED BY <1>2, <2>1, <2>2 DEF PoolOk, Alloced
<1>3. ASSUME c \in PoolCaps, Has(Alloced(c), x) PROVE x \in Pools
  <2>1. PoolOk(c, pool[c], AllOut)
    BY <1>3 DEF Books, PoolInv, PoolBooks
  <2> QED BY <1>3, <2>1 DEF PoolOk, Alloced, Pools
<1>4. ASSUME elm_table[c] # NoElm, Has(Extra(c), x) PROVE x \notin Pools /\ hdr[x] = c
  BY <1>4 DEF Books, MemInv, ElmBooks, ElmOk, Extra
<1>5. x \in Unpooled(c) <=> x \in AllOut /\ hdr[x] = c /\ ~(c \in PoolCaps /\ Has(Alloced(c), x))
  BY ToSetIs DEF Unpooled, Alloced
<1> QED BY <1>1, <1>2, <1>3, <1>4, <1>5

\* The chunks in use are the last ones of an extra list.
LEMMA ExtraExact ==
  ASSUME Books, ExtraInv, NEW c \in Caps
  PROVE  /\ Len(Extra(c)) = elm_table[c].total_num
         /\ Unpooled(c) = ToSet(SubSeq(Extra(c), elm_table[c].idle_num + 1, elm_table[c].total_num))
<1> DEFINE e == elm_table[c]
           s == Contents(e.chunks_list)
           m == e.total_num
           i == e.idle_num
<1>1. e \in {NoElm} \cup Elms /\ ElmOk(c, e, hdr) /\ ElmUsed(e, AllOut, Busy(c))
  BY DEF Books, ListInv, MemInv, ElmBooks, ExtraInv
<1>2. /\ m \in Nat /\ s \in [1 .. m -> ExtraData] /\ i \in 0 .. m
      /\ e # NoElm => \A k \in 1 .. m : s[k] \in AllOut <=> k > i
      /\ e = NoElm => m = 0
  <2>1. CASE e = NoElm
    <3>1. m = 0 /\ i = 0 /\ e.chunks_list = mk_slist(0)
      BY <2>1 DEF NoElm
    <3>2. mk_slist(0).length = 0
      BY DEF mk_slist
    <3>3. s \in [1 .. 0 -> ExtraData]
      BY <3>1, <3>2 DEF Contents
    <3> HIDE DEF s, m, i
    <3> QED BY <2>1, <3>1, <3>3
  <2>2. CASE e # NoElm
    <3> HIDE DEF e
    <3>1. /\ m \in Nat \ {0} /\ i \in Nat /\ s \in [1 .. m -> ExtraData]
      BY <1>1, <2>2, ElmHolds DEF ElmUsed
    <3>2. i <= m /\ InUse(s, i, AllOut)
      BY <1>1, <2>2 DEF ElmUsed
    <3> HIDE DEF s, m, i
    <3>3. DOMAIN s = 1 .. m
      BY <3>1
    <3> QED BY <2>2, <3>1, <3>2, <3>3 DEF InUse
  <2> QED BY <2>1, <2>2
<1> HIDE DEF e, s, m, i
<1>3. Len(s) = m
  BY <1>2
<1>4. Extra(c) = s /\ elm_table[c] = e
  BY DEF Extra, e, s
<1>5. ASSUME NEW x
      PROVE  x \in Unpooled(c) <=> \E k \in 1 .. m : k > i /\ s[k] = x
  <2>1. x \in Unpooled(c) <=> x \in AllOut /\ e # NoElm /\ Has(s, x)
    BY <1>4, UnpooledIs
  <2>2. Has(s, x) <=> \E k \in 1 .. m : s[k] = x
    BY <1>2 DEF Has
  <2>3. CASE e = NoElm
    BY <1>2, <2>1, <2>3
  <2>4. CASE e # NoElm
    BY <1>2, <2>1, <2>2, <2>4
  <2> QED BY <2>3, <2>4
<1>6. ASSUME NEW x PROVE x \in Later(s, i, m) <=> IsLater(s, i, m, x)
  <2>1. m \in Nat /\ i \in 0 .. m /\ s \in [1 .. m -> ExtraData]
    BY <1>2
  <2> QED BY ONLY <2>1, LaterIs
<1>7. Unpooled(c) = Later(s, i, m)
  BY <1>5, <1>6 DEF IsLater
<1> QED BY <1>3, <1>4, <1>7 DEF Later, m, i

\* No chunk is with two threads.
LEMMA NoneShared ==
  ASSUME Books, ExtraInv, NEW t \in Threads, NEW u \in Threads, t # u
  PROVE  Out(t) \cap Out(u) = {}
<1>1. \A x : x \in Out(t) => x \in Pools \/ x \in Extras
  BY DEF ExtraInv, NoneLost, Books, MemInv, HdrBooks, AllOut, Extras
<1>2. ASSUME NEW x, x \in Out(t), x \in Out(u) PROVE FALSE
  <2>1. CASE x \in Pools
    BY <1>2, <2>1 DEF Books, PoolInv, UseBooks
  <2>2. CASE x \in Extras
    BY <1>2, <2>2 DEF ExtraInv, UseBooks
  <2> QED BY <1>1, <1>2, <2>1, <2>2
<1> QED BY <1>2

\* What is in use follows from the books.
LEMMA Exactly ==
  ASSUME Books, missed \/ Fit
  PROVE  UseExact
<1> SUFFICES ASSUME ~missed PROVE UseExact
  BY DEF UseExact
<1>1. ExtraInv /\ Fit
  BY DEF Books
<1>2. \A t, u \in Threads : t # u => Out(t) \cap Out(u) = {}
  BY <1>1, NoneShared
<1>3. \A c \in PoolCaps :
        /\ pool[c].idle_num = pool[c].idle_chunks.length
        /\ ToSet(Contents(pool[c].alloced_chunks)) \subseteq AllOut
        /\ ToSet(Contents(pool[c].idle_chunks)) \cap AllOut = {}
  BY <1>1, PoolExact
<1>4. \A c \in Caps :
        /\ Len(Extra(c)) = elm_table[c].total_num
        /\ Unpooled(c) = ToSet(SubSeq(Extra(c), elm_table[c].idle_num + 1, elm_table[c].total_num))
  BY <1>1, ExtraExact
<1> QED BY <1>1, <1>2, <1>3, <1>4 DEF UseExact, Fit, Roomy, Extra, Unpooled

\* A chunk is with one thread at a time and has room for what it is for, and the books tell
\* which chunks are in use, until an unlocked search of dc_free goes astray or the uint16
\* count of a list wraps (dc_mm1.c:121-123, 175-176, 246-309, 354-379).
THEOREM UseIsExact == Spec => []UseExact
<1> DEFINE Room == Books /\ HdrIs /\ (missed \/ Fit)
<1>1. Init => Room
  <2> SUFFICES ASSUME Init PROVE Room
    OBVIOUS
  <2>1. HdrIs
    BY DEF Init, HdrIs, live
  <2>2. Fit
    BY DEF Init, Fit
  <2> QED BY <2>1, <2>2, BooksInit
<1>2. Room /\ [Next]_vars => Room'
  <2> SUFFICES ASSUME Room, [Next]_vars PROVE Room'
    OBVIOUS
  <2>1. Books' /\ HdrIs' /\ missed \in BOOLEAN
    BY BooksKept, HdrKept DEF Books, PoolInv, ThreadInv
  <2>2. missed' \/ Fit'
    BY <2>1, MissedStays, FitStep
  <2> QED BY <2>1, <2>2
<1>3. Room => UseExact
  BY Exactly
<1> QED BY <1>1, <1>2, <1>3, PTL DEF Spec

(***************************************************************************)
(* What is left                                                            *)
(***************************************************************************)

\* When every thread is back from its calls and has freed what it had, no chunk is in use ...
LEMMA NoneOut ==
  ASSUME Books, \A t \in Threads : pc[t] = "idle" /\ held[t] = {}
  PROVE  AllOut = {}
<1>1. \A t \in Threads : Handling("idle", cap[t], ptr[t], old[t], node[t], {})
  BY DEF Books, PoolInv, ThreadInv
<1>2. \A t \in Threads : ptr[t] = NULL /\ old[t] = NULL
  BY <1>1 DEF Handling
<1> QED BY <1>2 DEF AllOut, Out

\* ... the pools are full ...
LEMMA PoolFull ==
  ASSUME Books, ExtraInv, AllOut = {}, NEW c \in PoolCaps
  PROVE  pool[c].idle_num = chunks_num
<1> DEFINE sl == pool[c].alloced_chunks
           s == Contents(sl)
           idle == pool[c].idle_chunks
<1>1. chunks_num \in Nat /\ IsList(sl, chunks_num, PoolData(c)) /\ IsList(idle, chunks_num, PoolData(c))
  BY MmAssumption DEF Books, ListInv
<1>2. pool[c].idle_num = idle.length /\ idle.length + sl.length = chunks_num
  BY DEF Books, PoolInv, PoolBooks, PoolOk
<1>3. \A x : ~Has(s, x)
  BY DEF ExtraInv, NoneLost, Alloced
<1> HIDE DEF idle
<1>4. s \in [1 .. sl.length -> PoolData(c)] /\ sl.length \in Nat /\ idle.length \in Nat
  <2> HIDE DEF sl
  <2> QED BY <1>1, HoldsIs
<1> HIDE DEF sl, s
<1>5. sl.length = 0
  <2>1. CASE sl.length # 0
    <3>1. 1 \in DOMAIN s
      BY <1>4, <2>1
    <3> QED BY <1>3, <3>1 DEF Has
  <2> QED BY <2>1
<1> QED BY <1>1, <1>2, <1>4, <1>5

\* ... and there is no extra list.
LEMMA NoExtra ==
  ASSUME Books, ExtraInv, AllOut = {}, \A t \in Threads : pc[t] = "idle", NEW c \in Caps
  PROVE  elm_table[c] = NoElm /\ c \notin raw
<1>1. c \notin raw
  BY DEF Books, MemInv, RawBooks
<1>2. ASSUME elm_table[c] # NoElm PROVE FALSE
  <2> DEFINE e == elm_table[c]
             s == Contents(e.chunks_list)
             m == e.total_num
             i == e.idle_num
  <2>1. e \in Elms /\ ElmOk(c, e, hdr) /\ ElmUsed(e, {}, Busy(c))
    BY <1>2 DEF Books, ListInv, MemInv, ElmBooks, ExtraInv
  <2>2. ~Busy(c)
    BY DEF Busy
  <2> HIDE DEF e
  <2>3. m \in Nat \ {0} /\ i \in Nat /\ s \in [1 .. m -> ExtraData] /\ e # NoElm
    BY <2>1, ElmHolds DEF ElmUsed
  <2>4. i <= m /\ i # m /\ InUse(s, i, {})
    BY <2>1, <2>2, <2>3 DEF ElmUsed
  <2> HIDE DEF s, m, i
  <2>5. m \in DOMAIN s /\ m > i
    BY <2>3, <2>4
  <2> QED BY <2>4, <2>5 DEF InUse
<1> QED BY <1>1, <1>2

\* The chunks of the system are in lists.
LEMMA LiveListed ==
  ASSUME Books, ExtraInv, \A c \in Caps : elm_table[c] = NoElm
  PROVE  live = InLists
<1>1. ASSUME NEW x \in live PROVE x \in InLists
  <2>1. x \in Pools
    BY DEF ExtraInv, NoneLost, Books, MemInv, HdrBooks
  <2>2. PICK c \in PoolCaps : x \in PoolChunks(c)
    BY <2>1 DEF Pools
  <2>3. x \in ToSet(Contents(pool[c].idle_chunks)) \/ x \in ToSet(Contents(pool[c].alloced_chunks))
    BY <2>2, ToSetIs DEF Books, PoolInv, PoolBooks, PoolOk
  <2>4. pool[c].idle_chunks \in Lists /\ pool[c].alloced_chunks \in Lists
    BY DEF Lists
  <2> QED BY <2>3, <2>4 DEF InLists
<1>2. ASSUME NEW sl \in Lists, NEW x \in ToSet(Contents(sl)) PROVE x \in live
  <2>1. PICK c \in PoolCaps : sl \in {pool[c].idle_chunks, pool[c].alloced_chunks}
    BY DEF Lists
  <2>2. x \in PoolChunks(c)
    BY <1>2, <2>1, ToSetIs DEF Books, PoolInv, PoolBooks, PoolOk
  <2> QED BY <2>2 DEF Books, MemInv, HdrBooks
<1>3. ASSUME NEW x \in InLists PROVE x \in live
  BY <1>2 DEF InLists
<1> QED BY <1>1, <1>3

\* What is left follows from the books.
LEMMA LeaksNot ==
  ASSUME Books
  PROVE  NothingLeaks
<1> SUFFICES ASSUME ~missed, \A t \in Threads : pc[t] = "idle" /\ held[t] = {}
             PROVE  /\ \A c \in PoolCaps : pool[c].idle_num = chunks_num
                    /\ \A c \in Caps : IsNull(c)
                    /\ live = InLists
  BY DEF NothingLeaks
<1>1. ExtraInv /\ AllOut = {}
  BY NoneOut DEF Books
<1>2. \A c \in PoolCaps : pool[c].idle_num = chunks_num
  BY <1>1, PoolFull
<1>3. \A c \in Caps : elm_table[c] = NoElm /\ c \notin raw
  BY <1>1, NoExtra
<1>4. live = InLists
  BY <1>1, <1>3, LiveListed
<1> QED BY <1>2, <1>3, <1>4 DEF IsNull

\* Once every thread is back from its calls and has freed what it had, each pool is full, no
\* extra list is left and the system has all its other chunks back, unless an unlocked search
\* of dc_free went astray or the count of a list wrapped (dc_mm1.c:254-263, 297-307).
THEOREM NoLeaks == Spec => []NothingLeaks
<1>1. Books => NothingLeaks
  BY LeaksNot
<1> QED BY <1>1, BooksHold, PTL
=============================================================================
