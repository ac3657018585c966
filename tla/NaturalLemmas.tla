--------------------------- MODULE NaturalLemmas ---------------------------
(***************************************************************************)
(* What the proofs about data need of the natural numbers: least and       *)
(* greatest members of a set, and functions defined by recursion.          *)
(*                                                                         *)
(* Induction over data is a least number here: a set of natural numbers    *)
(* that is not empty has one, so a statement that fails for some number    *)
(* fails for a least one.                                                  *)
(***************************************************************************)
EXTENDS Naturals, FiniteSetsExt, WellFoundedInduction, TLAPS

\* A set of natural numbers that is not empty has a least element.
LEMMA LeastNatural ==
  ASSUME NEW T \in SUBSET Nat, T # {}
  PROVE  \E x \in T : \A y \in T : x <= y
<1> DEFINE R == {ss \in Nat \X Nat : ss[1] < ss[2]}
<1>1. IsWellFoundedOn(R, Nat)
  BY NatLessThanWellFounded DEF OpToRel
<1>2. \E x \in T : \A y \in T : ~(<<y, x>> \in R)
  <2> HIDE DEF R
  <2> QED BY <1>1, WFMin
<1>3. PICK x \in T : \A y \in T : ~(<<y, x>> \in R)
  BY <1>2
<1>4. ASSUME NEW y \in T PROVE x <= y
  <2>1. x \in Nat /\ y \in Nat /\ <<y, x>> \in Nat \X Nat
    OBVIOUS
  <2>2. ~(y < x)
    BY <1>3, <2>1
  <2> QED BY <2>1, <2>2
<1> QED BY <1>4

\* Min of a set of natural numbers is its least element.
LEMMA MinNatural ==
  ASSUME NEW T \in SUBSET Nat, T # {}
  PROVE  Min(T) \in T /\ \A y \in T : Min(T) <= y
<1>1. \E x \in T : \A y \in T : x <= y
  BY LeastNatural
<1> QED BY <1>1 DEF Min

\* Max of a set of numbers up to n is its greatest element.
LEMMA MaxUpTo ==
  ASSUME NEW n \in Nat, NEW T \in SUBSET (1 .. n), T # {}
  PROVE  Max(T) \in T /\ \A y \in T : y <= Max(T)
<1> DEFINE U == {n - y : y \in T}
<1>1. U \in SUBSET Nat /\ U # {}
  <2>1. \A y \in T : n - y \in Nat
    OBVIOUS
  <2> QED BY <2>1
<1>2. PICK u \in U : \A v \in U : u <= v
  BY <1>1, LeastNatural
<1>3. PICK x \in T : u = n - x
  OBVIOUS
<1>4. ASSUME NEW y \in T PROVE x >= y
  <2>1. n - x <= n - y
    BY <1>2, <1>3
  <2>2. x \in Int /\ y \in Int
    OBVIOUS
  <2> QED BY <2>1, <2>2
<1>5. \E m \in T : \A y \in T : m >= y
  BY <1>4
<1>6. Max(T) \in T /\ \A y \in T : Max(T) >= y
  BY <1>5 DEF Max
<1> QED BY <1>6

\* Without its greatest index, a set of indices up to k is one of indices up to k - 1.
LEMMA WithoutMax ==
  ASSUME NEW k \in Nat, k > 0, NEW s \in SUBSET (1 .. k), s # {}
  PROVE  /\ Max(s) \in s
         /\ s \ {Max(s)} \in SUBSET (1 .. k - 1)
<1>1. Max(s) \in s /\ \A y \in s : y <= Max(s)
  BY MaxUpTo
<1>2. ASSUME NEW y \in s \ {Max(s)} PROVE y \in 1 .. k - 1
  <2>1. y \in 1 .. k /\ Max(s) \in 1 .. k /\ y <= Max(s) /\ y # Max(s)
    BY <1>1
  <2> QED BY <2>1
<1> QED BY <1>1, <1>2

\* f repeats step F n times from base.
Repeats(f, n, V, base, F) ==
  /\ f \in [0 .. n -> V]
  /\ f[0] = base
  /\ \A k \in 1 .. n : f[k] = F[<<k, f[k - 1]>>]

\* A step F from value to value, numbered, can be repeated n times from any value: the
\* function that a recursive definition over 0 .. n chooses.
LEMMA Recursion ==
  ASSUME NEW V, NEW base \in V, NEW F \in [Nat \X V -> V], NEW n \in Nat
  PROVE  \E f : Repeats(f, n, V, base, F)
<1> SUFFICES \E f \in [0 .. n -> V] : f[0] = base /\ \A k \in 1 .. n : f[k] = F[<<k, f[k - 1]>>]
  BY DEF Repeats
<1> DEFINE Good(f, m) == f[0] = base /\ \A k \in 1 .. m : f[k] = F[<<k, f[k - 1]>>]
           Bad == {m \in Nat : ~\E f \in [0 .. m -> V] : Good(f, m)}
<1>1. SUFFICES ASSUME Bad # {} PROVE FALSE
  <2>1. n \notin Bad
    BY <1>1
  <2> QED BY <2>1
<1>2. PICK m \in Bad : \A l \in Bad : m <= l
  <2> HIDE DEF Bad
  <2>1. Bad \in SUBSET Nat
    BY DEF Bad
  <2> QED BY <1>1, <2>1, LeastNatural
<1>3. CASE m = 0
  <2>1. [k \in 0 .. m |-> base] \in [0 .. m -> V] /\ Good([k \in 0 .. m |-> base], m)
    BY <1>3
  <2> QED BY <1>2, <2>1
<1>4. CASE m # 0
  <2>1. m - 1 \in Nat /\ m - 1 \notin Bad
    BY <1>2, <1>4
  <2>2. PICK f \in [0 .. m - 1 -> V] : Good(f, m - 1)
    BY <2>1
  <2> DEFINE g == [k \in 0 .. m |-> IF k = m THEN F[<<m, f[m - 1]>>] ELSE f[k]]
  <2>3. g \in [0 .. m -> V]
    BY <2>1
  <2>4. ASSUME NEW k \in 1 .. m PROVE g[k] = F[<<k, g[k - 1]>>]
    <3>1. k - 1 \in 0 .. m - 1 /\ k - 1 \in 0 .. m /\ k - 1 # m /\ g[k - 1] = f[k - 1]
      BY <2>1
    <3>2. CASE k = m
      BY <2>1, <3>1, <3>2
    <3>3. CASE k # m
      <4>1. k \in 1 .. m - 1 /\ k \in 0 .. m
        BY <2>1, <3>3
      <4> QED BY <2>2, <3>1, <3>3, <4>1
    <3> QED BY <3>2, <3>3
  <2>5. g[0] = base
    BY <1>4, <2>1, <2>2
  <2> QED BY <1>2, <2>3, <2>4, <2>5
<1> QED BY <1>3, <1>4

\* Induction up to n, for the numbers of a set.
LEMMA UpToInduction ==
  ASSUME NEW n \in Nat, NEW G, 0 \in G, \A k \in 1 .. n : k - 1 \in G => k \in G
  PROVE  \A k \in 0 .. n : k \in G
<1> DEFINE Bad == {k \in 0 .. n : k \notin G}
<1> SUFFICES ASSUME Bad # {} PROVE FALSE
  OBVIOUS
<1>1. PICK k \in Bad : \A l \in Bad : k <= l
  <2>1. Bad \in SUBSET Nat
    OBVIOUS
  <2> HIDE DEF Bad
  <2> QED BY <2>1, LeastNatural
<1>2. k \in 1 .. n /\ k - 1 \in 0 .. n /\ ~(k <= k - 1)
  BY <1>1
<1>3. k - 1 \in G
  BY <1>1, <1>2
<1> QED BY <1>1, <1>2, <1>3

\* The same of a step that is one only from the values it comes from: I has the pairs of
\* a number of steps and a value they may lead to.
Follows(f, n, base, F) ==
  /\ f = [k \in 0 .. n |-> f[k]]
  /\ f[0] = base
  /\ \A k \in 1 .. n : f[k] = F[<<k, f[k - 1]>>]

\* A recursion exists, and stays in V and I, when each of its steps does so from where it may be.
LEMMA GuidedRecursion ==
  ASSUME NEW n \in Nat, NEW V, NEW base, NEW F, NEW I,
         base \in V, <<0, base>> \in I,
         \A k \in 1 .. n : \A v \in V :
            <<k - 1, v>> \in I => F[<<k, v>>] \in V /\ <<k, F[<<k, v>>]>> \in I
  PROVE  \E f : Follows(f, n, base, F) /\ \A k \in 0 .. n : f[k] \in V /\ <<k, f[k]>> \in I
<1> DEFINE E == [x \in Nat \X V |-> IF F[x] \in V THEN F[x] ELSE base]
<1>1. E \in [Nat \X V -> V]
  OBVIOUS
<1>2. PICK f : Repeats(f, n, V, base, E)
  <2> HIDE DEF E
  <2> QED BY <1>1, Recursion
<1>3. f \in [0 .. n -> V] /\ f[0] = base /\ \A k \in 1 .. n : f[k] = E[<<k, f[k - 1]>>]
  BY <1>2 DEF Repeats
<1> DEFINE G == {k \in 0 .. n : <<k, f[k]>> \in I /\ (k # 0 => f[k] = F[<<k, f[k - 1]>>])}
<1>4. 0 \in G
  BY <1>3
<1>5. ASSUME NEW k \in 1 .. n, k - 1 \in G PROVE k \in G
  <2>1. k \in 0 .. n /\ k - 1 \in 0 .. n /\ k \in Nat /\ <<k - 1, f[k - 1]>> \in I /\ f[k - 1] \in V
    BY <1>3, <1>5
  <2>2. F[<<k, f[k - 1]>>] \in V /\ <<k, F[<<k, f[k - 1]>>]>> \in I
    BY <2>1
  <2>3. f[k] = F[<<k, f[k - 1]>>]
    BY <1>3, <2>1, <2>2
  <2> QED BY <2>1, <2>2, <2>3
<1>6. \A k \in 0 .. n : k \in G
  <2> HIDE DEF G
  <2> QED BY <1>4, <1>5, UpToInduction
<1>7. \A k \in 1 .. n : k \in 0 .. n /\ k # 0
  OBVIOUS
<1>8. f = [k \in 0 .. n |-> f[k]]
  BY <1>3
<1> QED BY <1>3, <1>6, <1>7, <1>8, ZenonT(60) DEF Follows
=============================================================================
