---------------------------- MODULE DArrayProofs ----------------------------
(***************************************************************************)
(* The double array of darray.c, for every limit of characters and cells.  *)
(*                                                                         *)
(* An array is a header, the nodes with the root among them, and free      *)
(* cells.  What the tree is depends on the nodes alone; where the free     *)
(* list leads depends on the free cells alone, which are all the others.   *)
(* So of each operation it is shown which nodes it leaves and that the     *)
(* free list is in order again.                                            *)
(***************************************************************************)
EXTENDS DArray, NaturalLemmas, FiniteSetTheorems, SequenceTheorems

Cell == [base : Int, check : Int]

(***************************************************************************)
(* The free list                                                           *)
(***************************************************************************)

\* The free list from s on leads to x: the next free cell above s, or back to the start.
IsNext(F, s, x) == /\ x \in F \cup {FREE_LIST}
                   /\ x # FREE_LIST => x > s
                   /\ \A f \in F : f > s => x # FREE_LIST /\ x <= f

\* ... and back from s to y.
IsPrev(F, s, y) == /\ y \in F \cup {FREE_LIST}
                   /\ s # FREE_LIST => y < s
                   /\ \A f \in F : s = FREE_LIST \/ f < s => f <= y

\* The free cells of an array of n cells of which u has the nodes.
FreeOf(n, u) == (DA_POOL_BEGIN .. n - 1) \ DOMAIN u

Listed(d, F) == \A s \in F \cup {FREE_LIST} : IsNext(F, s, -d[s].check) /\ IsPrev(F, s, -d[s].base)

\* d is an array of n cells with the nodes of u, the root among them.
IsArray(d, n) == /\ n \in DA_POOL_BEGIN .. TRIE_INDEX_MAX
                 /\ d \in [0 .. n - 1 -> Cell]
                 /\ d[0] = [base |-> DA_SIGNATURE, check |-> n]
AreNodes(n, u) == /\ u \in [DOMAIN u -> Cell]
                  /\ DOMAIN u \subseteq ROOT .. n - 1
                  /\ ROOT \in DOMAIN u
                  /\ \A s \in DOMAIN u : u[s].check >= 0
DaIs(d, n, u) == /\ IsArray(d, n)
                 /\ AreNodes(n, u)
                 /\ \A s \in DOMAIN u : d[s] = u[s]
                 /\ Listed(d, FreeOf(n, u))

\* What an array is, in numbers.
LEMMA ArrayIs ==
  ASSUME NEW d, NEW n, IsArray(d, n)
  PROVE  /\ n \in Nat /\ n >= 3 /\ n <= TRIE_INDEX_MAX
         /\ DOMAIN d = 0 .. n - 1
         /\ num_cells(d) = n
         /\ \A s \in 0 .. n - 1 : /\ d[s] \in Cell /\ d[s].base \in Int /\ d[s].check \in Int
                                  /\ da_get_base(d, s) = d[s].base
                                  /\ da_get_check(d, s) = d[s].check
         /\ \A s \in Nat : s >= n => /\ da_get_base(d, s) = TRIE_INDEX_ERROR
                                     /\ da_get_check(d, s) = TRIE_INDEX_ERROR
<1>1. /\ n \in Nat /\ n >= 3 /\ n <= TRIE_INDEX_MAX
      /\ DOMAIN d = 0 .. n - 1 /\ \A s \in 0 .. n - 1 : d[s] \in Cell
  BY TrieDefsAssumption DEF IsArray, DA_POOL_BEGIN
<1>2. num_cells(d) = n
  <2>1. Cardinality(0 .. n - 1) = (n - 1) - 0 + 1
    BY <1>1, FS_Interval
  <2> QED BY <1>1, <2>1 DEF num_cells
<1>3. ASSUME NEW s \in 0 .. n - 1
      PROVE  /\ d[s].base \in Int /\ d[s].check \in Int
             /\ da_get_base(d, s) = d[s].base /\ da_get_check(d, s) = d[s].check
  <2>1. d[s] \in Cell /\ s < n
    BY <1>1
  <2> QED BY <1>2, <2>1 DEF Cell, da_get_base, da_get_check
<1>4. ASSUME NEW s \in Nat, s >= n
      PROVE  da_get_base(d, s) = TRIE_INDEX_ERROR /\ da_get_check(d, s) = TRIE_INDEX_ERROR
  BY <1>1, <1>2, <1>4 DEF da_get_base, da_get_check
<1> QED BY <1>1, <1>2, <1>3, <1>4

\* Free cells are cells, above the root; a list leads from one to another.
LEMMA FreeIs ==
  ASSUME NEW d, NEW n, NEW u, DaIs(d, n, u), NEW s \in FreeOf(n, u) \cup {FREE_LIST}
  PROVE  LET F == FreeOf(n, u) IN
         /\ F \subseteq 3 .. n - 1 /\ F \subseteq Nat
         /\ s \in 1 .. n - 1 /\ s \notin DOMAIN u
         /\ d[s].check \in Int /\ d[s].base \in Int
         /\ da_get_check(d, s) = d[s].check /\ da_get_base(d, s) = d[s].base
         /\ IsNext(F, s, -d[s].check) /\ IsPrev(F, s, -d[s].base)
         /\ d[s].check < 0 /\ d[s].base < 0
         /\ -d[s].check \in 1 .. n - 1 /\ -d[s].base \in 1 .. n - 1
<1> DEFINE F == FreeOf(n, u)
<1>1. IsArray(d, n) /\ AreNodes(n, u) /\ Listed(d, F)
  BY DEF DaIs
<1>2. n \in Nat /\ n >= 3
  BY <1>1, ArrayIs
<1>3. F \subseteq 3 .. n - 1 /\ F \subseteq Nat /\ F \cap DOMAIN u = {}
  BY <1>2 DEF FreeOf, DA_POOL_BEGIN
<1>4. s \in 1 .. n - 1 /\ s \notin DOMAIN u
  <2>1. DOMAIN u \subseteq 2 .. n - 1
    BY <1>1 DEF AreNodes, ROOT
  <2>2. CASE s \in F
    BY <1>2, <1>3, <2>2
  <2>3. CASE s = FREE_LIST
    BY <1>2, <2>1, <2>3 DEF FREE_LIST
  <2> QED BY <2>2, <2>3
<1>5. s \in 0 .. n - 1
  BY <1>4
<1>6. /\ d[s].check \in Int /\ d[s].base \in Int
      /\ da_get_check(d, s) = d[s].check /\ da_get_base(d, s) = d[s].base
  BY <1>1, <1>5, ArrayIs
<1>7. IsNext(F, s, -d[s].check) /\ IsPrev(F, s, -d[s].base)
  BY <1>1 DEF Listed
<1>8. -d[s].check \in F \cup {1} /\ -d[s].base \in F \cup {1}
  BY <1>7 DEF IsNext, IsPrev, FREE_LIST
<1>9. \A x \in F \cup {1} : x \in 1 .. n - 1
  BY <1>2, <1>3
<1>10. -d[s].check \in 1 .. n - 1 /\ -d[s].base \in 1 .. n - 1
  BY <1>8, <1>9
<1> HIDE DEF F
<1>11. d[s].check < 0 /\ d[s].base < 0
  BY <1>6, <1>10, <1>2
<1> QED BY <1>3, <1>4, <1>6, <1>7, <1>10, <1>11 DEF F

\* The scan of the free list for the first cell not below low: what it is after k turns.
ScanIs(at, d, n, low) ==
  /\ at[0] = -da_get_check(d, FREE_LIST)
  /\ \A k \in 1 .. n : at[k] = Following(d, at[k - 1], low)

\* The recursion of the scan has these turns, and FreeFrom is the last of them.
LEMMA ScanExists ==
  ASSUME NEW d, NEW n, NEW u, DaIs(d, n, u), NEW low \in Int
  PROVE  \E at \in [0 .. n -> FreeOf(n, u) \cup {FREE_LIST}] :
            ScanIs(at, d, n, low) /\ FreeFrom(d, low) = at[n]
<1> DEFINE V == FreeOf(n, u) \cup {FREE_LIST}
           head == -da_get_check(d, FREE_LIST)
           step == [x \in Nat \X V |-> Following(d, x[2], low)]
           scan == CHOOSE f : f = [k \in 0 .. n |-> IF k = 0 THEN -da_get_check(d, FREE_LIST)
                                                    ELSE Following(d, f[k - 1], low)]
<1>1. n \in Nat /\ num_cells(d) = n
  BY ArrayIs DEF DaIs
<1>2. FreeFrom(d, low) = scan[n]
  BY <1>1 DEF FreeFrom
<1>3. ASSUME NEW s \in V PROVE -da_get_check(d, s) \in V
  BY <1>3, FreeIs DEF IsNext
<1>4. step \in [Nat \X V -> V] /\ head \in V
  <2>1. ASSUME NEW x \in Nat \X V PROVE Following(d, x[2], low) \in V
    <3>1. x[2] \in V
      OBVIOUS
    <3> HIDE DEF V
    <3> QED BY <1>3, <3>1 DEF Following
  <2> QED BY <1>3, <2>1
<1>5. PICK f : Repeats(f, n, V, head, step)
  <2> HIDE DEF V, head, step
  <2> QED BY <1>1, <1>4, Recursion
<1>6. f \in [0 .. n -> V] /\ f[0] = head /\ \A k \in 1 .. n : f[k] = step[<<k, f[k - 1]>>]
  BY <1>5 DEF Repeats
<1>7. ASSUME NEW k \in 1 .. n PROVE f[k] = Following(d, f[k - 1], low)
  <2>1. k \in Nat /\ k - 1 \in 0 .. n
    BY <1>1
  <2> HIDE DEF V
  <2>2. <<k, f[k - 1]>> \in Nat \X V
    BY <1>6, <2>1
  <2> QED BY <1>6, <2>2
<1>8. f = [k \in 0 .. n |-> IF k = 0 THEN -da_get_check(d, FREE_LIST)
                            ELSE Following(d, f[k - 1], low)]
  <2>1. ASSUME NEW k \in 0 .. n
        PROVE  f[k] = IF k = 0 THEN -da_get_check(d, FREE_LIST) ELSE Following(d, f[k - 1], low)
    <3>1. k # 0 => k \in 1 .. n
      BY <1>1
    <3> QED BY <1>6, <1>7, <3>1
  <2>2. f = [k \in 0 .. n |-> f[k]]
    <3> HIDE DEF V
    <3> QED BY <1>6
  <2> QED BY <2>1, <2>2
<1>9. scan = [k \in 0 .. n |-> IF k = 0 THEN -da_get_check(d, FREE_LIST)
                               ELSE Following(d, scan[k - 1], low)]
  BY <1>8
<1> HIDE DEF scan
<1>10. \A k \in 0 .. n : scan[k] = f[k]
  <2> DEFINE G == {k \in 0 .. n : scan[k] = f[k]}
  <2>1. 0 \in G
    BY <1>1, <1>8, <1>9
  <2>2. ASSUME NEW k \in 1 .. n, k - 1 \in G PROVE k \in G
    BY <1>1, <1>7, <1>9, <2>2
  <2> HIDE DEF G
  <2>3. \A k \in 0 .. n : k \in G
    BY <1>1, <2>1, <2>2, UpToInduction
  <2> QED BY <2>3 DEF G
<1>11. n \in 0 .. n
  BY <1>1
<1> QED BY <1>2, <1>6, <1>7, <1>10, <1>11 DEF ScanIs

\* A scan finds the first free cell that is not below low.
LEMMA ScanFinds ==
  ASSUME NEW d, NEW n, NEW u, DaIs(d, n, u), NEW low \in Int
  PROVE  LET F == FreeOf(n, u)
             x == FreeFrom(d, low)
         IN  /\ x \in F \cup {FREE_LIST}
             /\ x # FREE_LIST => x >= low
             /\ \A f \in F : f >= low => x # FREE_LIST /\ x <= f
<1> DEFINE F == FreeOf(n, u)
<1>1. PICK at \in [0 .. n -> F \cup {FREE_LIST}] : ScanIs(at, d, n, low) /\ FreeFrom(d, low) = at[n]
  BY ScanExists
<1>2. n \in Nat /\ n >= 3 /\ F \subseteq 3 .. n - 1
  BY ArrayIs, FreeIs DEF DaIs
<1> HIDE DEF F
<1> DEFINE Fine(x) == \A f \in F : f >= low => x # FREE_LIST /\ x <= f
           Moving(k) == at[k] # FREE_LIST /\ at[k] < low
           G == {k \in 0 .. n : Fine(at[k]) /\ (Moving(k) => at[k] >= 3 + k)}
<1>3. \A s \in F \cup {FREE_LIST} : /\ da_get_check(d, s) = d[s].check /\ d[s].check \in Int
                                    /\ IsNext(F, s, -d[s].check) /\ s \in 1 .. n - 1
  BY FreeIs DEF F
<1>4. FREE_LIST = 1
  BY DEF FREE_LIST
<1>5. 0 \in G
  <2>1. at[0] = -d[1].check /\ IsNext(F, 1, -d[1].check)
    BY <1>1, <1>3, <1>4 DEF ScanIs
  <2>2. Fine(at[0])
    <3> SUFFICES ASSUME NEW f \in F PROVE at[0] # FREE_LIST /\ at[0] <= f
      OBVIOUS
    <3>1. f > 1
      BY <1>2
    <3> QED BY <2>1, <3>1 DEF IsNext
  <2>3. at[0] \in F \cup {1}
    BY <1>1, <1>2, <1>4
  <2>4. at[0] # 1 => at[0] >= 3
    <3>1. at[0] # 1 => at[0] \in 3 .. n - 1
      BY <1>2, <2>3
    <3> QED BY <1>2, <3>1
  <2> QED BY <1>2, <1>4, <2>2, <2>4
<1>6. ASSUME NEW k \in 1 .. n, k - 1 \in G PROVE k \in G
  <2>1. k - 1 \in 0 .. n /\ k \in 0 .. n
    BY <1>2
  <2> DEFINE s == at[k - 1]
  <2>2. s \in F \cup {FREE_LIST} /\ s \in Int
    <3>1. s \in F \cup {FREE_LIST}
      BY <1>1, <2>1
    <3>2. s \in 1 .. n - 1
      BY <1>3, <3>1
    <3> HIDE DEF s
    <3> QED BY <1>2, <3>1, <3>2
  <2>3. at[k] = IF s = FREE_LIST \/ s >= low THEN s ELSE -d[s].check
    BY <1>1, <1>3, <2>2 DEF ScanIs, Following
  <2>4. CASE ~Moving(k - 1)
    <3>1. at[k] = s
      BY <2>2, <2>3, <2>4
    <3> QED BY <1>6, <2>1, <2>4, <3>1
  <2>5. CASE Moving(k - 1)
    <3>1. at[k] = -d[s].check /\ IsNext(F, s, -d[s].check)
      BY <1>3, <2>2, <2>3, <2>5
    <3>2. s >= 3 + (k - 1) /\ s < low
      BY <1>6, <2>5
    <3>3. Fine(at[k])
      <4> SUFFICES ASSUME NEW f \in F, f >= low PROVE at[k] # FREE_LIST /\ at[k] <= f
        OBVIOUS
      <4>1. f \in Int
        BY <1>2
      <4>2. f > s
        BY <2>2, <3>2, <4>1
      <4> QED BY <3>1, <4>2 DEF IsNext
    <3>4. at[k] # FREE_LIST => at[k] > s
      BY <3>1 DEF IsNext
    <3>5. at[k] \in Int
      BY <1>1, <1>3, <2>1
    <3>6. at[k] # FREE_LIST => at[k] >= 3 + k
      BY <2>1, <2>2, <3>2, <3>4, <3>5
    <3> QED BY <2>1, <3>3, <3>6
  <2> QED BY <2>4, <2>5
<1>7. \A k \in 0 .. n : k \in G
  <2> HIDE DEF G
  <2> QED BY <1>2, <1>5, <1>6, UpToInduction
<1>8. n \in 0 .. n /\ at[n] \in F \cup {FREE_LIST} /\ at[n] \in 1 .. n - 1
  <2>1. n \in 0 .. n
    BY <1>2
  <2>2. at[n] \in F \cup {FREE_LIST}
    BY <1>1, <2>1
  <2>3. at[n] \in 1 .. n - 1
    BY <1>3, <2>2
  <2> QED BY <2>1, <2>2, <2>3
<1>9. ~Moving(n)
  <2>1. Moving(n) => at[n] >= 3 + n
    BY <1>7, <1>8
  <2> QED BY <1>2, <1>8, <2>1
<1>10. Fine(at[n])
  BY <1>7, <1>8
<1>11. at[n] # FREE_LIST => at[n] >= low
  BY <1>8, <1>9
<1> QED BY <1>1, <1>8, <1>10, <1>11 DEF F

\* The list ends with the cell whose check is -FREE_LIST.
LEMMA MinusMinusOne ==
  \A x : x = -1 => -x = 1
<1> SUFFICES ASSUME NEW x, x = -1 PROVE -x = 1
  OBVIOUS
<1>1. x \in Int /\ 0 - x = 1
  OBVIOUS
<1>2. \A y \in Int : -y = 0 - y
  OBVIOUS
<1> QED BY <1>1, <1>2

\* Setting the check, or the base, of one cell.
SetCheck(d, i, v) == [d EXCEPT ![i].check = v]
SetBase(d, i, v) == [d EXCEPT ![i].base = v]
CheckIs(e, d, n, i, v) == /\ e \in [0 .. n - 1 -> Cell]
                          /\ e[i].check = v /\ e[i].base = d[i].base
                          /\ \A x \in 0 .. n - 1 : x # i => e[x] = d[x]
BaseIs(e, d, n, i, v) == /\ e \in [0 .. n - 1 -> Cell]
                         /\ e[i].base = v /\ e[i].check = d[i].check
                         /\ \A x \in 0 .. n - 1 : x # i => e[x] = d[x]

\* It sets that and leaves the rest (da_set_base, da_set_check).
LEMMA CheckSet ==
  ASSUME NEW n, NEW d \in [0 .. n - 1 -> Cell], NEW i \in 0 .. n - 1, NEW v \in Int
  PROVE  CheckIs(SetCheck(d, i, v), d, n, i, v)
<1>1. d[i] \in Cell
  OBVIOUS
<1>2. [d[i] EXCEPT !.check = v] \in Cell /\ [d[i] EXCEPT !.check = v].check = v
      /\ [d[i] EXCEPT !.check = v].base = d[i].base
  BY <1>1 DEF Cell
<1> QED BY <1>2 DEF SetCheck, CheckIs

\* The same of a base (da_set_base).
LEMMA BaseSet ==
  ASSUME NEW n, NEW d \in [0 .. n - 1 -> Cell], NEW i \in 0 .. n - 1, NEW v \in Int
  PROVE  BaseIs(SetBase(d, i, v), d, n, i, v)
<1>1. d[i] \in Cell
  OBVIOUS
<1>2. [d[i] EXCEPT !.base = v] \in Cell /\ [d[i] EXCEPT !.base = v].base = v
      /\ [d[i] EXCEPT !.base = v].check = d[i].check
  BY <1>1 DEF Cell
<1> QED BY <1>2 DEF SetBase, BaseIs

\* The longer array of da_extend_pool.
LEMMA ExtendedArray ==
  ASSUME NEW d, NEW i, ~(i <= 0 \/ TRIE_INDEX_MAX <= i), ~(i < num_cells(d))
  PROVE  LET tail == -d[FREE_LIST].base
             linked == SetBase(SetCheck(SetCheck(d, 0, i + 1), tail, -num_cells(d)), FREE_LIST, -i)
             New(x) == [base |-> IF x = num_cells(d) THEN -tail ELSE -(x - 1),
                        check |-> IF x = i THEN -FREE_LIST ELSE -(x + 1)]
         IN  da_extend_pool(d, i) =
               [ok |-> TRUE, d |-> [x \in 0 .. i |-> IF x < num_cells(d) THEN linked[x] ELSE New(x)]]
<1> DEFINE tail == -d[FREE_LIST].base
           linked1 == [d EXCEPT ![0].check = i + 1]
           linked2 == [linked1 EXCEPT ![tail].check = -num_cells(d)]
           linked == [linked2 EXCEPT ![FREE_LIST].base = -i]
           New(x) == [base |-> IF x = num_cells(d) THEN -tail ELSE -(x - 1),
                      check |-> IF x = i THEN -FREE_LIST ELSE -(x + 1)]
<1>1. da_extend_pool(d, i) =
        [ok |-> TRUE, d |-> [x \in 0 .. i |-> IF x < num_cells(d) THEN linked[x] ELSE New(x)]]
  BY ZenonT(30) DEF da_extend_pool, HeaderUpdated
<1>2. linked = SetBase(SetCheck(SetCheck(d, 0, i + 1), tail, -num_cells(d)), FREE_LIST, -i)
  BY DEF SetCheck, SetBase
<1> HIDE DEF linked
<1> QED BY <1>1, <1>2

\* Extending the array leaves its nodes; the new cells are free.
LEMMA ExtendIs ==
  ASSUME NEW d, NEW n, NEW u, DaIs(d, n, u), NEW i \in Int
  PROVE  LET e == da_extend_pool(d, i) IN
         /\ e.ok \in BOOLEAN
         /\ e.ok <=> 0 < i /\ i < TRIE_INDEX_MAX
         /\ \E m \in Nat : m >= n /\ DaIs(e.d, m, u) /\ (e.ok => i < m)
<1> DEFINE e == da_extend_pool(d, i)
           F == FreeOf(n, u)
<1>1. /\ n \in Nat /\ n >= 3 /\ n <= TRIE_INDEX_MAX /\ num_cells(d) = n /\ TRIE_INDEX_MAX \in Nat
      /\ d \in [0 .. n - 1 -> Cell] /\ d[0] = [base |-> DA_SIGNATURE, check |-> n]
  <2>1. IsArray(d, n)
    BY DEF DaIs
  <2> QED BY <2>1, ArrayIs, TrieDefsAssumption DEF IsArray
<1>2. CASE i <= 0 \/ TRIE_INDEX_MAX <= i
  <2>1. e = [ok |-> FALSE, d |-> d]
    BY <1>2 DEF da_extend_pool
  <2> HIDE DEF e
  <2>2. ~e.ok /\ e.ok \in BOOLEAN /\ e.d = d
    BY <2>1
  <2> QED BY <1>1, <1>2, <2>2 DEF e
<1>3. CASE 0 < i /\ i < TRIE_INDEX_MAX /\ i < n
  <2>1. e = [ok |-> TRUE, d |-> d]
    BY <1>1, <1>3 DEF da_extend_pool
  <2> HIDE DEF e
  <2>2. e.ok /\ e.ok \in BOOLEAN /\ e.d = d
    BY <2>1
  <2> QED BY <1>1, <1>3, <2>2 DEF e
<1>4. CASE 0 < i /\ i < TRIE_INDEX_MAX /\ i >= n
  <2> DEFINE tail == -d[FREE_LIST].base
             linked1 == SetCheck(d, 0, i + 1)
             linked2 == SetCheck(linked1, tail, -num_cells(d))
             linked == SetBase(linked2, FREE_LIST, -i)
             New(x) == [base |-> IF x = num_cells(d) THEN -tail ELSE -(x - 1),
                        check |-> IF x = i THEN -FREE_LIST ELSE -(x + 1)]
             g == [x \in 0 .. i |-> IF x < num_cells(d) THEN linked[x] ELSE New(x)]
             H == FreeOf(i + 1, u)
  <2>1. e = [ok |-> TRUE, d |-> g]
    <3>1. ~(i <= 0 \/ TRIE_INDEX_MAX <= i) /\ ~(i < num_cells(d))
      BY <1>1, <1>4
    <3> QED BY <3>1, ExtendedArray
  <2>2. /\ FREE_LIST = 1 /\ F \subseteq 3 .. n - 1 /\ tail \in 1 .. n - 1 /\ tail \in F \cup {1}
        /\ \A f \in F : f <= tail
    <3>1. IsPrev(F, FREE_LIST, tail)
      BY FreeIs
    <3> QED BY <3>1, FreeIs DEF IsPrev, FREE_LIST
  <2>3. /\ \A s \in F \cup {1} : /\ IsNext(F, s, -d[s].check) /\ IsPrev(F, s, -d[s].base)
                                 /\ s \in 1 .. n - 1 /\ s \notin DOMAIN u
                                 /\ d[s].check \in Int /\ d[s].base \in Int
    BY FreeIs DEF FREE_LIST
  <2>4. H = F \cup n .. i
    <3>1. DOMAIN u \subseteq 2 .. n - 1
      BY DEF DaIs, AreNodes, ROOT
    <3> QED BY <1>1, <1>4, <3>1 DEF FreeOf, DA_POOL_BEGIN
  <2> HIDE DEF e, F, H, tail
  <2>20. /\ linked \in [0 .. n - 1 -> Cell]
         /\ linked[0].check = i + 1 /\ linked[0].base = d[0].base
         /\ \A x \in 0 .. n - 1 : x # 0 =>
              /\ linked[x].check = IF x = tail THEN -n ELSE d[x].check
              /\ linked[x].base = IF x = 1 THEN -i ELSE d[x].base
    <3>1. 0 \in 0 .. n - 1 /\ tail \in 0 .. n - 1 /\ 1 \in 0 .. n - 1 /\ tail # 0
      BY <1>1, <2>2
    <3>2. -n \in Int /\ -i \in Int /\ i + 1 \in Int /\ linked2 = SetCheck(linked1, tail, -n)
      BY <1>1
    <3> HIDE DEF linked, linked2, linked1
    <3>3. CheckIs(linked1, d, n, 0, i + 1)
      BY <1>1, <3>1, <3>2, CheckSet DEF linked1
    <3>4. CheckIs(linked2, linked1, n, tail, -n)
      <4>1. linked1 \in [0 .. n - 1 -> Cell]
        BY <3>3 DEF CheckIs
      <4>2. CheckIs(SetCheck(linked1, tail, -n), linked1, n, tail, -n)
        BY <3>1, <3>2, <4>1, CheckSet
      <4> QED BY <3>2, <4>2
    <3>5. BaseIs(linked, linked2, n, 1, -i)
      <4>1. linked2 \in [0 .. n - 1 -> Cell]
        BY <3>4 DEF CheckIs
      <4> QED BY <2>2, <3>1, <3>2, <4>1, BaseSet DEF linked
    <3>6. linked[0] = linked1[0]
      BY <2>2, <3>1, <3>4, <3>5 DEF CheckIs, BaseIs
    <3>7. linked \in [0 .. n - 1 -> Cell] /\ linked[0].check = i + 1 /\ linked[0].base = d[0].base
      BY <3>3, <3>5, <3>6 DEF CheckIs, BaseIs
    <3>8. ASSUME NEW x \in 0 .. n - 1, x # 0
          PROVE  /\ linked[x].check = IF x = tail THEN -n ELSE d[x].check
                 /\ linked[x].base = IF x = 1 THEN -i ELSE d[x].base
      <4>1. linked1[x] = d[x]
        BY <3>3, <3>8 DEF CheckIs
      <4>2. /\ linked2[x].check = IF x = tail THEN -n ELSE d[x].check
            /\ linked2[x].base = d[x].base
        BY <3>4, <4>1 DEF CheckIs
      <4> QED BY <3>5, <4>2 DEF BaseIs
    <3> QED BY <3>7, <3>8
  <2> HIDE DEF linked
  <2>5. ASSUME NEW x \in 0 .. n - 1
        PROVE  /\ g[x] \in Cell
               /\ x # 0 => g[x].check = IF x = tail THEN -n ELSE d[x].check
               /\ x # 0 => g[x].base = IF x = 1 THEN -i ELSE d[x].base
    <3>1. x \in 0 .. i /\ x < n /\ g[x] = linked[x] /\ d[x] \in Cell /\ tail # 0
      BY <1>1, <1>4, <2>2, SMTT(60)
    <3> QED BY <1>1, <2>20, <3>1 DEF Cell
  <2>6. ASSUME NEW x \in n .. i
        PROVE  /\ g[x] \in Cell
               /\ g[x].check = IF x = i THEN -1 ELSE -(x + 1)
               /\ g[x].base = IF x = n THEN -tail ELSE -(x - 1)
    <3>1. x \in 0 .. i /\ ~(x < n) /\ g[x] = New(x) /\ x \in Int /\ tail \in Int
      BY <1>1, <1>4, <2>2
    <3> HIDE DEF g
    <3> QED BY <1>1, <1>4, <2>2, <3>1 DEF Cell
  <2>7. g[0] = [base |-> DA_SIGNATURE, check |-> i + 1]
    <3>1. 0 \in 0 .. i /\ 0 \in 0 .. n - 1 /\ g[0] = linked[0]
      BY <1>1, <1>4
    <3>2. linked[0] \in Cell /\ linked[0].check = i + 1 /\ linked[0].base = DA_SIGNATURE
      BY <1>1, <2>20, <3>1
    <3> QED BY <3>1, <3>2 DEF Cell
  <2>8. g \in [0 .. i -> Cell]
    <3>1. \A x \in 0 .. i : x \in 0 .. n - 1 \/ x \in n .. i
      BY <1>1, <1>4
    <3>2. \A x \in 0 .. i : g[x] \in Cell
      BY <2>5, <2>6, <3>1
    <3> HIDE DEF linked, New
    <3> QED BY <3>2
  <2> HIDE DEF g
  <2>9. IsArray(g, i + 1)
    <3>1. i + 1 \in 3 .. TRIE_INDEX_MAX /\ (i + 1) - 1 = i
      BY <1>1, <1>4
    <3> QED BY <2>7, <2>8, <3>1 DEF IsArray, DA_POOL_BEGIN
  <2>10. AreNodes(i + 1, u)
    <3>1. AreNodes(n, u)
      BY DEF DaIs
    <3>2. 2 .. n - 1 \subseteq 2 .. (i + 1) - 1
      BY <1>1, <1>4
    <3> QED BY <3>1, <3>2 DEF AreNodes, ROOT
  <2>11. ASSUME NEW s \in DOMAIN u PROVE g[s] = u[s]
    <3>1. d[s] = u[s] /\ s \in 2 .. n - 1 /\ s \notin F
      BY DEF DaIs, AreNodes, ROOT, F, FreeOf
    <3>2. s \in 0 .. n - 1 /\ s # 0 /\ s # 1 /\ s # tail
      BY <1>1, <2>2, <3>1
    <3>3. g[s].check = d[s].check /\ g[s].base = d[s].base /\ g[s] \in Cell /\ d[s] \in Cell
      BY <1>1, <2>5, <3>2
    <3> QED BY <3>1, <3>3 DEF Cell
  <2>12. ASSUME NEW s \in H \cup {1} PROVE IsNext(H, s, -g[s].check) /\ IsPrev(H, s, -g[s].base)
    <3>1. CASE s \in F \cup {1}
      <4>1. /\ s \in 0 .. n - 1 /\ s # 0 /\ s \in Int /\ s < n
            /\ g[s].check = IF s = tail THEN -n ELSE d[s].check
            /\ g[s].base = IF s = 1 THEN -i ELSE d[s].base
        BY <1>1, <2>3, <2>5, <3>1
      <4>2. IsNext(H, s, -g[s].check)
        <5>1. CASE s = tail
          <6>1. -g[s].check = n
            BY <1>1, <4>1, <5>1
          <6>2. n \in H /\ n > s /\ n # 1
            BY <1>1, <1>4, <2>4, <4>1
          <6>3. \A f \in H : f > s => n <= f
            BY <1>1, <1>4, <2>2, <2>4, <5>1
          <6> QED BY <6>1, <6>2, <6>3 DEF IsNext, FREE_LIST
        <5>2. CASE s # tail
          <6> DEFINE x == -d[s].check
          <6>1. -g[s].check = x /\ IsNext(F, s, x)
            BY <2>3, <3>1, <4>1, <5>2
          <6>2. tail \in F /\ tail > s /\ tail \in Int
            BY <1>1, <2>2, <3>1, <4>1, <5>2
          <6> HIDE DEF x
          <6>3. x # 1 /\ x <= tail /\ x \in F /\ x > s /\ \A f \in F : f > s => x <= f
            BY <6>1, <6>2 DEF IsNext, FREE_LIST
          <6>4. x \in Int
            BY <1>1, <2>2, <6>3
          <6>5. \A f \in n .. i : x <= f
            BY <1>1, <1>4, <2>2, <6>3, <6>4
          <6> QED BY <2>4, <6>1, <6>3, <6>5 DEF IsNext, FREE_LIST
        <5> QED BY <5>1, <5>2
      <4>3. IsPrev(H, s, -g[s].base)
        <5>1. CASE s = 1
          <6>1. -g[s].base = i
            BY <1>4, <4>1, <5>1
          <6>2. i \in H /\ \A f \in H : f <= i
            BY <1>1, <1>4, <2>2, <2>4
          <6> QED BY <5>1, <6>1, <6>2 DEF IsPrev, FREE_LIST
        <5>2. CASE s # 1
          <6> DEFINE y == -d[s].base
          <6>1. -g[s].base = y /\ IsPrev(F, s, y)
            BY <2>3, <3>1, <4>1, <5>2
          <6> HIDE DEF y
          <6>2. \A f \in n .. i : ~(f < s)
            BY <1>1, <1>4, <4>1
          <6> QED BY <2>4, <5>2, <6>1, <6>2 DEF IsPrev, FREE_LIST
        <5> QED BY <5>1, <5>2
      <4> QED BY <4>2, <4>3
    <3>2. CASE s \in n .. i
      <4>1. /\ s \in Int /\ s # 1 /\ s >= n /\ s <= i
            /\ g[s].check = IF s = i THEN -1 ELSE -(s + 1)
            /\ g[s].base = IF s = n THEN -tail ELSE -(s - 1)
        BY <1>1, <1>4, <2>6, <3>2
      <4>2. IsNext(H, s, -g[s].check)
        <5>1. CASE s = i
          <6>1. g[s].check = -1
            BY <4>1, <5>1
          <6>2. \A f \in H : ~(f > s)
            BY <1>1, <1>4, <2>2, <2>4, <5>1
          <6>3. -g[s].check = 1
            BY <6>1, MinusMinusOne
          <6> QED BY <6>2, <6>3 DEF IsNext, FREE_LIST
        <5>2. CASE s # i
          <6>1. -g[s].check = s + 1
            BY <4>1, <5>2
          <6>2. s + 1 \in H /\ s + 1 # 1 /\ s + 1 > s
            BY <1>1, <1>4, <2>4, <4>1, <5>2
          <6>3. \A f \in H : f > s => s + 1 <= f
            <7>1. \A f \in H : f \in Int
              BY <1>1, <1>4, <2>2, <2>4
            <7>2. s \in Int
              BY <4>1
            <7> HIDE DEF H
            <7> QED BY ONLY <7>1, <7>2
          <6> QED BY <6>1, <6>2, <6>3 DEF IsNext, FREE_LIST
        <5> QED BY <5>1, <5>2
      <4>3. IsPrev(H, s, -g[s].base)
        <5>1. CASE s = n
          <6>1. -g[s].base = tail /\ tail \in Int
            BY <1>1, <2>2, <4>1, <5>1
          <6>2. tail < s /\ tail \in H \cup {1}
            BY <1>1, <2>2, <2>4, <5>1, <6>1
          <6>3. \A f \in H : f < s => f <= tail
            BY <1>1, <1>4, <2>2, <2>4, <5>1
          <6> QED BY <4>1, <6>1, <6>2, <6>3 DEF IsPrev, FREE_LIST
        <5>2. CASE s # n
          <6>1. -g[s].base = s - 1
            BY <4>1, <5>2
          <6>2. s - 1 \in H /\ s - 1 < s
            BY <1>1, <1>4, <2>4, <4>1, <5>2
          <6>3. \A f \in H : f < s => f <= s - 1
            <7>1. \A f \in H : f \in Int
              BY <1>1, <1>4, <2>2, <2>4
            <7> QED BY <4>1, <7>1
          <6> QED BY <4>1, <6>1, <6>2, <6>3 DEF IsPrev, FREE_LIST
        <5> QED BY <5>1, <5>2
      <4> QED BY <4>2, <4>3
    <3> QED BY <2>4, <2>12, <3>1, <3>2
  <2>13. DaIs(g, i + 1, u)
    BY <2>9, <2>10, <2>11, <2>12 DEF DaIs, Listed, H, FREE_LIST
  <2>14. e.ok /\ e.ok \in BOOLEAN /\ e.d = g
    BY <2>1
  <2>15. i + 1 \in Nat /\ i + 1 >= n /\ i < i + 1
    BY <1>1, <1>4
  <2> QED BY <1>4, <2>13, <2>14, <2>15 DEF e
<1> QED BY <1>1, <1>2, <1>3, <1>4

(***************************************************************************)
(* Taking and freeing cells                                                *)
(***************************************************************************)

With(u, cell, v) == [x \in DOMAIN u \cup {cell} |-> IF x = cell THEN v ELSE u[x]]
Less(u, cell) == [x \in DOMAIN u \ {cell} |-> u[x]]

\* The neighbours of a cell in the list.
LEMMA Neighbours ==
  ASSUME NEW d, NEW n, NEW u, DaIs(d, n, u), NEW cell \in FreeOf(n, u)
  PROVE  LET F == FreeOf(n, u)
             p == -d[cell].base
             q == -d[cell].check
         IN  /\ cell \in 3 .. n - 1 /\ p \in 1 .. n - 1 /\ q \in 1 .. n - 1
             /\ p # cell /\ q # cell
             /\ p \in F \cup {1} /\ q \in F \cup {1}
             /\ p < cell /\ (q # 1 => q > cell)
             /\ \A f \in F : f > cell => q # 1 /\ q <= f
             /\ \A f \in F : f < cell => f <= p
<1> DEFINE F == FreeOf(n, u)
           p == -d[cell].base
           q == -d[cell].check
<1>1. /\ cell \in 3 .. n - 1 /\ p \in 1 .. n - 1 /\ q \in 1 .. n - 1
      /\ IsNext(F, cell, q) /\ IsPrev(F, cell, p)
  BY FreeIs
<1>2. n \in Nat
  BY ArrayIs DEF DaIs
<1> HIDE DEF F, p, q
<1>3. cell # 1 /\ cell \in Int /\ p \in Int /\ q \in Int
  BY <1>1, <1>2
<1>4. p < cell /\ (q # 1 => q > cell) /\ p \in F \cup {1} /\ q \in F \cup {1}
  BY <1>1, <1>3 DEF IsNext, IsPrev, FREE_LIST
<1>5. p # cell /\ q # cell
  BY <1>3, <1>4
<1>6. \A f \in F : f > cell => q # 1 /\ q <= f
  BY <1>1 DEF IsNext, FREE_LIST
<1>7. \A f \in F : f < cell => f <= p
  BY <1>1 DEF IsPrev
<1> QED BY <1>1, <1>4, <1>5, <1>6, <1>7 DEF F, p, q

\* g is d where cell has been taken out of the list F.
IsWithout(g, d, F, cell) ==
  \A s \in (F \ {cell}) \cup {1} :
    /\ g[s].check = IF s = -d[cell].base THEN d[cell].check ELSE d[s].check
    /\ g[s].base = IF s = -d[cell].check THEN d[cell].base ELSE d[s].base

\* The list without a cell that was in it (da_alloc_cell).
LEMMA ListWithout ==
  ASSUME NEW n \in Nat, NEW F \in SUBSET (3 .. n - 1), NEW cell \in F, NEW d, NEW g, Listed(d, F), IsWithout(g, d, F, cell)
  PROVE  Listed(g, F \ {cell})
<1> DEFINE dc == d[cell].check
           db == d[cell].base
           p == -db
           q == -dc
<1>0. /\ p = -d[cell].base /\ q = -d[cell].check /\ p = -db /\ q = -dc
      /\ \A s \in (F \ {cell}) \cup {1} : /\ g[s].check = IF s = p THEN dc ELSE d[s].check
                                        /\ g[s].base = IF s = q THEN db ELSE d[s].base
  BY DEF IsWithout
<1> HIDE DEF p, q, dc, db
<1>1. /\ IsNext(F, cell, q) /\ IsPrev(F, cell, p) /\ cell # 1 /\ cell \in Int
      /\ FREE_LIST = 1 /\ \A f \in F : f \in Int /\ f >= 3
  BY <1>0 DEF Listed, FREE_LIST
<1>2. /\ p \in F \cup {1} /\ q \in F \cup {1} /\ p < cell /\ (q # 1 => q > cell)
      /\ \A f \in F : f > cell => q # 1 /\ q <= f
      /\ \A f \in F : f < cell => f <= p
  BY <1>1 DEF IsNext, IsPrev
<1>3. p \in Int /\ q \in Int
  BY <1>1, <1>2
<1> DEFINE H == F \ {cell}
<1>4. p \in H \cup {1} /\ q \in H \cup {1}
  BY <1>1, <1>2, <1>3
<1>5. ASSUME NEW s \in H \cup {1} PROVE IsNext(H, s, -g[s].check)
  <2>1. CASE s = p
    <3>1. -g[s].check = q
      BY <1>0, <1>5, <2>1
    <3>2. q # 1 => q > s
      BY <1>1, <1>2, <1>3, <2>1
    <3>3. \A f \in H : f > s => q # 1 /\ q <= f
      <4> SUFFICES ASSUME NEW f \in H, f > s PROVE q # 1 /\ q <= f
        OBVIOUS
      <4>1. f \in F /\ f # cell /\ f \in Int
        BY <1>1
      <4>2. ~(f < cell)
        BY <1>2, <1>3, <2>1, <4>1
      <4>3. f > cell
        BY <1>1, <4>1, <4>2
      <4> QED BY <1>2, <4>1, <4>3
    <3> HIDE DEF H
    <3> QED BY <1>1, <1>4, <3>1, <3>2, <3>3 DEF IsNext
  <2>2. CASE s # p
    <3> DEFINE x == -d[s].check
    <3>1. -g[s].check = x /\ IsNext(F, s, x)
      BY <1>0, <1>5, <2>2 DEF Listed, FREE_LIST
    <3> HIDE DEF x
    <3>2. x \in F \cup {1} /\ (x # 1 => x > s) /\ \A f \in F : f > s => x # 1 /\ x <= f
      BY <1>1, <3>1 DEF IsNext
    <3>3. x # cell
      <4> SUFFICES ASSUME x = cell PROVE FALSE
        OBVIOUS
      <4>1. s < cell /\ \A f \in F : f > s => cell <= f
        BY <1>1, <3>2
      <4>2. p \notin F
        <5> SUFFICES ASSUME p \in F PROVE FALSE
          OBVIOUS
        <5>1. ~(p > s)
          BY <1>1, <1>2, <1>3, <4>1
        <5>2. s # 1
          BY <1>1, <5>1
        <5>3. s <= p /\ s \in Int
          BY <1>1, <1>2, <4>1, <5>2
        <5> QED BY <1>3, <2>2, <5>1, <5>3
      <4>3. p = 1 /\ s # 1 /\ s \in F
        BY <1>2, <2>2, <4>2
      <4>4. s <= 1
        BY <1>2, <4>1, <4>3
      <4> QED BY <1>1, <4>3, <4>4
    <3>4. x \in H \cup {1} /\ \A f \in H : f > s => x # 1 /\ x <= f
      BY <3>2, <3>3
    <3> HIDE DEF H
    <3> QED BY <1>1, <3>1, <3>2, <3>4 DEF IsNext
  <2> QED BY <2>1, <2>2
<1>6. ASSUME NEW s \in H \cup {1} PROVE IsPrev(H, s, -g[s].base)
  <2>1. CASE s = q
    <3>1. -g[s].base = p
      BY <1>0, <1>6, <2>1
    <3>2. s # 1 => p < s
      BY <1>1, <1>2, <1>3, <2>1
    <3>3. \A f \in H : s = 1 \/ f < s => f <= p
      <4> SUFFICES ASSUME NEW f \in H, s = 1 \/ f < s PROVE f <= p
        OBVIOUS
      <4>1. f \in F /\ f # cell /\ f \in Int
        BY <1>1
      <4>2. ~(f > cell)
        BY <1>2, <1>3, <2>1, <4>1
      <4>3. f < cell
        BY <1>1, <4>1, <4>2
      <4> QED BY <1>2, <4>1, <4>3
    <3> HIDE DEF H
    <3> QED BY <1>1, <1>4, <3>1, <3>2, <3>3 DEF IsPrev
  <2>2. CASE s # q
    <3> DEFINE y == -d[s].base
    <3>1. -g[s].base = y /\ IsPrev(F, s, y)
      BY <1>0, <1>6, <2>2 DEF Listed, FREE_LIST
    <3> HIDE DEF y
    <3>2. y \in F \cup {1} /\ (s # 1 => y < s) /\ \A f \in F : s = 1 \/ f < s => f <= y
      BY <1>1, <3>1 DEF IsPrev
    <3>3. y # cell
      <4> SUFFICES ASSUME y = cell PROVE FALSE
        OBVIOUS
      <4>1. CASE s = 1
        <5>1. q \in F /\ q <= cell /\ q > cell
          BY <1>2, <2>2, <3>2, <4>1
        <5> QED BY <1>1, <1>3, <5>1
      <4>2. CASE s # 1
        <5>1. s \in F /\ cell < s /\ s \in Int
          BY <1>1, <3>2, <4>2
        <5>2. q # 1 /\ q <= s /\ q > cell /\ q \in F
          BY <1>1, <1>2, <5>1
        <5>3. q < s
          BY <1>3, <2>2, <5>1, <5>2
        <5>4. q <= cell
          BY <3>2, <5>2, <5>3
        <5> QED BY <1>1, <1>3, <5>2, <5>4
      <4> QED BY <4>1, <4>2
    <3>4. y \in H \cup {1} /\ \A f \in H : s = 1 \/ f < s => f <= y
      BY <3>2, <3>3
    <3> HIDE DEF H
    <3> QED BY <1>1, <3>1, <3>2, <3>4 DEF IsPrev
  <2> QED BY <2>1, <2>2
<1> HIDE DEF H
<1>7. Listed(g, H)
  BY <1>1, <1>5, <1>6 DEF Listed
<1> QED BY <1>7 DEF H

\* Cells outside the list do not matter to it.
LEMMA ListedSame ==
  ASSUME NEW F, NEW d, NEW g, Listed(d, F), \A s \in F \cup {FREE_LIST} : g[s] = d[s]
  PROVE  Listed(g, F)
BY DEF Listed

\* A free cell that is taken and given the value v is a node (da_alloc_cell).
LEMMA TakeIs ==
  ASSUME NEW d, NEW n, NEW u, DaIs(d, n, u), NEW cell \in FreeOf(n, u),
         NEW v \in Cell, v.check >= 0
  PROVE  /\ DaIs([da_alloc_cell(d, cell) EXCEPT ![cell] = v], n, With(u, cell, v))
         /\ cell \in 3 .. n - 1 /\ cell \notin DOMAIN u
         /\ da_alloc_cell(d, cell) \in [0 .. n - 1 -> Cell]
         /\ da_alloc_cell(d, cell)[cell] = d[cell]
         /\ \A x \in DOMAIN u : da_alloc_cell(d, cell)[x] = d[x]
<1> DEFINE F == FreeOf(n, u)
           dc == d[cell].check
           db == d[cell].base
           p == -db
           q == -dc
           a1 == SetCheck(d, p, dc)
           a == SetBase(a1, q, db)
           g == [a EXCEPT ![cell] = v]
           w == With(u, cell, v)
<1>1. /\ n \in Nat /\ n >= 3 /\ d \in [0 .. n - 1 -> Cell] /\ IsArray(d, n)
      /\ d[0] = [base |-> DA_SIGNATURE, check |-> n]
  <2>1. IsArray(d, n)
    BY DEF DaIs
  <2> QED BY <2>1, ArrayIs DEF IsArray
<1>2. /\ cell \in 3 .. n - 1 /\ p \in 1 .. n - 1 /\ q \in 1 .. n - 1 /\ p # cell /\ q # cell
      /\ p \in F \cup {1} /\ q \in F \cup {1}
  BY Neighbours
<1>3. da_alloc_cell(d, cell) = a
  BY DEF da_alloc_cell, SetCheck, SetBase
<1>4. /\ dc \in Int /\ db \in Int /\ F \subseteq 3 .. n - 1 /\ cell \notin DOMAIN u
      /\ \A s \in F \cup {1} : s \notin DOMAIN u /\ s \in 1 .. n - 1
  BY FreeIs DEF FREE_LIST
<1>5. /\ AreNodes(n, u) /\ Listed(d, F) /\ DOMAIN u \subseteq 2 .. n - 1
      /\ \A s \in DOMAIN u : d[s] = u[s]
  BY DEF DaIs, AreNodes, ROOT
<1>6. 0 \in 0 .. n - 1 /\ p \in 0 .. n - 1 /\ q \in 0 .. n - 1 /\ cell \in 0 .. n - 1
      /\ p # 0 /\ q # 0 /\ cell # 0
  BY <1>1, <1>2
<1> DEFINE H == F \ {cell}
<1>7. FreeOf(n, w) = H
  BY DEF FreeOf, With
<1> HIDE DEF p, q, dc, db, w, F
<1>8. a1 \in [0 .. n - 1 -> Cell] /\ CheckIs(a1, d, n, p, dc)
  <2>1. CheckIs(a1, d, n, p, dc)
    BY <1>1, <1>4, <1>6, CheckSet
  <2> QED BY <2>1 DEF CheckIs
<1> HIDE DEF a1
<1>9. BaseIs(a, a1, n, q, db)
  BY <1>4, <1>6, <1>8, BaseSet
<1> HIDE DEF a
<1>10. a \in [0 .. n - 1 -> Cell]
  BY <1>9 DEF BaseIs
<1>11. ASSUME NEW s \in 0 .. n - 1
       PROVE  /\ a[s].check = IF s = p THEN dc ELSE d[s].check
              /\ a[s].base = IF s = q THEN db ELSE d[s].base
              /\ s # p /\ s # q => a[s] = d[s]
  <2>1. /\ a1[s].check = IF s = p THEN dc ELSE d[s].check
        /\ a1[s].base = d[s].base
        /\ s # p => a1[s] = d[s]
    BY <1>8 DEF CheckIs
  <2> QED BY <1>9, <2>1 DEF BaseIs
<1>12. g \in [0 .. n - 1 -> Cell] /\ g[cell] = v /\ \A s \in 0 .. n - 1 : s # cell => g[s] = a[s]
  BY <1>6, <1>10
<1> HIDE DEF g
<1>13. IsArray(g, n)
  <2>1. g[0] = d[0]
    BY <1>6, <1>11, <1>12
  <2> QED BY <1>1, <1>12, <2>1 DEF IsArray
<1>14. ASSUME NEW x \in DOMAIN u PROVE a[x] = d[x] /\ x \in 0 .. n - 1
  <2>1. x \in 0 .. n - 1 /\ x # p /\ x # q
    BY <1>1, <1>2, <1>4, <1>5
  <2> QED BY <1>11, <2>1
<1>15. \A s \in DOMAIN w : g[s] = w[s]
  <2>1. ASSUME NEW s \in DOMAIN u, s # cell PROVE g[s] = u[s]
    BY <1>5, <1>12, <1>14, <2>1
  <2> QED BY <1>12, <2>1 DEF w, With
<1>16. AreNodes(n, w)
  <2>1. u \in [DOMAIN u -> Cell] /\ DOMAIN u \subseteq 2 .. n - 1 /\ 2 \in DOMAIN u
        /\ \A s \in DOMAIN u : u[s].check >= 0
    BY <1>5 DEF AreNodes, ROOT
  <2>2. DOMAIN w = DOMAIN u \cup {cell} /\ \A s \in DOMAIN w : w[s] = IF s = cell THEN v ELSE u[s]
    BY DEF w, With
  <2>3. w = [s \in DOMAIN w |-> w[s]]
    BY DEF w, With
  <2>4. cell \in 2 .. n - 1
    BY <1>1, <1>2
  <2>5. \A s \in DOMAIN w : w[s] \in Cell /\ w[s].check >= 0
    BY <2>1, <2>2
  <2> QED BY <2>1, <2>2, <2>3, <2>4, <2>5 DEF AreNodes, ROOT
<1>17. Listed(a, H)
  <2>1. IsWithout(a, d, F, cell)
    <3>1. \A s \in H \cup {1} : s \in 0 .. n - 1
      BY <1>1, <1>4
    <3> QED BY <1>11, <3>1 DEF IsWithout, p, q, dc, db
  <2>2. cell \in F
    BY DEF F
  <2>3. F \in SUBSET (3 .. n - 1)
    BY <1>4
  <2> QED BY ONLY <1>1, <1>5, <2>1, <2>2, <2>3, ListWithout
<1>18. Listed(g, H)
  <2>1. \A s \in H \cup {FREE_LIST} : g[s] = a[s]
    <3>1. \A s \in H \cup {1} : s \in 0 .. n - 1 /\ s # cell
      BY <1>1, <1>2, <1>4
    <3> QED BY <1>12, <3>1 DEF FREE_LIST
  <2> QED BY <1>17, <2>1, ListedSame
<1>19. DaIs(g, n, w)
  BY <1>7, <1>13, <1>15, <1>16, <1>18 DEF DaIs
<1>20. a[cell] = d[cell]
  BY <1>2, <1>6, <1>11
<1>21. g = [da_alloc_cell(d, cell) EXCEPT ![cell] = v]
  BY <1>3 DEF g
<1> QED BY <1>2, <1>3, <1>4, <1>10, <1>14, <1>19, <1>20, <1>21 DEF w

\* g is d where cell, between prev and i, has been put into the list F.
IsWithNew(g, d, F, cell, prev, i) ==
  /\ -g[cell].check = i /\ -g[cell].base = prev
  /\ \A s \in F \cup {1} :
       /\ -g[s].check = IF s = prev THEN cell ELSE -d[s].check
       /\ -g[s].base = IF s = i THEN cell ELSE -d[s].base

\* The list with a cell that was not in it, put in where it belongs (da_free_cell).
LEMMA ListWithNew ==
  ASSUME NEW n \in Nat, NEW F \in SUBSET (3 .. n - 1), NEW cell \in 3 .. n - 1, cell \notin F,
         NEW d, NEW g, Listed(d, F), NEW prev, NEW i, IsWithNew(g, d, F, cell, prev, i),
         i \in F \cup {1}, prev = -d[i].base,
         i # 1 => i >= cell, \A f \in F : f >= cell => i # 1 /\ i <= f
  PROVE  Listed(g, F \cup {cell})
<1> DEFINE H == F \cup {cell}
<1>1. /\ FREE_LIST = 1 /\ cell \in Int /\ cell >= 3 /\ i \in Int
      /\ \A f \in F : f \in Int /\ f >= 3
  BY DEF FREE_LIST
<1>2. IsPrev(F, i, prev)
  BY <1>1 DEF Listed
<1>3. /\ prev \in F \cup {1} /\ (i # 1 => prev < i) /\ \A f \in F : i = 1 \/ f < i => f <= prev
  BY <1>1, <1>2 DEF IsPrev
<1>4. prev \in Int /\ prev < cell /\ (i # 1 => i > cell)
  <2>1. prev \in Int /\ (i # 1 => i > cell)
    BY <1>1, <1>3
  <2>2. ~(prev >= cell)
    BY <1>1, <1>3, <2>1
  <2> QED BY <1>1, <2>1, <2>2
<1>5. \A f \in F : f < cell => f <= prev
  BY <1>1, <1>3, <1>4
<1>6. \A f \in F : f > cell => i # 1 /\ i <= f
  BY <1>1
<1>7. ASSUME NEW s \in H \cup {1} PROVE IsNext(H, s, -g[s].check)
  <2>1. CASE s = cell
    <3>1. -g[s].check = i /\ i \in H \cup {1} /\ (i # 1 => i > s)
      BY <1>4, <2>1 DEF IsWithNew
    <3>2. \A f \in H : f > s => i # 1 /\ i <= f
      BY <1>1, <1>6, <2>1
    <3> QED BY <1>1, <3>1, <3>2 DEF IsNext
  <2>2. CASE s = prev
    <3>1. -g[s].check = cell
      BY <1>3, <2>2 DEF IsWithNew
    <3>2. cell \in H /\ cell # 1 /\ cell > s
      BY <1>1, <1>4, <2>2
    <3>3. \A f \in H : f > s => cell # 1 /\ cell <= f
      <4> SUFFICES ASSUME NEW f \in H, f > s, ~(cell <= f) PROVE FALSE
        BY <3>2
      <4>1. f \in F /\ f \in Int /\ f < cell
        BY <1>1
      <4>2. f <= prev
        BY <1>5, <4>1
      <4> QED BY <1>4, <2>2, <4>1, <4>2
    <3> HIDE DEF H
    <3> QED BY <1>1, <3>1, <3>2, <3>3 DEF IsNext
  <2>3. CASE s # cell /\ s # prev
    <3> DEFINE x == -d[s].check
    <3>1. s \in F \cup {1} /\ s \in Int /\ -g[s].check = x /\ IsNext(F, s, x)
      BY <1>1, <1>7, <2>3 DEF Listed, IsWithNew
    <3> HIDE DEF x
    <3>2. x \in F \cup {1} /\ (x # 1 => x > s) /\ (\A f \in F : f > s => x # 1 /\ x <= f) /\ x \in Int
      BY <1>1, <3>1 DEF IsNext
    <3>3. cell > s => x # 1 /\ x <= cell
      <4> SUFFICES ASSUME cell > s PROVE x # 1 /\ x <= cell
        OBVIOUS
      <4>1. prev \in F /\ prev > s
        <5>1. CASE s = 1
          BY <1>1, <1>3, <1>4, <2>3, <5>1
        <5>2. CASE s # 1
          <6>1. s \in F /\ s <= prev
            BY <1>5, <3>1, <5>2
          <6>2. s < prev
            BY <1>4, <2>3, <3>1, <6>1
          <6> QED BY <1>1, <1>3, <3>1, <6>1, <6>2
        <5> QED BY <5>1, <5>2
      <4>2. x # 1 /\ x <= prev
        BY <3>2, <4>1
      <4> QED BY <1>1, <1>4, <3>2, <4>2
    <3>4. \A f \in H : f > s => x # 1 /\ x <= f
      BY <3>2, <3>3
    <3> QED BY <1>1, <3>1, <3>2, <3>4 DEF IsNext
  <2> QED BY <2>1, <2>2, <2>3
<1>8. ASSUME NEW s \in H \cup {1} PROVE IsPrev(H, s, -g[s].base)
  <2>1. CASE s = cell
    <3>1. -g[s].base = prev /\ prev \in H \cup {1} /\ prev < s
      BY <1>3, <1>4, <2>1 DEF IsWithNew
    <3>2. \A f \in H : s = 1 \/ f < s => f <= prev
      BY <1>1, <1>5, <2>1
    <3> QED BY <1>1, <3>1, <3>2 DEF IsPrev
  <2>2. CASE s = i
    <3>1. -g[s].base = cell
      BY <2>2 DEF IsWithNew
    <3>2. cell \in H /\ (s # 1 => cell < s)
      BY <1>1, <1>4, <2>2
    <3>3. \A f \in H : s = 1 \/ f < s => f <= cell
      <4> SUFFICES ASSUME NEW f \in H, s = 1 \/ f < s, ~(f <= cell) PROVE FALSE
        OBVIOUS
      <4>1. f \in F /\ f \in Int /\ f > cell
        BY <1>1
      <4>2. i # 1 /\ i <= f
        BY <1>6, <4>1
      <4> QED BY <1>1, <2>2, <4>1, <4>2
    <3> HIDE DEF H
    <3> QED BY <1>1, <3>1, <3>2, <3>3 DEF IsPrev
  <2>3. CASE s # cell /\ s # i
    <3> DEFINE y == -d[s].base
    <3>1. s \in F \cup {1} /\ s \in Int /\ -g[s].base = y /\ IsPrev(F, s, y)
      BY <1>1, <1>8, <2>3 DEF Listed, IsWithNew
    <3> HIDE DEF y
    <3>2. y \in F \cup {1} /\ (s # 1 => y < s) /\ (\A f \in F : s = 1 \/ f < s => f <= y) /\ y \in Int
      BY <1>1, <3>1 DEF IsPrev
    <3>3. s = 1 \/ cell < s => cell <= y
      <4> SUFFICES ASSUME s = 1 \/ cell < s PROVE cell <= y
        OBVIOUS
      <4>1. i \in F /\ i > cell /\ (s = 1 \/ i < s)
        <5>1. CASE s = 1
          BY <1>1, <1>4, <2>3, <5>1
        <5>2. CASE s # 1
          <6>1. s \in F /\ i # 1 /\ i <= s
            BY <1>6, <3>1, <5>2
          <6>2. i < s
            BY <1>1, <2>3, <3>1, <6>1
          <6> QED BY <1>4, <6>1, <6>2
        <5> QED BY <5>1, <5>2
      <4>2. i <= y
        BY <3>2, <4>1
      <4> QED BY <1>1, <3>2, <4>1, <4>2
    <3>4. \A f \in H : s = 1 \/ f < s => f <= y
      BY <3>2, <3>3
    <3> QED BY <1>1, <3>1, <3>2, <3>4 DEF IsPrev
  <2> QED BY <2>1, <2>2, <2>3
<1> HIDE DEF H
<1>9. Listed(g, H)
  BY <1>1, <1>7, <1>8 DEF Listed
<1> QED BY <1>9 DEF H

\* A node other than the root can be freed (da_free_cell).
LEMMA FreedIs ==
  ASSUME NEW d, NEW n, NEW u, DaIs(d, n, u), NEW cell \in DOMAIN u, cell # ROOT
  PROVE  DaIs(da_free_cell(d, cell), n, Less(u, cell))
<1> DEFINE F == FreeOf(n, u)
           i == FreeFrom(d, cell)
           prev == -d[i].base
           d0 == [d EXCEPT ![cell] = [base |-> -prev, check |-> -i]]
           d1 == SetCheck(d0, prev, -cell)
           g == SetBase(d1, i, -cell)
           w == Less(u, cell)
           H == F \cup {cell}
<1>1. /\ n \in Nat /\ n >= 3 /\ d \in [0 .. n - 1 -> Cell] /\ IsArray(d, n)
      /\ d[0] = [base |-> DA_SIGNATURE, check |-> n]
  <2>1. IsArray(d, n)
    BY DEF DaIs
  <2> QED BY <2>1, ArrayIs DEF IsArray
<1>2. /\ AreNodes(n, u) /\ Listed(d, F) /\ DOMAIN u \subseteq 2 .. n - 1
      /\ \A s \in DOMAIN u : d[s] = u[s]
  BY DEF DaIs, AreNodes, ROOT
<1>3. cell \in 3 .. n - 1 /\ cell \in 0 .. n - 1 /\ cell \in Int /\ cell # 0 /\ cell # 1
  BY <1>1, <1>2 DEF ROOT
<1>4. /\ i \in F \cup {1} /\ (i # 1 => i >= cell) /\ \A f \in F : f >= cell => i # 1 /\ i <= f
  BY <1>3, ScanFinds DEF FREE_LIST
<1>5. /\ F \in SUBSET (3 .. n - 1) /\ cell \notin F
      /\ \A s \in F \cup {1} : s \notin DOMAIN u /\ s \in 1 .. n - 1
  BY FreeIs DEF FREE_LIST, FreeOf
<1>6. i \in 1 .. n - 1 /\ prev \in 1 .. n - 1 /\ prev \in F \cup {1} /\ da_get_base(d, i) = d[i].base
  <2>1. /\ i \in 1 .. n - 1 /\ prev \in 1 .. n - 1 /\ IsPrev(F, i, prev)
        /\ da_get_base(d, i) = d[i].base
    BY <1>4, FreeIs DEF FREE_LIST
  <2> HIDE DEF i, prev, F
  <2> QED BY <2>1 DEF IsPrev, FREE_LIST
<1>7. da_free_cell(d, cell) = g
  BY <1>6 DEF da_free_cell, SetCheck, SetBase
<1>8. FreeOf(n, w) = H
  BY <1>1, <1>3 DEF FreeOf, Less, DA_POOL_BEGIN
<1>9. prev = -d[i].base
  OBVIOUS
<1> HIDE DEF prev, i, F, w
<1>10. /\ i \in 0 .. n - 1 /\ prev \in 0 .. n - 1 /\ i # 0 /\ prev # 0 /\ 0 \in 0 .. n - 1
       /\ i # cell /\ prev # cell /\ i \in Int /\ prev \in Int
       /\ -i \in Int /\ -prev \in Int /\ -cell \in Int
       /\ -(-i) = i /\ -(-prev) = prev /\ -(-cell) = cell
  BY <1>1, <1>3, <1>4, <1>5, <1>6
<1> DEFINE c0 == [base |-> -prev, check |-> -i]
<1>11. c0 \in Cell /\ c0.base = -prev /\ c0.check = -i
  BY <1>10 DEF Cell
<1>12. d0 \in [0 .. n - 1 -> Cell] /\ d0[cell] = c0 /\ \A s \in 0 .. n - 1 : s # cell => d0[s] = d[s]
  <2> HIDE DEF c0
  <2> QED BY <1>1, <1>3, <1>11 DEF c0
<1> HIDE DEF d0, c0
<1>13. CheckIs(d1, d0, n, prev, -cell)
  BY <1>10, <1>12, CheckSet
<1>14. d1 \in [0 .. n - 1 -> Cell]
  BY <1>13 DEF CheckIs
<1> HIDE DEF d1
<1>15. BaseIs(g, d1, n, i, -cell)
  BY <1>10, <1>14, BaseSet
<1>16. g \in [0 .. n - 1 -> Cell]
  BY <1>15 DEF BaseIs
<1> HIDE DEF g
<1>17. ASSUME NEW s \in 0 .. n - 1
       PROVE  /\ g[s].check = IF s = prev THEN -cell ELSE d0[s].check
              /\ g[s].base = IF s = i THEN -cell ELSE d0[s].base
              /\ s # prev /\ s # i => g[s] = d0[s]
  <2>1. /\ d1[s].check = IF s = prev THEN -cell ELSE d0[s].check
        /\ d1[s].base = d0[s].base
        /\ s # prev => d1[s] = d0[s]
    BY <1>13 DEF CheckIs
  <2> QED BY <1>15, <2>1 DEF BaseIs
<1>18. IsArray(g, n)
  <2>1. g[0] = d[0]
    BY <1>3, <1>10, <1>12, <1>17
  <2> QED BY <1>1, <1>16, <2>1 DEF IsArray
<1>19. ASSUME NEW s \in DOMAIN u, s # cell PROVE g[s] = u[s]
  <2>1. s \in 0 .. n - 1 /\ s # prev /\ s # i
    BY <1>1, <1>2, <1>4, <1>5, <1>6
  <2> QED BY <1>2, <1>12, <1>17, <1>19, <2>1
<1>20. AreNodes(n, w)
  <2>1. u \in [DOMAIN u -> Cell] /\ DOMAIN u \subseteq 2 .. n - 1 /\ 2 \in DOMAIN u
        /\ \A s \in DOMAIN u : u[s].check >= 0
    BY <1>2 DEF AreNodes, ROOT
  <2>2. DOMAIN w = DOMAIN u \ {cell} /\ \A s \in DOMAIN w : w[s] = u[s]
    BY DEF w, Less
  <2>3. w = [s \in DOMAIN w |-> w[s]]
    BY DEF w, Less
  <2>4. cell # 2
    BY DEF ROOT
  <2> QED BY <2>1, <2>2, <2>3, <2>4 DEF AreNodes, ROOT
<1>21. IsWithNew(g, d, F, cell, prev, i)
  <2>1. -g[cell].check = i /\ -g[cell].base = prev
    BY <1>3, <1>10, <1>11, <1>12, <1>17
  <2>2. ASSUME NEW s \in F \cup {1}
        PROVE  /\ -g[s].check = IF s = prev THEN cell ELSE -d[s].check
               /\ -g[s].base = IF s = i THEN cell ELSE -d[s].base
    <3>1. s \in 0 .. n - 1 /\ s # cell
      BY <1>1, <1>3, <1>5
    <3>2. d0[s] = d[s]
      BY <1>12, <3>1
    <3> QED BY <1>10, <1>17, <3>1, <3>2
  <2> QED BY <2>1, <2>2 DEF IsWithNew
<1>22. Listed(g, H)
  BY ONLY <1>1, <1>2, <1>3, <1>4, <1>5, <1>9, <1>21, ListWithNew
<1>23. \A s \in DOMAIN w : g[s] = w[s]
  BY <1>19 DEF w, Less
<1>24. DaIs(g, n, w)
  BY <1>8, <1>18, <1>20, <1>22, <1>23 DEF DaIs
<1> QED BY <1>7, <1>24 DEF w

\* g is d with its nodes, those of u, changed into those of w.
IsChanged(g, d, n, u, w) ==
  /\ AreNodes(n, w) /\ DOMAIN w = DOMAIN u
  /\ g \in [0 .. n - 1 -> Cell] /\ \A s \in DOMAIN u : g[s] = w[s]
  /\ \A s \in 0 .. n - 1 : s \notin DOMAIN u => g[s] = d[s]

\* The free list does not depend on what the nodes hold (da_set_base, da_set_check).
LEMMA ChangedIs ==
  ASSUME NEW d, NEW n, NEW u, DaIs(d, n, u), NEW w, NEW g, IsChanged(g, d, n, u, w)
  PROVE  DaIs(g, n, w)
<1> USE DEF IsChanged
<1>1. FreeOf(n, w) = FreeOf(n, u)
  BY DEF FreeOf
<1>2. /\ n \in Nat /\ n >= 3 /\ IsArray(d, n) /\ 0 \notin DOMAIN u
  <2>1. IsArray(d, n)
    BY DEF DaIs
  <2>2. DOMAIN u \subseteq 2 .. n - 1
    BY DEF DaIs, AreNodes, ROOT
  <2> QED BY <2>1, <2>2, ArrayIs
<1>3. IsArray(g, n)
  BY <1>2 DEF IsArray
<1>4. \A s \in FreeOf(n, u) \cup {FREE_LIST} : g[s] = d[s]
  <2>1. \A s \in FreeOf(n, u) \cup {FREE_LIST} : s \notin DOMAIN u /\ s \in 1 .. n - 1
    BY FreeIs
  <2> QED BY <1>2, <2>1
<1>5. Listed(g, FreeOf(n, w))
  BY <1>1, <1>4, ListedSame DEF DaIs
<1> QED BY <1>3, <1>5 DEF DaIs

(***************************************************************************)
(* Finding room.  From here on the number of cells is left to the array.   *)
(***************************************************************************)

DaHolds(d, u) == DaIs(d, num_cells(d), u)
Frees(d, u) == FreeOf(num_cells(d), u)

\* e is d after it has been extended, perhaps.
Grown(d, e, u) == DaHolds(e, u) /\ num_cells(d) <= num_cells(e)

Arrays == UNION {[0 .. n - 1 -> Cell] : n \in Nat}

\* The number of cells of an array is no matter of choice.
LEMMA HoldsIs ==
  ASSUME NEW d, NEW n, NEW u, DaIs(d, n, u)
  PROVE  /\ DaHolds(d, u) /\ num_cells(d) = n /\ n \in Nat /\ n >= 3 /\ n <= TRIE_INDEX_MAX
         /\ d \in Arrays /\ d \in [0 .. n - 1 -> Cell]
<1>1. IsArray(d, n)
  BY DEF DaIs
<1>2. num_cells(d) = n /\ n \in Nat /\ n >= 3 /\ n <= TRIE_INDEX_MAX
  BY <1>1, ArrayIs
<1> QED BY <1>1, <1>2 DEF DaHolds, Arrays, IsArray

\* What a free cell is.
LEMMA FreeCellIs ==
  ASSUME NEW d, NEW u, DaHolds(d, u), NEW s \in Frees(d, u)
  PROVE  /\ s \in Int /\ s >= 3 /\ s < num_cells(d) /\ s # FREE_LIST /\ s \notin DOMAIN u
         /\ num_cells(d) \in Nat /\ num_cells(d) <= TRIE_INDEX_MAX
         /\ da_get_check(d, s) = d[s].check
         /\ IsNext(Frees(d, u), s, -da_get_check(d, s))
<1>1. /\ num_cells(d) \in Nat /\ num_cells(d) <= TRIE_INDEX_MAX
  BY HoldsIs DEF DaHolds
<1>2. /\ s \in 3 .. num_cells(d) - 1 /\ s \notin DOMAIN u
      /\ da_get_check(d, s) = d[s].check
      /\ IsNext(Frees(d, u), s, -da_get_check(d, s))
  BY FreeIs DEF DaHolds, Frees
<1> QED BY <1>1, <1>2 DEF FREE_LIST

\* A free cell stays one when the array is extended.
LEMMA FreeStays ==
  ASSUME NEW d, NEW e, NEW u, DaHolds(d, u), Grown(d, e, u), NEW s \in Frees(d, u)
  PROVE  s \in Frees(e, u)
<1>1. num_cells(d) \in Nat /\ num_cells(e) \in Nat /\ num_cells(d) <= num_cells(e)
  BY HoldsIs DEF Grown, DaHolds
<1> QED BY <1>1 DEF Frees, FreeOf, DA_POOL_BEGIN

\* Extending twice is extending.
LEMMA GrownTwice ==
  ASSUME NEW d, NEW e, NEW f, NEW u, DaHolds(d, u), Grown(d, e, u), Grown(e, f, u)
  PROVE  Grown(d, f, u)
<1>1. num_cells(d) \in Nat /\ num_cells(e) \in Nat /\ num_cells(f) \in Nat
  BY HoldsIs DEF Grown, DaHolds
<1> QED BY <1>1 DEF Grown

\* The cells below the end of the array that are not used.
LEMMA UnusedIsFree ==
  ASSUME NEW d, NEW u, DaHolds(d, u), NEW s \in Int, s >= 3, s < num_cells(d)
  PROVE  /\ s \in Frees(d, u) <=> s \notin DOMAIN u
         /\ s \in Frees(d, u) <=> d[s].check < 0
<1>1. /\ num_cells(d) \in Nat
      /\ \A x \in DOMAIN u : d[x] = u[x] /\ u[x].check >= 0 /\ u[x].check \in Int
  <2>1. \A x \in DOMAIN u : u[x] \in Cell /\ u[x].check >= 0 /\ d[x] = u[x]
    BY DEF DaHolds, DaIs, AreNodes
  <2> QED BY <2>1, HoldsIs DEF DaHolds, Cell
<1>2. s \in Frees(d, u) <=> s \notin DOMAIN u
  BY <1>1 DEF Frees, FreeOf, DA_POOL_BEGIN
<1>3. s \in Frees(d, u) => d[s].check < 0
  BY FreeIs DEF Frees, DaHolds
<1>4. s \in DOMAIN u => ~(d[s].check < 0)
  BY <1>1
<1> QED BY <1>2, <1>3, <1>4

\* Extending, in these terms.
LEMMA ExtendGrows ==
  ASSUME NEW d, NEW u, DaHolds(d, u), NEW i \in Int
  PROVE  LET e == da_extend_pool(d, i) IN
         /\ e.ok \in BOOLEAN
         /\ e.ok <=> 0 < i /\ i < TRIE_INDEX_MAX
         /\ Grown(d, e.d, u) /\ (e.ok => i < num_cells(e.d))
         /\ e.d \in Arrays
<1> DEFINE e == da_extend_pool(d, i)
<1>1. /\ e.ok \in BOOLEAN /\ (e.ok <=> 0 < i /\ i < TRIE_INDEX_MAX)
      /\ \E m \in Nat : m >= num_cells(d) /\ DaIs(e.d, m, u) /\ (e.ok => i < m)
  BY ExtendIs DEF DaHolds
<1> HIDE DEF e
<1>2. PICK m \in Nat : m >= num_cells(d) /\ DaIs(e.d, m, u) /\ (e.ok => i < m)
  BY <1>1
<1>3. DaHolds(e.d, u) /\ num_cells(e.d) = m /\ e.d \in Arrays
  BY <1>2, HoldsIs
<1>4. num_cells(d) \in Nat
  BY HoldsIs DEF DaHolds
<1> QED BY <1>1, <1>2, <1>3, <1>4 DEF e, Grown

\* What the test of a cell gives: the array, and whether the cell is free.
IsTested(f, d, u) == f \in [ok : BOOLEAN, d : Arrays] /\ Grown(d, f.d, u)

\* The test of the cell for c (da_check_free_cell).
LEMMA CellForIs ==
  ASSUME NEW d, NEW u, DaHolds(d, u), NEW base \in Nat, base >= 3, NEW c \in Nat
  PROVE  LET f == FreeCellFor(d, base, c) IN
         IsTested(f, d, u) /\ (f.ok => base + c \in Frees(f.d, u))
<1> DEFINE f == FreeCellFor(d, base, c)
<1>1. CASE base > TRIE_INDEX_MAX - c
  <2>1. f = [ok |-> FALSE, d |-> d]
    BY <1>1 DEF FreeCellFor
  <2>2. d \in Arrays /\ Grown(d, d, u)
    <3>1. num_cells(d) \in Nat /\ d \in Arrays
      BY HoldsIs DEF DaHolds
    <3> QED BY <3>1 DEF Grown
  <2> HIDE DEF f
  <2>3. IsTested(f, d, u) /\ ~f.ok
    BY <2>1, <2>2 DEF IsTested
  <2> QED BY <2>3 DEF f
<1>2. CASE ~(base > TRIE_INDEX_MAX - c)
  <2> DEFINE s == base + c
             e == da_extend_pool(d, s)
  <2>1. f = [ok |-> e.ok /\ da_get_check(e.d, s) < 0, d |-> e.d]
    BY <1>2 DEF FreeCellFor, da_check_free_cell
  <2>2. s \in Int /\ s \in Nat /\ s >= 3
    OBVIOUS
  <2> HIDE DEF s
  <2>3. /\ e.ok \in BOOLEAN /\ Grown(d, e.d, u) /\ (e.ok => s < num_cells(e.d)) /\ e.d \in Arrays
    BY <2>2, ExtendGrows
  <2> HIDE DEF e, f
  <2>4. ASSUME e.ok, da_get_check(e.d, s) < 0 PROVE s \in Frees(e.d, u)
    <3>1. DaHolds(e.d, u) /\ s < num_cells(e.d)
      BY <2>3, <2>4 DEF Grown
    <3>2. da_get_check(e.d, s) = e.d[s].check
      BY <3>1 DEF da_get_check
    <3> QED BY <2>2, <2>4, <3>1, <3>2, UnusedIsFree
  <2>5. f.d = e.d /\ f \in [ok : BOOLEAN, d : Arrays] /\ (f.ok => e.ok /\ da_get_check(e.d, s) < 0)
    BY <2>1, <2>3
  <2>6. IsTested(f, d, u) /\ (f.ok => s \in Frees(f.d, u))
    BY <2>3, <2>4, <2>5 DEF IsTested
  <2> QED BY <2>6 DEF f, s
<1> QED BY <1>1, <1>2

\* The tests of the cells for the symbols, after those below c.
FitIs(at, d, base, syms) ==
  /\ at[0] = [ok |-> TRUE, d |-> d]
  /\ \A c \in 1 .. TRIE_CHAR_MAX + 1 : at[c] = FitSymbol(at[c - 1], base, syms, c - 1)

\* One test more (da_fit_symbols).
LEMMA FitSymbolIs ==
  ASSUME NEW d, NEW u, DaHolds(d, u), NEW f, IsTested(f, d, u), NEW base \in Nat, base >= 3,
         NEW syms, NEW c \in Nat
  PROVE  LET g == FitSymbol(f, base, syms, c) IN
         /\ IsTested(g, d, u)
         /\ g.ok => f.ok /\ Grown(f.d, g.d, u) /\ (c \in syms => base + c \in Frees(g.d, u))
<1> DEFINE g == FitSymbol(f, base, syms, c)
           h == FreeCellFor(f.d, base, c)
<1>1. DaHolds(f.d, u) /\ f.ok \in BOOLEAN
  BY DEF IsTested, Grown
<1>2. IsTested(h, f.d, u) /\ (h.ok => base + c \in Frees(h.d, u))
  BY <1>1, CellForIs
<1>3. g = IF f.ok /\ c \in syms THEN h ELSE f
  BY DEF FitSymbol
<1> HIDE DEF g, h
<1>4. CASE f.ok /\ c \in syms
  <2>1. IsTested(h, d, u)
    BY <1>1, <1>2, GrownTwice DEF IsTested
  <2> QED BY <1>2, <1>3, <1>4, <2>1 DEF IsTested, g
<1>5. CASE ~(f.ok /\ c \in syms)
  <2>1. Grown(f.d, f.d, u)
    BY <1>1, HoldsIs DEF Grown, DaHolds
  <2> QED BY <1>3, <1>5, <2>1 DEF g
<1> QED BY <1>4, <1>5

\* The loop of da_fit_symbols has these turns, and its result is the last of them.
LEMMA FitExists ==
  ASSUME NEW d, NEW u, DaHolds(d, u), NEW base \in Nat, base >= 3, NEW syms
  PROVE  \E at : FitIs(at, d, base, syms)
                 /\ da_fit_symbols(d, base, syms) = at[TRIE_CHAR_MAX + 1]
<1> DEFINE n == TRIE_CHAR_MAX + 1
           V == {f \in [ok : BOOLEAN, d : Arrays] : IsTested(f, d, u)}
           start == [ok |-> TRUE, d |-> d]
           step == [x \in Nat \X V |-> FitSymbol(x[2], base, syms,
                                                 IF x[1] - 1 \in Nat THEN x[1] - 1 ELSE 0)]
           upto == CHOOSE f : f = [c \in 0 .. TRIE_CHAR_MAX + 1 |->
                                     IF c = 0 THEN [ok |-> TRUE, d |-> d]
                                     ELSE FitSymbol(f[c - 1], base, syms, c - 1)]
<1>1. n \in Nat
  BY TrieDefsAssumption
<1>2. da_fit_symbols(d, base, syms) = upto[TRIE_CHAR_MAX + 1]
  BY DEF da_fit_symbols
<1>3. \A f : f \in V <=> IsTested(f, d, u)
  BY DEF IsTested
<1>4. start \in V
  <2>1. d \in Arrays /\ Grown(d, d, u)
    BY HoldsIs DEF Grown, DaHolds
  <2> QED BY <2>1 DEF IsTested
<1>5. step \in [Nat \X V -> V]
  <2>1. ASSUME NEW x \in Nat \X V PROVE FitSymbol(x[2], base, syms,
                                                 IF x[1] - 1 \in Nat THEN x[1] - 1 ELSE 0) \in V
    <3>1. IsTested(x[2], d, u) /\ (IF x[1] - 1 \in Nat THEN x[1] - 1 ELSE 0) \in Nat
      BY <1>3
    <3> HIDE DEF V
    <3> QED BY <1>3, <3>1, FitSymbolIs
  <2> HIDE DEF V
  <2> QED BY <2>1
<1> HIDE DEF V, start
<1>6. PICK f : Repeats(f, n, V, start, step)
  <2> HIDE DEF step, n
  <2> QED BY <1>1, <1>4, <1>5, Recursion
<1>7. f \in [0 .. n -> V] /\ f[0] = start /\ \A k \in 1 .. n : f[k] = step[<<k, f[k - 1]>>]
  BY <1>6 DEF Repeats
<1>8. ASSUME NEW k \in 1 .. n PROVE f[k] = FitSymbol(f[k - 1], base, syms, k - 1)
  <2>1. k \in Nat /\ k - 1 \in 0 .. n /\ k - 1 \in Nat
    BY <1>1
  <2>2. <<k, f[k - 1]>> \in Nat \X V
    BY <1>7, <2>1
  <2> QED BY <1>7, <2>1, <2>2
<1>9. f = [c \in 0 .. TRIE_CHAR_MAX + 1 |-> IF c = 0 THEN [ok |-> TRUE, d |-> d]
                                            ELSE FitSymbol(f[c - 1], base, syms, c - 1)]
  <2>1. ASSUME NEW k \in 0 .. n
        PROVE  f[k] = IF k = 0 THEN [ok |-> TRUE, d |-> d]
                      ELSE FitSymbol(f[k - 1], base, syms, k - 1)
    <3>1. k # 0 => k \in 1 .. n
      BY <1>1
    <3> QED BY <1>7, <1>8, <3>1 DEF start
  <2>2. f = [k \in 0 .. n |-> f[k]]
    BY <1>7
  <2> QED BY <2>1, <2>2
<1>10. upto = [c \in 0 .. TRIE_CHAR_MAX + 1 |-> IF c = 0 THEN [ok |-> TRUE, d |-> d]
                                               ELSE FitSymbol(upto[c - 1], base, syms, c - 1)]
  BY <1>9
<1> HIDE DEF upto
<1>11. FitIs(upto, d, base, syms)
  <2>1. 0 \in 0 .. n /\ \A c \in 1 .. n : c \in 0 .. n /\ c # 0
    BY <1>1
  <2> QED BY <1>10, <2>1 DEF FitIs
<1> QED BY <1>2, <1>11

\* If the symbols fit, all the cells for them are free (da_fit_symbols).
LEMMA FitSymbolsIs ==
  ASSUME NEW d, NEW u, DaHolds(d, u), NEW base \in Nat, base >= 3,
         NEW syms \in SUBSET (0 .. TRIE_CHAR_MAX)
  PROVE  LET f == da_fit_symbols(d, base, syms) IN
         IsTested(f, d, u) /\ (f.ok => \A c \in syms : base + c \in Frees(f.d, u))
<1> DEFINE n == TRIE_CHAR_MAX + 1
<1>1. PICK at : FitIs(at, d, base, syms) /\ da_fit_symbols(d, base, syms) = at[n]
  BY FitExists
<1>2. n \in Nat
  BY TrieDefsAssumption
<1> DEFINE Fits(k) == at[k].ok => \A c \in syms : c < k => base + c \in Frees(at[k].d, u)
           G == {k \in 0 .. n : IsTested(at[k], d, u) /\ Fits(k)}
<1>3. 0 \in G
  <2>1. at[0] = [ok |-> TRUE, d |-> d]
    BY <1>1 DEF FitIs
  <2>2. d \in Arrays /\ Grown(d, d, u)
    BY HoldsIs DEF Grown, DaHolds
  <2>3. IsTested(at[0], d, u)
    BY <2>1, <2>2 DEF IsTested
  <2>4. \A c \in syms : ~(c < 0)
    BY TrieDefsAssumption
  <2> QED BY <1>2, <2>3, <2>4
<1>4. ASSUME NEW k \in 1 .. n, k - 1 \in G PROVE k \in G
  <2>1. k - 1 \in Nat /\ k \in 0 .. n /\ k \in Int
    BY <1>2
  <2>2. at[k] = FitSymbol(at[k - 1], base, syms, k - 1)
    BY <1>1 DEF FitIs
  <2>3. IsTested(at[k - 1], d, u) /\ Fits(k - 1)
    BY <1>4
  <2>4. /\ IsTested(at[k], d, u)
        /\ at[k].ok => /\ at[k - 1].ok /\ Grown(at[k - 1].d, at[k].d, u)
                       /\ k - 1 \in syms => base + (k - 1) \in Frees(at[k].d, u)
    BY <2>1, <2>2, <2>3, FitSymbolIs
  <2>5. ASSUME at[k].ok, NEW c \in syms, c < k PROVE base + c \in Frees(at[k].d, u)
    <3>1. c \in Int
      BY TrieDefsAssumption
    <3>2. CASE c = k - 1
      BY <2>4, <2>5, <3>2
    <3>3. CASE c # k - 1
      <4>1. c < k - 1
        BY <2>1, <2>5, <3>1, <3>3
      <4>2. base + c \in Frees(at[k - 1].d, u) /\ DaHolds(at[k - 1].d, u)
        BY <2>3, <2>4, <2>5, <4>1 DEF IsTested, Grown
      <4> QED BY <2>4, <2>5, <4>2, FreeStays
    <3> QED BY <3>2, <3>3
  <2> QED BY <2>1, <2>4, <2>5
<1>5. \A k \in 0 .. n : k \in G
  <2> HIDE DEF G, n
  <2> QED BY <1>2, <1>3, <1>4, UpToInduction
<1>6. n \in G
  BY <1>2, <1>5
<1>7. \A c \in syms : c < n
  BY TrieDefsAssumption
<1> QED BY <1>1, <1>6, <1>7

\* A search for a base from cell w.s on: it is a free cell, and if the symbols fit, all
\* their cells are free; or the search has failed.
IsSearched(w, d, u, syms) ==
  /\ w \in [d : Arrays, s : Nat, fits : BOOLEAN] /\ Grown(d, w.d, u)
  /\ w.s = TRIE_INDEX_ERROR => w.fits
  /\ w.s # TRIE_INDEX_ERROR => w.s \in Frees(w.d, u) /\ w.s >= Min(syms) + 3
  /\ w.fits /\ w.s # TRIE_INDEX_ERROR => \A c \in syms : w.s - Min(syms) + c \in Frees(w.d, u)

\* The next free cell after one that is not the last.
LEMMA NextFree ==
  ASSUME NEW d, NEW u, DaHolds(d, u), NEW s \in Frees(d, u),
         -da_get_check(d, s) # FREE_LIST \/ (\E f \in Frees(d, u) : f > s)
  PROVE  /\ -da_get_check(d, s) \in Frees(d, u)
         /\ -da_get_check(d, s) > s
<1>1. IsNext(Frees(d, u), s, -da_get_check(d, s))
  BY FreeCellIs
<1> DEFINE x == -da_get_check(d, s)
<1> HIDE DEF x
<1>2. IsNext(Frees(d, u), s, x) /\ (x # FREE_LIST \/ (\E f \in Frees(d, u) : f > s))
  BY <1>1 DEF x
<1>3. x \in Frees(d, u) /\ x > s
  BY <1>2 DEF IsNext
<1> QED BY <1>3 DEF x

\* A turn of the search finds the fit or goes on to a cell further up (da_find_free_base).
LEMMA FitTurnIs ==
  ASSUME NEW d, NEW u, DaHolds(d, u), NEW syms \in SUBSET (0 .. TRIE_CHAR_MAX), syms # {},
         NEW w, IsSearched(w, d, u, syms)
  PROVE  LET g == FitTurn(w, syms) IN
         /\ IsSearched(g, d, u, syms)
         /\ ~g.fits => ~w.fits /\ g.s > w.s
<1> DEFINE g == FitTurn(w, syms)
           m == Min(syms)
           f == da_fit_symbols(w.d, w.s - Min(syms), syms)
           e == IF da_get_check(f.d, w.s) = -FREE_LIST
                THEN da_extend_pool(f.d, num_cells(f.d)) ELSE [ok |-> TRUE, d |-> f.d]
           x == -da_get_check(e.d, w.s)
<1>1. m \in Nat
  <2>1. syms \in SUBSET Nat
    BY TrieDefsAssumption
  <2> QED BY <2>1, MinNatural
<1>2. CASE w.fits
  <2>1. g = w
    BY <1>2 DEF FitTurn
  <2> HIDE DEF g
  <2> QED BY <1>2, <2>1 DEF g
<1>3. CASE ~w.fits
  <2>1. /\ DaHolds(w.d, u) /\ Grown(d, w.d, u) /\ w.s \in Frees(w.d, u) /\ w.s >= m + 3
        /\ w.s \in Nat /\ w.s # TRIE_INDEX_ERROR
    BY <1>3 DEF IsSearched, Grown
  <2>2. g = IF f.ok THEN [d |-> f.d, s |-> w.s, fits |-> TRUE]
            ELSE [d |-> e.d, fits |-> ~e.ok, s |-> IF e.ok THEN x ELSE TRIE_INDEX_ERROR]
    BY <1>3 DEF FitTurn
  <2> HIDE DEF g
  <2>3. w.s - m \in Nat /\ w.s - m >= 3
    BY <1>1, <2>1
  <2> HIDE DEF m
  <2>4. IsTested(f, w.d, u) /\ (f.ok => \A c \in syms : w.s - m + c \in Frees(f.d, u))
    BY <2>1, <2>3, FitSymbolsIs DEF m
  <2> HIDE DEF f
  <2>5. f \in [ok : BOOLEAN, d : Arrays] /\ DaHolds(f.d, u) /\ Grown(w.d, f.d, u) /\ Grown(d, f.d, u)
    BY <2>1, <2>4, GrownTwice DEF IsTested, Grown
  <2>6. w.s \in Frees(f.d, u)
    BY <2>1, <2>5, FreeStays
  <2>7. CASE f.ok
    <3>1. g = [d |-> f.d, s |-> w.s, fits |-> TRUE]
      BY <2>2, <2>7
    <3>2. g \in [d : Arrays, s : Nat, fits : BOOLEAN] /\ g.d = f.d /\ g.s = w.s /\ g.fits
      BY <2>1, <2>5, <3>1
    <3>3. IsSearched(g, d, u, syms)
      BY <2>1, <2>4, <2>5, <2>6, <2>7, <3>2 DEF IsSearched, m
    <3> QED BY <3>2, <3>3 DEF g
  <2>8. CASE ~f.ok
    <3>1. g = [d |-> e.d, fits |-> ~e.ok, s |-> IF e.ok THEN x ELSE TRIE_INDEX_ERROR]
      BY <2>2, <2>8
    <3>2. /\ e.ok \in BOOLEAN /\ Grown(f.d, e.d, u) /\ e.d \in Arrays
          /\ e.ok => x \in Frees(e.d, u) /\ x > w.s
      <4>1. CASE da_get_check(f.d, w.s) = -FREE_LIST
        <5> DEFINE c == num_cells(f.d)
        <5>1. c \in Nat /\ c >= 3
          BY <2>5, HoldsIs DEF DaHolds
        <5>2. e = da_extend_pool(f.d, c)
          BY <4>1
        <5> HIDE DEF e
        <5>3. /\ e.ok \in BOOLEAN /\ Grown(f.d, e.d, u) /\ e.d \in Arrays
              /\ e.ok => c < num_cells(e.d)
          BY <2>5, <5>1, <5>2, ExtendGrows
        <5>4. ASSUME e.ok PROVE x \in Frees(e.d, u) /\ x > w.s
          <6>1. DaHolds(e.d, u) /\ w.s \in Frees(e.d, u)
            BY <2>5, <2>6, <5>3, FreeStays DEF Grown
          <6>2. c \notin DOMAIN u
            <7>1. DOMAIN u \subseteq 2 .. c - 1
              BY <2>5 DEF DaHolds, DaIs, AreNodes, ROOT
            <7> QED BY <5>1, <7>1
          <6>3. c \in Frees(e.d, u)
            BY <5>1, <5>3, <5>4, <6>1, <6>2, UnusedIsFree
          <6>4. c > w.s
            BY <2>5, <2>6, FreeCellIs
          <6> QED BY <6>1, <6>3, <6>4, NextFree
        <5> QED BY <5>3, <5>4
      <4>2. CASE da_get_check(f.d, w.s) # -FREE_LIST
        <5>1. e = [ok |-> TRUE, d |-> f.d]
          BY <4>2
        <5> HIDE DEF e
        <5>2. e.ok /\ e.d = f.d /\ x = -da_get_check(f.d, w.s)
          BY <5>1
        <5>3. -da_get_check(f.d, w.s) # FREE_LIST
          <6>1. da_get_check(f.d, w.s) \in Int
            <7>1. w.s \in Frees(f.d, u) /\ DaHolds(f.d, u)
              BY <2>5, <2>6
            <7> QED BY <7>1, FreeIs DEF DaHolds, Frees
          <6> QED BY <4>2, <6>1 DEF FREE_LIST
        <5>4. -da_get_check(f.d, w.s) \in Frees(f.d, u) /\ -da_get_check(f.d, w.s) > w.s
          BY <2>5, <2>6, <5>3, NextFree
        <5>5. Grown(f.d, f.d, u)
          BY <2>5, HoldsIs DEF Grown, DaHolds
        <5> QED BY <2>5, <5>2, <5>4, <5>5
      <4> QED BY <4>1, <4>2
    <3> HIDE DEF e, x
    <3>3. Grown(d, e.d, u)
      BY <2>5, <3>2, GrownTwice
    <3>4. CASE e.ok
      <4>1. DaHolds(e.d, u) /\ x \in Nat /\ x >= m + 3 /\ x # 0
        <5>1. DaHolds(e.d, u)
          BY <3>2 DEF Grown
        <5>2. x \in Int
          BY <3>2, <3>4, <5>1, FreeCellIs
        <5> QED BY <1>1, <2>1, <3>2, <3>4, <5>1, <5>2
      <4>2. g \in [d : Arrays, s : Nat, fits : BOOLEAN] /\ g.d = e.d /\ g.s = x /\ ~g.fits
        BY <3>1, <3>2, <3>4, <4>1
      <4>3. IsSearched(g, d, u, syms)
        BY <3>2, <3>3, <3>4, <4>1, <4>2 DEF IsSearched, TRIE_INDEX_ERROR, m
      <4> QED BY <1>3, <3>2, <3>4, <4>2, <4>3 DEF g
    <3>5. CASE ~e.ok
      <4>1. g \in [d : Arrays, s : Nat, fits : BOOLEAN] /\ g.d = e.d /\ g.s = 0 /\ g.fits
        BY <3>1, <3>2, <3>5 DEF TRIE_INDEX_ERROR
      <4>2. IsSearched(g, d, u, syms)
        BY <3>3, <4>1 DEF IsSearched, TRIE_INDEX_ERROR
      <4> QED BY <4>1, <4>2 DEF g
    <3> QED BY <3>2, <3>4, <3>5
  <2> QED BY <2>5, <2>7, <2>8
<1>4. w.fits \in BOOLEAN
  BY DEF IsSearched
<1> QED BY <1>2, <1>3, <1>4

\* The turns of the search.
TurnsAre(at, d, s, syms) ==
  /\ at[0] = [d |-> d, s |-> s, fits |-> s = TRIE_INDEX_ERROR]
  /\ \A k \in 1 .. TRIE_INDEX_MAX : at[k] = FitTurn(at[k - 1], syms)
FoundBase(w, syms) == [d |-> w.d, base |-> IF w.s = TRIE_INDEX_ERROR THEN TRIE_INDEX_ERROR
                                                                    ELSE w.s - Min(syms)]

\* The search for a base has these turns, and da_find_free_base is the last of them.
LEMMA TurnsExist ==
  ASSUME NEW d, NEW u, DaHolds(d, u), NEW s,
         NEW syms \in SUBSET (0 .. TRIE_CHAR_MAX), syms # {},
         IsSearched([d |-> d, s |-> s, fits |-> s = TRIE_INDEX_ERROR], d, u, syms)
  PROVE  \E at : TurnsAre(at, d, s, syms)
                 /\ FitFrom(d, s, syms) = FoundBase(at[TRIE_INDEX_MAX], syms)
<1> DEFINE n == TRIE_INDEX_MAX
           V == {w \in [d : Arrays, s : Nat, fits : BOOLEAN] : IsSearched(w, d, u, syms)}
           start == [d |-> d, s |-> s, fits |-> s = TRIE_INDEX_ERROR]
           step == [x \in Nat \X V |-> FitTurn(x[2], syms)]
           turn == CHOOSE f : f = [k \in 0 .. TRIE_INDEX_MAX |->
                                     IF k = 0 THEN [d |-> d, s |-> s, fits |-> s = TRIE_INDEX_ERROR]
                                              ELSE FitTurn(f[k - 1], syms)]
<1>1. n \in Nat
  BY TrieDefsAssumption
<1>2. FitFrom(d, s, syms) = FoundBase(turn[TRIE_INDEX_MAX], syms)
  BY DEF FitFrom, FoundBase
<1>3. \A w : w \in V <=> IsSearched(w, d, u, syms)
  BY DEF IsSearched
<1>4. start \in V
  BY <1>3
<1>5. step \in [Nat \X V -> V]
  <2>1. ASSUME NEW x \in Nat \X V PROVE FitTurn(x[2], syms) \in V
    <3>1. IsSearched(x[2], d, u, syms)
      BY <1>3
    <3> HIDE DEF V
    <3> QED BY <1>3, <3>1, FitTurnIs
  <2> HIDE DEF V
  <2> QED BY <2>1
<1> HIDE DEF V, start
<1>6. PICK f : Repeats(f, n, V, start, step)
  <2> HIDE DEF step, n
  <2> QED BY <1>1, <1>4, <1>5, Recursion
<1>7. f \in [0 .. n -> V] /\ f[0] = start /\ \A k \in 1 .. n : f[k] = step[<<k, f[k - 1]>>]
  BY <1>6 DEF Repeats
<1>8. ASSUME NEW k \in 1 .. n PROVE f[k] = FitTurn(f[k - 1], syms)
  <2>1. k \in Nat /\ k - 1 \in 0 .. n
    BY <1>1
  <2>2. <<k, f[k - 1]>> \in Nat \X V
    BY <1>7, <2>1
  <2> QED BY <1>7, <2>1, <2>2
<1>9. f = [k \in 0 .. TRIE_INDEX_MAX |->
             IF k = 0 THEN [d |-> d, s |-> s, fits |-> s = TRIE_INDEX_ERROR]
                      ELSE FitTurn(f[k - 1], syms)]
  <2>1. ASSUME NEW k \in 0 .. n
        PROVE  f[k] = IF k = 0 THEN [d |-> d, s |-> s, fits |-> s = TRIE_INDEX_ERROR]
                      ELSE FitTurn(f[k - 1], syms)
    <3>1. k # 0 => k \in 1 .. n
      BY <1>1
    <3> QED BY <1>7, <1>8, <3>1 DEF start
  <2>2. f = [k \in 0 .. n |-> f[k]]
    BY <1>7
  <2> QED BY <2>1, <2>2
<1>10. turn = [k \in 0 .. TRIE_INDEX_MAX |->
                 IF k = 0 THEN [d |-> d, s |-> s, fits |-> s = TRIE_INDEX_ERROR]
                          ELSE FitTurn(turn[k - 1], syms)]
  BY <1>9
<1> HIDE DEF turn
<1>11. TurnsAre(turn, d, s, syms)
  <2>1. 0 \in 0 .. n /\ \A c \in 1 .. n : c \in 0 .. n /\ c # 0
    BY <1>1
  <2> QED BY <1>10, <2>1 DEF TurnsAre
<1> QED BY <1>2, <1>11

\* A base at which the symbols fit, or none.
IsRoom(r, d, u, syms) ==
  /\ Grown(d, r.d, u) /\ r.d \in Arrays /\ r.base \in Nat
  /\ r.base # TRIE_INDEX_ERROR => r.base >= 3 /\ \A c \in syms : r.base + c \in Frees(r.d, u)

\* The search from a free cell on (da_find_free_base).
LEMMA FitFromIs ==
  ASSUME NEW d, NEW u, DaHolds(d, u), NEW s,
         NEW syms \in SUBSET (0 .. TRIE_CHAR_MAX), syms # {},
         IsSearched([d |-> d, s |-> s, fits |-> s = TRIE_INDEX_ERROR], d, u, syms)
  PROVE  IsRoom(FitFrom(d, s, syms), d, u, syms)
<1> DEFINE n == TRIE_INDEX_MAX
<1>1. PICK at : TurnsAre(at, d, s, syms) /\ FitFrom(d, s, syms) = FoundBase(at[n], syms)
  BY TurnsExist
<1>2. n \in Nat /\ Min(syms) \in Nat
  <2>1. syms \in SUBSET Nat
    BY TrieDefsAssumption
  <2> QED BY <2>1, MinNatural, TrieDefsAssumption
<1> DEFINE G == {k \in 0 .. n : IsSearched(at[k], d, u, syms) /\ (~at[k].fits => at[k].s >= 3 + k)}
<1>3. 0 \in G
  <2>1. IsSearched(at[0], d, u, syms)
    BY <1>1 DEF TurnsAre
  <2>2. ~at[0].fits => at[0].s >= Min(syms) + 3 /\ at[0].s \in Nat
    BY <2>1 DEF IsSearched
  <2>3. ~at[0].fits => at[0].s >= 3
    BY <1>2, <2>2
  <2> QED BY <1>2, <2>1, <2>3
<1>4. ASSUME NEW k \in 1 .. n, k - 1 \in G PROVE k \in G
  <2>1. at[k] = FitTurn(at[k - 1], syms) /\ IsSearched(at[k - 1], d, u, syms)
    BY <1>1, <1>4 DEF TurnsAre
  <2>2. /\ IsSearched(at[k], d, u, syms)
        /\ ~at[k].fits => ~at[k - 1].fits /\ at[k].s > at[k - 1].s
    BY <2>1, FitTurnIs
  <2>3. at[k].s \in Nat /\ at[k - 1].s \in Nat
    BY <2>1, <2>2 DEF IsSearched
  <2>4. k \in Int /\ k \in 0 .. n
    BY <1>2
  <2>5. ~at[k].fits => at[k - 1].s >= 3 + (k - 1)
    BY <1>4, <2>2
  <2>6. ~at[k].fits => at[k].s >= 3 + k
    BY <2>2, <2>3, <2>4, <2>5
  <2> QED BY <2>2, <2>4, <2>6
<1>5. n \in G
  <2>1. \A k \in 0 .. n : k \in G
    <3> HIDE DEF G, n
    <3> QED BY <1>2, <1>3, <1>4, UpToInduction
  <2> QED BY <1>2, <2>1
<1> DEFINE w == at[n]
           r == FoundBase(w, syms)
<1>6. IsSearched(w, d, u, syms) /\ (~w.fits => w.s >= 3 + n)
  BY <1>5
<1> HIDE DEF w, G
<1>7. w.fits
  <2> SUFFICES ASSUME ~w.fits PROVE FALSE
    OBVIOUS
  <2>1. w.s \in Frees(w.d, u) /\ DaHolds(w.d, u) /\ w.s \in Nat
    BY <1>6 DEF IsSearched, Grown
  <2>2. w.s < num_cells(w.d) /\ num_cells(w.d) \in Nat /\ num_cells(w.d) <= n
    BY <2>1, FreeCellIs
  <2> QED BY <1>2, <1>6, <2>1, <2>2
<1>8. r.d = w.d /\ r.base = IF w.s = TRIE_INDEX_ERROR THEN TRIE_INDEX_ERROR ELSE w.s - Min(syms)
  BY DEF FoundBase
<1> HIDE DEF r
<1>9. /\ Grown(d, w.d, u) /\ w.d \in Arrays /\ w.s \in Nat
      /\ w.s # TRIE_INDEX_ERROR => /\ w.s >= Min(syms) + 3
                                   /\ \A c \in syms : w.s - Min(syms) + c \in Frees(w.d, u)
  BY <1>6, <1>7 DEF IsSearched
<1>10. IsRoom(r, d, u, syms)
  <2>1. CASE w.s = TRIE_INDEX_ERROR
    BY <1>8, <1>9, <2>1 DEF IsRoom, TRIE_INDEX_ERROR
  <2>2. CASE w.s # TRIE_INDEX_ERROR
    <3>1. r.base = w.s - Min(syms) /\ r.base \in Nat /\ r.base >= 3
      BY <1>2, <1>8, <1>9, <2>2
    <3> QED BY <1>8, <1>9, <2>2, <3>1 DEF IsRoom
  <2> QED BY <2>1, <2>2
<1> QED BY <1>1, <1>10 DEF r, w

\* The first cell not in use is found by extending the array (da_find_free_base).
LEMMA FreeByGrowingIs ==
  ASSUME NEW d, NEW u, DaHolds(d, u), NEW low \in Nat, low >= 3
  PROVE  LET f == FreeByGrowing(d, low) IN
         /\ Grown(d, f.d, u) /\ f.d \in Arrays /\ f.s \in Nat
         /\ f.s # TRIE_INDEX_ERROR => f.s \in Frees(f.d, u) /\ f.s >= low
<1> DEFINE n == num_cells(d)
           top == Max({low, n})
           T == {i \in low .. top : i >= num_cells(d) \/ d[i].check < 0}
           s == Min(T)
           e == da_extend_pool(d, s)
           f == FreeByGrowing(d, low)
<1>1. n \in Nat /\ n >= 3
  BY HoldsIs DEF DaHolds
<1>2. top \in Nat /\ top >= low /\ top >= n
  <2>1. \E x \in {low, n} : \A y \in {low, n} : x >= y
    BY <1>1
  <2>2. top \in {low, n} /\ \A y \in {low, n} : top >= y
    BY <2>1 DEF Max
  <2> HIDE DEF top
  <2> QED BY <1>1, <2>2
<1>3. s \in T /\ s \in Nat
  <2> HIDE DEF top
  <2>1. T \in SUBSET Nat /\ top \in T
    BY <1>1, <1>2
  <2> HIDE DEF T
  <2> QED BY <2>1, MinNatural
<1>4. s >= low /\ (s >= n \/ d[s].check < 0)
  <2> HIDE DEF s, top
  <2> QED BY <1>1, <1>2, <1>3
<1>5. f = [d |-> e.d, s |-> IF e.ok THEN s ELSE TRIE_INDEX_ERROR]
  BY DEF FreeByGrowing
<1> HIDE DEF s, T, f
<1>6. /\ e.ok \in BOOLEAN /\ Grown(d, e.d, u) /\ (e.ok => s < num_cells(e.d)) /\ e.d \in Arrays
  BY <1>3, ExtendGrows
<1> HIDE DEF e
<1>7. ASSUME e.ok PROVE s \in Frees(e.d, u)
  <2>1. DaHolds(e.d, u) /\ s \in Int /\ s >= 3
    BY <1>3, <1>4, <1>6 DEF Grown
  <2>2. CASE s >= n
    <3>1. DOMAIN u \subseteq 2 .. n - 1
      BY DEF DaHolds, DaIs, AreNodes, ROOT
    <3>2. s \notin DOMAIN u
      BY <1>1, <2>1, <2>2, <3>1
    <3> QED BY <1>6, <1>7, <2>1, <3>2, UnusedIsFree
  <2>3. CASE ~(s >= n)
    <3>1. s < num_cells(d) /\ d[s].check < 0
      BY <1>1, <1>4, <2>1, <2>3
    <3>2. s \in Frees(d, u)
      BY <2>1, <3>1, UnusedIsFree
    <3> QED BY <1>6, <3>2, FreeStays
  <2> QED BY <2>2, <2>3
<1>8. f.d = e.d /\ f.s = IF e.ok THEN s ELSE 0
  BY <1>5 DEF TRIE_INDEX_ERROR
<1>9. f.s \in Nat /\ (f.s # 0 => e.ok /\ f.s = s)
  BY <1>3, <1>6, <1>8
<1> QED BY <1>4, <1>6, <1>7, <1>8, <1>9 DEF f, TRIE_INDEX_ERROR

\* A new base is one at which all the symbols fit (da_find_free_base).
LEMMA FindFreeBaseIs ==
  ASSUME NEW d, NEW u, DaHolds(d, u),
         NEW syms \in SUBSET (0 .. TRIE_CHAR_MAX), syms # {}
  PROVE  IsRoom(da_find_free_base(d, syms), d, u, syms)
<1> DEFINE low == Min(syms) + DA_POOL_BEGIN
           s == FreeFrom(d, low)
           f == IF s = FREE_LIST THEN FreeByGrowing(d, low) ELSE [d |-> d, s |-> s]
<1>1. Min(syms) \in Nat /\ low \in Nat /\ low >= 3 /\ low = Min(syms) + 3
  <2>1. syms \in SUBSET Nat
    BY TrieDefsAssumption
  <2>2. Min(syms) \in Nat
    BY <2>1, MinNatural
  <2> QED BY <2>2 DEF DA_POOL_BEGIN
<1>2. da_find_free_base(d, syms) = FitFrom(f.d, f.s, syms)
  BY DEF da_find_free_base
<1> HIDE DEF low
<1>3. Grown(d, d, u) /\ d \in Arrays
  BY HoldsIs DEF Grown, DaHolds
<1>4. /\ Grown(d, f.d, u) /\ f.d \in Arrays /\ f.s \in Nat
      /\ f.s # TRIE_INDEX_ERROR => f.s \in Frees(f.d, u) /\ f.s >= low
  <2>1. CASE s = FREE_LIST
    <3>1. f = FreeByGrowing(d, low)
      BY <2>1
    <3> HIDE DEF f
    <3> QED BY <1>1, <3>1, FreeByGrowingIs
  <2>2. CASE s # FREE_LIST
    <3>1. f = [d |-> d, s |-> s]
      BY <2>2
    <3>2. s \in Frees(d, u) \cup {FREE_LIST} /\ (s # FREE_LIST => s >= low)
      BY <1>1, ScanFinds DEF DaHolds, Frees
    <3> HIDE DEF f, s
    <3>3. f.d = d /\ f.s = s /\ s \in Frees(d, u) /\ s >= low
      BY <2>2, <3>1, <3>2
    <3>4. s \in Nat
      <4>1. s \in Int
        BY <3>3, FreeCellIs
      <4> QED BY <1>1, <3>3, <4>1
    <3> QED BY <1>3, <3>3, <3>4
  <2> QED BY <2>1, <2>2
<1> HIDE DEF f
<1> DEFINE w == [d |-> f.d, s |-> f.s, fits |-> f.s = TRIE_INDEX_ERROR]
<1>5. DaHolds(f.d, u) /\ Grown(f.d, f.d, u)
  BY <1>4, HoldsIs DEF Grown, DaHolds
<1>6. IsSearched(w, f.d, u, syms)
  <2>1. w \in [d : Arrays, s : Nat, fits : BOOLEAN] /\ w.d = f.d /\ w.s = f.s
        /\ (w.fits <=> f.s = TRIE_INDEX_ERROR)
    BY <1>4
  <2> HIDE DEF w
  <2> QED BY <1>1, <1>4, <1>5, <2>1 DEF IsSearched
<1>7. IsRoom(FitFrom(f.d, f.s, syms), f.d, u, syms)
  BY <1>5, <1>6, FitFromIs
<1>8. IsRoom(FitFrom(f.d, f.s, syms), d, u, syms)
  BY <1>4, <1>7, GrownTwice DEF IsRoom
<1> QED BY <1>2, <1>8

(***************************************************************************)
(* The tree of the nodes                                                   *)
(***************************************************************************)

\* The root has no parent; every other node hangs on one, at one of its characters.
Hangs(u, x) == /\ u[x].check \in DOMAIN u /\ u[x].check # x
               /\ u[u[x].check].base >= 3
               /\ x - u[u[x].check].base \in 0 .. TRIE_CHAR_MAX - 1
Tree(u) == /\ u[ROOT].check = 0 /\ u[ROOT].base >= 3
           /\ \A x \in DOMAIN u : u[x].base <= 0 \/ u[x].base >= 3
           /\ \A x \in DOMAIN u : x # ROOT => Hangs(u, x)

\* The children of s are at its characters.
KidsNear(u, s) == /\ u[s].base <= 0 \/ u[s].base >= 3
                  /\ \A x \in DOMAIN u : u[x].check = s =>
                       u[s].base >= 3 /\ x - u[s].base \in 0 .. TRIE_CHAR_MAX - 1

\* What nodes are, in numbers.
LEMMA NodesAre ==
  ASSUME NEW d, NEW u, DaHolds(d, u)
  PROVE  /\ num_cells(d) \in Nat /\ num_cells(d) >= 3 /\ num_cells(d) <= TRIE_INDEX_MAX
         /\ d \in Arrays /\ d \in [0 .. num_cells(d) - 1 -> Cell] /\ Grown(d, d, u)
         /\ AreNodes(num_cells(d), u) /\ ROOT \in DOMAIN u
         /\ \A x \in DOMAIN u : /\ x \in 2 .. num_cells(d) - 1 /\ x \in Int /\ x >= 2 /\ x < num_cells(d)
                                /\ d[x] = u[x] /\ u[x] \in Cell
                                /\ u[x].base \in Int /\ u[x].check \in Int /\ u[x].check >= 0
                                /\ da_get_base(d, x) = u[x].base
                                /\ da_get_check(d, x) = u[x].check
<1>1. DaIs(d, num_cells(d), u)
  BY DEF DaHolds
<1>2. /\ num_cells(d) \in Nat /\ num_cells(d) >= 3 /\ num_cells(d) <= TRIE_INDEX_MAX
      /\ d \in Arrays /\ d \in [0 .. num_cells(d) - 1 -> Cell]
  BY <1>1, HoldsIs
<1>3. AreNodes(num_cells(d), u) /\ \A s \in DOMAIN u : d[s] = u[s]
  BY <1>1 DEF DaIs
<1>4. ROOT \in DOMAIN u /\ DOMAIN u \subseteq 2 .. num_cells(d) - 1
      /\ \A x \in DOMAIN u : u[x] \in Cell /\ u[x].check >= 0
  BY <1>3 DEF AreNodes, ROOT
<1>5. ASSUME NEW x \in DOMAIN u
      PROVE  /\ x \in 2 .. num_cells(d) - 1 /\ x \in Int /\ x >= 2 /\ x < num_cells(d)
             /\ d[x] = u[x] /\ u[x] \in Cell
             /\ u[x].base \in Int /\ u[x].check \in Int /\ u[x].check >= 0
             /\ da_get_base(d, x) = u[x].base
             /\ da_get_check(d, x) = u[x].check
  <2>1. x \in 2 .. num_cells(d) - 1 /\ x \in Int /\ x >= 2 /\ x < num_cells(d)
    BY <1>2, <1>4
  <2>2. d[x] = u[x] /\ u[x] \in Cell /\ u[x].check >= 0
    BY <1>3, <1>4
  <2> QED BY <2>1, <2>2 DEF Cell, da_get_base, da_get_check
<1>6. Grown(d, d, u)
  BY <1>2 DEF Grown
<1> QED BY <1>2, <1>3, <1>4, <1>5, <1>6

\* In a tree the children of every node are near.
LEMMA TreeKids ==
  ASSUME NEW d, NEW u, DaHolds(d, u), Tree(u), NEW s \in DOMAIN u
  PROVE  KidsNear(u, s) /\ \A x \in DOMAIN u : u[x].check = s => x # ROOT
<1>1. s >= 2 /\ s \in Int
  BY NodesAre
<1>2. ASSUME NEW x \in DOMAIN u, u[x].check = s
      PROVE  x # ROOT /\ u[s].base >= 3 /\ x - u[s].base \in 0 .. TRIE_CHAR_MAX - 1
  <2>1. x # ROOT
    BY <1>1, <1>2 DEF Tree
  <2>2. Hangs(u, x)
    BY <2>1 DEF Tree
  <2> QED BY <1>2, <2>1, <2>2 DEF Hangs
<1> QED BY <1>2 DEF Tree, KidsNear

\* The characters of a node's children (da_output_symbols).
LEMMA OutputIs ==
  ASSUME NEW d, NEW u, DaHolds(d, u), NEW s \in DOMAIN u, KidsNear(u, s), u[s].base > 0
  PROVE  /\ u[s].base >= 3
         /\ da_output_symbols(d, s) \in SUBSET (0 .. TRIE_CHAR_MAX - 1)
         /\ \A c \in Int : c \in da_output_symbols(d, s)
                              <=> u[s].base + c \in DOMAIN u /\ u[u[s].base + c].check = s
<1> DEFINE b == u[s].base
           n == num_cells(d)
           M == Min({TRIE_CHAR_MAX, TRIE_INDEX_MAX - b})
<1>1. /\ n \in Nat /\ n >= 3 /\ n <= TRIE_INDEX_MAX /\ b \in Int /\ b >= 3
      /\ s \in Int /\ s >= 2 /\ da_get_base(d, s) = b
      /\ TRIE_CHAR_MAX \in Nat /\ TRIE_INDEX_MAX \in Nat
  BY NodesAre, TrieDefsAssumption DEF KidsNear
<1>2. M \in Int /\ M <= TRIE_CHAR_MAX /\ M <= TRIE_INDEX_MAX - b
      /\ (M = TRIE_CHAR_MAX \/ M = TRIE_INDEX_MAX - b)
  <2> HIDE DEF b
  <2> DEFINE T == {TRIE_CHAR_MAX, TRIE_INDEX_MAX - b}
  <2>1. \E x \in T : \A y \in T : x <= y
    BY <1>1
  <2>2. Min(T) \in T /\ \A y \in T : Min(T) <= y
    <3> HIDE DEF T
    <3> QED BY <2>1 DEF Min
  <2>3. M \in T /\ M <= TRIE_CHAR_MAX /\ M <= TRIE_INDEX_MAX - b
    BY <2>2
  <2> HIDE DEF M
  <2> QED BY <1>1, <2>3
<1>3. \A c : c \in da_output_symbols(d, s) <=> c \in 0 .. M - 1 /\ da_get_check(d, b + c) = s
  BY <1>1 DEF da_output_symbols, CharsFrom
<1> HIDE DEF M, b, n
<1>4. ASSUME NEW c \in Int, b + c \in DOMAIN u, u[b + c].check = s
      PROVE  c \in da_output_symbols(d, s)
  <2>1. c \in 0 .. TRIE_CHAR_MAX - 1
    <3>1. (b + c) - b \in 0 .. TRIE_CHAR_MAX - 1
      BY <1>4 DEF KidsNear, b
    <3>2. (b + c) - b = c
      BY <1>1
    <3> QED BY <3>1, <3>2
  <2>2. b + c < n /\ da_get_check(d, b + c) = s
    BY <1>4, NodesAre DEF n
  <2>3. c \in 0 .. M - 1
    BY <1>1, <1>2, <2>1, <2>2
  <2> QED BY <1>3, <2>2, <2>3
<1>5. ASSUME NEW c \in da_output_symbols(d, s)
      PROVE  c \in 0 .. TRIE_CHAR_MAX - 1 /\ b + c \in DOMAIN u /\ u[b + c].check = s
  <2>1. c \in 0 .. M - 1 /\ da_get_check(d, b + c) = s
    BY <1>3
  <2>2. c \in 0 .. TRIE_CHAR_MAX - 1 /\ b + c \in Int /\ b + c >= 3
    BY <1>1, <1>2, <2>1
  <2>3. b + c < n
    <3>1. ~(b + c < n) => da_get_check(d, b + c) = 0
      BY DEF da_get_check, TRIE_INDEX_ERROR, n
    <3> QED BY <1>1, <2>1, <3>1
  <2>4. d[b + c].check = s
    BY <2>1, <2>3 DEF da_get_check, n
  <2>5. b + c \in DOMAIN u
    <3>1. ~(d[b + c].check < 0)
      BY <1>1, <2>4
    <3> QED BY <2>2, <2>3, <3>1, UnusedIsFree DEF n
  <2>6. u[b + c].check = s
    BY <2>4, <2>5, NodesAre
  <2> QED BY <2>2, <2>5, <2>6
<1>6. da_output_symbols(d, s) \in SUBSET (0 .. TRIE_CHAR_MAX - 1)
  BY <1>5
<1> QED BY <1>1, <1>4, <1>5, <1>6 DEF b

(***************************************************************************)
(* Moving a node's children                                                *)
(***************************************************************************)

Redirected(u, old, new) ==
  [x \in DOMAIN u |-> IF u[x].check = old THEN [u[x] EXCEPT !.check = new] ELSE u[x]]

\* The grandchildren are taken along (da_relocate_base).
LEMMA ChildrenMovedIs ==
  ASSUME NEW d, NEW u, DaHolds(d, u), NEW old \in DOMAIN u, KidsNear(u, old),
         NEW new \in Nat
  PROVE  /\ DaHolds(ChildrenMoved(d, old, new), Redirected(u, old, new))
         /\ num_cells(ChildrenMoved(d, old, new)) = num_cells(d)
<1> DEFINE n == num_cells(d)
           b == u[old].base
           moved == IF da_get_base(d, old) > 0
                    THEN {da_get_base(d, old) + c : c \in da_output_symbols(d, old)} ELSE {}
           g == ChildrenMoved(d, old, new)
           w == Redirected(u, old, new)
<1>1. /\ n \in Nat /\ d \in [0 .. n - 1 -> Cell] /\ AreNodes(n, u) /\ DaIs(d, n, u)
      /\ b \in Int /\ da_get_base(d, old) = b
      /\ \A x \in DOMAIN u : x \in 0 .. n - 1 /\ x \in Int /\ d[x] = u[x]
  <2>1. n \in Nat /\ \A x \in DOMAIN u : x \in 2 .. n - 1
    BY NodesAre
  <2> QED BY <2>1, NodesAre DEF DaHolds
<1>2. \A x \in DOMAIN u : x \in moved <=> u[x].check = old
  <2>1. CASE b > 0
    <3>1. /\ \A c \in Int : c \in da_output_symbols(d, old) <=> b + c \in DOMAIN u /\ u[b + c].check = old
          /\ da_output_symbols(d, old) \in SUBSET (0 .. TRIE_CHAR_MAX - 1)
      BY <2>1, OutputIs
    <3> DEFINE S == da_output_symbols(d, old)
    <3>2. moved = {b + c : c \in S}
      BY <1>1, <2>1
    <3> HIDE DEF moved, S, b
    <3>3. S \subseteq Int
      BY <3>1, TrieDefsAssumption DEF S
    <3>4. ASSUME NEW x \in DOMAIN u, x \in moved PROVE u[x].check = old
      <4>1. PICK c \in S : x = b + c
        BY <3>2, <3>4
      <4> QED BY <3>1, <3>3, <4>1 DEF S
    <3>5. ASSUME NEW x \in DOMAIN u, u[x].check = old PROVE x \in moved
      <4>1. x - b \in Int /\ b + (x - b) = x
        BY <1>1
      <4>2. x - b \in S
        BY <3>1, <3>5, <4>1 DEF S
      <4> QED BY <3>2, <4>1, <4>2
    <3> QED BY <3>4, <3>5
  <2>2. CASE ~(b > 0)
    <3>1. moved = {}
      BY <1>1, <2>2
    <3>2. \A x \in DOMAIN u : u[x].check # old
      BY <1>1, <2>2 DEF KidsNear
    <3> QED BY <3>1, <3>2
  <2> QED BY <2>1, <2>2
<1>3. g = [i \in DOMAIN d |-> IF i \in moved THEN [d[i] EXCEPT !.check = new] ELSE d[i]]
  BY DEF ChildrenMoved
<1>4. \A x \in moved : x \in DOMAIN u
  <2>1. CASE b > 0
    <3>1. /\ \A c \in Int : c \in da_output_symbols(d, old) <=> b + c \in DOMAIN u /\ u[b + c].check = old
          /\ da_output_symbols(d, old) \in SUBSET (0 .. TRIE_CHAR_MAX - 1)
      BY <2>1, OutputIs
    <3>2. moved = {b + c : c \in da_output_symbols(d, old)}
      BY <1>1, <2>1
    <3>3. da_output_symbols(d, old) \subseteq Int
      BY <3>1, TrieDefsAssumption
    <3> QED BY <3>1, <3>2, <3>3
  <2>2. CASE ~(b > 0)
    BY <1>1, <2>2
  <2> QED BY <2>1, <2>2
<1> HIDE DEF moved, g
<1>5. \A c \in Cell : [c EXCEPT !.check = new] \in Cell /\ [c EXCEPT !.check = new].check = new
  BY DEF Cell
<1>6. g \in [0 .. n - 1 -> Cell]
  <2>1. \A i \in 0 .. n - 1 : (IF i \in moved THEN [d[i] EXCEPT !.check = new] ELSE d[i]) \in Cell
    BY <1>1, <1>5
  <2> QED BY <1>1, <1>3, <2>1
<1>7. \A x \in DOMAIN u : u[x] \in Cell /\ u[x].check >= 0
  BY NodesAre
<1>8. DOMAIN w = DOMAIN u /\ \A x \in DOMAIN u :
        w[x] = IF u[x].check = old THEN [u[x] EXCEPT !.check = new] ELSE u[x]
  BY DEF Redirected
<1>9. AreNodes(n, w)
  <2>2. w = [x \in DOMAIN w |-> w[x]]
    BY DEF Redirected
  <2> HIDE DEF w
  <2>1. ASSUME NEW x \in DOMAIN w PROVE w[x] \in Cell /\ w[x].check >= 0
    <3>1. x \in DOMAIN u /\ u[x] \in Cell /\ u[x].check >= 0 /\ new >= 0
      BY <1>7, <1>8
    <3>2. CASE u[x].check = old
      BY <1>5, <1>8, <3>1, <3>2
    <3>3. CASE u[x].check # old
      BY <1>8, <3>1, <3>3
    <3> QED BY <3>2, <3>3
  <2> QED BY <1>1, <1>8, <2>1, <2>2 DEF AreNodes
<1> HIDE DEF w
<1>10. \A s \in DOMAIN u : g[s] = w[s]
  BY <1>1, <1>2, <1>3, <1>8
<1>11. \A s \in 0 .. n - 1 : s \notin DOMAIN u => g[s] = d[s]
  BY <1>1, <1>3, <1>4
<1> HIDE DEF n
<1>12. DaIs(g, n, w)
  <2>1. IsChanged(g, d, n, u, w)
    BY <1>6, <1>8, <1>9, <1>10, <1>11 DEF IsChanged
  <2> QED BY <1>1, <2>1, ChangedIs
<1> QED BY <1>12, HoldsIs DEF g, w, n

\* The places of the nodes when the children of s with characters below k have moved to
\* base b.
Move(u, s, b, k) ==
  [x \in DOMAIN u |-> IF u[x].check = s /\ x < u[s].base + k THEN x - u[s].base + b ELSE x]

\* v has the nodes of u, at other places.
IsRenamed(v, u, f) ==
  /\ \A x, y \in DOMAIN u : f[x] = f[y] => x = y
  /\ v = [z \in DOMAIN v |-> v[z]]
  /\ DOMAIN v = {f[x] : x \in DOMAIN u}
  /\ \A x \in DOMAIN u :
        v[f[x]] = [base |-> u[x].base, check |-> IF x = ROOT THEN 0 ELSE f[u[x].check]]

\* Room for the children of s at base b.
HasRoom(d, u, s, b) ==
  b \in Nat /\ b >= 3 /\ \A x \in DOMAIN u : u[x].check = s => x - u[s].base + b \in Frees(d, u)

\* e is d when the children of s below character k have moved to base b.
HaveMoved(e, d, u, s, b, k) ==
  /\ num_cells(e) = num_cells(d) /\ e \in Arrays
  /\ \E v : DaHolds(e, v) /\ IsRenamed(v, u, Move(u, s, b, k))

\* One node more has moved, from old to new.
MovesOn(f, g, u, old, new) ==
  f[old] = old /\ g[old] = new /\ \A x \in DOMAIN u : x # old => g[x] = f[x]

\* A node that has not moved yet moves to a place nobody holds: the nodes are renamed still.
LEMMA RenameOne ==
  ASSUME NEW u, NEW v, NEW f, IsRenamed(v, u, f), NEW old \in DOMAIN u, NEW new, NEW g,
         MovesOn(f, g, u, old, new), new \notin DOMAIN v,
         NEW s \in DOMAIN u, u[old].check = s, f[s] = s, s # old, old # ROOT, old # 0,
         \A x \in DOMAIN u : x # ROOT => u[x].check \in DOMAIN u
  PROVE  IsRenamed(Less(Redirected(With(v, new, [base |-> u[old].base, check |-> s]), old, new), old),
                   u, g)
<1> DEFINE c0 == [base |-> u[old].base, check |-> s]
           v1 == With(v, new, c0)
           v2 == Redirected(v1, old, new)
           v3 == Less(v2, old)
<1>1. /\ \A x, y \in DOMAIN u : f[x] = f[y] => x = y
      /\ DOMAIN v = {f[x] : x \in DOMAIN u}
      /\ \A x \in DOMAIN u :
           v[f[x]] = [base |-> u[x].base, check |-> IF x = ROOT THEN 0 ELSE f[u[x].check]]
  BY DEF IsRenamed
<1>2. f[old] = old /\ g[old] = new /\ \A x \in DOMAIN u : x # old => g[x] = f[x]
  BY DEF MovesOn
<1>3. old \in DOMAIN v /\ new # old
  BY <1>1, <1>2
<1>4. \A x \in DOMAIN u : f[x] \in DOMAIN v /\ f[x] # new /\ (x # old => f[x] # old)
  BY <1>1, <1>2
<1>5. \A x, y \in DOMAIN u : g[x] = g[y] => x = y
  BY <1>1, <1>2, <1>4
<1>6. DOMAIN v3 = (DOMAIN v \cup {new}) \ {old} /\ v3 = [z \in DOMAIN v3 |-> v3[z]]
  BY DEF Less, Redirected, With
<1>7. \A z \in DOMAIN v3 : v3[z] = IF v1[z].check = old THEN [v1[z] EXCEPT !.check = new] ELSE v1[z]
  BY DEF Less, Redirected, With
<1>8. v1[new] = c0 /\ \A z \in DOMAIN v : z # new => v1[z] = v[z]
  BY DEF With
<1>9. c0.check = s /\ c0.base = u[old].base
  OBVIOUS
<1> HIDE DEF v1, v2, v3, c0
<1>10. DOMAIN v3 = {g[x] : x \in DOMAIN u}
  <2>1. ASSUME NEW z \in DOMAIN v3 PROVE z \in {g[x] : x \in DOMAIN u}
    <3>1. CASE z = new
      BY <1>2, <3>1
    <3>2. CASE z # new
      <4>1. z \in DOMAIN v /\ z # old
        BY <1>6, <3>2
      <4>2. PICK x \in DOMAIN u : z = f[x]
        BY <1>1, <4>1
      <4> QED BY <1>2, <4>1, <4>2
    <3> QED BY <3>1, <3>2
  <2>2. ASSUME NEW x \in DOMAIN u PROVE g[x] \in DOMAIN v3
    <3>1. CASE x = old
      BY <1>2, <1>3, <1>6, <3>1
    <3>2. CASE x # old
      BY <1>2, <1>4, <1>6, <3>2
    <3> QED BY <3>1, <3>2
  <2> QED BY <2>1, <2>2
<1>11. ASSUME NEW x \in DOMAIN u
       PROVE  v3[g[x]] = [base |-> u[x].base, check |-> IF x = ROOT THEN 0 ELSE g[u[x].check]]
  <2>1. g[x] \in DOMAIN v3
    BY <1>10
  <2>2. CASE x = old
    <3>1. v1[g[x]] = c0 /\ c0.check # old
      BY <1>2, <1>8, <1>9, <2>2
    <3>2. v3[g[x]] = c0
      BY <1>7, <2>1, <3>1
    <3>3. g[u[x].check] = s
      BY <1>2, <2>2
    <3>4. c0 = [base |-> u[x].base, check |-> g[u[x].check]] /\ x # ROOT
      BY <2>2, <3>3 DEF c0
    <3> QED BY <3>2, <3>4
  <2>3. CASE x # old
    <3> DEFINE r == [base |-> u[x].base, check |-> IF x = ROOT THEN 0 ELSE f[u[x].check]]
    <3>0. v[f[x]] = r
      BY <1>1
    <3> HIDE DEF r
    <3>1. v1[g[x]] = r
      <4>1. g[x] = f[x] /\ f[x] \in DOMAIN v /\ f[x] # new
        BY <1>2, <1>4, <2>3
      <4> QED BY <1>8, <3>0, <4>1
    <3> USE DEF r
    <3>2. r.base = u[x].base /\ r.check = IF x = ROOT THEN 0 ELSE f[u[x].check]
      OBVIOUS
    <3>3. CASE x = ROOT
      <4>1. r.check # old
        BY <3>2, <3>3
      <4>2. v3[g[x]] = r
        BY <1>7, <2>1, <3>1, <4>1
      <4> QED BY <3>3, <4>2
    <3>4. CASE x # ROOT
      <4>1. u[x].check \in DOMAIN u /\ r.check = f[u[x].check]
        BY <3>2, <3>4
      <4>2. CASE u[x].check = old
        <5>1. r.check = old /\ g[u[x].check] = new
          BY <1>2, <4>1, <4>2
        <5>2. v3[g[x]] = [r EXCEPT !.check = new]
          BY <1>7, <2>1, <3>1, <5>1
        <5>3. [r EXCEPT !.check = new] = [base |-> u[x].base, check |-> new]
          OBVIOUS
        <5> QED BY <3>4, <5>1, <5>2, <5>3
      <4>3. CASE u[x].check # old
        <5>1. r.check # old /\ g[u[x].check] = f[u[x].check]
          BY <1>2, <1>4, <4>1, <4>3
        <5>2. v3[g[x]] = r
          BY <1>7, <2>1, <3>1, <5>1
        <5> QED BY <3>4, <5>1, <5>2
      <4> QED BY <4>2, <4>3
    <3> QED BY <3>3, <3>4
  <2> QED BY <2>2, <2>3
<1>12. IsRenamed(v3, u, g)
  BY <1>5, <1>6, <1>10, <1>11 DEF IsRenamed
<1> QED BY <1>12 DEF v1, v2, v3, c0

\* Where nodes are after the move of some children of s.
LEMMA MoveIs ==
  ASSUME NEW d, NEW u, DaHolds(d, u), Tree(u), NEW s \in DOMAIN u, u[s].base > 0,
         NEW b \in Nat, NEW k \in Nat
  PROVE  LET f == Move(u, s, b, k)
             old == u[s].base + k
         IN  /\ u[s].base \in Int /\ u[s].base >= 3 /\ s \in Int /\ s >= 2
             /\ \A x \in DOMAIN u : f[x] = IF u[x].check = s /\ x < old THEN x - u[s].base + b ELSE x
             /\ u[s].check # s /\ f[s] = s /\ u[ROOT].check # s /\ f[ROOT] = ROOT
             /\ \A x \in DOMAIN u : x # ROOT => u[x].check \in DOMAIN u
             /\ \A x \in DOMAIN u : u[x].check = s => x >= u[s].base
                                                      /\ x < u[s].base + TRIE_CHAR_MAX
<1> DEFINE f == Move(u, s, b, k)
           b0 == u[s].base
<1>1. b0 \in Int /\ b0 >= 3 /\ s \in Int /\ s >= 2 /\ ROOT \in DOMAIN u
  BY NodesAre DEF Tree
<1>2. \A x \in DOMAIN u : f[x] = IF u[x].check = s /\ x < b0 + k THEN x - b0 + b ELSE x
  BY DEF Move
<1>3. u[ROOT].check # s
  BY <1>1 DEF Tree
<1>4. u[s].check # s
  BY <1>3 DEF Tree, Hangs
<1>5. \A x \in DOMAIN u : x # ROOT => u[x].check \in DOMAIN u
  BY DEF Tree, Hangs
<1>6. ASSUME NEW x \in DOMAIN u, u[x].check = s PROVE x >= b0 /\ x < b0 + TRIE_CHAR_MAX
  <2>1. Hangs(u, x)
    BY <1>3, <1>6 DEF Tree
  <2>2. x - b0 \in 0 .. TRIE_CHAR_MAX - 1 /\ x \in Int
    BY <1>6, <2>1, NodesAre DEF Hangs
  <2> QED BY <1>1, <2>2, TrieDefsAssumption
<1> QED BY <1>1, <1>2, <1>3, <1>4, <1>5, <1>6

\* The nodes at their other places, field by field.
NodesThere(v, u, f) ==
  /\ \A x, y \in DOMAIN u : f[x] = f[y] => x = y
  /\ DOMAIN v = {f[x] : x \in DOMAIN u}
  /\ \A x \in DOMAIN u : /\ f[x] \in DOMAIN v
                         /\ v[f[x]].base = u[x].base
                         /\ x = ROOT => v[f[x]].check = 0
                         /\ x # ROOT => v[f[x]].check = f[u[x].check]

\* What renamed nodes hold.
LEMMA RenamedIs ==
  ASSUME NEW u, NEW v, NEW f, IsRenamed(v, u, f)
  PROVE  NodesThere(v, u, f)
<1>1. /\ \A x, y \in DOMAIN u : f[x] = f[y] => x = y
      /\ DOMAIN v = {f[x] : x \in DOMAIN u}
  BY DEF IsRenamed
<1>2. ASSUME NEW x \in DOMAIN u
      PROVE  /\ f[x] \in DOMAIN v
             /\ v[f[x]].base = u[x].base
             /\ x = ROOT => v[f[x]].check = 0
             /\ x # ROOT => v[f[x]].check = f[u[x].check]
  <2> DEFINE r == [base |-> u[x].base, check |-> IF x = ROOT THEN 0 ELSE f[u[x].check]]
  <2>1. v[f[x]] = r
    BY DEF IsRenamed
  <2>2. r.base = u[x].base /\ r.check = IF x = ROOT THEN 0 ELSE f[u[x].check]
    OBVIOUS
  <2> HIDE DEF r
  <2> QED BY <1>1, <2>1, <2>2
<1> QED BY <1>1, <1>2 DEF NodesThere

\* A turn of the relocation moves the child for one character, if there is one
\* (da_relocate_base).
LEMMA RelocatedIs ==
  ASSUME NEW d, NEW u, DaHolds(d, u), Tree(u), NEW s \in DOMAIN u, u[s].base > 0,
         NEW b, HasRoom(d, u, s, b), NEW k \in Nat, NEW e, HaveMoved(e, d, u, s, b, k)
  PROVE  HaveMoved(Relocated(e, s, b, da_output_symbols(d, s), k), d, u, s, b, k + 1)
<1> DEFINE b0 == u[s].base
           f == Move(u, s, b, k)
           g == Move(u, s, b, k + 1)
           old == b0 + k
           new == b + k
           syms == da_output_symbols(d, s)
           r == Relocated(e, s, b, syms, k)
           n == num_cells(d)
<1>1. b \in Nat /\ b >= 3 /\ \A x \in DOMAIN u : u[x].check = s => x - b0 + b \in Frees(d, u)
  BY DEF HasRoom
<1>2. /\ b0 \in Int /\ b0 >= 3 /\ s \in Int /\ s >= 2
      /\ \A x \in DOMAIN u : f[x] = IF u[x].check = s /\ x < old THEN x - b0 + b ELSE x
      /\ u[s].check # s /\ f[s] = s /\ u[ROOT].check # s /\ f[ROOT] = ROOT
      /\ \A x \in DOMAIN u : x # ROOT => u[x].check \in DOMAIN u
  BY <1>1, MoveIs
<1>3. \A x \in DOMAIN u : g[x] = IF u[x].check = s /\ x < b0 + (k + 1) THEN x - b0 + b ELSE x
  BY <1>1, MoveIs
<1>4. \A c \in Int : c \in syms <=> b0 + c \in DOMAIN u /\ u[b0 + c].check = s
  <2>1. KidsNear(u, s)
    BY TreeKids
  <2> QED BY <2>1, OutputIs
<1>5. num_cells(e) = n /\ e \in Arrays /\ \E v : DaHolds(e, v) /\ IsRenamed(v, u, f)
  BY DEF HaveMoved
<1>6. PICK v : DaHolds(e, v) /\ IsRenamed(v, u, f)
  BY <1>5
<1>7. /\ \A x, y \in DOMAIN u : f[x] = f[y] => x = y
      /\ DOMAIN v = {f[x] : x \in DOMAIN u}
      /\ \A x \in DOMAIN u : /\ f[x] \in DOMAIN v
                             /\ v[f[x]].base = u[x].base
                             /\ x = ROOT => v[f[x]].check = 0
                             /\ x # ROOT => v[f[x]].check = f[u[x].check]
  <2> HIDE DEF f
  <2>1. NodesThere(v, u, f)
    BY <1>6, RenamedIs
  <2> QED BY <2>1 DEF NodesThere
<1>8. \A x \in DOMAIN u : x \in Int /\ x >= 2
  BY NodesAre
<1>9. f = [x \in DOMAIN u |-> f[x]] /\ g = [x \in DOMAIN u |-> g[x]]
  BY DEF Move
<1> HIDE DEF f, g, b0, r, syms, n
<1>10. CASE k \notin syms
  <2>1. r = e
    BY <1>10 DEF Relocated, r, syms
  <2>2. \A x \in DOMAIN u : g[x] = f[x]
    <3> SUFFICES ASSUME NEW x \in DOMAIN u PROVE g[x] = f[x]
      OBVIOUS
    <3>1. ~(u[x].check = s /\ x = old)
      BY <1>4, <1>10
    <3>2. u[x].check = s => (x < old <=> x < b0 + (k + 1))
      BY <1>2, <1>8, <3>1
    <3> QED BY <1>2, <1>3, <3>2
  <2>3. g = f
    BY <1>9, <2>2
  <2> QED BY <1>5, <2>1, <2>3 DEF HaveMoved, r, syms, f, g, n
<1>11. CASE k \in syms
  <2>1. old \in DOMAIN u /\ u[old].check = s /\ old # ROOT /\ old \in Int /\ s # old /\ old # 0
    BY <1>2, <1>4, <1>8, <1>11
  <2>2. f[old] = old /\ g[old] = new
    <3>1. old \in Int /\ ~(old < old) /\ old < b0 + (k + 1) /\ old - b0 + b = new
      BY <1>1, <1>2
    <3> QED BY <1>2, <1>3, <2>1, <3>1
  <2>3. \A x \in DOMAIN u : x # old => g[x] = f[x]
    <3> SUFFICES ASSUME NEW x \in DOMAIN u, x # old PROVE g[x] = f[x]
      OBVIOUS
    <3>1. x < old <=> x < b0 + (k + 1)
      BY <1>2, <1>8
    <3> QED BY <1>2, <1>3, <3>1
  <2>4. MovesOn(f, g, u, old, new)
    BY <2>2, <2>3 DEF MovesOn
  <2>5. old \in DOMAIN v /\ s \in DOMAIN v /\ v[s].base = b0 /\ v[old].base = u[old].base
    <3>1. v[f[s]].base = u[s].base /\ v[f[old]].base = u[old].base /\ f[s] \in DOMAIN v /\ f[old] \in DOMAIN v
      BY <1>7, <2>1
    <3> QED BY <1>2, <2>2, <3>1 DEF b0
  <2>6. da_get_base(e, s) = b0 /\ da_get_base(e, old) = u[old].base /\ u[old].base \in Int
    BY <1>6, <2>1, <2>5, NodesAre, SMTT(60)
  <2>7. new \in Frees(e, v)
    <3>1. new \in Frees(d, u)
      <4>1. old - b0 + b = new
        BY <1>1, <1>2
      <4> QED BY <1>1, <2>1, <4>1
    <3>2. new \in 3 .. n - 1 /\ new \notin DOMAIN u
      BY <3>1 DEF Frees, FreeOf, DA_POOL_BEGIN, n
    <3>3. \A x \in DOMAIN u : f[x] # new
      <4> SUFFICES ASSUME NEW x \in DOMAIN u, f[x] = new PROVE FALSE
        OBVIOUS
      <4>1. u[x].check = s /\ x < old /\ x - b0 + b = new
        BY <1>2, <3>2
      <4> QED BY <1>1, <1>2, <1>8, <4>1
    <3>4. new \notin DOMAIN v
      BY <1>7, <3>3
    <3> QED BY <1>5, <3>2, <3>4 DEF Frees, FreeOf, DA_POOL_BEGIN
  <2> DEFINE c0 == [base |-> u[old].base, check |-> s]
             e1 == [da_alloc_cell(e, new) EXCEPT ![new] = c0]
             v1 == With(v, new, c0)
             e2 == ChildrenMoved(e1, old, new)
             v2 == Redirected(v1, old, new)
             e3 == da_free_cell(e2, old)
             v3 == Less(v2, old)
  <2>8. r = e3
    <3>1. k \in syms /\ b0 + k = old
      BY <1>11
    <3> QED BY <2>6, <3>1 DEF Relocated, r
  <2>9. c0 \in Cell /\ c0.check >= 0 /\ c0.check = s /\ c0.base = u[old].base
    BY <1>2, <2>6 DEF Cell
  <2>10. new \notin DOMAIN v /\ new \in Nat /\ new >= 3
    BY <1>1, <1>6, <2>7, FreeCellIs
  <2>11. IsRenamed(v3, u, g)
    <3>1. u[old].check = s /\ f[s] = s
      BY <1>2, <2>1
    <3> HIDE DEF old, new
    <3> QED BY <1>2, <1>6, <2>1, <2>4, <2>10, <3>1, RenameOne
  <2> HIDE DEF c0
  <2>12. DaHolds(e1, v1) /\ num_cells(e1) = num_cells(e)
    <3>1. DaIs(e1, num_cells(e), v1)
      <4>1. DaIs(e, num_cells(e), v) /\ new \in FreeOf(num_cells(e), v)
        BY <1>6, <2>7 DEF DaHolds, Frees
      <4> HIDE DEF new
      <4> QED BY <2>9, <4>1, TakeIs
    <3> HIDE DEF e1, v1
    <3> QED BY <3>1, HoldsIs
  <2>13. old \in DOMAIN v1 /\ KidsNear(v1, old)
    <3>1. /\ DOMAIN v1 = DOMAIN v \cup {new} /\ v1[new] = c0
          /\ \A z \in DOMAIN v : v1[z] = v[z]
      BY <2>10 DEF With
    <3> HIDE DEF v1
    <3>2. v1[old].base = u[old].base
      BY <2>5, <3>1
    <3>3. KidsNear(u, old)
      BY <2>1, TreeKids
    <3>4. ASSUME NEW z \in DOMAIN v1, v1[z].check = old
          PROVE  z \in DOMAIN u /\ u[z].check = old
      <4>1. z \in DOMAIN v /\ v[z].check = old
        BY <2>1, <2>9, <3>1, <3>4
      <4>2. PICK x \in DOMAIN u : z = f[x]
        BY <1>7, <4>1
      <4>3. x # ROOT /\ f[u[x].check] = old /\ u[x].check \in DOMAIN u
        <5>1. x # ROOT
          BY <1>7, <2>1, <4>1, <4>2
        <5> QED BY <1>2, <1>7, <4>1, <4>2, <5>1
      <4>4. u[x].check = old
        BY <1>7, <2>1, <2>2, <4>3
      <4>5. f[x] = x
        BY <1>2, <2>1, <4>4
      <4> QED BY <4>2, <4>4, <4>5
    <3> QED BY <2>5, <3>1, <3>2, <3>3, <3>4 DEF KidsNear
  <2> HIDE DEF e1, v1
  <2>14. DaHolds(e2, v2) /\ num_cells(e2) = num_cells(e1) /\ DOMAIN v2 = DOMAIN v1
    <3>1. DOMAIN v2 = DOMAIN v1
      BY DEF Redirected
    <3> HIDE DEF old, new
    <3> QED BY <2>10, <2>12, <2>13, <3>1, ChildrenMovedIs
  <2> HIDE DEF e2, v2
  <2>15. DaIs(e3, num_cells(e2), v3)
    <3>1. old \in DOMAIN v2 /\ old # ROOT /\ DaIs(e2, num_cells(e2), v2)
      BY <2>1, <2>13, <2>14 DEF DaHolds
    <3> HIDE DEF old
    <3> QED BY <3>1, FreedIs
  <2> HIDE DEF e3, v3
  <2>16. DaHolds(e3, v3) /\ num_cells(e3) = n /\ e3 \in Arrays
    BY <1>5, <2>12, <2>14, <2>15, HoldsIs
  <2> QED BY <2>8, <2>11, <2>16 DEF HaveMoved, r, syms, g, n
<1> QED BY <1>10, <1>11

\* The places of the nodes when all children of s are at base b.
Places(u, s, b) == [x \in DOMAIN u |-> IF u[x].check = s THEN x - u[s].base + b ELSE x]

\* w is the tree u with the children of s moved to base b.
IsRelocated(w, u, s, b) ==
  LET f == Places(u, s, b) IN
  /\ \A x, y \in DOMAIN u : f[x] = f[y] => x = y
  /\ w = [z \in DOMAIN w |-> w[z]]
  /\ DOMAIN w = {f[x] : x \in DOMAIN u}
  /\ \A x \in DOMAIN u : /\ f[x] \in DOMAIN w
                         /\ w[f[x]].base = IF x = s THEN b ELSE u[x].base
                         /\ x = ROOT => w[f[x]].check = 0
                         /\ x # ROOT => w[f[x]].check = f[u[x].check]

\* The turns of the relocation give the array that da_relocate_base sets the base in.
LEMMA RelocationExists ==
  ASSUME NEW d, NEW u, DaHolds(d, u), Tree(u), NEW s \in DOMAIN u, u[s].base > 0,
         NEW b, HasRoom(d, u, s, b)
  PROVE  \E e : /\ HaveMoved(e, d, u, s, b, TRIE_CHAR_MAX)
                /\ da_relocate_base(d, s, b) = da_set_base(e, s, b)
<1> DEFINE n == TRIE_CHAR_MAX
           syms == da_output_symbols(d, s)
           I == {x \in Nat \X Arrays : HaveMoved(x[2], d, u, s, b, x[1])}
           step == [x \in Nat \X Arrays |-> Relocated(x[2], s, b, syms, x[1] - 1)]
           upto == CHOOSE f : f = [c \in 0 .. TRIE_CHAR_MAX |->
                                     IF c = 0 THEN d ELSE Relocated(f[c - 1], s, b, syms, c - 1)]
<1>1. n \in Nat /\ d \in Arrays
  BY TrieDefsAssumption, NodesAre
<1>2. da_relocate_base(d, s, b) = da_set_base(upto[TRIE_CHAR_MAX], s, b)
  BY DEF da_relocate_base
<1>3. HaveMoved(d, d, u, s, b, 0)
  <2> DEFINE f == Move(u, s, b, 0)
  <2>1. b \in Nat
    BY DEF HasRoom
  <2>2. \A x \in DOMAIN u : f[x] = x
    <3>1. /\ u[s].base \in Int
          /\ \A x \in DOMAIN u : f[x] = IF u[x].check = s /\ x < u[s].base + 0 THEN x - u[s].base + b ELSE x
          /\ \A x \in DOMAIN u : u[x].check = s => x >= u[s].base
      BY <2>1, MoveIs
    <3>2. \A x \in DOMAIN u : x \in Int
      BY NodesAre
    <3> HIDE DEF f
    <3>3. ASSUME NEW x \in DOMAIN u, u[x].check = s PROVE ~(x < u[s].base + 0)
      BY <3>1, <3>2, <3>3
    <3> QED BY <3>1, <3>3
  <2> HIDE DEF f
  <2>3. ASSUME NEW x \in DOMAIN u
        PROVE  u[f[x]] = [base |-> u[x].base, check |-> IF x = ROOT THEN 0 ELSE f[u[x].check]]
    <3>1. u[x] \in Cell /\ (x = ROOT => u[x].check = 0)
      BY NodesAre DEF Tree
    <3>2. u[x] = [base |-> u[x].base, check |-> u[x].check]
      BY <3>1 DEF Cell
    <3>3. x # ROOT => f[u[x].check] = u[x].check
      BY <2>2 DEF Tree, Hangs
    <3>4. u[x].check = IF x = ROOT THEN 0 ELSE f[u[x].check]
      BY <3>1, <3>3
    <3> QED BY <2>2, <3>2, <3>4
  <2>4. u = [z \in DOMAIN u |-> u[z]]
    BY NodesAre DEF AreNodes
  <2>5. DOMAIN u = {f[x] : x \in DOMAIN u} /\ \A x, y \in DOMAIN u : f[x] = f[y] => x = y
    BY <2>2
  <2>6. IsRenamed(u, u, f)
    BY <2>3, <2>4, <2>5 DEF IsRenamed
  <2> QED BY <1>1, <2>6 DEF HaveMoved, f
<1>4. ASSUME NEW k \in 1 .. n, NEW e \in Arrays, <<k - 1, e>> \in I
      PROVE  /\ step[<<k, e>>] = Relocated(e, s, b, syms, k - 1)
             /\ step[<<k, e>>] \in Arrays /\ <<k, step[<<k, e>>]>> \in I
  <2>1. k \in Nat /\ k - 1 \in Nat /\ (k - 1) + 1 = k
    BY <1>1
  <2>2. HaveMoved(e, d, u, s, b, k - 1)
    BY <1>4
  <2>3. step[<<k, e>>] = Relocated(e, s, b, syms, k - 1)
    BY <2>1
  <2> HIDE DEF step
  <2>4. HaveMoved(Relocated(e, s, b, syms, k - 1), d, u, s, b, (k - 1) + 1)
    BY <2>1, <2>2, RelocatedIs
  <2>5. HaveMoved(step[<<k, e>>], d, u, s, b, k)
    BY <2>1, <2>3, <2>4
  <2>6. step[<<k, e>>] \in Arrays
    BY <2>5 DEF HaveMoved
  <2> QED BY <2>1, <2>3, <2>5, <2>6
<1>5. <<0, d>> \in I
  BY <1>1, <1>3
<1>6. PICK f : Follows(f, n, d, step) /\ \A k \in 0 .. n : f[k] \in Arrays /\ <<k, f[k]>> \in I
  <2>1. \A k \in 1 .. n : \A e \in Arrays : <<k - 1, e>> \in I =>
           step[<<k, e>>] \in Arrays /\ <<k, step[<<k, e>>]>> \in I
    BY <1>4
  <2> HIDE DEF step, I, n
  <2> QED BY <1>1, <1>5, <2>1, GuidedRecursion
<1>7. f = [k \in 0 .. n |-> f[k]] /\ f[0] = d /\ \A k \in 1 .. n : f[k] = step[<<k, f[k - 1]>>]
  BY <1>6 DEF Follows
<1> HIDE DEF step, I
<1>8. ASSUME NEW k \in 1 .. n PROVE f[k] = Relocated(f[k - 1], s, b, syms, k - 1)
  <2>1. k - 1 \in 0 .. n
    BY <1>1
  <2>2. f[k - 1] \in Arrays /\ <<k - 1, f[k - 1]>> \in I
    BY <1>6, <2>1
  <2> QED BY <1>4, <1>7, <2>2
<1>9. f = [c \in 0 .. TRIE_CHAR_MAX |-> IF c = 0 THEN d ELSE Relocated(f[c - 1], s, b, syms, c - 1)]
  <2>1. ASSUME NEW k \in 0 .. n
        PROVE  f[k] = IF k = 0 THEN d ELSE Relocated(f[k - 1], s, b, syms, k - 1)
    <3>1. k # 0 => k \in 1 .. n
      BY <1>1
    <3> QED BY <1>7, <1>8, <3>1
  <2> QED BY <1>7, <2>1
<1>10. upto = [c \in 0 .. TRIE_CHAR_MAX |->
                 IF c = 0 THEN d ELSE Relocated(upto[c - 1], s, b, syms, c - 1)]
  BY <1>9
<1> HIDE DEF upto
<1>11. \A k \in 0 .. n : upto[k] = f[k]
  <2> DEFINE G == {k \in 0 .. n : upto[k] = f[k]}
  <2>1. 0 \in G
    BY <1>1, <1>9, <1>10
  <2>2. ASSUME NEW k \in 1 .. n, k - 1 \in G PROVE k \in G
    BY <1>1, <1>8, <1>10, <2>2
  <2> HIDE DEF G
  <2>3. \A k \in 0 .. n : k \in G
    BY <1>1, <2>1, <2>2, UpToInduction
  <2> QED BY <2>3 DEF G
<1>12. HaveMoved(upto[n], d, u, s, b, n)
  <2>1. n \in 0 .. n
    BY <1>1
  <2>2. <<n, f[n]>> \in I
    BY <1>6, <2>1
  <2> QED BY <1>11, <2>1, <2>2 DEF I
<1> QED BY <1>2, <1>12

\* Relocation keeps the tree, its children of s at other places (da_relocate_base).
LEMMA RelocateIs ==
  ASSUME NEW d, NEW u, DaHolds(d, u), Tree(u), NEW s \in DOMAIN u, u[s].base > 0,
         NEW b, HasRoom(d, u, s, b)
  PROVE  \E w : /\ DaHolds(da_relocate_base(d, s, b), w)
                /\ num_cells(da_relocate_base(d, s, b)) = num_cells(d)
                /\ IsRelocated(w, u, s, b)
<1>1. PICK e : /\ HaveMoved(e, d, u, s, b, TRIE_CHAR_MAX)
               /\ da_relocate_base(d, s, b) = da_set_base(e, s, b)
  BY RelocationExists
<1> DEFINE f == Move(u, s, b, TRIE_CHAR_MAX)
           g == Places(u, s, b)
           n == num_cells(d)
           r == da_set_base(e, s, b)
<1>2. num_cells(e) = n /\ e \in Arrays /\ \E v : DaHolds(e, v) /\ IsRenamed(v, u, f)
  BY <1>1 DEF HaveMoved
<1>3. PICK v : DaHolds(e, v) /\ IsRenamed(v, u, f)
  BY <1>2
<1>4. b \in Nat
  BY DEF HasRoom
<1>5. f = g /\ f[s] = s
  <2>1. /\ f[s] = s
        /\ \A x \in DOMAIN u : f[x] = IF u[x].check = s /\ x < u[s].base + TRIE_CHAR_MAX
                                      THEN x - u[s].base + b ELSE x
        /\ \A x \in DOMAIN u : u[x].check = s => x < u[s].base + TRIE_CHAR_MAX
    BY <1>4, MoveIs, TrieDefsAssumption
  <2>2. \A x \in DOMAIN u : f[x] = g[x]
    BY <2>1 DEF Places
  <2>3. f = [x \in DOMAIN u |-> f[x]] /\ g = [x \in DOMAIN u |-> g[x]]
    BY DEF Move, Places
  <2> HIDE DEF f, g
  <2> QED BY <2>1, <2>2, <2>3
<1> HIDE DEF f, g
<1>6. NodesThere(v, u, f)
  BY <1>3, RenamedIs
<1>7. /\ \A x, y \in DOMAIN u : f[x] = f[y] => x = y
      /\ DOMAIN v = {f[x] : x \in DOMAIN u}
      /\ \A x \in DOMAIN u : /\ f[x] \in DOMAIN v
                             /\ v[f[x]].base = u[x].base
                             /\ x = ROOT => v[f[x]].check = 0
                             /\ x # ROOT => v[f[x]].check = f[u[x].check]
  BY <1>6 DEF NodesThere
<1>8. s \in DOMAIN v /\ s \in 0 .. n - 1 /\ s < n /\ n \in Nat
  <2>1. s \in DOMAIN v
    BY <1>5, <1>7
  <2>2. s \in Int /\ s >= 2 /\ s < n /\ n \in Nat
    BY NodesAre
  <2> QED BY <2>1, <2>2
<1> HIDE DEF n
<1>9. /\ e \in [0 .. n - 1 -> Cell] /\ AreNodes(n, v) /\ DaIs(e, n, v)
      /\ \A x \in DOMAIN v : x \in 0 .. n - 1 /\ e[x] = v[x] /\ v[x] \in Cell /\ v[x].check >= 0
  <2>1. \A x \in DOMAIN v : x \in 2 .. n - 1 /\ e[x] = v[x] /\ v[x] \in Cell /\ v[x].check >= 0
    BY <1>2, <1>3, NodesAre
  <2>2. e \in [0 .. n - 1 -> Cell] /\ AreNodes(n, v) /\ DaIs(e, n, v)
    BY <1>2, <1>3, NodesAre DEF DaHolds
  <2> QED BY <1>8, <2>1, <2>2
<1>10. r = SetBase(e, s, b)
  BY <1>2, <1>8 DEF da_set_base, SetBase
<1> HIDE DEF r
<1>11. BaseIs(r, e, n, s, b)
  BY <1>4, <1>8, <1>9, <1>10, BaseSet
<1> DEFINE w == [x \in DOMAIN v |-> r[x]]
<1>12. /\ r \in [0 .. n - 1 -> Cell] /\ r[s].base = b /\ r[s].check = v[s].check
       /\ \A x \in DOMAIN v : x # s => r[x] = v[x]
       /\ \A x \in 0 .. n - 1 : x # s => r[x] = e[x]
  BY <1>8, <1>9, <1>11 DEF BaseIs
<1>13. IsChanged(r, e, n, v, w)
  <2>1. DOMAIN w = DOMAIN v /\ \A x \in DOMAIN v : w[x] = r[x]
    OBVIOUS
  <2>2. \A x \in DOMAIN v : w[x] \in Cell /\ w[x].check >= 0
    <3> SUFFICES ASSUME NEW x \in DOMAIN v PROVE w[x] \in Cell /\ w[x].check >= 0
      OBVIOUS
    <3>1. x \in 0 .. n - 1 /\ w[x] = r[x] /\ r[x] \in Cell
      BY <1>9, <1>12
    <3>2. r[x].check = v[x].check
      BY <1>12
    <3> QED BY <1>9, <3>1, <3>2
  <2>3. AreNodes(n, w)
    <3>1. w = [x \in DOMAIN w |-> w[x]]
      BY <2>1
    <3> HIDE DEF w
    <3> QED BY <1>9, <2>1, <2>2, <3>1 DEF AreNodes
  <2> HIDE DEF w
  <2> QED BY <1>8, <1>12, <2>1, <2>3 DEF IsChanged
<1>14. DaHolds(r, w) /\ num_cells(r) = n
  <2>1. DaIs(r, n, w)
    BY <1>9, <1>13, ChangedIs
  <2> HIDE DEF w
  <2> QED BY <2>1, HoldsIs
<1>15. IsRelocated(w, u, s, b)
  <2>1. DOMAIN w = DOMAIN v /\ w = [x \in DOMAIN w |-> w[x]]
    OBVIOUS
  <2>2. \A x \in DOMAIN v : w[x].check = v[x].check /\ w[x].base = IF x = s THEN b ELSE v[x].base
    BY <1>12
  <2> HIDE DEF w
  <2>3. \A x \in DOMAIN u : f[x] = s <=> x = s
    BY <1>5, <1>7
  <2>4. ASSUME NEW x \in DOMAIN u
        PROVE  /\ f[x] \in DOMAIN w
               /\ w[f[x]].base = IF x = s THEN b ELSE u[x].base
               /\ x = ROOT => w[f[x]].check = 0
               /\ x # ROOT => w[f[x]].check = f[u[x].check]
    BY <1>7, <2>1, <2>2, <2>3
  <2> QED BY <1>5, <1>7, <2>1, <2>4 DEF IsRelocated, g
<1> HIDE DEF w
<1> QED BY <1>1, <1>14, <1>15 DEF r, n

(***************************************************************************)
(* The labels of the nodes.  A node's label is the string of characters on *)
(* the way to it, so the tree is a set of strings, wherever its nodes are. *)
(***************************************************************************)

Chars == 0 .. TRIE_CHAR_MAX - 1
Labels == Seq(Chars)
\* The label of a child.
Child(l, c) == Append(l, c)
Mark(base) == IF base > 0 THEN 1 ELSE base

Labelled(u, L) ==
  /\ L \in [DOMAIN u -> Labels]
  /\ L[ROOT] = <<>>
  /\ \A x \in DOMAIN u : x # ROOT => L[x] = Child(L[u[x].check], x - u[u[x].check].base)
  /\ \A x, y \in DOMAIN u : L[x] = L[y] => x = y
\* A has the labels of the nodes, and their bases: 1 stands for any place of children.
Marked(u, L, A) ==
  /\ A = [l \in DOMAIN A |-> A[l]]
  /\ DOMAIN A = {L[x] : x \in DOMAIN u}
  /\ \A x \in DOMAIN u : A[L[x]] = Mark(u[x].base)
\* The tree of the array d is A, with the nodes of L.
Bearing(d, u, L, A) == DaHolds(d, u) /\ Tree(u) /\ Labelled(u, L) /\ Marked(u, L, A)
Bears(d, L, A) == \E u : Bearing(d, u, L, A)

\* The labels of children (da_output_symbols, da_insert_branch).
LEMMA ChildIs ==
  ASSUME NEW l \in Labels, NEW c \in Chars
  PROVE  /\ Child(l, c) \in Labels /\ Child(l, c) # <<>>
         /\ Len(Child(l, c)) = Len(l) + 1
         /\ \A m \in Labels : \A e \in Chars : Child(l, c) = Child(m, e) => l = m /\ c = e
<1>1. Child(l, c) \in Labels /\ Child(l, c) # <<>> /\ Len(Child(l, c)) = Len(l) + 1
  BY AppendProperties DEF Child, Labels
<1>2. \A m \in Labels : \A e \in Chars : Child(l, c) = Child(m, e) => l = m /\ c = e
  BY AppendInjective DEF Child, Labels
<1> QED BY <1>1, <1>2

\* What labelled nodes are.
LEMMA LabelsAre ==
  ASSUME NEW d, NEW u, DaHolds(d, u), Tree(u), NEW L, Labelled(u, L)
  PROVE  /\ DOMAIN L = DOMAIN u /\ <<>> \in Labels /\ L[ROOT] = <<>>
         /\ \A x \in DOMAIN u : L[x] \in Labels
         /\ \A x, y \in DOMAIN u : L[x] = L[y] => x = y
         /\ \A x \in DOMAIN u : x # ROOT =>
              /\ u[x].check \in DOMAIN u
              /\ x - u[u[x].check].base \in Chars
              /\ L[x] = Child(L[u[x].check], x - u[u[x].check].base)
              /\ L[x] # <<>>
<1>1. DOMAIN L = DOMAIN u /\ <<>> \in Labels /\ L[ROOT] = <<>>
  BY DEF Labelled, Labels
<1>2. \A x \in DOMAIN u : L[x] \in Labels
  BY DEF Labelled
<1>3. \A x, y \in DOMAIN u : L[x] = L[y] => x = y
  BY DEF Labelled
<1>4. ASSUME NEW x \in DOMAIN u, x # ROOT
      PROVE  /\ u[x].check \in DOMAIN u
             /\ x - u[u[x].check].base \in Chars
             /\ L[x] = Child(L[u[x].check], x - u[u[x].check].base)
             /\ L[x] # <<>>
  <2>1. u[x].check \in DOMAIN u /\ x - u[u[x].check].base \in Chars
    BY <1>4 DEF Tree, Hangs, Chars
  <2>2. L[x] = Child(L[u[x].check], x - u[u[x].check].base)
    BY <1>4 DEF Labelled
  <2> QED BY <1>2, <2>1, <2>2, ChildIs
<1> QED BY <1>1, <1>2, <1>3, <1>4

\* A node has a child for a character just when the cell there is one of its nodes.
LEMMA ChildAt ==
  ASSUME NEW d, NEW u, DaHolds(d, u), Tree(u), NEW L, Labelled(u, L), NEW s \in DOMAIN u,
         NEW c \in Chars, NEW y \in DOMAIN u
  PROVE  L[y] = Child(L[s], c) <=> u[y].check = s /\ y = u[s].base + c
<1>1. /\ L[s] \in Labels /\ L[y] \in Labels /\ L[ROOT] = <<>>
      /\ \A x \in DOMAIN u : L[x] \in Labels
      /\ \A x, z \in DOMAIN u : L[x] = L[z] => x = z
      /\ y # ROOT => /\ u[y].check \in DOMAIN u
                     /\ y - u[u[y].check].base \in Chars
                     /\ L[y] = Child(L[u[y].check], y - u[u[y].check].base)
  BY LabelsAre
<1>2. u[s].base \in Int /\ y \in Int /\ c \in Int
  <2>1. u[s].base \in Int /\ y \in Int
    BY NodesAre
  <2> QED BY <2>1, TrieDefsAssumption DEF Chars
<1>3. ASSUME L[y] = Child(L[s], c)
      PROVE  u[y].check = s /\ y = u[s].base + c
  <2>1. y # ROOT
    BY <1>1, <1>3, ChildIs
  <2>2. L[u[y].check] = L[s] /\ y - u[u[y].check].base = c
    <3>1. L[u[y].check] \in Labels
      BY <1>1, <2>1
    <3>2. Child(L[s], c) = Child(L[u[y].check], y - u[u[y].check].base)
      BY <1>1, <1>3, <2>1
    <3>3. \A m \in Labels : \A e \in Chars : Child(L[s], c) = Child(m, e) => L[s] = m /\ c = e
      BY <1>1, ChildIs
    <3> QED BY <1>1, <2>1, <3>1, <3>2, <3>3
  <2>3. u[y].check = s
    BY <1>1, <2>1, <2>2
  <2> QED BY <1>2, <2>2, <2>3
<1>4. ASSUME u[y].check = s, y = u[s].base + c
      PROVE  L[y] = Child(L[s], c)
  <2>1. y # ROOT
    BY <1>4, TreeKids
  <2>2. y - u[s].base = c
    BY <1>2, <1>4
  <2> QED BY <1>1, <1>4, <2>1, <2>2
<1> QED BY <1>3, <1>4

(***************************************************************************)
(* A new child                                                             *)
(***************************************************************************)

\* A free cell as a child of s.
LeafIn(d, u, s, cell) == With(u, cell, [base |-> d[cell].base, check |-> s])
LeafOf(L, s, cell, c) == [x \in DOMAIN L \cup {cell} |-> IF x = cell THEN Child(L[s], c) ELSE L[x]]
WithLeaf(A, l, c, v) ==
  [m \in DOMAIN A \cup {Child(l, c)} |-> IF m = Child(l, c) THEN v ELSE IF m = l THEN 1 ELSE A[m]]

\* With a leaf it is a tree.
LEMMA LeafTree ==
  ASSUME NEW d, NEW u, DaHolds(d, u), Tree(u), NEW s \in DOMAIN u, u[s].base >= 3,
         NEW c \in Chars, NEW cell, cell = u[s].base + c, cell \in Frees(d, u)
  PROVE  Tree(LeafIn(d, u, s, cell))
<1> DEFINE w == LeafIn(d, u, s, cell)
<1>1. cell \notin DOMAIN u /\ cell # ROOT /\ cell \in Int /\ cell >= 3 /\ d[cell].base < 0
  <2>1. cell \in FreeOf(num_cells(d), u) /\ DaIs(d, num_cells(d), u)
    BY DEF DaHolds, Frees
  <2>2. d[cell].base < 0
    BY <2>1, FreeIs
  <2>3. cell \notin DOMAIN u /\ cell \in Int /\ cell >= 3
    BY FreeCellIs
  <2> QED BY <2>2, <2>3 DEF ROOT
<1>2. /\ DOMAIN w = DOMAIN u \cup {cell} /\ w[cell].base = d[cell].base /\ w[cell].check = s
      /\ \A x \in DOMAIN u : w[x] = u[x]
  BY <1>1 DEF LeafIn, With
<1>3. /\ ROOT \in DOMAIN u /\ u[ROOT].check = 0 /\ u[ROOT].base >= 3
      /\ \A x \in DOMAIN u : u[x].base <= 0 \/ u[x].base >= 3
      /\ \A x \in DOMAIN u : x # ROOT => Hangs(u, x)
      /\ u[s].base \in Int
  BY NodesAre DEF Tree
<1> HIDE DEF w
<1>4. Hangs(w, cell)
  <2>1. cell - u[s].base = c /\ c \in 0 .. TRIE_CHAR_MAX - 1
    <3>1. c \in Int /\ c \in 0 .. TRIE_CHAR_MAX - 1
      BY TrieDefsAssumption DEF Chars
    <3> QED BY <1>3, <3>1
  <2> QED BY <1>1, <1>2, <2>1 DEF Hangs
<1>5. ASSUME NEW x \in DOMAIN u, x # ROOT PROVE Hangs(w, x)
  BY <1>2, <1>3, <1>5 DEF Hangs
<1>6. \A x \in DOMAIN w : x # ROOT => Hangs(w, x)
  BY <1>2, <1>4, <1>5
<1>7. \A x \in DOMAIN w : w[x].base <= 0 \/ w[x].base >= 3
  <2>1. w[cell].base <= 0
    <3>1. d[cell].base \in Int
      BY FreeIs DEF DaHolds, Frees
    <3> QED BY <1>1, <1>2, <3>1
  <2> QED BY <1>2, <1>3, <2>1
<1>8. w[ROOT].check = 0 /\ w[ROOT].base >= 3
  BY <1>2, <1>3
<1> QED BY <1>6, <1>7, <1>8 DEF Tree, w

\* ... and its label is new.
LEMMA LeafLabelled ==
  ASSUME NEW d, NEW u, DaHolds(d, u), Tree(u), NEW L, Labelled(u, L), NEW s \in DOMAIN u, u[s].base >= 3,
         NEW c \in Chars, NEW cell, cell = u[s].base + c, cell \in Frees(d, u)
  PROVE  /\ Labelled(LeafIn(d, u, s, cell), LeafOf(L, s, cell, c))
         /\ \A x \in DOMAIN u : L[x] # Child(L[s], c)
<1> DEFINE w == LeafIn(d, u, s, cell)
           M == LeafOf(L, s, cell, c)
<1>1. cell \notin DOMAIN u /\ cell # ROOT
  BY FreeCellIs, NodesAre
<1>2. /\ DOMAIN w = DOMAIN u \cup {cell} /\ w[cell].check = s
      /\ \A x \in DOMAIN u : w[x] = u[x]
  BY <1>1 DEF LeafIn, With
<1>3. /\ DOMAIN L = DOMAIN u /\ ROOT \in DOMAIN u /\ L[ROOT] = <<>>
      /\ \A x \in DOMAIN u : L[x] \in Labels
      /\ \A x, y \in DOMAIN u : L[x] = L[y] => x = y
      /\ \A x \in DOMAIN u : x # ROOT =>
           /\ u[x].check \in DOMAIN u
           /\ L[x] = Child(L[u[x].check], x - u[u[x].check].base)
  BY LabelsAre, NodesAre
<1>4. /\ M = [x \in DOMAIN u \cup {cell} |-> M[x]] /\ M[cell] = Child(L[s], c)
      /\ \A x \in DOMAIN u : M[x] = L[x]
  BY <1>1, <1>3 DEF LeafOf
<1>5. \A x \in DOMAIN u : L[x] # Child(L[s], c)
  BY <1>1, ChildAt
<1>6. Child(L[s], c) \in Labels
  BY <1>3, ChildIs
<1>7. cell - u[s].base = c
  <2>1. c \in Int /\ u[s].base \in Int
    BY TrieDefsAssumption, NodesAre DEF Chars
  <2> QED BY <2>1
<1> HIDE DEF w, M
<1>8. M \in [DOMAIN w -> Labels] /\ M[ROOT] = <<>>
  BY <1>2, <1>3, <1>4, <1>6
<1>9. \A x \in DOMAIN w : x # ROOT => M[x] = Child(M[w[x].check], x - w[w[x].check].base)
  BY <1>1, <1>2, <1>3, <1>4, <1>7
<1>10. \A x, y \in DOMAIN w : M[x] = M[y] => x = y
  BY <1>2, <1>3, <1>4, <1>5
<1>11. Labelled(w, M)
  BY <1>8, <1>9, <1>10 DEF Labelled
<1> QED BY <1>5, <1>11 DEF w, M

\* ... and so is its mark, while the parent is marked as one.
LEMMA LeafMarked ==
  ASSUME NEW d, NEW u, DaHolds(d, u), Tree(u), NEW L, Labelled(u, L), NEW A, Marked(u, L, A),
         NEW s \in DOMAIN u, u[s].base >= 3,
         NEW c \in Chars, NEW cell, cell = u[s].base + c, cell \in Frees(d, u)
  PROVE  /\ Marked(LeafIn(d, u, s, cell), LeafOf(L, s, cell, c), WithLeaf(A, L[s], c, d[cell].base))
         /\ d[cell].base \in Int /\ d[cell].base < 0
<1> DEFINE w == LeafIn(d, u, s, cell)
           M == LeafOf(L, s, cell, c)
           v == d[cell].base
           B == WithLeaf(A, L[s], c, v)
<1>1. cell \notin DOMAIN u
  BY FreeCellIs, NodesAre
<1>2. /\ DOMAIN w = DOMAIN u \cup {cell} /\ w[cell].base = v
      /\ \A x \in DOMAIN u : w[x] = u[x]
  BY <1>1 DEF LeafIn, With
<1>3. /\ DOMAIN L = DOMAIN u
      /\ \A x, y \in DOMAIN u : L[x] = L[y] => x = y
      /\ \A x \in DOMAIN u : L[x] # Child(L[s], c)
  BY LabelsAre, LeafLabelled
<1>4. /\ DOMAIN M = DOMAIN u \cup {cell} /\ M[cell] = Child(L[s], c)
      /\ \A x \in DOMAIN u : M[x] = L[x]
  BY <1>1, <1>3 DEF LeafOf
<1>5. v \in Int /\ v < 0
  BY FreeIs DEF DaHolds, Frees
<1>6. /\ DOMAIN A = {L[x] : x \in DOMAIN u}
      /\ \A x \in DOMAIN u : A[L[x]] = Mark(u[x].base)
  BY DEF Marked
<1>7. B = [m \in DOMAIN B |-> B[m]] /\ DOMAIN B = DOMAIN A \cup {Child(L[s], c)}
  BY DEF WithLeaf
<1>8. DOMAIN B = {M[x] : x \in DOMAIN w}
  <2> HIDE DEF w, M, B
  <2> QED BY <1>2, <1>4, <1>6, <1>7
<1>9. B[M[cell]] = Mark(w[cell].base)
  <2>1. B[Child(L[s], c)] = v
    BY DEF WithLeaf
  <2>2. Mark(v) = v
    BY <1>5 DEF Mark
  <2> HIDE DEF w, M, B, v
  <2> QED BY <1>2, <1>4, <2>1, <2>2
<1>10. ASSUME NEW x \in DOMAIN u PROVE B[M[x]] = Mark(w[x].base)
  <2>1. L[x] \in DOMAIN A /\ L[x] # Child(L[s], c)
    BY <1>3, <1>6
  <2>2. B[L[x]] = IF L[x] = L[s] THEN 1 ELSE A[L[x]]
    BY <2>1 DEF WithLeaf
  <2>3. L[x] = L[s] => x = s
    BY <1>3
  <2>4. Mark(u[s].base) = 1
    <3>1. u[s].base \in Int
      BY NodesAre
    <3> QED BY <3>1 DEF Mark
  <2> HIDE DEF w, M, B
  <2> QED BY <1>2, <1>4, <1>6, <2>2, <2>3, <2>4
<1>11. \A x \in DOMAIN w : B[M[x]] = Mark(w[x].base)
  <2> HIDE DEF w, M, B
  <2> QED BY <1>2, <1>9, <1>10
<1>12. Marked(w, M, B)
  <2> HIDE DEF w, M, B
  <2> QED BY <1>7, <1>8, <1>11 DEF Marked
<1> QED BY <1>5, <1>12

(***************************************************************************)
(* A new base                                                              *)
(***************************************************************************)
Rebased(u, s, v) == [x \in DOMAIN u |-> IF x = s THEN [base |-> v, check |-> u[x].check] ELSE u[x]]

\* What a node with a new base is.
LEMMA RebasedIs ==
  ASSUME NEW u, NEW s \in DOMAIN u, NEW v
  PROVE  LET w == Rebased(u, s, v) IN
         /\ DOMAIN w = DOMAIN u /\ w = [x \in DOMAIN w |-> w[x]]
         /\ w[s].base = v /\ w[s] = [base |-> v, check |-> u[s].check]
         /\ \A x \in DOMAIN u : w[x].check = u[x].check
         /\ \A x \in DOMAIN u : x # s => w[x] = u[x]
  BY DEF Rebased

\* Only the node is changed (da_set_base).
LEMMA SetBaseHolds ==
  ASSUME NEW d, NEW u, DaHolds(d, u), NEW s \in DOMAIN u, NEW v \in Int
  PROVE  /\ DaHolds(da_set_base(d, s, v), Rebased(u, s, v))
         /\ num_cells(da_set_base(d, s, v)) = num_cells(d)
<1> DEFINE n == num_cells(d)
           w == Rebased(u, s, v)
           g == da_set_base(d, s, v)
<1>1. /\ n \in Nat /\ n >= 3 /\ d \in [0 .. n - 1 -> Cell] /\ AreNodes(n, u) /\ s \in 2 .. n - 1 /\ s < n
      /\ \A x \in DOMAIN u : d[x] = u[x] /\ u[x] \in Cell /\ u[x].check \in Int /\ u[x].check >= 0
  BY NodesAre
<1>2. /\ DOMAIN w = DOMAIN u /\ w = [x \in DOMAIN w |-> w[x]]
      /\ w[s].base = v /\ w[s] = [base |-> v, check |-> u[s].check]
      /\ \A x \in DOMAIN u : w[x].check = u[x].check
      /\ \A x \in DOMAIN u : x # s => w[x] = u[x]
  BY RebasedIs
<1>3. g = [d EXCEPT ![s].base = v]
  <2> HIDE DEF n
  <2>1. s < num_cells(d)
    BY <1>1 DEF n
  <2> QED BY <2>1 DEF da_set_base
<1>4. g = SetBase(d, s, v)
  BY <1>3 DEF SetBase
<1>5. BaseIs(SetBase(d, s, v), d, n, s, v)
  <2> HIDE DEF n
  <2>1. s \in 0 .. n - 1
    BY <1>1
  <2> QED BY <1>1, <2>1, BaseSet
<1>6. /\ g \in [0 .. n - 1 -> Cell] /\ g[s].base = v /\ g[s].check = d[s].check
      /\ \A x \in 0 .. n - 1 : x # s => g[x] = d[x]
  BY <1>4, <1>5 DEF BaseIs
<1> HIDE DEF n, w, g
<1>7. w[s] \in Cell /\ \A x \in DOMAIN u : w[x] \in Cell
  <2>1. w[s] \in Cell
    BY <1>1, <1>2 DEF Cell
  <2> QED BY <1>1, <1>2, <2>1
<1>8. AreNodes(n, w)
  <2>1. DOMAIN u \subseteq ROOT .. n - 1 /\ ROOT \in DOMAIN u
    BY <1>1 DEF AreNodes
  <2>2. w \in [DOMAIN w -> Cell]
    BY <1>2, <1>7
  <2> QED BY <1>1, <1>2, <2>1, <2>2 DEF AreNodes
<1>9. g[s] = w[s]
  <2>1. s \in 0 .. n - 1
    BY <1>1
  <2>2. g[s] \in Cell
    BY <1>6, <2>1
  <2>3. g[s].base = w[s].base /\ g[s].check = w[s].check
    BY <1>1, <1>2, <1>6
  <2> QED BY <1>7, <2>2, <2>3 DEF Cell
<1>10. \A x \in DOMAIN u : g[x] = w[x]
  <2>1. ASSUME NEW x \in DOMAIN u, x # s PROVE g[x] = w[x]
    <3>1. x \in 0 .. n - 1
      BY <1>1, NodesAre DEF n
    <3> QED BY <1>1, <1>2, <1>6, <2>1, <3>1
  <2> QED BY <1>9, <2>1
<1>11. IsChanged(g, d, n, u, w)
  BY <1>2, <1>6, <1>8, <1>10 DEF IsChanged
<1>12. DaIs(g, n, w)
  <2>1. DaIs(d, n, u)
    BY DEF DaHolds, n
  <2> QED BY <1>11, <2>1, ChangedIs
<1> QED BY <1>12, HoldsIs DEF g, w, n

\* A node without children can have any base that has room, or none.
LEMMA RebasedTree ==
  ASSUME NEW d, NEW u, DaHolds(d, u), Tree(u), NEW s \in DOMAIN u, \A x \in DOMAIN u : u[x].check # s,
         NEW v \in Int, v <= 0 \/ v >= 3, s = ROOT => v >= 3
  PROVE  Tree(Rebased(u, s, v))
<1> DEFINE w == Rebased(u, s, v)
<1>1. /\ DOMAIN w = DOMAIN u /\ w = [x \in DOMAIN w |-> w[x]]
      /\ w[s].base = v /\ w[s] = [base |-> v, check |-> u[s].check]
      /\ \A x \in DOMAIN u : w[x].check = u[x].check
      /\ \A x \in DOMAIN u : x # s => w[x] = u[x]
  BY RebasedIs
<1> HIDE DEF w
<1>2. ROOT \in DOMAIN u
  BY NodesAre
<1>3. ASSUME NEW x \in DOMAIN w, x # ROOT PROVE Hangs(w, x)
  <2>1. Hangs(u, x) /\ u[x].check # s
    BY <1>1, <1>3 DEF Tree
  <2> QED BY <1>1, <2>1 DEF Hangs
<1>4. \A x \in DOMAIN w : w[x].base <= 0 \/ w[x].base >= 3
  BY <1>1 DEF Tree
<1>5. w[ROOT].check = 0 /\ w[ROOT].base >= 3
  BY <1>1, <1>2 DEF Tree
<1> QED BY <1>3, <1>4, <1>5 DEF Tree, w

\* Labels and marks of the others stay.
LEMMA RebasedMarked ==
  ASSUME NEW d, NEW u, DaHolds(d, u), Tree(u), NEW L, Labelled(u, L), NEW A, Marked(u, L, A),
         NEW s \in DOMAIN u, \A x \in DOMAIN u : u[x].check # s, NEW v \in Int
  PROVE  /\ Labelled(Rebased(u, s, v), L)
         /\ Marked(Rebased(u, s, v), L, [A EXCEPT ![L[s]] = Mark(v)])
<1> DEFINE w == Rebased(u, s, v)
           B == [A EXCEPT ![L[s]] = Mark(v)]
<1>1. /\ DOMAIN w = DOMAIN u /\ w = [x \in DOMAIN w |-> w[x]]
      /\ w[s].base = v /\ w[s] = [base |-> v, check |-> u[s].check]
      /\ \A x \in DOMAIN u : w[x].check = u[x].check
      /\ \A x \in DOMAIN u : x # s => w[x] = u[x]
  BY RebasedIs
<1>2. /\ A = [l \in DOMAIN A |-> A[l]] /\ DOMAIN A = {L[x] : x \in DOMAIN u}
      /\ \A x \in DOMAIN u : A[L[x]] = Mark(u[x].base)
  BY DEF Marked
<1>3. B = [l \in DOMAIN B |-> B[l]] /\ DOMAIN B = DOMAIN A
      /\ \A l \in DOMAIN A : B[l] = IF l = L[s] THEN Mark(v) ELSE A[l]
  BY <1>2
<1>4. /\ \A x, y \in DOMAIN u : L[x] = L[y] => x = y
      /\ L \in [DOMAIN u -> Labels] /\ L[ROOT] = <<>>
      /\ \A x \in DOMAIN u : x # ROOT => /\ u[x].check \in DOMAIN u
                                         /\ L[x] = Child(L[u[x].check], x - u[u[x].check].base)
  BY LabelsAre DEF Labelled
<1> HIDE DEF w, B
<1>5. \A x \in DOMAIN w : x # ROOT => L[x] = Child(L[w[x].check], x - w[w[x].check].base)
  BY <1>1, <1>4
<1>6. Labelled(w, L)
  BY <1>1, <1>4, <1>5 DEF Labelled
<1>7. \A x \in DOMAIN w : B[L[x]] = Mark(w[x].base)
  BY <1>1, <1>2, <1>3, <1>4
<1>8. Marked(w, L, B)
  BY <1>1, <1>2, <1>3, <1>7 DEF Marked
<1> QED BY <1>6, <1>8 DEF w, B

\* So a node without children can be given a base, or a block of the tail.
LEMMA RebaseBears ==
  ASSUME NEW d, NEW u, NEW L, NEW A, Bearing(d, u, L, A),
         NEW s \in DOMAIN u, \A x \in DOMAIN u : u[x].check # s,
         NEW v \in Int, v <= 0 \/ v >= 3, s = ROOT => v >= 3
  PROVE  /\ Bearing(da_set_base(d, s, v), Rebased(u, s, v), L, [A EXCEPT ![L[s]] = Mark(v)])
         /\ num_cells(da_set_base(d, s, v)) = num_cells(d)
  BY SetBaseHolds, RebasedTree, RebasedMarked DEF Bearing

(***************************************************************************)
(* Children elsewhere                                                      *)
(***************************************************************************)

\* The places, and what nodes are there (da_relocate_base).
AtPlaces(w, u, s, b, f) ==
  /\ f[s] = s /\ f[ROOT] = ROOT
  /\ \A x \in DOMAIN u : f[x] = IF u[x].check = s THEN x - u[s].base + b ELSE x
  /\ \A x, y \in DOMAIN u : f[x] = f[y] => x = y
  /\ DOMAIN w = {f[x] : x \in DOMAIN u}
  /\ w = [z \in DOMAIN w |-> w[z]]
  /\ \A x \in DOMAIN u : /\ f[x] \in DOMAIN w
                         /\ w[f[x]].base = IF x = s THEN b ELSE u[x].base
                         /\ x = ROOT => w[f[x]].check = 0
                         /\ x # ROOT => w[f[x]].check = f[u[x].check]
\* Relocation is one of places.
LEMMA PlacesAre ==
  ASSUME NEW d, NEW u, DaHolds(d, u), Tree(u), NEW s \in DOMAIN u, NEW b, NEW w, IsRelocated(w, u, s, b)
  PROVE  AtPlaces(w, u, s, b, Places(u, s, b)) /\ u[s].check # s
<1> DEFINE f == Places(u, s, b)
<1>1. \A x \in DOMAIN u : f[x] = IF u[x].check = s THEN x - u[s].base + b ELSE x
  BY DEF Places
<1>2. u[s].check # s /\ u[ROOT].check # s /\ ROOT \in DOMAIN u
  <2>1. s \in Int /\ s >= 2 /\ ROOT \in DOMAIN u
    BY NodesAre
  <2>2. u[ROOT].check = 0
    BY DEF Tree
  <2>3. s # ROOT => u[s].check # s
    BY DEF Tree, Hangs
  <2>4. u[ROOT].check # s
    BY <2>1, <2>2
  <2> QED BY <2>1, <2>3, <2>4
<1>3. f[s] = s /\ f[ROOT] = ROOT
  BY <1>1, <1>2
<1>4. /\ \A x, y \in DOMAIN u : f[x] = f[y] => x = y
      /\ w = [z \in DOMAIN w |-> w[z]]
      /\ DOMAIN w = {f[x] : x \in DOMAIN u}
      /\ \A x \in DOMAIN u : /\ f[x] \in DOMAIN w
                             /\ w[f[x]].base = IF x = s THEN b ELSE u[x].base
                             /\ x = ROOT => w[f[x]].check = 0
                             /\ x # ROOT => w[f[x]].check = f[u[x].check]
  BY DEF IsRelocated
<1> HIDE DEF f
<1>5. AtPlaces(w, u, s, b, f)
  BY <1>1, <1>3, <1>4 DEF AtPlaces
<1> QED BY <1>2, <1>5 DEF f

\* Each child is as far from its parent's base as it was.
LEMMA PlacesKeep ==
  ASSUME NEW d, NEW u, DaHolds(d, u), Tree(u), NEW s \in DOMAIN u, NEW b \in Nat, b >= 3,
         NEW w, NEW f, AtPlaces(w, u, s, b, f), NEW x \in DOMAIN u, x # ROOT
  PROVE  LET p == u[x].check IN
         /\ p \in DOMAIN u /\ p # x /\ f[p] \in DOMAIN w
         /\ w[f[x]].check = f[p] /\ f[p] # f[x]
         /\ w[f[p]].base >= 3
         /\ f[x] - w[f[p]].base = x - u[p].base
<1> DEFINE p == u[x].check
<1>1. p \in DOMAIN u /\ p # x /\ u[p].base >= 3
  BY DEF Tree, Hangs
<1>2. u[p].base \in Int /\ u[s].base \in Int /\ x \in Int
  BY <1>1, NodesAre
<1>3. /\ f[x] = IF p = s THEN x - u[s].base + b ELSE x
      /\ f[p] \in DOMAIN w /\ w[f[p]].base = IF p = s THEN b ELSE u[p].base
      /\ w[f[x]].check = f[p]
      /\ f[p] # f[x]
  BY <1>1 DEF AtPlaces
<1> HIDE DEF p
<1>4. w[f[p]].base >= 3 /\ f[x] - w[f[p]].base = x - u[p].base
  <2>1. CASE p = s
    BY <1>2, <1>3, <2>1
  <2>2. CASE p # s
    BY <1>1, <1>3, <2>2
  <2> QED BY <2>1, <2>2
<1> QED BY <1>1, <1>3, <1>4 DEF p

\* It is a tree.
LEMMA PlacesTree ==
  ASSUME NEW d, NEW u, DaHolds(d, u), Tree(u), NEW s \in DOMAIN u, u[s].base > 0, NEW b \in Nat, b >= 3,
         NEW w, NEW f, AtPlaces(w, u, s, b, f)
  PROVE  Tree(w)
<1>1. /\ f[ROOT] = ROOT /\ ROOT \in DOMAIN u
      /\ DOMAIN w = {f[x] : x \in DOMAIN u}
      /\ \A x \in DOMAIN u : w[f[x]].base = IF x = s THEN b ELSE u[x].base
      /\ w[f[ROOT]].check = 0
  BY NodesAre DEF AtPlaces
<1>2. ASSUME NEW x \in DOMAIN u, x # ROOT PROVE Hangs(w, f[x])
  <2> DEFINE p == u[x].check
  <2>1. /\ p \in DOMAIN u /\ f[p] \in DOMAIN w
        /\ w[f[x]].check = f[p] /\ f[p] # f[x]
        /\ w[f[p]].base >= 3
        /\ f[x] - w[f[p]].base = x - u[p].base
    BY <1>2, PlacesKeep
  <2>2. x - u[p].base \in 0 .. TRIE_CHAR_MAX - 1
    BY <1>2 DEF Tree, Hangs
  <2> HIDE DEF p
  <2> QED BY <2>1, <2>2 DEF Hangs
<1>3. \A z \in DOMAIN w : z # ROOT => Hangs(w, z)
  BY <1>1, <1>2
<1>4. \A z \in DOMAIN w : w[z].base <= 0 \/ w[z].base >= 3
  BY <1>1 DEF Tree
<1>5. w[ROOT].check = 0 /\ w[ROOT].base >= 3
  BY <1>1 DEF Tree
<1> QED BY <1>3, <1>4, <1>5 DEF Tree

\* The labels and marks are the same, at other places.
Elsewhere(M, L, u, f) == \A x \in DOMAIN u : f[x] \in DOMAIN M /\ M[f[x]] = L[x]

\* Moving the children of s leaves every label and every mark where its node went.
LEMMA PlacesMarked ==
  ASSUME NEW d, NEW u, DaHolds(d, u), Tree(u), NEW s \in DOMAIN u, u[s].base > 0, NEW b \in Nat, b >= 3,
         NEW w, NEW f, AtPlaces(w, u, s, b, f), NEW L, Labelled(u, L), NEW A, Marked(u, L, A)
  PROVE  \E M : Labelled(w, M) /\ Marked(w, M, A) /\ Elsewhere(M, L, u, f)
<1> DEFINE M == [z \in DOMAIN w |-> L[CHOOSE x \in DOMAIN u : f[x] = z]]
<1>1. /\ f[ROOT] = ROOT /\ ROOT \in DOMAIN u
      /\ DOMAIN w = {f[x] : x \in DOMAIN u}
      /\ \A x, y \in DOMAIN u : f[x] = f[y] => x = y
      /\ \A x \in DOMAIN u : f[x] \in DOMAIN w /\ w[f[x]].base = IF x = s THEN b ELSE u[x].base
  BY NodesAre DEF AtPlaces
<1>2. DOMAIN M = DOMAIN w /\ M = [z \in DOMAIN w |-> M[z]]
  OBVIOUS
<1>3. ASSUME NEW x \in DOMAIN u PROVE M[f[x]] = L[x]
  <2>1. (CHOOSE y \in DOMAIN u : f[y] = f[x]) = x
    BY <1>1
  <2> QED BY <1>1, <2>1
<1> HIDE DEF M
<1>4. /\ L[ROOT] = <<>>
      /\ \A x \in DOMAIN u : L[x] \in Labels
      /\ \A x, y \in DOMAIN u : L[x] = L[y] => x = y
      /\ \A x \in DOMAIN u : x # ROOT => L[x] = Child(L[u[x].check], x - u[u[x].check].base)
  BY LabelsAre
<1>5. M \in [DOMAIN w -> Labels]
  <2>1. \A z \in DOMAIN w : M[z] \in Labels
    BY <1>1, <1>3, <1>4
  <2> QED BY <1>2, <2>1
<1>6. M[ROOT] = <<>>
  BY <1>1, <1>3, <1>4
<1>7. ASSUME NEW x \in DOMAIN u, x # ROOT
      PROVE  M[f[x]] = Child(M[w[f[x]].check], f[x] - w[w[f[x]].check].base)
  <2> DEFINE p == u[x].check
  <2>1. /\ p \in DOMAIN u /\ w[f[x]].check = f[p]
        /\ f[x] - w[f[p]].base = x - u[p].base
    BY <1>7, PlacesKeep
  <2>2. M[f[p]] = L[p] /\ M[f[x]] = L[x]
    BY <1>3, <2>1
  <2>3. L[x] = Child(L[p], x - u[p].base)
    BY <1>4, <1>7
  <2> HIDE DEF p
  <2> QED BY <2>1, <2>2, <2>3
<1>8. \A z \in DOMAIN w : z # ROOT => M[z] = Child(M[w[z].check], z - w[w[z].check].base)
  BY <1>1, <1>7
<1>9. \A y, z \in DOMAIN w : M[y] = M[z] => y = z
  BY <1>1, <1>3, <1>4
<1>10. Labelled(w, M)
  BY <1>5, <1>6, <1>8, <1>9 DEF Labelled
<1>11. /\ A = [l \in DOMAIN A |-> A[l]] /\ DOMAIN A = {L[x] : x \in DOMAIN u}
       /\ \A x \in DOMAIN u : A[L[x]] = Mark(u[x].base)
  BY DEF Marked
<1>12. DOMAIN A = {M[z] : z \in DOMAIN w}
  BY <1>1, <1>3, <1>11
<1>13. ASSUME NEW x \in DOMAIN u PROVE A[M[f[x]]] = Mark(w[f[x]].base)
  <2>1. Mark(b) = 1 /\ Mark(u[s].base) = 1
    BY DEF Mark
  <2>2. A[M[f[x]]] = Mark(u[x].base) /\ w[f[x]].base = IF x = s THEN b ELSE u[x].base
    BY <1>1, <1>3, <1>11
  <2>3. CASE x = s
    BY <2>1, <2>2, <2>3
  <2>4. CASE x # s
    BY <2>2, <2>4
  <2> QED BY <2>3, <2>4
<1>14. \A z \in DOMAIN w : A[M[z]] = Mark(w[z].base)
  BY <1>1, <1>13
<1>15. Marked(w, M, A)
  BY <1>11, <1>12, <1>14 DEF Marked
<1>16. Elsewhere(M, L, u, f)
  BY <1>1, <1>2, <1>3 DEF Elsewhere
<1> QED BY <1>10, <1>15, <1>16

(***************************************************************************)
(* Branches (da_insert_branch)                                             *)
(***************************************************************************)

\* M has the nodes of L, and perhaps more.
Extends(M, L) == \A x \in DOMAIN L : x \in DOMAIN M /\ M[x] = L[x]
Attaching(d, s, cell) == [da_alloc_cell(d, cell) EXCEPT ![cell].check = s]
\* g is an array with the tree A and a child of s for c at next.
IsAttached(g, next, L, A, s, c) ==
  /\ Child(L[s], c) \notin DOMAIN A
  /\ \E M : \E v \in Int : /\ v < 0 /\ Bears(g, M, WithLeaf(A, L[s], c, v)) /\ Extends(M, L)
                           /\ next \in DOMAIN M /\ M[next] = Child(L[s], c)
\* The free cell for c becomes the child (da_alloc_cell, da_set_check).
LEMMA AttachIs ==
  ASSUME NEW d, NEW u, NEW L, NEW A, Bearing(d, u, L, A), NEW s \in DOMAIN u, u[s].base >= 3,
         NEW c \in Chars, u[s].base + c \in Frees(d, u)
  PROVE  IsAttached(Attaching(d, s, u[s].base + c), u[s].base + c, L, A, s, c)
<1> DEFINE n == num_cells(d)
           cell == u[s].base + c
           v == [base |-> d[cell].base, check |-> s]
           w == LeafIn(d, u, s, cell)
           M == LeafOf(L, s, cell, c)
           B == WithLeaf(A, L[s], c, d[cell].base)
           g == Attaching(d, s, cell)
<1>1. /\ DaHolds(d, u) /\ Tree(u) /\ Labelled(u, L) /\ Marked(u, L, A)
  BY DEF Bearing
<1>2. Tree(w) /\ Labelled(w, M) /\ Marked(w, M, B) /\ d[cell].base \in Int /\ d[cell].base < 0
  BY <1>1, LeafTree, LeafLabelled, LeafMarked
<1>3. s \in Int /\ s >= 0 /\ cell \in Frees(d, u)
  BY <1>1, NodesAre
<1>4. /\ DaIs([da_alloc_cell(d, cell) EXCEPT ![cell] = v], n, With(u, cell, v))
      /\ cell \in 3 .. n - 1 /\ da_alloc_cell(d, cell) \in [0 .. n - 1 -> Cell]
      /\ da_alloc_cell(d, cell)[cell] = d[cell]
  <2>1. v \in Cell /\ v.check >= 0
    BY <1>2, <1>3 DEF Cell
  <2>2. DaIs(d, n, u) /\ cell \in FreeOf(n, u)
    BY <1>1, <1>3 DEF DaHolds, Frees
  <2> HIDE DEF v, n, cell
  <2> QED BY <2>1, <2>2, TakeIs
<1>5. g = [da_alloc_cell(d, cell) EXCEPT ![cell] = v]
  <2> DEFINE a == da_alloc_cell(d, cell)
  <2>1. a \in [0 .. n - 1 -> Cell] /\ a[cell] = d[cell] /\ cell \in 0 .. n - 1
    <3>1. n \in Nat
      BY <1>1, NodesAre
    <3> HIDE DEF n, cell
    <3> QED BY <1>4, <3>1
  <2>2. g = [a EXCEPT ![cell] = [a[cell] EXCEPT !.check = s]]
    BY DEF Attaching
  <2>3. [a[cell] EXCEPT !.check = s] = v
    <3>1. a[cell] \in Cell
      BY <2>1
    <3>2. [a[cell] EXCEPT !.check = s] = [base |-> a[cell].base, check |-> s]
      BY <3>1 DEF Cell
    <3> QED BY <2>1, <3>2
  <2> QED BY <2>2, <2>3
<1>6. DaHolds(g, w)
  <2>1. w = With(u, cell, v)
    BY DEF LeafIn
  <2> HIDE DEF g, w, v, n, cell
  <2> QED BY <1>4, <1>5, <2>1, HoldsIs
<1>7. Bears(g, M, B)
  <2> HIDE DEF g, w, M, B
  <2> QED BY <1>2, <1>6 DEF Bears, Bearing
<1>8. cell \notin DOMAIN u /\ DOMAIN L = DOMAIN u
  <2> HIDE DEF cell
  <2> QED BY <1>1, <1>3, FreeCellIs, LabelsAre
<1>9. Extends(M, L) /\ cell \in DOMAIN M /\ M[cell] = Child(L[s], c)
  <2> HIDE DEF cell
  <2> QED BY <1>8 DEF Extends, LeafOf
<1>10. Child(L[s], c) \notin DOMAIN A
  <2>1. \A x \in DOMAIN u : L[x] # Child(L[s], c)
    BY <1>1, <1>3, LeafLabelled
  <2> QED BY <1>1, <2>1 DEF Marked
<1> HIDE DEF g, M, B, cell
<1> QED BY <1>2, <1>7, <1>9, <1>10 DEF IsAttached, g, cell, B

\* An array that was extended has the tree still.
LEMMA GrownBears ==
  ASSUME NEW d, NEW u, NEW L, NEW A, Bearing(d, u, L, A), NEW e, Grown(d, e, u)
  PROVE  Bearing(e, u, L, A)
  BY DEF Bearing, Grown

\* r is the array and the child of s for c: the tree is as it was, or has a leaf more.
IsInserted(r, d, L, A, s, c) ==
  \/ r.next = TRIE_INDEX_ERROR /\ Bears(r.d, L, A)
  \/ /\ r.next # TRIE_INDEX_ERROR
     /\ r.d = d /\ r.next \in DOMAIN L /\ L[r.next] = Child(L[s], c)
  \/ /\ r.next # TRIE_INDEX_ERROR /\ Child(L[s], c) \notin DOMAIN A
     /\ \E M : \E v \in Int :
          /\ v < 0 /\ Bears(r.d, M, WithLeaf(A, L[s], c, v))
          /\ r.next \in DOMAIN M /\ M[r.next] = Child(L[s], c)
          /\ s \in DOMAIN M /\ M[s] = L[s]
          /\ A[L[s]] <= 0 => Extends(M, L)

\* Marks do not see where children are.
LEMMA MarkedAgain ==
  ASSUME NEW d, NEW u, NEW L, NEW A, Bearing(d, u, L, A), NEW s \in DOMAIN u,
         NEW c, NEW v, NEW b \in Nat, b >= 3
  PROVE  /\ WithLeaf([A EXCEPT ![L[s]] = Mark(b)], L[s], c, v) = WithLeaf(A, L[s], c, v)
         /\ DOMAIN [A EXCEPT ![L[s]] = Mark(b)] = DOMAIN A
<1> DEFINE B == [A EXCEPT ![L[s]] = Mark(b)]
<1>1. A = [l \in DOMAIN A |-> A[l]]
  BY DEF Bearing, Marked
<1>2. DOMAIN B = DOMAIN A /\ \A l \in DOMAIN A : l # L[s] => B[l] = A[l]
  BY <1>1
<1> HIDE DEF B
<1>3. WithLeaf(B, L[s], c, v) = WithLeaf(A, L[s], c, v)
  BY <1>2 DEF WithLeaf
<1> QED BY <1>2, <1>3 DEF B

\* What is attached after the parent's base has been set is inserted.
LEMMA AttachedIsInserted ==
  ASSUME NEW d, NEW u, NEW L, NEW A, Bearing(d, u, L, A), NEW s \in DOMAIN u, NEW c \in Chars,
         NEW b \in Nat, b >= 3, NEW B, B = A \/ B = [A EXCEPT ![L[s]] = Mark(b)],
         NEW M, s \in DOMAIN M, M[s] = L[s], A[L[s]] <= 0 => M = L,
         NEW e, NEW g, NEW next \in Int, next # 0, IsAttached(g, next, M, B, s, c)
  PROVE  IsInserted([d |-> g, next |-> next], e, L, A, s, c)
<1>1. /\ Child(L[s], c) \notin DOMAIN B
      /\ \E N : \E v \in Int :
           /\ v < 0 /\ Bears(g, N, WithLeaf(B, L[s], c, v)) /\ Extends(N, M)
           /\ next \in DOMAIN N /\ N[next] = Child(L[s], c)
  BY DEF IsAttached
<1>2. PICK N : \E v \in Int :
           /\ v < 0 /\ Bears(g, N, WithLeaf(B, L[s], c, v)) /\ Extends(N, M)
           /\ next \in DOMAIN N /\ N[next] = Child(L[s], c)
  BY <1>1
<1>9. PICK v \in Int :
           /\ v < 0 /\ Bears(g, N, WithLeaf(B, L[s], c, v)) /\ Extends(N, M)
           /\ next \in DOMAIN N /\ N[next] = Child(L[s], c)
  BY <1>2
<1>3. WithLeaf(B, L[s], c, v) = WithLeaf(A, L[s], c, v) /\ DOMAIN B = DOMAIN A
  <2>1. CASE B = A
    BY <2>1
  <2>2. CASE B = [A EXCEPT ![L[s]] = Mark(b)]
    <3> DEFINE B1 == [A EXCEPT ![L[s]] = Mark(b)]
    <3>1. WithLeaf(B1, L[s], c, v) = WithLeaf(A, L[s], c, v) /\ DOMAIN B1 = DOMAIN A
      BY MarkedAgain
    <3> QED BY <2>2, <3>1
  <2> QED BY <2>1, <2>2
<1>4. s \in DOMAIN N /\ N[s] = L[s] /\ (A[L[s]] <= 0 => Extends(N, L))
  BY <1>9 DEF Extends
<1> DEFINE r == [d |-> g, next |-> next]
<1>5. r.d = g /\ r.next = next
  OBVIOUS
<1> HIDE DEF r
<1>6. IsInserted(r, e, L, A, s, c)
  BY <1>1, <1>9, <1>3, <1>4, <1>5 DEF IsInserted, TRIE_INDEX_ERROR
<1> QED BY <1>6 DEF r

\* A failed insertion leaves the tree.
LEMMA FailedIsInserted ==
  ASSUME NEW d, NEW u, NEW L, NEW A, Bearing(d, u, L, A), NEW s, NEW c, NEW e, Grown(d, e, u)
  PROVE  IsInserted([d |-> e, next |-> TRIE_INDEX_ERROR], d, L, A, s, c)
<1> DEFINE r == [d |-> e, next |-> TRIE_INDEX_ERROR]
<1>1. r.d = e /\ r.next = TRIE_INDEX_ERROR
  OBVIOUS
<1>2. Bears(e, L, A)
  BY GrownBears DEF Bears
<1> HIDE DEF r
<1>3. IsInserted(r, d, L, A, s, c)
  BY <1>1, <1>2 DEF IsInserted
<1> QED BY <1>3 DEF r

\* The first child of a node.
LEMMA InsertFirst ==
  ASSUME NEW d, NEW u, NEW L, NEW A, Bearing(d, u, L, A), NEW s \in DOMAIN u, NEW c \in Chars,
         u[s].base <= 0
  PROVE  IsInserted(da_insert_branch(d, s, c), d, L, A, s, c)
<1> DEFINE f == da_find_free_base(d, {c})
           e == da_set_base(f.d, s, f.base)
           w == Rebased(u, s, f.base)
<1>1. /\ DaHolds(d, u) /\ Tree(u) /\ Labelled(u, L) /\ Marked(u, L, A)
  BY DEF Bearing
<1>2. /\ u[s].base \in Int /\ da_get_base(d, s) = u[s].base /\ s # ROOT
      /\ \A x \in DOMAIN u : u[x].check # s
  <2>1. u[s].base \in Int /\ da_get_base(d, s) = u[s].base /\ u[s].base < 3
    BY <1>1, NodesAre
  <2>2. KidsNear(u, s)
    BY <1>1, TreeKids
  <2> QED BY <1>1, <2>1, <2>2 DEF Tree, KidsNear
<1>3. da_insert_branch(d, s, c) =
        IF f.base = TRIE_INDEX_ERROR THEN [d |-> f.d, next |-> TRIE_INDEX_ERROR]
        ELSE [d |-> Attaching(e, s, f.base + c), next |-> f.base + c]
  <2>1. symbols_add({}, c) = {c}
    BY DEF symbols_add
  <2>2. da_get_base(d, s) <= 0 /\ ~(da_get_base(d, s) > 0)
    BY <1>2
  <2> QED BY ONLY <2>1, <2>2, ZenonT(60) DEF da_insert_branch, Attaching
<1>4. IsRoom(f, d, u, {c})
  <2>1. {c} \in SUBSET (0 .. TRIE_CHAR_MAX) /\ {c} # {}
    BY TrieDefsAssumption DEF Chars
  <2> QED BY <1>1, <2>1, FindFreeBaseIs
<1>5. /\ Grown(d, f.d, u) /\ f.base \in Nat
      /\ f.base # TRIE_INDEX_ERROR => f.base >= 3 /\ f.base + c \in Frees(f.d, u)
  BY <1>4 DEF IsRoom
<1> HIDE DEF f, e, w
<1>6. CASE f.base = TRIE_INDEX_ERROR
  BY <1>3, <1>5, <1>6, FailedIsInserted
<1>7. CASE f.base # TRIE_INDEX_ERROR
  <2>1. Bearing(f.d, u, L, A) /\ f.base \in Int /\ f.base >= 3
    BY <1>5, <1>7, GrownBears
  <2>2. /\ Bearing(e, w, L, [A EXCEPT ![L[s]] = Mark(f.base)])
        /\ num_cells(e) = num_cells(f.d)
    BY <1>2, <2>1, RebaseBears, SMTT(60) DEF e, w
  <2>3. DOMAIN w = DOMAIN u /\ w[s].base = f.base
    BY DEF w, Rebased
  <2>4. f.base + c \in Frees(e, w)
    BY <1>5, <1>7, <2>2, <2>3 DEF Frees, FreeOf
  <2>5. IsAttached(Attaching(e, s, f.base + c), f.base + c, L, [A EXCEPT ![L[s]] = Mark(f.base)], s, c)
    BY <2>1, <2>2, <2>3, <2>4, AttachIs
  <2>6. f.base + c \in Int /\ f.base + c # 0
    <3>1. c \in Nat
      BY TrieDefsAssumption DEF Chars
    <3> QED BY <2>1, <3>1
  <2>7. s \in DOMAIN L
    BY <1>1, LabelsAre
  <2>8. IsInserted([d |-> Attaching(e, s, f.base + c), next |-> f.base + c], d, L, A, s, c)
    BY <1>5, <2>1, <2>5, <2>6, <2>7, AttachedIsInserted
  <2> QED BY <1>3, <1>7, <2>8
<1> QED BY <1>6, <1>7

\* After relocation the cell for the new child is still free.
LEMMA RoomAfterMove ==
  ASSUME NEW d, NEW u, DaHolds(d, u), Tree(u), NEW s \in DOMAIN u, u[s].base > 0, NEW b \in Nat, b >= 3,
         NEW w, IsRelocated(w, u, s, b), NEW e, DaHolds(e, w), num_cells(e) = num_cells(d),
         NEW c \in Int, b + c \in Frees(d, u),
         \A x \in DOMAIN u : ~(u[x].check = s /\ x = u[s].base + c)
  PROVE  b + c \in Frees(e, w) /\ s \in DOMAIN w /\ w[s].base = b
<1> DEFINE f == Places(u, s, b)
<1>1. AtPlaces(w, u, s, b, f)
  BY PlacesAre
<1>2. /\ f[s] = s /\ DOMAIN w = {f[x] : x \in DOMAIN u} /\ f[s] \in DOMAIN w /\ w[f[s]].base = b
      /\ \A x \in DOMAIN u : f[x] = IF u[x].check = s THEN x - u[s].base + b ELSE x
  BY <1>1 DEF AtPlaces
<1> HIDE DEF f
<1>3. u[s].base \in Int /\ \A x \in DOMAIN u : x \in Int
  BY NodesAre
<1>4. b + c \notin DOMAIN u
  BY FreeCellIs
<1>5. ASSUME NEW x \in DOMAIN u PROVE f[x] # b + c
  <2>1. CASE u[x].check = s
    <3>1. f[x] = x - u[s].base + b /\ x # u[s].base + c
      BY <1>2, <2>1
    <3> QED BY <1>3, <3>1
  <2>2. CASE u[x].check # s
    BY <1>2, <1>4, <2>2
  <2> QED BY <2>1, <2>2
<1>6. b + c \notin DOMAIN w
  BY <1>2, <1>5
<1>7. b + c \in Frees(e, w)
  BY <1>6 DEF Frees, FreeOf
<1> QED BY <1>2, <1>7

\* Whether the cell for c is a child of s (da_walk, da_insert_branch).
LEMMA ChildTested ==
  ASSUME NEW d, NEW u, DaHolds(d, u), NEW s \in DOMAIN u, u[s].base >= 3, NEW c \in Chars
  PROVE  LET x == u[s].base + c IN
         /\ x \in Nat /\ x # 0
         /\ da_get_check(d, x) = s <=> x \in DOMAIN u /\ u[x].check = s
<1> DEFINE x == u[s].base + c
           n == num_cells(d)
<1>1. x \in Nat /\ x >= 3 /\ s \in Int /\ s >= 2
  <2>1. u[s].base \in Int /\ s \in Int /\ s >= 2
    BY NodesAre
  <2>2. c \in Nat
    BY TrieDefsAssumption DEF Chars
  <2> QED BY <2>1, <2>2
<1>2. DaIs(d, n, u) /\ IsArray(d, n) /\ n \in Nat /\ \A y \in DOMAIN u : d[y] = u[y] /\ y < n
  BY NodesAre DEF DaHolds, DaIs
<1>3. ASSUME x >= n PROVE da_get_check(d, x) = s <=> x \in DOMAIN u /\ u[x].check = s
  <2>1. da_get_check(d, x) = 0
    BY <1>1, <1>2, <1>3, ArrayIs DEF TRIE_INDEX_ERROR
  <2>2. x \notin DOMAIN u /\ s # 0
    BY <1>1, <1>2, <1>3
  <2> HIDE DEF x, n
  <2> QED BY <2>1, <2>2
<1>4. ASSUME x < n PROVE da_get_check(d, x) = s <=> x \in DOMAIN u /\ u[x].check = s
  <2>1. da_get_check(d, x) = d[x].check /\ d[x].check \in Int
    <3>1. x \in 0 .. n - 1
      BY <1>1, <1>2, <1>4
    <3> HIDE DEF x, n
    <3> QED BY <1>2, <3>1, ArrayIs
  <2>2. x \notin DOMAIN u => d[x].check < 0
    BY <1>1, <1>4, UnusedIsFree
  <2>3. x \in DOMAIN u => d[x] = u[x]
    BY <1>2
  <2>4. s >= 0 /\ s \in Int
    BY <1>1
  <2> HIDE DEF x, n
  <2> QED BY <2>1, <2>2, <2>3, <2>4
<1>5. x < n \/ x >= n
  BY <1>1, <1>2
<1> HIDE DEF x, n
<1>6. x # 0
  BY <1>1
<1> QED BY <1>1, <1>3, <1>4, <1>5, <1>6 DEF x

\* The children of s and the one for c have room at f.base: the move, and the child.
LEMMA InsertMoving ==
  ASSUME NEW d, NEW u, NEW L, NEW A, Bearing(d, u, L, A), NEW s \in DOMAIN u, NEW c \in Chars,
         u[s].base > 0, \A x \in DOMAIN u : ~(u[x].check = s /\ x = u[s].base + c),
         NEW g, Grown(d, g, u), NEW b \in Nat, b >= 3,
         \A e \in da_output_symbols(d, s) \cup {c} : b + e \in Frees(g, u)
  PROVE  IsInserted([d |-> Attaching(da_relocate_base(g, s, b), s, b + c), next |-> b + c], d, L, A, s, c)
<1> DEFINE r == da_relocate_base(g, s, b)
<1>1. /\ DaHolds(d, u) /\ Tree(u) /\ Labelled(u, L) /\ Marked(u, L, A) /\ DaHolds(g, u)
  BY DEF Bearing, Grown
<1>2. HasRoom(g, u, s, b)
  <2>1. ASSUME NEW x \in DOMAIN u, u[x].check = s PROVE x - u[s].base + b \in Frees(g, u)
    <3>1. x \in Int /\ u[s].base \in Int
      BY <1>1, NodesAre
    <3>2. x - u[s].base \in Int /\ u[s].base + (x - u[s].base) = x
      BY <3>1
    <3>3. KidsNear(u, s)
      BY <1>1, TreeKids
    <3>4. x - u[s].base \in da_output_symbols(d, s)
      BY <1>1, <2>1, <3>2, <3>3, OutputIs
    <3>5. b + (x - u[s].base) \in Frees(g, u)
      BY <3>4
    <3>6. b + (x - u[s].base) = x - u[s].base + b
      BY <3>1
    <3> QED BY <3>5, <3>6
  <2> QED BY <2>1 DEF HasRoom
<1>3. PICK w : DaHolds(r, w) /\ num_cells(r) = num_cells(g) /\ IsRelocated(w, u, s, b)
  BY <1>1, <1>2, RelocateIs
<1> HIDE DEF r
<1> DEFINE f == Places(u, s, b)
<1>4. AtPlaces(w, u, s, b, f)
  BY <1>1, <1>3, PlacesAre
<1>5. f[s] = s
  BY <1>4 DEF AtPlaces
<1> HIDE DEF f
<1>6. Tree(w)
  BY <1>1, <1>4, PlacesTree
<1>7. PICK M : Labelled(w, M) /\ Marked(w, M, A) /\ Elsewhere(M, L, u, f)
  BY <1>1, <1>4, PlacesMarked
<1>8. Bearing(r, w, M, A) /\ s \in DOMAIN M /\ M[s] = L[s]
  BY <1>3, <1>5, <1>6, <1>7 DEF Bearing, Elsewhere
<1>9. c \in Int /\ c >= 0 /\ b + c \in Frees(g, u)
  BY TrieDefsAssumption DEF Chars
<1>10. b + c \in Frees(r, w) /\ s \in DOMAIN w /\ w[s].base = b
  BY <1>1, <1>3, <1>9, RoomAfterMove
<1>11. IsAttached(Attaching(r, s, b + c), b + c, M, A, s, c)
  BY <1>8, <1>10, AttachIs
<1>12. ~(A[L[s]] <= 0)
  <2>1. A[L[s]] = Mark(u[s].base)
    BY <1>1 DEF Marked
  <2> QED BY <2>1 DEF Mark
<1>13. b + c \in Int /\ b + c # 0
  BY <1>9
<1>14. IsInserted([d |-> Attaching(r, s, b + c), next |-> b + c], d, L, A, s, c)
  BY <1>8, <1>11, <1>12, <1>13, AttachedIsInserted
<1> QED BY <1>14 DEF r

\* Another child: it is there, or its cell is free, or all children move.
LEMMA InsertMore ==
  ASSUME NEW d, NEW u, NEW L, NEW A, Bearing(d, u, L, A), NEW s \in DOMAIN u, NEW c \in Chars,
         u[s].base > 0
  PROVE  IsInserted(da_insert_branch(d, s, c), d, L, A, s, c)
<1> DEFINE base == u[s].base
           t == FreeCellFor(d, base, c)
           f == da_find_free_base(t.d, symbols_add(da_output_symbols(d, s), c))
           r == IF t.ok THEN [d |-> Attaching(t.d, s, base + c), next |-> base + c]
                ELSE IF f.base = TRIE_INDEX_ERROR THEN [d |-> f.d, next |-> TRIE_INDEX_ERROR]
                ELSE [d |-> Attaching(da_relocate_base(f.d, s, f.base), s, f.base + c),
                      next |-> f.base + c]
<1>1. /\ DaHolds(d, u) /\ Tree(u) /\ Labelled(u, L) /\ Marked(u, L, A)
  BY DEF Bearing
<1>2. /\ base \in Nat /\ base >= 3 /\ da_get_base(d, s) = base /\ KidsNear(u, s) /\ c \in Nat /\ s \in Int /\ s >= 2
      /\ DOMAIN L = DOMAIN u
  <2>1. base \in Int /\ da_get_base(d, s) = base /\ s \in Int /\ s >= 2
    BY <1>1, NodesAre
  <2>2. KidsNear(u, s)
    BY <1>1, TreeKids
  <2>3. base >= 3
    BY <2>1, <2>2 DEF KidsNear
  <2>4. c \in Nat
    BY TrieDefsAssumption DEF Chars
  <2> QED BY <1>1, <2>1, <2>2, <2>3, <2>4, LabelsAre
<1>3. da_insert_branch(d, s, c) =
        IF da_get_check(d, base + c) = s THEN [d |-> d, next |-> base + c] ELSE r
  <2>1. da_get_base(d, s) > 0 /\ ~(da_get_base(d, s) <= 0) /\ da_get_base(d, s) = base
    BY <1>2
  <2> HIDE DEF base
  <2> QED BY ONLY <2>1, ZenonT(60) DEF da_insert_branch, Attaching
<1>4. da_get_check(d, base + c) = s <=> base + c \in DOMAIN u /\ u[base + c].check = s
  BY <1>1, <1>2, ChildTested
<1>5. CASE da_get_check(d, base + c) = s
  <2>1. base + c \in DOMAIN L /\ L[base + c] = Child(L[s], c)
    BY <1>1, <1>2, <1>4, <1>5, ChildAt
  <2>2. base + c # 0
    BY <1>2
  <2> DEFINE q == [d |-> d, next |-> base + c]
  <2>3. q.d = d /\ q.next = base + c
    OBVIOUS
  <2> HIDE DEF q, base
  <2>4. IsInserted(q, d, L, A, s, c)
    BY <2>1, <2>2, <2>3 DEF IsInserted, TRIE_INDEX_ERROR
  <2> QED BY <1>3, <1>5, <2>4 DEF q
<1>6. CASE da_get_check(d, base + c) # s
  <2>1. IsTested(t, d, u) /\ (t.ok => base + c \in Frees(t.d, u))
    BY <1>1, <1>2, CellForIs
  <2>2. Grown(d, t.d, u) /\ t.ok \in BOOLEAN
    BY <2>1 DEF IsTested
  <2>3. Bearing(t.d, u, L, A) /\ DaHolds(t.d, u)
    BY <2>2, GrownBears DEF Bearing
  <2>4. CASE t.ok
    <3>1. IsAttached(Attaching(t.d, s, base + c), base + c, L, A, s, c)
      BY <1>2, <2>1, <2>3, <2>4, AttachIs
    <3>2. base + c \in Int /\ base + c # 0
      BY <1>2
    <3> HIDE DEF base, t
    <3>3. IsInserted([d |-> Attaching(t.d, s, base + c), next |-> base + c], d, L, A, s, c)
      BY <1>2, <3>1, <3>2, AttachedIsInserted
    <3> QED BY <1>3, <1>6, <2>4, <3>3
  <2>5. CASE ~t.ok
    <3> DEFINE syms == symbols_add(da_output_symbols(d, s), c)
    <3>1. syms \in SUBSET (0 .. TRIE_CHAR_MAX) /\ syms # {} /\ syms = da_output_symbols(d, s) \cup {c}
      <4>1. da_output_symbols(d, s) \in SUBSET (0 .. TRIE_CHAR_MAX - 1)
        BY <1>1, <1>2, OutputIs
      <4> QED BY <4>1, TrieDefsAssumption DEF symbols_add, Chars
    <3>2. IsRoom(f, t.d, u, syms)
      <4> HIDE DEF syms, t
      <4> QED BY <2>3, <3>1, FindFreeBaseIs DEF syms
    <3> HIDE DEF f
    <3>3. /\ Grown(t.d, f.d, u) /\ f.base \in Nat
          /\ f.base # TRIE_INDEX_ERROR => f.base >= 3 /\ \A e \in syms : f.base + e \in Frees(f.d, u)
      BY <3>2 DEF IsRoom
    <3>4. Grown(d, f.d, u)
      BY <1>1, <2>2, <3>3, GrownTwice
    <3>5. CASE f.base = TRIE_INDEX_ERROR
      <4>1. IsInserted([d |-> f.d, next |-> TRIE_INDEX_ERROR], d, L, A, s, c)
        BY <3>4, FailedIsInserted
      <4> QED BY <1>3, <1>6, <2>5, <3>5, <4>1
    <3>6. CASE f.base # TRIE_INDEX_ERROR
      <4>1. f.base >= 3 /\ \A e \in da_output_symbols(d, s) \cup {c} : f.base + e \in Frees(f.d, u)
        BY <3>1, <3>3, <3>6
      <4>2. \A x \in DOMAIN u : ~(u[x].check = s /\ x = u[s].base + c)
        BY <1>4, <1>6
      <4>3. IsInserted([d |-> Attaching(da_relocate_base(f.d, s, f.base), s, f.base + c),
                        next |-> f.base + c], d, L, A, s, c)
        BY <3>3, <3>4, <4>1, <4>2, InsertMoving
      <4> QED BY <1>3, <1>6, <2>5, <3>6, <4>3
    <3> QED BY <3>5, <3>6
  <2> QED BY <2>4, <2>5
<1> QED BY <1>5, <1>6

\* Inserting a branch gives the child, or leaves the tree (da_insert_branch).
LEMMA InsertIs ==
  ASSUME NEW d, NEW L, NEW A, Bears(d, L, A), NEW s \in DOMAIN L, NEW c \in Chars
  PROVE  IsInserted(da_insert_branch(d, s, c), d, L, A, s, c)
<1>1. PICK u : Bearing(d, u, L, A)
  BY DEF Bears
<1>2. s \in DOMAIN u /\ u[s].base \in Int
  <2>1. s \in DOMAIN u
    BY <1>1, LabelsAre DEF Bearing
  <2> QED BY <1>1, <2>1, NodesAre DEF Bearing
<1> QED BY <1>1, <1>2, InsertFirst, InsertMore

(***************************************************************************)
(* Reading the tree                                                        *)
(***************************************************************************)

\* What a tree is, without its nodes.
IsTree(L, A) ==
  /\ ROOT \in DOMAIN L /\ L[ROOT] = <<>> /\ A = [l \in DOMAIN A |-> A[l]] /\ A[<<>>] = 1
  /\ DOMAIN A = {L[x] : x \in DOMAIN L} /\ DOMAIN A \subseteq Labels /\ IsFiniteSet(DOMAIN L)
  /\ \A x, y \in DOMAIN L : L[x] = L[y] => x = y
  /\ \A x \in DOMAIN L : x \in Int /\ x >= 2
  /\ \A l \in DOMAIN A : A[l] \in Int /\ A[l] <= 1
  /\ \A l \in DOMAIN A : l # <<>> => \E m \in DOMAIN A : \E c \in Chars : l = Child(m, c)
  /\ \A l \in DOMAIN A : \A c \in Chars : Child(l, c) \in DOMAIN A => A[l] = 1

\* An array that bears labels and marks bears a tree of them.
LEMMA BearsIs ==
  ASSUME NEW d, NEW L, NEW A, Bears(d, L, A)
  PROVE  IsTree(L, A)
<1>1. PICK u : Bearing(d, u, L, A)
  BY DEF Bears
<1>2. /\ DaHolds(d, u) /\ Tree(u) /\ Labelled(u, L) /\ Marked(u, L, A)
  BY <1>1 DEF Bearing
<1>3. /\ DOMAIN L = DOMAIN u /\ L[ROOT] = <<>>
      /\ \A x \in DOMAIN u : L[x] \in Labels
      /\ \A x, y \in DOMAIN u : L[x] = L[y] => x = y
      /\ \A x \in DOMAIN u : x # ROOT =>
           /\ u[x].check \in DOMAIN u
           /\ x - u[u[x].check].base \in Chars
           /\ L[x] = Child(L[u[x].check], x - u[u[x].check].base)
  BY <1>2, LabelsAre
<1>4. /\ A = [l \in DOMAIN A |-> A[l]] /\ DOMAIN A = {L[x] : x \in DOMAIN u}
      /\ \A x \in DOMAIN u : A[L[x]] = Mark(u[x].base)
  BY <1>2 DEF Marked
<1>5. /\ ROOT \in DOMAIN u /\ u[ROOT].base >= 3
      /\ \A x \in DOMAIN u : x \in Int /\ x >= 2 /\ u[x].base \in Int
  BY <1>2, NodesAre DEF Tree
<1>6. IsFiniteSet(DOMAIN L)
  <2>1. num_cells(d) \in Nat /\ DOMAIN u \subseteq 2 .. num_cells(d) - 1
    BY <1>2, NodesAre
  <2>2. IsFiniteSet(2 .. num_cells(d) - 1)
    BY <2>1, FS_Interval
  <2> QED BY <1>3, <2>1, <2>2, FS_Subset
<1>7. \A x \in DOMAIN u : Mark(u[x].base) \in Int /\ Mark(u[x].base) <= 1
  BY <1>5 DEF Mark
<1>8. A[<<>>] = 1
  <2>1. Mark(u[ROOT].base) = 1
    BY <1>5 DEF Mark
  <2> QED BY <1>3, <1>4, <1>5, <2>1
<1>9. \A l \in DOMAIN A : l # <<>> => \E m \in DOMAIN A : \E c \in Chars : l = Child(m, c)
  BY <1>3, <1>4
<1>10. ASSUME NEW l \in DOMAIN A, NEW c \in Chars, Child(l, c) \in DOMAIN A PROVE A[l] = 1
  <2>1. PICK s \in DOMAIN u : L[s] = l
    BY <1>4
  <2>2. PICK y \in DOMAIN u : L[y] = Child(l, c)
    BY <1>4, <1>10
  <2>3. u[y].check = s
    BY <1>2, <2>1, <2>2, ChildAt
  <2>4. KidsNear(u, s)
    BY <1>2, TreeKids
  <2>5. Mark(u[s].base) = 1
    BY <1>5, <2>3, <2>4 DEF KidsNear, Mark
  <2> QED BY <1>4, <2>1, <2>5
<1> QED BY <1>3, <1>4, <1>5, <1>6, <1>7, <1>8, <1>9, <1>10 DEF IsTree

\* The base of a node that is separate is its mark (da_get_base).
LEMMA BaseAt ==
  ASSUME NEW d, NEW L, NEW A, Bears(d, L, A), NEW s \in DOMAIN L
  PROVE  /\ da_get_base(d, s) \in Int /\ L[s] \in DOMAIN A
         /\ da_get_base(d, s) < 0 <=> A[L[s]] < 0
         /\ A[L[s]] < 0 => da_get_base(d, s) = A[L[s]]
<1>1. PICK u : Bearing(d, u, L, A)
  BY DEF Bears
<1>2. DaHolds(d, u) /\ Tree(u) /\ Labelled(u, L) /\ Marked(u, L, A)
  BY <1>1 DEF Bearing
<1>3. s \in DOMAIN u
  BY <1>2, LabelsAre
<1>4. da_get_base(d, s) = u[s].base /\ u[s].base \in Int
  BY <1>2, <1>3, NodesAre
<1>5. L[s] \in DOMAIN A /\ A[L[s]] = Mark(u[s].base)
  BY <1>2, <1>3 DEF Marked
<1> QED BY <1>4, <1>5 DEF Mark

\* A step of a walk leads to the child, or nowhere (da_walk).
LEMMA WalkAt ==
  ASSUME NEW d, NEW L, NEW A, Bears(d, L, A), NEW s \in DOMAIN L, A[L[s]] = 1, NEW c \in Chars
  PROVE  IF Child(L[s], c) \in DOMAIN A
         THEN /\ da_walk(d, s, c) \in DOMAIN L /\ da_walk(d, s, c) # TRIE_INDEX_ERROR
              /\ L[da_walk(d, s, c)] = Child(L[s], c)
         ELSE da_walk(d, s, c) = TRIE_INDEX_ERROR
<1>1. PICK u : Bearing(d, u, L, A)
  BY DEF Bears
<1>2. DaHolds(d, u) /\ Tree(u) /\ Labelled(u, L) /\ Marked(u, L, A)
  BY <1>1 DEF Bearing
<1>3. s \in DOMAIN u /\ DOMAIN L = DOMAIN u
  BY <1>2, LabelsAre
<1>4. da_get_base(d, s) = u[s].base /\ u[s].base \in Int
  BY <1>2, <1>3, NodesAre
<1>5. u[s].base >= 3
  <2>1. A[L[s]] = Mark(u[s].base)
    BY <1>2, <1>3 DEF Marked
  <2>2. u[s].base > 0
    BY <1>4, <2>1 DEF Mark
  <2> QED BY <1>2, <1>3, <1>4, <2>2 DEF Tree
<1> DEFINE x == u[s].base + c
<1>6. x # 0 /\ (da_get_check(d, x) = s <=> x \in DOMAIN u /\ u[x].check = s)
  BY <1>2, <1>3, <1>5, ChildTested
<1>7. da_walk(d, s, c) = IF da_get_check(d, x) = s THEN x ELSE TRIE_INDEX_ERROR
  BY <1>4 DEF da_walk
<1>8. \A y \in DOMAIN u : L[y] = Child(L[s], c) <=> u[y].check = s /\ y = x
  BY <1>2, <1>3, ChildAt
<1>9. DOMAIN A = {L[y] : y \in DOMAIN u}
  BY <1>2 DEF Marked
<1> HIDE DEF x
<1> QED BY <1>3, <1>6, <1>7, <1>8, <1>9 DEF TRIE_INDEX_ERROR

\* Whether a node has children (da_has_children).
LEMMA HasChildrenIs ==
  ASSUME NEW d, NEW L, NEW A, Bears(d, L, A), NEW s \in DOMAIN L
  PROVE  da_has_children(d, s) <=> \E c \in Chars : Child(L[s], c) \in DOMAIN A
<1>1. PICK u : Bearing(d, u, L, A)
  BY DEF Bears
<1>2. DaHolds(d, u) /\ Tree(u) /\ Labelled(u, L) /\ Marked(u, L, A)
  BY <1>1 DEF Bearing
<1>3. s \in DOMAIN u /\ DOMAIN L = DOMAIN u
  BY <1>2, LabelsAre
<1>4. da_get_base(d, s) = u[s].base /\ u[s].base \in Int /\ KidsNear(u, s)
  BY <1>2, <1>3, NodesAre, TreeKids
<1>5. /\ DOMAIN A = {L[y] : y \in DOMAIN u}
      /\ \A c \in Chars : \A y \in DOMAIN u : L[y] = Child(L[s], c) <=> u[y].check = s /\ y = u[s].base + c
  <2>1. DOMAIN A = {L[y] : y \in DOMAIN u}
    BY <1>2 DEF Marked
  <2>2. \A c \in Chars : \A y \in DOMAIN u : L[y] = Child(L[s], c) <=> u[y].check = s /\ y = u[s].base + c
    BY <1>2, <1>3, ChildAt
  <2> QED BY <2>1, <2>2
<1>6. CASE u[s].base > 0
  <2>1. /\ da_output_symbols(d, s) \subseteq Chars
        /\ \A c \in Int : c \in da_output_symbols(d, s)
                            <=> u[s].base + c \in DOMAIN u /\ u[u[s].base + c].check = s
    BY <1>2, <1>3, <1>4, <1>6, OutputIs DEF Chars
  <2>2. \A c \in Chars : c \in Int
    BY TrieDefsAssumption DEF Chars
  <2>3. \A c \in Chars : c \in da_output_symbols(d, s) <=> Child(L[s], c) \in DOMAIN A
    BY <1>5, <2>1, <2>2
  <2>4. da_has_children(d, s) <=> da_output_symbols(d, s) # {}
    BY <1>4, <1>6 DEF da_has_children
  <2> QED BY <2>1, <2>3, <2>4
<1>7. CASE ~(u[s].base > 0)
  <2>1. ~da_has_children(d, s)
    BY <1>4, <1>7 DEF da_has_children
  <2>2. \A y \in DOMAIN u : u[y].check # s
    BY <1>4, <1>7 DEF KidsNear
  <2> QED BY <1>5, <2>1, <2>2
<1> QED BY <1>6, <1>7

(***************************************************************************)
(* Pruning (da_prune_upto)                                                 *)
(***************************************************************************)

\* A node without children other than the root can be freed (da_free_cell).
LEMMA FreeBears ==
  ASSUME NEW d, NEW L, NEW A, Bears(d, L, A), NEW s \in DOMAIN L, s # ROOT,
         \A c \in Chars : Child(L[s], c) \notin DOMAIN A
  PROVE  /\ Bears(da_free_cell(d, s), Less(L, s), Less(A, L[s]))
         /\ num_cells(da_free_cell(d, s)) = num_cells(d)
<1>1. PICK u : Bearing(d, u, L, A)
  BY DEF Bears
<1>2. DaHolds(d, u) /\ Tree(u) /\ Labelled(u, L) /\ Marked(u, L, A)
  BY <1>1 DEF Bearing
<1> DEFINE n == num_cells(d)
           w == Less(u, s)
           M == Less(L, s)
           B == Less(A, L[s])
           g == da_free_cell(d, s)
<1>3. /\ DOMAIN L = DOMAIN u /\ L[ROOT] = <<>>
      /\ \A x \in DOMAIN u : L[x] \in Labels
      /\ \A x, y \in DOMAIN u : L[x] = L[y] => x = y
      /\ \A x \in DOMAIN u : x # ROOT =>
           /\ u[x].check \in DOMAIN u
           /\ x - u[u[x].check].base \in Chars
           /\ L[x] = Child(L[u[x].check], x - u[u[x].check].base)
  BY <1>2, LabelsAre
<1>4. /\ A = [l \in DOMAIN A |-> A[l]] /\ DOMAIN A = {L[x] : x \in DOMAIN u}
      /\ \A x \in DOMAIN u : A[L[x]] = Mark(u[x].base)
  BY <1>2 DEF Marked
<1>5. DaHolds(g, w) /\ num_cells(g) = n
  <2>1. DaIs(d, n, u) /\ s \in DOMAIN u
    BY <1>2, <1>3 DEF DaHolds
  <2> HIDE DEF n
  <2>2. DaIs(g, n, w)
    BY <2>1, FreedIs
  <2> HIDE DEF g, w
  <2> QED BY <2>2, HoldsIs
<1>6. \A x \in DOMAIN u : u[x].check # s
  <2>1. ASSUME NEW x \in DOMAIN u, u[x].check = s PROVE FALSE
    <3>1. x # ROOT
      BY <1>2, <1>3, <2>1, TreeKids
    <3>2. L[x] = Child(L[s], x - u[s].base) /\ x - u[s].base \in Chars
      BY <1>3, <2>1, <3>1
    <3> QED BY <1>4, <2>1, <3>2
  <2> QED BY <2>1
<1>7. /\ DOMAIN w = DOMAIN u \ {s} /\ w = [x \in DOMAIN w |-> w[x]]
      /\ \A x \in DOMAIN u : x # s => w[x] = u[x]
  BY DEF Less
<1>8. /\ DOMAIN M = DOMAIN u \ {s} /\ M = [x \in DOMAIN M |-> M[x]]
      /\ \A x \in DOMAIN u : x # s => M[x] = L[x]
  BY <1>3 DEF Less
<1>9. /\ DOMAIN B = DOMAIN A \ {L[s]} /\ B = [l \in DOMAIN B |-> B[l]]
      /\ \A l \in DOMAIN A : l # L[s] => B[l] = A[l]
  BY DEF Less
<1>10. ROOT \in DOMAIN u
  BY <1>2, NodesAre
<1> HIDE DEF n, w, M, B, g
<1>11. Tree(w)
  <2>1. ASSUME NEW x \in DOMAIN w, x # ROOT PROVE Hangs(w, x)
    <3>1. Hangs(u, x) /\ u[x].check # s
      BY <1>2, <1>6, <1>7, <2>1 DEF Tree
    <3> QED BY <1>7, <3>1 DEF Hangs
  <2>2. \A x \in DOMAIN w : w[x].base <= 0 \/ w[x].base >= 3
    BY <1>2, <1>7 DEF Tree
  <2>3. w[ROOT].check = 0 /\ w[ROOT].base >= 3
    BY <1>2, <1>7, <1>10 DEF Tree
  <2> QED BY <2>1, <2>2, <2>3 DEF Tree
<1>12. Labelled(w, M)
  <2>1. M \in [DOMAIN w -> Labels]
    BY <1>3, <1>7, <1>8
  <2>2. M[ROOT] = <<>>
    BY <1>3, <1>8, <1>10
  <2>3. \A x \in DOMAIN w : x # ROOT => M[x] = Child(M[w[x].check], x - w[w[x].check].base)
    BY <1>3, <1>6, <1>7, <1>8
  <2>4. \A x, y \in DOMAIN w : M[x] = M[y] => x = y
    BY <1>3, <1>7, <1>8
  <2> QED BY <2>1, <2>2, <2>3, <2>4 DEF Labelled
<1>13. Marked(w, M, B)
  <2>1. DOMAIN B = {M[x] : x \in DOMAIN w}
    BY <1>3, <1>4, <1>7, <1>8, <1>9
  <2>2. \A x \in DOMAIN w : B[M[x]] = Mark(w[x].base)
    BY <1>3, <1>4, <1>7, <1>8, <1>9
  <2> QED BY <1>9, <2>1, <2>2 DEF Marked
<1> QED BY <1>5, <1>11, <1>12, <1>13 DEF Bears, Bearing, g, M, B, n

\* A without the labels of G, and with only its nodes.
Only(A, S) == [l \in S |-> A[l]]
\* The labels in G are gone, q is the node that pruning has come to; H is what is known of
\* the two.
IsPruned(d, q, G, M, L, A, s, H) ==
  /\ G \subseteq DOMAIN A /\ Bears(d, M, Only(A, DOMAIN A \ G))
  /\ \A x \in DOMAIN M : x \in DOMAIN L /\ M[x] = L[x]
  /\ \A x \in DOMAIN L : L[x] \notin G => x \in DOMAIN M
  /\ q \in DOMAIN M /\ <<G, L[q]>> \in H
  /\ \A l \in DOMAIN A \ G : \A c \in Chars : Child(l, c) \in G => l = L[q]
  /\ \A l \in G : l = L[s] \/ \E c \in Chars : Child(l, c) \in DOMAIN A
  /\ q = s \/ (L[s] \in G /\ \E c \in Chars : Child(L[q], c) \in G)
\* H allows pruning from s up to p.
Allows(H, L, A, s, p) ==
  /\ <<{}, L[s]>> \in H
  /\ \A G \in SUBSET DOMAIN A : <<G, <<>>>> \in H => p = ROOT
  /\ \A G \in SUBSET DOMAIN A : \A l \in DOMAIN A : \A c \in Chars :
       <<G, Child(l, c)>> \in H /\ Child(l, c) # L[p] => <<G \cup {Child(l, c)}, l>> \in H
\* One node more is freed.
LEMMA PruneOneMore ==
  ASSUME NEW d, NEW L, NEW A, Bears(d, L, A), NEW s \in DOMAIN L, NEW p \in DOMAIN L,
         NEW H, Allows(H, L, A, s, p),
         NEW e, NEW q, NEW G, NEW M, IsPruned(e, q, G, M, L, A, s, H),
         q # p, ~da_has_children(e, q)
  PROVE  /\ IsPruned(da_free_cell(e, q), da_get_check(e, q), G \cup {L[q]}, Less(M, q), L, A, s, H)
         /\ IsFiniteSet(DOMAIN M) /\ q \in DOMAIN M
<1> DEFINE B == Only(A, DOMAIN A \ G)
           r == da_get_check(e, q)
           N == Less(M, q)
           K == G \cup {L[q]}
<1>1. /\ G \subseteq DOMAIN A /\ Bears(e, M, B)
      /\ \A x \in DOMAIN M : x \in DOMAIN L /\ M[x] = L[x]
      /\ \A x \in DOMAIN L : L[x] \notin G => x \in DOMAIN M
      /\ q \in DOMAIN M /\ <<G, L[q]>> \in H
      /\ \A l \in DOMAIN A \ G : \A c \in Chars : Child(l, c) \in G => l = L[q]
      /\ \A l \in G : l = L[s] \/ \E c \in Chars : Child(l, c) \in DOMAIN A
      /\ q = s \/ (L[s] \in G /\ \E c \in Chars : Child(L[q], c) \in G)
  BY DEF IsPruned
<1>2. DOMAIN B = DOMAIN A \ G /\ \A l \in DOMAIN A \ G : B[l] = A[l]
  BY DEF Only
<1> HIDE DEF B
<1>3. /\ IsTree(M, B) /\ IsTree(L, A)
  BY <1>1, BearsIs
<1>4. L[q] \in DOMAIN A /\ L[q] \notin G /\ L[q] = M[q]
  <2>1. DOMAIN B = {M[x] : x \in DOMAIN M}
    BY <1>3 DEF IsTree
  <2>2. M[q] \in DOMAIN B
    BY <1>1, <2>1
  <2> QED BY <1>1, <1>2, <2>2
<1>5. \A c \in Chars : Child(L[q], c) \notin DOMAIN B
  BY <1>1, <1>4, HasChildrenIs
<1>6. q # ROOT
  <2>1. ASSUME q = ROOT PROVE FALSE
    <3>1. L[q] = <<>>
      BY <1>3, <2>1 DEF IsTree
    <3>2. p = ROOT
      BY <1>1, <3>1 DEF Allows
    <3> QED BY <2>1, <3>2
  <2> QED BY <2>1
<1>7. Bears(da_free_cell(e, q), N, Less(B, L[q]))
  BY <1>1, <1>4, <1>5, <1>6, FreeBears
<1>8. Less(B, L[q]) = Only(A, DOMAIN A \ K)
  <2>1. DOMAIN B \ {L[q]} = DOMAIN A \ K
    BY <1>2
  <2>2. \A l \in DOMAIN A \ K : B[l] = A[l]
    BY <1>2
  <2> QED BY <2>1, <2>2 DEF Less, Only
<1>9. DOMAIN N = DOMAIN M \ {q} /\ \A x \in DOMAIN M : x # q => N[x] = M[x]
  BY DEF Less
<1>10. r \in DOMAIN M /\ r # q /\ \E c \in Chars : L[q] = Child(L[r], c)
  <2>1. PICK u : Bearing(e, u, M, B)
    BY <1>1 DEF Bears
  <2>2. DaHolds(e, u) /\ Tree(u) /\ Labelled(u, M)
    BY <2>1 DEF Bearing
  <2>3. DOMAIN u = DOMAIN M /\ r = u[q].check
    BY <1>1, <2>2, LabelsAre, NodesAre
  <2>4. u[q].check \in DOMAIN u /\ \E c \in Chars : M[q] = Child(M[u[q].check], c)
    BY <1>1, <1>6, <2>2, <2>3, LabelsAre
  <2>5. u[q].check # q
    BY <1>1, <1>6, <2>2, <2>3 DEF Tree, Hangs
  <2> HIDE DEF r
  <2> QED BY <1>1, <2>3, <2>4, <2>5
<1>11. PICK c0 \in Chars : L[q] = Child(L[r], c0)
  BY <1>10
<1>12. L[r] \in DOMAIN A /\ L[r] \notin K /\ r \in DOMAIN N /\ L[r] \in Labels
  <2>1. r \in DOMAIN L /\ L[r] = M[r] /\ M[r] \in DOMAIN B
    BY <1>1, <1>3, <1>10 DEF IsTree
  <2>2. L[r] # L[q]
    BY <1>1, <1>3, <1>10, <2>1 DEF IsTree
  <2>3. L[r] \in Labels
    BY <1>3, <2>1 DEF IsTree
  <2> HIDE DEF N, r
  <2> QED BY <1>2, <1>9, <1>10, <2>1, <2>2, <2>3
<1>13. <<K, L[r]>> \in H
  <2>1. L[q] # L[p]
    BY <1>1, <1>3 DEF IsTree
  <2>2. G \in SUBSET DOMAIN A /\ <<G, Child(L[r], c0)>> \in H
    BY <1>1, <1>11
  <2> HIDE DEF r
  <2> QED BY <1>11, <1>12, <2>1, <2>2 DEF Allows
<1>14. ASSUME NEW l \in DOMAIN A \ K, NEW c \in Chars, Child(l, c) \in K PROVE l = L[r]
  <2>1. Child(l, c) \notin G
    BY <1>1, <1>14
  <2>2. Child(l, c) = Child(L[r], c0)
    BY <1>11, <1>14, <2>1
  <2>3. l \in Labels
    BY <1>3 DEF IsTree
  <2> HIDE DEF r
  <2> QED BY <1>12, <2>2, <2>3, ChildIs
<1>15. \A l \in K : l = L[s] \/ \E c \in Chars : Child(l, c) \in DOMAIN A
  <2>1. q # s => \E c \in Chars : Child(L[q], c) \in DOMAIN A
    BY <1>1
  <2> QED BY <1>1, <2>1
<1>16. L[s] \in K /\ \E c \in Chars : Child(L[r], c) \in K
  <2> HIDE DEF r
  <2> QED BY <1>1, <1>11
<1>17. /\ \A x \in DOMAIN N : x \in DOMAIN L /\ N[x] = L[x]
       /\ \A x \in DOMAIN L : L[x] \notin K => x \in DOMAIN N
       /\ K \subseteq DOMAIN A
  <2> HIDE DEF N
  <2> QED BY <1>1, <1>4, <1>9
<1>18. Bears(da_free_cell(e, q), N, Only(A, DOMAIN A \ K))
  BY <1>7, <1>8
<1>19. IsPruned(da_free_cell(e, q), r, K, N, L, A, s, H)
  <2> HIDE DEF N, K, r
  <2> QED BY <1>12, <1>13, <1>14, <1>15, <1>16, <1>17, <1>18 DEF IsPruned
<1>20. IsFiniteSet(DOMAIN M)
  BY <1>3 DEF IsTree
<1> QED BY <1>1, <1>19, <1>20

\* Pruning has come to an end.
PruneDone(w, p) == p = w.s \/ da_has_children(w.d, w.s)
\* What pruning has come to after k turns.
PrunedTo(w, k, L, A, s, p, H) ==
  \E G, M : /\ IsPruned(w.d, w.s, G, M, L, A, s, H)
            /\ PruneDone(w, p) \/ Cardinality(DOMAIN M) = Cardinality(DOMAIN L) - k
\* A turn of it (da_prune_upto).
LEMMA PruneTurnIs ==
  ASSUME NEW d, NEW L, NEW A, Bears(d, L, A), NEW s \in DOMAIN L, NEW p \in DOMAIN L,
         NEW H, Allows(H, L, A, s, p), NEW k \in Nat, k > 0,
         NEW w, PrunedTo(w, k - 1, L, A, s, p, H), w \in [d : Arrays, s : Int]
  PROVE  PrunedTo(PruneTurn(w, p), k, L, A, s, p, H) /\ PruneTurn(w, p) \in [d : Arrays, s : Int]
<1>1. PICK G : \E M : /\ IsPruned(w.d, w.s, G, M, L, A, s, H)
                      /\ PruneDone(w, p) \/ Cardinality(DOMAIN M) = Cardinality(DOMAIN L) - (k - 1)
  BY DEF PrunedTo
<1>2. PICK M : /\ IsPruned(w.d, w.s, G, M, L, A, s, H)
               /\ PruneDone(w, p) \/ Cardinality(DOMAIN M) = Cardinality(DOMAIN L) - (k - 1)
  BY <1>1
<1>3. CASE PruneDone(w, p)
  <2>1. PruneTurn(w, p) = w
    BY <1>3 DEF PruneDone, PruneTurn
  <2> QED BY <1>2, <1>3, <2>1 DEF PrunedTo
<1>4. CASE ~PruneDone(w, p)
  <2> DEFINE e == da_free_cell(w.d, w.s)
             q == da_get_check(w.d, w.s)
             v == [d |-> e, s |-> q]
             N == Less(M, w.s)
             K == G \cup {L[w.s]}
  <2>1. w.s # p /\ ~da_has_children(w.d, w.s)
    BY <1>4 DEF PruneDone
  <2>2. PruneTurn(w, p) = v
    BY <2>1 DEF PruneTurn
  <2>3. IsPruned(e, q, K, N, L, A, s, H) /\ IsFiniteSet(DOMAIN M) /\ w.s \in DOMAIN M
    BY <1>2, <2>1, PruneOneMore
  <2>4. v.d = e /\ v.s = q
    OBVIOUS
  <2>5. Cardinality(DOMAIN N) = Cardinality(DOMAIN L) - k
    <3>1. DOMAIN N = DOMAIN M \ {w.s}
      BY DEF Less
    <3>2. Cardinality(DOMAIN M) = Cardinality(DOMAIN L) - (k - 1)
      BY <1>2, <1>4
    <3>3. Cardinality(DOMAIN N) = Cardinality(DOMAIN M) - 1
      BY <2>3, <3>1, FS_RemoveElement
    <3>4. IsFiniteSet(DOMAIN L)
      BY BearsIs DEF IsTree
    <3>5. Cardinality(DOMAIN L) \in Nat
      BY <3>4, FS_CardinalityType
    <3> QED BY <3>2, <3>3, <3>5
  <2>6. e \in Arrays /\ q \in Int
    <3> HIDE DEF e, q, N, K
    <3>1. Bears(e, N, Only(A, DOMAIN A \ K)) /\ q \in DOMAIN N
      BY <2>3 DEF IsPruned
    <3>2. e \in Arrays
      BY <3>1, NodesAre DEF Bears, Bearing
    <3>3. q \in Int
      BY <3>1, BearsIs DEF IsTree
    <3> QED BY <3>2, <3>3
  <2>7. v \in [d : Arrays, s : Int]
    BY <2>6
  <2> HIDE DEF v, N, K, e, q
  <2>8. PrunedTo(v, k, L, A, s, p, H)
    BY <2>3, <2>4, <2>5 DEF PrunedTo
  <2> QED BY <2>2, <2>7, <2>8
<1> QED BY <1>3, <1>4

\* Pruning ends at p or at a node with children, within as many turns as there are cells
\* (da_prune_upto).
LEMMA PruneIs ==
  ASSUME NEW d, NEW L, NEW A, Bears(d, L, A), NEW s \in DOMAIN L, NEW p \in DOMAIN L,
         NEW H, Allows(H, L, A, s, p)
  PROVE  \E G, M, q : /\ IsPruned(da_prune_upto(d, p, s), q, G, M, L, A, s, H)
                      /\ q = p \/ \E c \in Chars : Child(L[q], c) \in DOMAIN A \ G
<1> DEFINE n == num_cells(d)
           V == [d : Arrays, s : Int]
           I == {x \in Nat \X V : PrunedTo(x[2], x[1], L, A, s, p, H)}
           step == [x \in Nat \X V |-> PruneTurn(x[2], p)]
           base == [d |-> d, s |-> s]
           turn == CHOOSE f : f = [k \in 0 .. n |-> IF k = 0 THEN base ELSE PruneTurn(f[k - 1], p)]
<1>1. PICK u : Bearing(d, u, L, A)
  BY DEF Bears
<1>2. /\ n \in Nat /\ d \in Arrays /\ s \in Int /\ IsFiniteSet(DOMAIN L)
      /\ DOMAIN L \subseteq 2 .. n - 1
  <2>1. DaHolds(d, u) /\ DOMAIN L = DOMAIN u
    BY <1>1, LabelsAre DEF Bearing
  <2>2. IsFiniteSet(DOMAIN L)
    BY BearsIs DEF IsTree
  <2> QED BY <2>1, <2>2, NodesAre
<1>3. da_prune_upto(d, p, s) = turn[n].d
  BY DEF da_prune_upto
<1>4. base \in V /\ base.d = d /\ base.s = s
  BY <1>2
<1>5. PrunedTo(base, 0, L, A, s, p, H)
  <2>1. IsTree(L, A)
    BY BearsIs
  <2>2. Only(A, DOMAIN A \ {}) = A
    BY <2>1 DEF Only, IsTree
  <2>3. <<{}, L[s]>> \in H
    BY DEF Allows
  <2>4. IsPruned(d, s, {}, L, L, A, s, H)
    BY <2>2, <2>3 DEF IsPruned
  <2>5. Cardinality(DOMAIN L) = Cardinality(DOMAIN L) - 0
    BY <1>2, FS_CardinalityType
  <2> HIDE DEF base
  <2> QED BY <1>4, <2>4, <2>5 DEF PrunedTo
<1>6. ASSUME NEW k \in 1 .. n, NEW w \in V, <<k - 1, w>> \in I
      PROVE  /\ step[<<k, w>>] = PruneTurn(w, p)
             /\ step[<<k, w>>] \in V /\ <<k, step[<<k, w>>]>> \in I
  <2>1. k \in Nat /\ k - 1 \in Nat /\ k > 0
    BY <1>2
  <2>2. PrunedTo(w, k - 1, L, A, s, p, H)
    BY <1>6
  <2>3. step[<<k, w>>] = PruneTurn(w, p)
    BY <2>1
  <2> HIDE DEF step
  <2>4. PrunedTo(PruneTurn(w, p), k, L, A, s, p, H) /\ PruneTurn(w, p) \in V
    BY <2>1, <2>2, PruneTurnIs
  <2> HIDE DEF V
  <2> QED BY <2>1, <2>3, <2>4
<1>7. <<0, base>> \in I
  <2> HIDE DEF base, V
  <2> QED BY <1>4, <1>5
<1>8. PICK f : Follows(f, n, base, step) /\ \A k \in 0 .. n : f[k] \in V /\ <<k, f[k]>> \in I
  <2>1. \A k \in 1 .. n : \A w \in V : <<k - 1, w>> \in I =>
           step[<<k, w>>] \in V /\ <<k, step[<<k, w>>]>> \in I
    BY <1>6
  <2> HIDE DEF step, I, n, V, base
  <2> QED BY <1>2, <1>4, <1>7, <2>1, GuidedRecursion
<1>9. f = [k \in 0 .. n |-> f[k]] /\ f[0] = base /\ \A k \in 1 .. n : f[k] = step[<<k, f[k - 1]>>]
  BY <1>8 DEF Follows
<1> HIDE DEF step, I, base, V
<1>10. ASSUME NEW k \in 1 .. n PROVE f[k] = PruneTurn(f[k - 1], p)
  <2>1. k - 1 \in 0 .. n
    BY <1>2
  <2>2. f[k - 1] \in V /\ <<k - 1, f[k - 1]>> \in I
    BY <1>8, <2>1
  <2> QED BY <1>6, <1>9, <2>2
<1>11. f = [k \in 0 .. n |-> IF k = 0 THEN base ELSE PruneTurn(f[k - 1], p)]
  <2>1. ASSUME NEW k \in 0 .. n
        PROVE  f[k] = IF k = 0 THEN base ELSE PruneTurn(f[k - 1], p)
    <3>1. k # 0 => k \in 1 .. n
      BY <1>2
    <3> QED BY <1>9, <1>10, <3>1
  <2> QED BY <1>9, <2>1
<1>12. turn = [k \in 0 .. n |-> IF k = 0 THEN base ELSE PruneTurn(turn[k - 1], p)]
  BY <1>11
<1> HIDE DEF turn
<1>13. \A k \in 0 .. n : turn[k] = f[k]
  <2> DEFINE Same == {k \in 0 .. n : turn[k] = f[k]}
  <2>1. 0 \in Same
    BY <1>2, <1>11, <1>12
  <2>2. ASSUME NEW k \in 1 .. n, k - 1 \in Same PROVE k \in Same
    BY <1>2, <1>10, <1>12, <2>2
  <2> HIDE DEF Same
  <2>3. \A k \in 0 .. n : k \in Same
    BY <1>2, <2>1, <2>2, UpToInduction
  <2> QED BY <2>3 DEF Same
<1>14. PrunedTo(turn[n], n, L, A, s, p, H)
  <2>1. n \in 0 .. n
    BY <1>2
  <2>2. <<n, f[n]>> \in I
    BY <1>8, <2>1
  <2> QED BY <1>13, <2>1, <2>2 DEF I
<1> DEFINE w == turn[n]
<1>15. PICK G : \E M : /\ IsPruned(w.d, w.s, G, M, L, A, s, H)
                       /\ PruneDone(w, p) \/ Cardinality(DOMAIN M) = Cardinality(DOMAIN L) - n
  BY <1>14 DEF PrunedTo
<1>16. PICK M : /\ IsPruned(w.d, w.s, G, M, L, A, s, H)
                /\ PruneDone(w, p) \/ Cardinality(DOMAIN M) = Cardinality(DOMAIN L) - n
  BY <1>15
<1> HIDE DEF w
<1>17. /\ Bears(w.d, M, Only(A, DOMAIN A \ G)) /\ w.s \in DOMAIN M
       /\ \A x \in DOMAIN M : x \in DOMAIN L /\ M[x] = L[x]
  BY <1>16 DEF IsPruned
<1>18. PruneDone(w, p)
  <2>1. IsFiniteSet(DOMAIN M) /\ Cardinality(DOMAIN M) \in Nat
    <3>1. IsFiniteSet(DOMAIN M)
      <4>1. IsTree(M, Only(A, DOMAIN A \ G))
        BY <1>17, BearsIs
      <4> QED BY <4>1 DEF IsTree
    <3> QED BY <3>1, FS_CardinalityType
  <2>2. Cardinality(DOMAIN L) < n
    <3> HIDE DEF n
    <3>1. IsFiniteSet(2 .. n - 1) /\ Cardinality(2 .. n - 1) = IF 2 > n - 1 THEN 0 ELSE (n - 1) - 2 + 1
      BY <1>2, FS_Interval
    <3>2. Cardinality(DOMAIN L) <= Cardinality(2 .. n - 1) /\ Cardinality(DOMAIN L) \in Nat
      BY <1>2, <3>1, FS_Subset, FS_CardinalityType
    <3>3. ROOT \in 2 .. n - 1
      BY <1>2, BearsIs DEF IsTree
    <3>4. n >= 3
      BY <1>2, <3>3 DEF ROOT
    <3> QED BY <1>2, <3>1, <3>2, <3>4
  <2>3. Cardinality(DOMAIN L) \in Nat
    BY <1>2, FS_CardinalityType
  <2> QED BY <1>2, <1>16, <2>1, <2>2, <2>3
<1>19. w.s = p \/ \E c \in Chars : Child(L[w.s], c) \in DOMAIN A \ G
  <2>1. da_has_children(w.d, w.s) => \E c \in Chars : Child(M[w.s], c) \in DOMAIN Only(A, DOMAIN A \ G)
    BY <1>17, HasChildrenIs
  <2>2. DOMAIN Only(A, DOMAIN A \ G) = DOMAIN A \ G
    BY DEF Only
  <2> QED BY <1>17, <1>18, <2>1, <2>2 DEF PruneDone
<1> QED BY <1>3, <1>16, <1>19 DEF w
=============================================================================
