----------------------------- MODULE TrieProofs -----------------------------
(***************************************************************************)
(* The trie, for every alphabet, every set of keys and every limit.        *)
(*                                                                         *)
(* A state of the trie is seen as two maps: A gives each label of a node   *)
(* its mark, which for a separate node is its block of the tail, negated,  *)
(* and C gives each allocated block its suffix and its data.  What the     *)
(* operations of the double array and of the tail do to the two is proved  *)
(* first, then what the two mean, and then that every action of the trie   *)
(* keeps them and the dictionary together.                                 *)
(***************************************************************************)
EXTENDS Trie, DArrayProofs, AlphaMapProofs

(***************************************************************************)
(* The free blocks of the tail: F has them, nx gives the next one, and 0   *)
(* stands for the end, although it may be a free block too                 *)
(***************************************************************************)

Chained(F, first, nx) ==
  /\ F \subseteq Nat /\ first \in F \cup {0}
  /\ nx \in [F -> F \cup {0}]
  /\ \A i \in F : nx[i] # 0 => nx[i] # first
  /\ \A i, j \in F : nx[i] = nx[j] /\ nx[i] # 0 => i = j

\* The next block is one, or the end.
LEMMA ChainedNext ==
  ASSUME NEW F, NEW first, NEW nx, Chained(F, first, nx), NEW j \in F
  PROVE  nx[j] \in Nat
<1>1. F \cup {0} \subseteq Nat /\ nx \in [F -> F \cup {0}]
  BY DEF Chained
<1>2. nx[j] \in F \cup {0}
  BY <1>1
<1> QED BY <1>1, <1>2

\* The first free block is taken (tail_alloc_block).
LEMMA TakeFirst ==
  ASSUME NEW F, NEW first, NEW nx, Chained(F, first, nx), first # 0
  PROVE  first \in F /\ Chained(F \ {first}, nx[first], [i \in F \ {first} |-> nx[i]])
  BY DEF Chained

\* A block becomes the first (tail_free_block).
LEMMA PutFirst ==
  ASSUME NEW F, NEW first, NEW nx, Chained(F, first, nx), NEW b \in Nat \ F
  PROVE  Chained(F \cup {b}, b, [i \in F \cup {b} |-> IF i = b THEN first ELSE nx[i]])
  BY DEF Chained

\* A block comes behind another (tail_free_block).
LEMMA PutAfter ==
  ASSUME NEW F, NEW first, NEW nx, Chained(F, first, nx), NEW b \in Nat \ F, NEW j \in F
  PROVE  Chained(F \cup {b}, first,
                 [i \in F \cup {b} |-> IF i = b THEN nx[j] ELSE IF i = j THEN b ELSE nx[i]])
  BY DEF Chained

(***************************************************************************)
(* The tail                                                                *)
(***************************************************************************)

TailCell == [next_free : Int, data : TrieData \cup {TRIE_DATA_ERROR},
             suffix : Seq(Nat) \cup {NULL}]
Rests == Seq(1 .. TRIE_CHAR_MAX - 1)
Content == [suffix : Rests, data : TrieData \cup {TRIE_DATA_ERROR}]

\* The cell of an allocated block.
Filled(c) == [next_free |-> -1, data |-> c.data, suffix |-> c.suffix]

\* The free blocks of n, of which C has those allocated, numbered from 1.
FreeBlocks(n, C) == {i \in 0 .. n - 1 : i + 1 \notin DOMAIN C}
NextBlocks(t, F) == [i \in F |-> t.tails[i + 1].next_free]

IsTail(t) == /\ t = [first_free |-> t.first_free, tails |-> t.tails]
             /\ t.first_free \in Int
             /\ t.tails \in Seq(TailCell)
BlocksAre(t, C) == /\ C = [k \in DOMAIN C |-> C[k]]
                  /\ DOMAIN C \subseteq 1 .. num_tails(t)
                  /\ \A k \in DOMAIN C : C[k] \in Content /\ t.tails[k] = Filled(C[k])
TailHolds(t, C) ==
  /\ IsTail(t) /\ BlocksAre(t, C)
  /\ LET F == FreeBlocks(num_tails(t), C) IN Chained(F, t.first_free, NextBlocks(t, F))

\* A suffix is a sequence of numbers.
LEMMA RestsAre ==
  ASSUME NEW r \in Rests
  PROVE  r \in Seq(Nat) /\ r # NULL
<1> DEFINE S == 1 .. TRIE_CHAR_MAX - 1
<1>0. r \in Seq(S) /\ S \subseteq Nat
  BY TrieDefsAssumption DEF Rests
<1> HIDE DEF S
<1>1. r \in [1 .. Len(r) -> S] /\ Len(r) \in Nat
  BY <1>0
<1>2. r \in [1 .. Len(r) -> Nat]
  BY <1>0, <1>1
<1>3. r \in Seq(Nat)
  BY <1>1, <1>2
<1> QED BY <1>3, LimitsAssumption

\* What an allocated block is.
LEMMA BlockIs ==
  ASSUME NEW t, NEW C, TailHolds(t, C), NEW k \in DOMAIN C
  PROVE  /\ num_tails(t) \in Nat /\ k \in 1 .. num_tails(t) /\ k \in Nat /\ k > 0
         /\ C[k] \in Content /\ t.tails[k] = Filled(C[k])
         /\ tail_get_suffix(t, k) = C[k].suffix
         /\ tail_get_data(t, k) = C[k].data
<1>1. t.tails \in Seq(TailCell) /\ DOMAIN C \subseteq 1 .. Len(t.tails)
  BY DEF TailHolds, IsTail, BlocksAre, num_tails
<1>2. Len(t.tails) \in Nat /\ k \in 1 .. Len(t.tails)
  BY <1>1
<1>3. C[k] \in Content /\ t.tails[k] = Filled(C[k])
  BY DEF TailHolds, BlocksAre
<1>4. k - TAIL_START_BLOCKNO < num_tails(t) /\ k - TAIL_START_BLOCKNO + 1 = k
  BY <1>2 DEF TAIL_START_BLOCKNO, num_tails
<1>5. t.tails[k].suffix = C[k].suffix /\ t.tails[k].data = C[k].data
  BY <1>3 DEF Filled
<1> QED
  BY <1>2, <1>3, <1>4, <1>5 DEF tail_get_suffix, tail_get_data, Block, num_tails

\* The new tail has nothing.
LEMMA TailNewHolds ==
  ASSUME NEW C, C = [k \in {} |-> 0]
  PROVE  TailHolds(tail_new, C)
<1>1. DOMAIN C = {} /\ tail_new.tails = <<>> /\ tail_new.first_free = 0
  BY DEF tail_new
<1>2. IsTail(tail_new)
  BY DEF tail_new, IsTail
<1>3. num_tails(tail_new) = 0
  BY <1>1 DEF num_tails
<1>4. BlocksAre(tail_new, C)
  BY <1>1 DEF BlocksAre
<1>5. FreeBlocks(0, C) = {}
  BY DEF FreeBlocks
<1>6. Chained({}, 0, NextBlocks(tail_new, {}))
  BY DEF Chained, NextBlocks
<1> QED BY <1>1, <1>2, <1>3, <1>4, <1>5, <1>6 DEF TailHolds

\* t with another cell k.
PutCell(t, k, cell) == [first_free |-> t.first_free, tails |-> [t.tails EXCEPT ![k] = cell]]

\* Putting a cell changes that cell and nothing else, and leaves a tail.
LEMMA CellPut ==
  ASSUME NEW t, IsTail(t), NEW k \in 1 .. num_tails(t), NEW cell \in TailCell
  PROVE  LET g == PutCell(t, k, cell) IN
         /\ IsTail(g) /\ num_tails(g) = num_tails(t) /\ g.first_free = t.first_free
         /\ g.tails[k] = cell
         /\ \A i \in 1 .. num_tails(t) : i # k => g.tails[i] = t.tails[i]
<1> DEFINE s == t.tails
           q == [s EXCEPT ![k] = cell]
<1>1. s \in Seq(TailCell) /\ k \in 1 .. Len(s) /\ t.first_free \in Int
  BY DEF IsTail, num_tails
<1>2. q \in Seq(TailCell) /\ Len(q) = Len(s) /\ q[k] = cell
      /\ \A i \in 1 .. Len(s) : i # k => q[i] = s[i]
  BY <1>1
<1> HIDE DEF q, s
<1> DEFINE g == [first_free |-> t.first_free, tails |-> q]
<1>3. g.tails = q /\ g.first_free = t.first_free /\ g = [first_free |-> g.first_free, tails |-> g.tails]
  OBVIOUS
<1>4. PutCell(t, k, cell) = g
  BY DEF PutCell, q, s
<1> HIDE DEF g
<1>5. IsTail(g) /\ num_tails(g) = Len(q)
  BY <1>1, <1>2, <1>3 DEF IsTail, num_tails
<1>6. num_tails(t) = Len(s)
  BY DEF num_tails, s
<1>7. s = t.tails
  BY DEF s
<1> QED BY <1>2, <1>3, <1>4, <1>5, <1>6, <1>7

\* A field of a cell is changed, or the cell.
SuffixPut(t, k, s) == [t EXCEPT !.tails[k].suffix = s]
DataPut(t, k, v) == [t EXCEPT !.tails[k].data = v]
NextPut(t, k, i) == [t EXCEPT !.tails[k].next_free = i]
CellChanged(t, k, cell) == [t EXCEPT !.tails[k] = cell]
WithSuffix(cell, s) == [cell EXCEPT !.suffix = s]
WithData(cell, v) == [cell EXCEPT !.data = v]
WithNext(cell, i) == [cell EXCEPT !.next_free = i]

\* Each of the assignments to a field of a cell puts a cell.
LEMMA FieldPut ==
  ASSUME NEW t, IsTail(t), NEW k, NEW s
  PROVE  /\ SuffixPut(t, k, s) = PutCell(t, k, WithSuffix(t.tails[k], s))
         /\ DataPut(t, k, s) = PutCell(t, k, WithData(t.tails[k], s))
         /\ NextPut(t, k, s) = PutCell(t, k, WithNext(t.tails[k], s))
         /\ CellChanged(t, k, s) = PutCell(t, k, s)
<1>1. t = [first_free |-> t.first_free, tails |-> t.tails]
  BY DEF IsTail
<1>2. ASSUME NEW q PROVE [t EXCEPT !.tails = q] = [first_free |-> t.first_free, tails |-> q]
  BY <1>1
<1>3. /\ SuffixPut(t, k, s) = [t EXCEPT !.tails = [t.tails EXCEPT ![k] = WithSuffix(t.tails[k], s)]]
      /\ DataPut(t, k, s) = [t EXCEPT !.tails = [t.tails EXCEPT ![k] = WithData(t.tails[k], s)]]
      /\ NextPut(t, k, s) = [t EXCEPT !.tails = [t.tails EXCEPT ![k] = WithNext(t.tails[k], s)]]
      /\ CellChanged(t, k, s) = [t EXCEPT !.tails = [t.tails EXCEPT ![k] = s]]
  BY DEF SuffixPut, DataPut, NextPut, CellChanged, WithSuffix, WithData, WithNext
<1> QED BY <1>2, <1>3 DEF PutCell

\* An allocated block with other contents.
LEMMA Refilled ==
  ASSUME NEW t, NEW C, TailHolds(t, C), NEW k \in DOMAIN C, NEW c \in Content
  PROVE  TailHolds(PutCell(t, k, Filled(c)), With(C, k, c))
<1> DEFINE g == PutCell(t, k, Filled(c))
           D == With(C, k, c)
           F == FreeBlocks(num_tails(t), C)
<1>1. IsTail(t) /\ BlocksAre(t, C) /\ Chained(F, t.first_free, NextBlocks(t, F))
  BY DEF TailHolds
<1>2. k \in 1 .. num_tails(t) /\ num_tails(t) \in Nat
  BY BlockIs
<1>3. Filled(c) \in TailCell
  <2>1. c.suffix \in Seq(Nat) /\ c.data \in TrieData \cup {TRIE_DATA_ERROR}
    <3>1. c.suffix \in Rests /\ c.data \in TrieData \cup {TRIE_DATA_ERROR}
      BY DEF Content
    <3> QED BY <3>1, RestsAre
  <2> QED BY <2>1 DEF Filled, TailCell
<1>4. /\ IsTail(g) /\ num_tails(g) = num_tails(t) /\ g.first_free = t.first_free
      /\ g.tails[k] = Filled(c)
      /\ \A i \in 1 .. num_tails(t) : i # k => g.tails[i] = t.tails[i]
  BY <1>1, <1>2, <1>3, CellPut
<1>5. /\ DOMAIN D = DOMAIN C /\ D = [i \in DOMAIN D |-> D[i]]
      /\ D[k] = c /\ \A i \in DOMAIN C : i # k => D[i] = C[i]
  BY DEF With
<1> HIDE DEF g, D
<1>6. BlocksAre(g, D)
  BY <1>1, <1>4, <1>5 DEF BlocksAre
<1>7. FreeBlocks(num_tails(g), D) = F
  BY <1>4, <1>5 DEF FreeBlocks
<1>8. NextBlocks(g, F) = NextBlocks(t, F)
  <2>1. ASSUME NEW i \in F PROVE g.tails[i + 1] = t.tails[i + 1]
    BY <1>2, <1>4 DEF FreeBlocks
  <2> HIDE DEF F
  <2> QED BY <2>1 DEF NextBlocks
<1> QED BY <1>1, <1>4, <1>6, <1>7, <1>8 DEF TailHolds, g, D

\* A block's suffix is set, or its data (tail_set_suffix, tail_set_data).
LEMMA TailSets ==
  ASSUME NEW t, NEW C, TailHolds(t, C), NEW k \in DOMAIN C, NEW s \in Rests,
         NEW v \in TrieData \cup {TRIE_DATA_ERROR}
  PROVE  /\ TailHolds(tail_set_suffix(t, k, s), With(C, k, [suffix |-> s, data |-> C[k].data]))
         /\ TailHolds(tail_set_data(t, k, v), With(C, k, [suffix |-> C[k].suffix, data |-> v]))
<1> DEFINE c == [suffix |-> s, data |-> C[k].data]
           e == [suffix |-> C[k].suffix, data |-> v]
<1>1. k \in 1 .. num_tails(t) /\ C[k] \in Content /\ t.tails[k] = Filled(C[k]) /\ num_tails(t) \in Nat
  BY BlockIs
<1>2. c \in Content /\ e \in Content
  BY <1>1 DEF Content
<1>3. IsTail(t)
  BY DEF TailHolds
<1>4. k - TAIL_START_BLOCKNO < num_tails(t) /\ k - TAIL_START_BLOCKNO + 1 = k
  BY <1>1 DEF TAIL_START_BLOCKNO
<1>5. SuffixPut(t, k, s) = PutCell(t, k, Filled(c))
  <2>1. WithSuffix(Filled(C[k]), s) = Filled(c)
    BY <1>1 DEF Filled, WithSuffix
  <2> HIDE DEF c
  <2> QED BY <1>1, <1>3, <2>1, FieldPut, SMTT(60)
<1>6. DataPut(t, k, v) = PutCell(t, k, Filled(e))
  <2>1. WithData(Filled(C[k]), v) = Filled(e)
    BY <1>1 DEF Filled, WithData
  <2> HIDE DEF e
  <2> QED BY <1>1, <1>3, <2>1, FieldPut, SMTT(60)
<1>7. tail_set_suffix(t, k, s) = PutCell(t, k, Filled(c))
  BY <1>4, <1>5 DEF tail_set_suffix, SuffixPut
<1>8. tail_set_data(t, k, v) = PutCell(t, k, Filled(e))
  BY <1>4, <1>6 DEF tail_set_data, DataPut
<1> HIDE DEF c, e
<1>9. TailHolds(PutCell(t, k, Filled(c)), With(C, k, c)) /\ TailHolds(PutCell(t, k, Filled(e)), With(C, k, e))
  BY <1>2, Refilled
<1> QED BY <1>7, <1>8, <1>9 DEF c, e

\* t has a block k that is not in C, and with contents it is one of its blocks.
IsRoomy(g, k, t, C) ==
  /\ k \in Nat /\ k > 0 /\ k \notin DOMAIN C
  /\ k \in 1 .. num_tails(g) /\ IsTail(g) /\ g.tails[k] = EmptyBlock
  /\ \A c \in Content : TailHolds(PutCell(g, k, Filled(c)), With(C, k, c))

\* The cells of a tail and what follows of a block being filled.
LEMMA FillIs ==
  ASSUME NEW t, NEW C, TailHolds(t, C), NEW g, IsTail(g), NEW k \in 1 .. num_tails(g), k \notin DOMAIN C,
         num_tails(t) <= num_tails(g), g.tails[k] = EmptyBlock,
         \A i \in 1 .. num_tails(t) : i # k => g.tails[i] = t.tails[i],
         LET F == FreeBlocks(num_tails(t), C) \ {k - 1}
         IN  /\ FreeBlocks(num_tails(g), C) \ {k - 1} = F
             /\ Chained(F, g.first_free, NextBlocks(t, F))
  PROVE  IsRoomy(g, k, t, C)
<1> DEFINE n == num_tails(t)
           m == num_tails(g)
           F == FreeBlocks(n, C) \ {k - 1}
<1>1. n \in Nat /\ m \in Nat /\ k \in Nat /\ k > 0 /\ n <= m
  BY DEF TailHolds, IsTail, num_tails
<1>2. BlocksAre(t, C)
  BY DEF TailHolds
<1>3. ASSUME NEW c \in Content PROVE TailHolds(PutCell(g, k, Filled(c)), With(C, k, c))
  <2> DEFINE h == PutCell(g, k, Filled(c))
             D == With(C, k, c)
  <2>1. Filled(c) \in TailCell
    <3>1. c.suffix \in Rests /\ c.data \in TrieData \cup {TRIE_DATA_ERROR}
      BY DEF Content
    <3> QED BY <3>1, RestsAre DEF Filled, TailCell
  <2>2. /\ IsTail(h) /\ num_tails(h) = m /\ h.first_free = g.first_free
        /\ h.tails[k] = Filled(c)
        /\ \A i \in 1 .. m : i # k => h.tails[i] = g.tails[i]
    BY <2>1, CellPut
  <2>3. /\ DOMAIN D = DOMAIN C \cup {k} /\ D = [i \in DOMAIN D |-> D[i]]
        /\ D[k] = c /\ \A i \in DOMAIN C : i # k => D[i] = C[i]
    BY DEF With
  <2> HIDE DEF h, D
  <2>4. BlocksAre(h, D)
    <3>1. DOMAIN C \subseteq 1 .. n /\ \A i \in DOMAIN C : C[i] \in Content /\ t.tails[i] = Filled(C[i])
      BY <1>2 DEF BlocksAre
    <3>2. ASSUME NEW i \in DOMAIN C PROVE i \in 1 .. m /\ h.tails[i] = Filled(C[i])
      <4>1. i \in 1 .. n /\ i # k /\ i \in 1 .. m
        BY <1>1, <3>1
      <4> QED BY <2>2, <3>1, <4>1
    <3> QED BY <2>2, <2>3, <3>1, <3>2 DEF BlocksAre
  <2>5. FreeBlocks(num_tails(h), D) = F
    <3>1. FreeBlocks(m, D) = FreeBlocks(m, C) \ {k - 1}
      BY <1>1, <2>3 DEF FreeBlocks
    <3> QED BY <2>2, <3>1
  <2>6. NextBlocks(h, F) = NextBlocks(t, F)
    <3>1. ASSUME NEW i \in F PROVE h.tails[i + 1] = t.tails[i + 1]
      <4>1. i + 1 \in 1 .. n /\ i + 1 # k /\ i + 1 \in 1 .. m
        BY <1>1 DEF FreeBlocks
      <4> QED BY <2>2, <4>1
    <3> HIDE DEF F
    <3> QED BY <3>1 DEF NextBlocks
  <2>7. Chained(F, h.first_free, NextBlocks(h, F))
    BY <2>2, <2>6
  <2> QED BY <2>2, <2>4, <2>5, <2>7 DEF TailHolds, h, D
<1> QED BY <1>1, <1>3 DEF IsRoomy

\* A block is taken from the list of free ones, or is new (tail_alloc_block).
LEMMA AllocIs ==
  ASSUME NEW t, NEW C, TailHolds(t, C)
  PROVE  IsRoomy(tail_alloc_block(t).t, tail_alloc_block(t).block, t, C)
<1> DEFINE n == num_tails(t)
           F == FreeBlocks(n, C)
           nx == NextBlocks(t, F)
           first == t.first_free
<1>1. /\ t = [first_free |-> first, tails |-> t.tails] /\ t.tails \in Seq(TailCell)
      /\ n = Len(t.tails) /\ n \in Nat /\ Chained(F, first, nx) /\ first \in Int
      /\ DOMAIN C \subseteq 1 .. n
  BY DEF TailHolds, IsTail, BlocksAre, num_tails
<1>2. EmptyBlock \in TailCell
  BY DEF EmptyBlock, TailCell
<1>3. CASE first # 0
  <2> DEFINE k == first + 1
             g == [first_free |-> NextFirst(t), tails |-> [t.tails EXCEPT ![k] = EmptyBlock]]
             r == [t |-> g, block |-> first + TAIL_START_BLOCKNO]
             S == [t.tails EXCEPT ![k] = EmptyBlock]
  <2>1. first \in F /\ Chained(F \ {first}, nx[first], [i \in F \ {first} |-> nx[i]])
    <3> HIDE DEF F, nx, first
    <3> QED BY <1>1, <1>3, TakeFirst, ZenonT(60)
  <2>2. first \in 0 .. n - 1 /\ k \notin DOMAIN C /\ k \in 1 .. n
    BY <1>1, <2>1 DEF FreeBlocks
  <2>3. NextFirst(t) = nx[first]
    BY <2>1 DEF NextFirst, Block, NextBlocks
  <2>4. tail_alloc_block(t) = r
    BY <1>3 DEF tail_alloc_block
  <2>5. r.t = g /\ r.block = k
    BY DEF TAIL_START_BLOCKNO
  <2>6. nx[first] \in Int
    BY <1>1, <2>1 DEF Chained
  <2>7. S \in Seq(TailCell) /\ Len(S) = n /\ S[k] = EmptyBlock
        /\ \A i \in 1 .. n : i # k => S[i] = t.tails[i]
    BY <1>1, <1>2, <2>2
  <2>8. IsTail(g) /\ num_tails(g) = n /\ g.tails = S /\ g.first_free = nx[first]
    <3> HIDE DEF S, nx, n
    <3>1. S = [t.tails EXCEPT ![k] = EmptyBlock]
      BY DEF S
    <3> QED BY <2>3, <2>6, <2>7, <3>1 DEF IsTail, num_tails
  <2>9. [i \in F \ {first} |-> nx[i]] = NextBlocks(t, F \ {k - 1})
    BY <1>1 DEF NextBlocks
  <2>10. k - 1 = first
    BY <1>1
  <2> HIDE DEF g, S, r, nx
  <2>11. IsRoomy(g, k, t, C)
    <3>1. /\ k \in 1 .. num_tails(g) /\ num_tails(t) <= num_tails(g) /\ g.tails[k] = EmptyBlock
          /\ \A i \in 1 .. num_tails(t) : i # k => g.tails[i] = t.tails[i]
      BY <1>1, <2>2, <2>7, <2>8
    <3>2. FreeBlocks(num_tails(g), C) = F
      BY <2>8
    <3>3. Chained(F \ {k - 1}, g.first_free, NextBlocks(t, F \ {k - 1}))
      BY <2>1, <2>8, <2>9, <2>10
    <3> HIDE DEF k, first
    <3> QED BY <2>2, <2>8, <3>1, <3>2, <3>3, FillIs
  <2> QED BY <2>4, <2>5, <2>11
<1>4. CASE first = 0
  <2> DEFINE k == n + 1
             S == Append(t.tails, EmptyBlock)
             g == [first_free |-> first, tails |-> S]
             r == [t |-> g, block |-> n + TAIL_START_BLOCKNO]
  <2>1. [t EXCEPT !.tails = Append(@, EmptyBlock)] = g
    <3>1. ASSUME NEW q PROVE [t EXCEPT !.tails = q] = [first_free |-> first, tails |-> q]
      BY <1>1
    <3> QED BY <3>1
  <2>2. tail_alloc_block(t) = r
    BY <1>4, <2>1 DEF tail_alloc_block
  <2>3. r.t = g /\ r.block = k
    BY DEF TAIL_START_BLOCKNO
  <2>4. S \in Seq(TailCell) /\ Len(S) = n + 1 /\ S[k] = EmptyBlock
        /\ \A i \in 1 .. n : S[i] = t.tails[i]
    BY <1>1, <1>2
  <2>5. IsTail(g) /\ num_tails(g) = n + 1 /\ g.tails = S /\ g.first_free = first
    <3> HIDE DEF S, n, first
    <3> QED BY <1>1, <2>4 DEF IsTail, num_tails
  <2>6. k \in 1 .. num_tails(g) /\ k \notin DOMAIN C /\ k \in Nat
    BY <1>1, <2>5
  <2>7. FreeBlocks(n + 1, C) \ {k - 1} = F \ {k - 1} /\ F \ {k - 1} = F
    BY <1>1 DEF FreeBlocks
  <2> HIDE DEF g, S, r
  <2>8. IsRoomy(g, k, t, C)
    <3>1. /\ num_tails(t) <= num_tails(g) /\ g.tails[k] = EmptyBlock
          /\ \A i \in 1 .. num_tails(t) : i # k => g.tails[i] = t.tails[i]
      BY <1>1, <2>4, <2>5
    <3>2. FreeBlocks(num_tails(g), C) \ {k - 1} = F \ {k - 1}
      BY <2>5, <2>7
    <3>3. Chained(F \ {k - 1}, g.first_free, NextBlocks(t, F \ {k - 1}))
      BY <1>1, <2>5, <2>7
    <3> HIDE DEF k, first
    <3> QED BY <2>5, <2>6, <3>1, <3>2, <3>3, FillIs
  <2> QED BY <2>2, <2>3, <2>8
<1> QED BY <1>3, <1>4

\* A new block has the suffix (tail_add_suffix).
LEMMA TailAdds ==
  ASSUME NEW t, NEW C, TailHolds(t, C), NEW s \in Rests
  PROVE  LET a == tail_add_suffix(t, s) IN
         /\ a.block \in Nat /\ a.block > 0 /\ a.block \notin DOMAIN C
         /\ TailHolds(a.t, With(C, a.block, [suffix |-> s, data |-> TRIE_DATA_ERROR]))
<1> DEFINE b == tail_alloc_block(t)
           k == b.block
           c == [suffix |-> s, data |-> TRIE_DATA_ERROR]
           r == [b EXCEPT !.t = tail_set_suffix(b.t, k, s)]
<1>1. IsRoomy(b.t, k, t, C)
  BY AllocIs
<1>2. \E g, i : b = [t |-> g, block |-> i]
  BY DEF tail_alloc_block
<1>3. r.t = tail_set_suffix(b.t, k, s) /\ r.block = k
  BY <1>2
<1>4. tail_add_suffix(t, s) = r
  BY DEF tail_add_suffix
<1> HIDE DEF b, r
<1>5. k - TAIL_START_BLOCKNO < num_tails(b.t) /\ k - TAIL_START_BLOCKNO + 1 = k
  <2>1. b.t.tails \in Seq(TailCell) /\ k \in 1 .. num_tails(b.t) /\ num_tails(b.t) = Len(b.t.tails)
    BY <1>1 DEF IsRoomy, IsTail, num_tails
  <2>2. num_tails(b.t) \in Nat
    BY <2>1
  <2> QED BY <2>1, <2>2 DEF TAIL_START_BLOCKNO
<1>6. tail_set_suffix(b.t, k, s) = SuffixPut(b.t, k, s)
  BY <1>5 DEF tail_set_suffix, SuffixPut
<1>7. SuffixPut(b.t, k, s) = PutCell(b.t, k, Filled(c))
  <2>1. WithSuffix(EmptyBlock, s) = Filled(c)
    BY DEF Filled, WithSuffix, EmptyBlock
  <2>2. SuffixPut(b.t, k, s) = PutCell(b.t, k, WithSuffix(b.t.tails[k], s)) /\ b.t.tails[k] = EmptyBlock
    BY <1>1, FieldPut, SMTT(60) DEF IsRoomy
  <2> HIDE DEF c
  <2> QED BY <2>1, <2>2
<1>8. c \in Content
  BY DEF Content
<1> HIDE DEF c, k
<1>9. TailHolds(PutCell(b.t, k, Filled(c)), With(C, k, c)) /\ k \in Nat /\ k > 0 /\ k \notin DOMAIN C
  BY <1>1, <1>8 DEF IsRoomy
<1> QED BY <1>3, <1>4, <1>6, <1>7, <1>9 DEF c

\* Where a block goes in the list: in front, or behind a free block.
Behind(F, first, nx) == {<<0, first>>} \cup {<<j, nx[j]>> : j \in F \ {0}}

\* The search for the insertion point of a freed block ends in one of those places.
LEMMA InsertionIs ==
  ASSUME NEW t, NEW C, TailHolds(t, C), NEW b \in Nat
  PROVE  LET F == FreeBlocks(num_tails(t), C)
         IN  InsertionPoint(t, b) \in Behind(F, t.first_free, NextBlocks(t, F))
<1> DEFINE n == num_tails(t)
           F == FreeBlocks(n, C)
           first == t.first_free
           nx == NextBlocks(t, F)
           V == Behind(F, first, nx)
           base == <<0, first>>
           step == [x \in Nat \X V |-> Beyond(t, x[2], b)]
           at == CHOOSE f : f = [k \in 0 .. n |-> IF k = 0 THEN base ELSE Beyond(t, f[k - 1], b)]
<1>1. n \in Nat /\ Chained(F, first, nx)
  BY DEF TailHolds, IsTail, num_tails
<1>2. InsertionPoint(t, b) = at[n]
  BY DEF InsertionPoint
<1>3. base \in V
  BY DEF Behind
<1>4. ASSUME NEW v \in V PROVE Beyond(t, v, b) \in V
  <2>1. v[2] \in F \cup {0}
    BY <1>1 DEF Chained, Behind
  <2>2. ASSUME NEW j \in F PROVE Block(t, j).next_free = nx[j]
    BY DEF Block, NextBlocks
  <2>3. ASSUME NEW j \in F, j # 0 PROVE <<j, Block(t, j).next_free>> \in V
    <3>1. Block(t, j).next_free = nx[j]
      BY <2>2
    <3> HIDE DEF nx, F
    <3> QED BY <2>3, <3>1 DEF Behind
  <2>4. v[2] # 0 => <<v[2], Block(t, v[2]).next_free>> \in V
    <3> HIDE DEF V
    <3> QED BY <2>1, <2>3
  <2> QED BY <2>4 DEF Beyond
<1>5. step \in [Nat \X V -> V]
  BY <1>4
<1> HIDE DEF V, base
<1>6. PICK f : Repeats(f, n, V, base, step)
  <2> HIDE DEF step, n
  <2> QED BY <1>1, <1>3, <1>5, Recursion
<1>7. f \in [0 .. n -> V] /\ f[0] = base /\ \A k \in 1 .. n : f[k] = step[<<k, f[k - 1]>>]
  BY <1>6 DEF Repeats
<1>8. ASSUME NEW k \in 1 .. n PROVE f[k] = Beyond(t, f[k - 1], b)
  <2>1. k \in Nat /\ k - 1 \in 0 .. n
    BY <1>1
  <2>2. f[k - 1] \in V
    BY <1>7, <2>1
  <2>3. step[<<k, f[k - 1]>>] = Beyond(t, f[k - 1], b)
    BY <2>1, <2>2
  <2> QED BY <1>7, <2>3
<1> HIDE DEF step
<1>9. f = [k \in 0 .. n |-> IF k = 0 THEN base ELSE Beyond(t, f[k - 1], b)]
  <2>1. ASSUME NEW k \in 0 .. n PROVE f[k] = IF k = 0 THEN base ELSE Beyond(t, f[k - 1], b)
    <3>1. k # 0 => k \in 1 .. n
      BY <1>1
    <3> QED BY <1>7, <1>8, <3>1
  <2>2. f = [k \in 0 .. n |-> f[k]]
    BY <1>7
  <2> QED BY <2>1, <2>2
<1>10. at = [k \in 0 .. n |-> IF k = 0 THEN base ELSE Beyond(t, at[k - 1], b)]
  BY <1>9
<1> HIDE DEF at
<1>11. \A k \in 0 .. n : at[k] = f[k]
  <2> DEFINE Same == {k \in 0 .. n : at[k] = f[k]}
  <2>1. 0 \in Same
    BY <1>1, <1>9, <1>10
  <2>2. ASSUME NEW k \in 1 .. n, k - 1 \in Same PROVE k \in Same
    BY <1>1, <1>8, <1>10, <2>2
  <2> HIDE DEF Same
  <2>3. \A k \in 0 .. n : k \in Same
    BY <1>1, <2>1, <2>2, UpToInduction
  <2> QED BY <2>3 DEF Same
<1>12. n \in 0 .. n
  BY <1>1
<1>13. f[n] \in V
  BY <1>7, <1>12
<1> QED BY <1>2, <1>11, <1>12, <1>13 DEF V

\* A block without contents.
LEMMA LessHolds ==
  ASSUME NEW t, NEW C, TailHolds(t, C), NEW k \in DOMAIN C, NEW g, IsTail(g), num_tails(g) = num_tails(t),
         NEW f \in SUBSET Nat, f = FreeBlocks(num_tails(t), C),
         Chained(f \cup {k - 1}, g.first_free, NextBlocks(g, f \cup {k - 1})),
         \A i \in DOMAIN C : i # k => g.tails[i] = t.tails[i]
  PROVE  TailHolds(g, Less(C, k))
<1> DEFINE n == num_tails(t)
           D == Less(C, k)
<1>1. n \in Nat /\ BlocksAre(t, C) /\ k \in 1 .. n /\ k \in Nat
  BY BlockIs DEF TailHolds
<1>2. DOMAIN D = DOMAIN C \ {k} /\ D = [i \in DOMAIN D |-> D[i]] /\ \A i \in DOMAIN D : D[i] = C[i]
  BY DEF Less
<1> HIDE DEF D
<1>3. BlocksAre(g, D)
  BY <1>1, <1>2 DEF BlocksAre
<1>4. FreeBlocks(n, D) = f \cup {k - 1}
  BY <1>1, <1>2 DEF FreeBlocks
<1> QED BY <1>3, <1>4 DEF TailHolds, D

\* A block is freed and comes into the list (tail_free_block, tail_delete).
LEMMA TailDeletes ==
  ASSUME NEW t, NEW C, TailHolds(t, C), NEW k \in DOMAIN C
  PROVE  TailHolds(tail_delete(t, k), Less(C, k))
<1> DEFINE n == num_tails(t)
           F == FreeBlocks(n, C)
           first == t.first_free
           nx == NextBlocks(t, F)
           b == k - TAIL_START_BLOCKNO
           at == InsertionPoint(t, b)
           cell == [next_free |-> at[2], data |-> TRIE_DATA_ERROR, suffix |-> NULL]
           h == PutCell(t, b + 1, cell)
<1>1. n \in Nat /\ k \in 1 .. n /\ k \in Nat /\ IsTail(t) /\ Chained(F, first, nx) /\ k > 0
      /\ DOMAIN C \subseteq 1 .. n
  BY BlockIs DEF TailHolds, BlocksAre
<1>2. b \in Nat /\ b + 1 = k /\ b = k - 1 /\ b < n /\ ~(b >= n) /\ b \notin F
  BY <1>1 DEF TAIL_START_BLOCKNO, FreeBlocks
<1>3. at \in Behind(F, first, nx)
  BY <1>2, InsertionIs
<1>4. CellChanged(t, b + 1, cell) = h
  <2> HIDE DEF cell, b
  <2> QED BY <1>1, FieldPut
<1>5. at[2] \in Int
  BY <1>1, <1>3 DEF Chained, Behind
<1>6. cell \in TailCell /\ cell.next_free = at[2]
  <2> HIDE DEF at
  <2> QED BY <1>5 DEF TailCell
<1> HIDE DEF cell
<1>7. /\ IsTail(h) /\ num_tails(h) = n /\ h.first_free = first /\ h.tails[k] = cell
      /\ \A i \in 1 .. n : i # k => h.tails[i] = t.tails[i]
  <2>1. h = PutCell(t, k, cell)
    BY <1>2
  <2> HIDE DEF h
  <2> QED BY <1>1, <1>6, <2>1, CellPut
<1> HIDE DEF h
<1>8. F \subseteq Nat /\ \A i \in F : i + 1 \in 1 .. n /\ i + 1 # k
  BY <1>1, <1>2 DEF FreeBlocks
<1>9. CASE at[1] # 0
  <2> DEFINE j == at[1]
             g == NextPut(h, j + 1, b)
             cell2 == WithNext(h.tails[j + 1], b)
  <2>1. j \in F /\ at[2] = nx[j]
    BY <1>3, <1>9 DEF Behind
  <2>2. tail_delete(t, k) = g
    <3>1. b < n /\ ~(b >= n)
      BY <1>2
    <3> QED BY <1>4, <1>9, <3>1 DEF tail_delete, NextPut, CellChanged, cell
  <2>3. g = PutCell(h, j + 1, cell2)
    BY <1>7, FieldPut, SMTT(60)
  <2>4. j + 1 \in 1 .. n /\ j + 1 # k /\ h.tails[j + 1] \in TailCell
    <3>1. j + 1 \in 1 .. n /\ j + 1 # k
      BY <1>8, <2>1
    <3>2. h.tails \in Seq(TailCell) /\ Len(h.tails) = n
      BY <1>7 DEF IsTail, num_tails
    <3> QED BY <3>1, <3>2
  <2>5. cell2 \in TailCell /\ cell2.next_free = b
    <3>1. ASSUME NEW z \in TailCell PROVE WithNext(z, b) \in TailCell /\ WithNext(z, b).next_free = b
      BY <1>2 DEF TailCell, WithNext
    <3> QED BY <2>4, <3>1
  <2> HIDE DEF cell2
  <2>6. /\ IsTail(g) /\ num_tails(g) = n /\ g.first_free = first /\ g.tails[j + 1] = cell2
        /\ \A i \in 1 .. n : i # j + 1 => g.tails[i] = h.tails[i]
    <3>1. j + 1 \in 1 .. num_tails(h)
      BY <1>7, <2>4
    <3> HIDE DEF g
    <3> QED BY <1>7, <2>3, <2>5, <3>1, CellPut
  <2> HIDE DEF g
  <2>7. NextBlocks(g, F \cup {b}) = [i \in F \cup {b} |-> IF i = b THEN nx[j] ELSE IF i = j THEN b ELSE nx[i]]
    <3>1. ASSUME NEW i \in F \cup {b}
          PROVE  g.tails[i + 1].next_free = IF i = b THEN nx[j] ELSE IF i = j THEN b ELSE nx[i]
      <4>1. CASE i = b
        BY <1>1, <1>2, <1>6, <1>7, <2>1, <2>4, <2>6, <4>1
      <4>2. CASE i = j
        BY <1>2, <2>1, <2>5, <2>6, <4>2
      <4>3. CASE i # b /\ i # j
        <5>1. i \in F /\ i + 1 \in 1 .. n /\ i + 1 # k /\ i + 1 # j + 1
          BY <1>8, <2>1, <4>3
        <5>2. g.tails[i + 1] = t.tails[i + 1]
          BY <1>7, <2>6, <5>1
        <5>3. nx[i] = t.tails[i + 1].next_free
          BY <5>1 DEF NextBlocks
        <5> QED BY <4>3, <5>2, <5>3
      <4> QED BY <4>1, <4>2, <4>3
    <3> HIDE DEF F, nx, j, b
    <3> QED BY <3>1 DEF NextBlocks
  <2>8. Chained(F \cup {b}, first, NextBlocks(g, F \cup {b}))
    <3> HIDE DEF F, nx, first, b, j
    <3>1. b \in Nat \ F
      BY <1>2
    <3> QED BY <1>1, <2>1, <2>7, <3>1, PutAfter
  <2>9. ASSUME NEW i \in DOMAIN C, i # k PROVE g.tails[i] = t.tails[i]
    <3>1. i \in 1 .. n /\ i # j + 1
      <4>1. j + 1 \notin DOMAIN C
        BY <2>1 DEF FreeBlocks
      <4> QED BY <1>1, <2>9, <4>1
    <3> QED BY <1>7, <2>6, <2>9, <3>1
  <2> HIDE DEF F, b, j, first
  <2>10. Chained(F \cup {k - 1}, g.first_free, NextBlocks(g, F \cup {k - 1}))
    BY <1>2, <2>6, <2>8
  <2> QED BY <1>8, <2>2, <2>6, <2>9, <2>10, LessHolds DEF F
<1>10. CASE at[1] = 0
  <2> DEFINE g == [first_free |-> b, tails |-> h.tails]
  <2>1. at[2] = first
    BY <1>3, <1>10 DEF Behind
  <2>2. tail_delete(t, k) = g
    <3>1. b < n /\ ~(b >= n)
      BY <1>2
    <3>2. [h EXCEPT !.first_free = b] = g
      BY <1>7 DEF IsTail
    <3>3. tail_delete(t, k) = [h EXCEPT !.first_free = b]
      BY <1>4, <1>10, <3>1 DEF tail_delete, CellChanged, cell
    <3> QED BY <3>2, <3>3
  <2>3. IsTail(g) /\ num_tails(g) = n /\ g.first_free = b /\ g.tails = h.tails
    BY <1>2, <1>7 DEF IsTail, num_tails
  <2> HIDE DEF g
  <2>4. NextBlocks(g, F \cup {b}) = [i \in F \cup {b} |-> IF i = b THEN first ELSE nx[i]]
    <3>1. ASSUME NEW i \in F \cup {b}
          PROVE  g.tails[i + 1].next_free = IF i = b THEN first ELSE nx[i]
      <4>1. CASE i = b
        BY <1>2, <1>6, <1>7, <2>1, <2>3, <4>1
      <4>2. CASE i # b
        <5>1. i \in F /\ i + 1 \in 1 .. n /\ i + 1 # k
          BY <1>8, <4>2
        <5>2. nx[i] = t.tails[i + 1].next_free
          BY <5>1 DEF NextBlocks
        <5> QED BY <1>7, <2>3, <4>2, <5>1, <5>2
      <4> QED BY <4>1, <4>2
    <3> HIDE DEF F, nx, b
    <3> QED BY <3>1 DEF NextBlocks
  <2>5. Chained(F \cup {b}, b, NextBlocks(g, F \cup {b}))
    <3> HIDE DEF F, nx, first, b
    <3>1. b \in Nat \ F
      BY <1>2
    <3> QED BY <1>1, <2>4, <3>1, PutFirst
  <2>6. ASSUME NEW i \in DOMAIN C, i # k PROVE g.tails[i] = t.tails[i]
    BY <1>1, <1>7, <2>3, <2>6
  <2> HIDE DEF F, b, first
  <2>7. Chained(F \cup {k - 1}, g.first_free, NextBlocks(g, F \cup {k - 1}))
    BY <1>2, <2>3, <2>5
  <2> QED BY <1>8, <2>2, <2>3, <2>6, <2>7, LessHolds DEF F
<1> QED BY <1>9, <1>10

\* The blocks that are allocated are those with contents: a free one has a next one.
LEMMA AllocatedAre ==
  ASSUME NEW t, NEW C, TailHolds(t, C)
  PROVE  /\ {i \in 1 .. num_tails(t) : t.tails[i].next_free = -1} = DOMAIN C
         /\ num_tails(t) \in Nat /\ DOMAIN C \subseteq 1 .. num_tails(t)
         /\ t.first_free \in 0 .. num_tails(t)
<1> DEFINE n == num_tails(t)
           F == FreeBlocks(n, C)
           nx == NextBlocks(t, F)
<1>1. n \in Nat /\ BlocksAre(t, C) /\ Chained(F, t.first_free, nx)
  BY DEF TailHolds, IsTail, num_tails
<1>2. DOMAIN C \subseteq 1 .. n
  BY <1>1 DEF BlocksAre
<1>3. ASSUME NEW i \in 1 .. n PROVE t.tails[i].next_free = -1 <=> i \in DOMAIN C
  <2>1. CASE i \in DOMAIN C
    <3>1. t.tails[i] = Filled(C[i])
      BY <2>1, BlockIs
    <3>2. Filled(C[i]).next_free = -1
      BY DEF Filled
    <3> QED BY <2>1, <3>1, <3>2
  <2>2. CASE i \notin DOMAIN C
    <3>1. i - 1 \in F /\ (i - 1) + 1 = i
      BY <1>1, <2>2 DEF FreeBlocks
    <3>2. nx[i - 1] \in Nat
      <4> HIDE DEF nx, F, n
      <4> QED BY <1>1, <3>1, ChainedNext
    <3>3. nx[i - 1] = t.tails[i].next_free
      BY <3>1 DEF NextBlocks
    <3> QED BY <2>2, <3>2, <3>3
  <2> QED BY <2>1, <2>2
<1>4. t.first_free \in 0 .. n
  BY <1>1 DEF Chained, FreeBlocks
<1> QED BY <1>1, <1>2, <1>3, <1>4

(***************************************************************************)
(* Strings and labels.  Behind its end a string has terminators; a label   *)
(* is on the way of a string if its characters are the string's, and with  *)
(* the rest of the string behind it the label spells it                    *)
(***************************************************************************)

Positive == Nat \ {0}
Along(l, str) == \A p \in 1 .. Len(l) : l[p] = At(str, p)
Spelled(l, r, str) == Along(l, str) /\ \A q \in Positive : At(r, q) = At(str, Len(l) + q)

\* The terminator is a character.
LEMMA CharMaxIs == TRIE_CHAR_MAX \in Nat /\ TRIE_CHAR_MAX > 0 /\ TRIE_CHAR_TERM \in Chars
                   /\ IsFiniteSet(Characters)
<1>1. Characters \subseteq 1 .. MaxChar
  <2>1. ASSUME NEW i \in DOMAIN Alphabet PROVE Alphabet[i][1] \in 1 .. MaxChar /\ Alphabet[i][2] \in 1 .. MaxChar
    <3>1. Alphabet[i] \in AlphaChars \X AlphaChars
      BY AlphabetAssumption
    <3> QED BY <3>1 DEF AlphaChars
  <2> QED BY <2>1, AlphaAssumption DEF Characters
<1>2. IsFiniteSet(Characters) /\ Cardinality(Characters) \in Nat
  <2>1. IsFiniteSet(1 .. MaxChar)
    BY AlphaAssumption, FS_Interval
  <2> QED BY <1>1, <2>1, FS_Subset, FS_CardinalityType
<1>3. TRIE_CHAR_MAX \in Nat /\ TRIE_CHAR_MAX > 0
  BY <1>2, AlphabetAssumption, TrieDefsAssumption
<1> QED BY <1>2, <1>3 DEF TRIE_CHAR_TERM, Chars

\* The characters of a string.
LEMMA StringIs ==
  ASSUME NEW r \in Rests
  PROVE  /\ Len(r) \in Nat
         /\ \A p \in Positive : At(r, p) \in Chars /\ (At(r, p) = 0 <=> p > Len(r))
<1> DEFINE S == 1 .. TRIE_CHAR_MAX - 1
<1>1. r \in Seq(S)
  BY DEF Rests
<1>2. ASSUME NEW p \in S PROVE p \in Chars /\ p # 0
  BY <1>2, CharMaxIs DEF Chars
<1> HIDE DEF S
<1>3. Len(r) \in Nat /\ \A p \in 1 .. Len(r) : r[p] \in S
  BY <1>1
<1>4. ASSUME NEW p \in Positive PROVE At(r, p) \in Chars /\ (At(r, p) = 0 <=> p > Len(r))
  <2>1. CASE p <= Len(r)
    BY <1>2, <1>3, <2>1 DEF At, Positive
  <2>2. CASE p > Len(r)
    BY <1>3, <2>2, CharMaxIs DEF At, Positive, TRIE_CHAR_TERM
  <2> QED BY <1>3, <2>1, <2>2 DEF Positive
<1> QED BY <1>3, <1>4

\* The string behind a position.
LEMMA FromIs ==
  ASSUME NEW r \in Rests, NEW p \in Positive
  PROVE  /\ From(r, p) \in Rests
         /\ \A q \in Positive : At(From(r, p), q) = At(r, p + q - 1)
<1> DEFINE S == 1 .. TRIE_CHAR_MAX - 1
           f == From(r, p)
<1>1. r \in Seq(S)
  BY DEF Rests
<1> HIDE DEF S
<1>2. Len(r) \in Nat /\ p \in Nat /\ p >= 1
  BY <1>1 DEF Positive
<1>3. f \in Seq(S) /\ Len(f) = (IF p <= Len(r) THEN Len(r) - p + 1 ELSE 0)
      /\ \A q \in 1 .. Len(r) - p + 1 : f[q] = r[p + q - 1]
  BY <1>1, <1>2 DEF From
<1>4. f \in Rests
  BY <1>3 DEF Rests, S
<1> HIDE DEF f
<1>5. ASSUME NEW q \in Positive PROVE At(f, q) = At(r, p + q - 1)
  <2>1. CASE q <= Len(f)
    <3>1. q \in 1 .. Len(r) - p + 1 /\ p + q - 1 <= Len(r)
      BY <1>2, <1>3, <2>1 DEF Positive
    <3> QED BY <1>3, <2>1, <3>1 DEF At
  <2>2. CASE ~(q <= Len(f))
    <3>1. ~(p + q - 1 <= Len(r))
      BY <1>2, <1>3, <2>2 DEF Positive
    <3> QED BY <2>2, <3>1 DEF At
  <2> QED BY <2>1, <2>2
<1> QED BY <1>4, <1>5 DEF f

\* A string is its characters.
LEMMA SameString ==
  ASSUME NEW x \in Rests, NEW y \in Rests, \A p \in Positive : At(x, p) = At(y, p)
  PROVE  x = y
<1>1. x \in Seq(1 .. TRIE_CHAR_MAX - 1) /\ y \in Seq(1 .. TRIE_CHAR_MAX - 1)
  BY DEF Rests
<1>2. Len(x) \in Nat /\ Len(y) \in Nat
  BY StringIs
<1>3. Len(x) = Len(y)
  <2>1. ~(Len(x) < Len(y))
    <3>1. SUFFICES ASSUME Len(x) < Len(y) PROVE FALSE
      OBVIOUS
    <3>2. Len(y) \in Positive
      BY <1>2, <3>1 DEF Positive
    <3>3. At(x, Len(y)) = 0 /\ At(y, Len(y)) # 0
      BY <1>2, <3>1, <3>2, StringIs
    <3> QED BY <3>2, <3>3
  <2>2. ~(Len(y) < Len(x))
    <3>1. SUFFICES ASSUME Len(y) < Len(x) PROVE FALSE
      OBVIOUS
    <3>2. Len(x) \in Positive
      BY <1>2, <3>1 DEF Positive
    <3>3. At(y, Len(x)) = 0 /\ At(x, Len(x)) # 0
      BY <1>2, <3>1, <3>2, StringIs
    <3> QED BY <3>2, <3>3
  <2> QED BY <1>2, <2>1, <2>2
<1>4. \A p \in 1 .. Len(x) : x[p] = y[p]
  BY <1>2, <1>3 DEF At, Positive
<1> QED BY <1>1, <1>3, <1>4

\* A label and a rest spell one string.
LEMMA SpelledOne ==
  ASSUME NEW l \in Labels, NEW r, NEW x \in Rests, NEW y \in Rests, Spelled(l, r, x), Spelled(l, r, y)
  PROVE  x = y
<1>1. Len(l) \in Nat
  BY DEF Labels
<1>2. ASSUME NEW p \in Positive PROVE At(x, p) = At(y, p)
  <2>1. CASE p <= Len(l)
    BY <1>1, <2>1, SMTT(60) DEF Spelled, Along, Positive
  <2>2. CASE ~(p <= Len(l))
    <3>1. p - Len(l) \in Positive /\ Len(l) + (p - Len(l)) = p
      BY <1>1, <2>2 DEF Positive
    <3>2. At(r, p - Len(l)) = At(x, Len(l) + (p - Len(l))) /\ At(r, p - Len(l)) = At(y, Len(l) + (p - Len(l)))
      BY <3>1 DEF Spelled
    <3> QED BY <3>1, <3>2
  <2> QED BY <2>1, <2>2
<1> QED BY <1>2, SameString

\* A string on whose way a label is has one rest behind it.
LEMMA RestOne ==
  ASSUME NEW l \in Labels, NEW r \in Rests, NEW s \in Rests, NEW str, Spelled(l, r, str), Spelled(l, s, str)
  PROVE  r = s
<1>1. \A q \in Positive : At(r, q) = At(s, q)
  BY DEF Spelled
<1> QED BY <1>1, SameString

(***************************************************************************)
(* What the labels and the blocks are together                             *)
(***************************************************************************)

LabelTree(A) ==
  /\ A = [l \in DOMAIN A |-> A[l]] /\ <<>> \in DOMAIN A /\ A[<<>>] = 1 /\ DOMAIN A \subseteq Labels
  /\ \A l \in DOMAIN A : A[l] \in Int /\ A[l] <= 1
  /\ \A l \in Labels : \A c \in Chars : Child(l, c) \in DOMAIN A => l \in DOMAIN A /\ A[l] = 1

\* Every label leads somewhere; blocks are those of the separate labels, one each; and
\* nothing is behind a terminator.
Joined(A, C) ==
  /\ \A l \in DOMAIN A : l = <<>> \/ A[l] < 0 \/ \E c \in Chars : Child(l, c) \in DOMAIN A
  /\ \A l \in DOMAIN A : A[l] < 0 => -A[l] \in DOMAIN C
  /\ \A k \in DOMAIN C : \E l \in DOMAIN A : A[l] = -k
  /\ \A l, m \in DOMAIN A : A[l] < 0 /\ A[l] = A[m] => l = m
  /\ \A l \in DOMAIN A : \A p \in 1 .. Len(l) :
       l[p] = 0 => p = Len(l) /\ A[l] < 0 /\ C[-A[l]].suffix = <<>>

Blocks(C) == C = [k \in DOMAIN C |-> C[k]] /\ \A k \in DOMAIN C : k \in Nat /\ k > 0 /\ C[k] \in Content

\* The entries: the strings that are spelled, with their data.
Key(A, C, str, v) ==
  \E l \in DOMAIN A : A[l] < 0 /\ Spelled(l, C[-A[l]].suffix, str) /\ v = C[-A[l]].data

\* The labels of an array are a tree (IsTree).
LEMMA LabelTreeIs ==
  ASSUME NEW d, NEW L, NEW A, Bears(d, L, A)
  PROVE  LabelTree(A) /\ IsTree(L, A)
<1>1. IsTree(L, A)
  BY BearsIs
<1>2. <<>> \in DOMAIN A
  BY <1>1 DEF IsTree
<1>3. ASSUME NEW l \in Labels, NEW c \in Chars, Child(l, c) \in DOMAIN A
      PROVE  l \in DOMAIN A /\ A[l] = 1
  <2>1. Child(l, c) # <<>>
    BY ChildIs
  <2>2. PICK m \in DOMAIN A : \E e \in Chars : Child(l, c) = Child(m, e)
    BY <1>1, <1>3, <2>1 DEF IsTree
  <2>3. m \in Labels
    BY <1>1 DEF IsTree
  <2>4. l = m
    BY <2>2, <2>3, ChildIs
  <2>5. l \in DOMAIN A
    BY <2>4
  <2> QED BY <1>1, <1>3, <2>5 DEF IsTree
<1> QED BY <1>1, <1>2, <1>3 DEF IsTree, LabelTree

\* ... and the contents of the tail are blocks.
LEMMA BlocksHold ==
  ASSUME NEW t, NEW C, TailHolds(t, C)
  PROVE  Blocks(C)
<1>1. C = [k \in DOMAIN C |-> C[k]]
  BY DEF TailHolds, BlocksAre
<1> QED BY <1>1, BlockIs DEF Blocks

\* The parent of a label is one.
LEMMA ParentIs ==
  ASSUME NEW A, LabelTree(A), NEW l \in Labels, NEW c \in Chars, Child(l, c) \in DOMAIN A
  PROVE  l \in DOMAIN A /\ A[l] = 1
  BY DEF LabelTree

\* The beginnings of a label are labels.
LEMMA PrefixIs ==
  ASSUME NEW A, LabelTree(A), NEW l \in DOMAIN A, NEW k \in 0 .. Len(l)
  PROVE  /\ SubSeq(l, 1, k) \in DOMAIN A /\ Len(SubSeq(l, 1, k)) = k
         /\ k < Len(l) => /\ l[k + 1] \in Chars /\ A[SubSeq(l, 1, k)] = 1
                          /\ SubSeq(l, 1, k + 1) = Child(SubSeq(l, 1, k), l[k + 1])
<1>1. l \in Seq(Chars) /\ Len(l) \in Nat
  BY DEF LabelTree, Labels
<1>2. ASSUME NEW j \in Nat, j < Len(l)
      PROVE  /\ l[j + 1] \in Chars /\ SubSeq(l, 1, j) \in Labels
             /\ SubSeq(l, 1, j + 1) = Child(SubSeq(l, 1, j), l[j + 1])
  <2>1. l[j + 1] \in Chars
    BY <1>1, <1>2
  <2>2. SubSeq(l, 1, j) \in Seq(Chars) /\ SubSeq(l, 1, j + 1) \in Seq(Chars)
    BY <1>1, <1>2
  <2>3. SubSeq(l, 1, j + 1) = Append(SubSeq(l, 1, j), l[j + 1])
    BY <1>1, <1>2, <2>1, <2>2
  <2> QED BY <2>1, <2>2, <2>3 DEF Labels, Child
<1> DEFINE G == {j \in 0 .. Len(l) : SubSeq(l, 1, Len(l) - j) \in DOMAIN A}
<1>3. 0 \in G
  <2>1. SubSeq(l, 1, Len(l)) = l
    BY <1>1
  <2>2. Len(l) - 0 = Len(l) /\ 0 \in 0 .. Len(l)
    BY <1>1
  <2>3. SubSeq(l, 1, Len(l) - 0) \in DOMAIN A
    BY <2>1, <2>2
  <2> QED BY <2>2, <2>3
<1>4. ASSUME NEW j \in 1 .. Len(l), j - 1 \in G PROVE j \in G
  <2> DEFINE i == Len(l) - j
  <2>1. i \in Nat /\ i < Len(l) /\ Len(l) - (j - 1) = i + 1
    BY <1>1
  <2>2. SubSeq(l, 1, i + 1) \in DOMAIN A
    BY <1>4, <2>1
  <2>3. /\ l[i + 1] \in Chars /\ SubSeq(l, 1, i) \in Labels
        /\ SubSeq(l, 1, i + 1) = Child(SubSeq(l, 1, i), l[i + 1])
    <3> HIDE DEF i
    <3> QED BY <1>2, <2>1
  <2>4. SubSeq(l, 1, i) \in DOMAIN A
    <3> HIDE DEF i
    <3>1. Child(SubSeq(l, 1, i), l[i + 1]) \in DOMAIN A
      BY <2>2, <2>3
    <3> QED BY <2>3, <3>1, ParentIs
  <2>5. j \in 0 .. Len(l)
    BY <1>1
  <2> QED BY <2>4, <2>5
<1> HIDE DEF G
<1>5. \A j \in 0 .. Len(l) : j \in G
  BY <1>1, <1>3, <1>4, UpToInduction
<1>6. Len(l) - k \in 0 .. Len(l) /\ Len(l) - (Len(l) - k) = k
  BY <1>1
<1>7. SubSeq(l, 1, k) \in DOMAIN A /\ Len(SubSeq(l, 1, k)) = k
  <2>1. SubSeq(l, 1, Len(l) - (Len(l) - k)) \in DOMAIN A
    BY <1>5, <1>6 DEF G
  <2>2. Len(SubSeq(l, 1, k)) = k
    BY <1>1
  <2> QED BY <1>6, <2>1, <2>2
<1>8. ASSUME k < Len(l)
      PROVE  /\ l[k + 1] \in Chars /\ A[SubSeq(l, 1, k)] = 1
             /\ SubSeq(l, 1, k + 1) = Child(SubSeq(l, 1, k), l[k + 1])
  <2>1. k \in Nat /\ k + 1 \in 0 .. Len(l) /\ Len(l) - (k + 1) \in 0 .. Len(l)
        /\ Len(l) - (Len(l) - (k + 1)) = k + 1
    BY <1>1, <1>8
  <2>2. /\ l[k + 1] \in Chars /\ SubSeq(l, 1, k) \in Labels
        /\ SubSeq(l, 1, k + 1) = Child(SubSeq(l, 1, k), l[k + 1])
    BY <1>2, <1>8, <2>1
  <2>3. SubSeq(l, 1, Len(l) - (Len(l) - (k + 1))) \in DOMAIN A
    BY <1>5, <2>1 DEF G
  <2>4. SubSeq(l, 1, k + 1) \in DOMAIN A
    BY <2>1, <2>3
  <2>5. Child(SubSeq(l, 1, k), l[k + 1]) \in DOMAIN A
    BY <2>2, <2>4
  <2> QED BY <2>2, <2>5, ParentIs
<1> QED BY <1>7, <1>8

\* Of two labels on the way of a string, one that has no child is not the shorter one.
LEMMA AlongOne ==
  ASSUME NEW A, LabelTree(A), NEW l \in DOMAIN A, NEW m \in DOMAIN A, NEW str,
         Along(l, str), Along(m, str), A[l] # 1
  PROVE  Len(m) <= Len(l) /\ (Len(m) = Len(l) => m = l)
<1>1. l \in Seq(Chars) /\ m \in Seq(Chars) /\ Len(l) \in Nat /\ Len(m) \in Nat
  BY DEF LabelTree, Labels
<1>2. ASSUME Len(l) <= Len(m) PROVE SubSeq(m, 1, Len(l)) = l
  <2>1. SubSeq(m, 1, Len(l)) \in Seq(Chars) /\ Len(SubSeq(m, 1, Len(l))) = Len(l)
        /\ \A p \in 1 .. Len(l) : SubSeq(m, 1, Len(l))[p] = m[p]
    BY <1>1, <1>2
  <2>2. \A p \in 1 .. Len(l) : m[p] = l[p]
    BY <1>1, <1>2 DEF Along
  <2> QED BY <1>1, <2>1, <2>2
<1>3. ~(Len(l) < Len(m))
  <2>1. SUFFICES ASSUME Len(l) < Len(m) PROVE FALSE
    OBVIOUS
  <2>2. Len(l) \in 0 .. Len(m)
    BY <1>1, <2>1
  <2>3. A[SubSeq(m, 1, Len(l))] = 1
    BY <2>1, <2>2, PrefixIs
  <2>4. SubSeq(m, 1, Len(l)) = l
    BY <1>1, <1>2, <2>1
  <2> QED BY <2>3, <2>4
<1>4. SubSeq(m, 1, Len(m)) = m
  BY <1>1
<1> QED BY <1>1, <1>2, <1>3, <1>4

\* A child is on the way for the next character.
LEMMA AlongChild ==
  ASSUME NEW l \in Labels, NEW str, Along(l, str), NEW c \in Chars, c = At(str, Len(l) + 1)
  PROVE  Along(Child(l, c), str) /\ Len(Child(l, c)) = Len(l) + 1 /\ Len(l) \in Nat
<1>1. Len(l) \in Nat /\ Len(Child(l, c)) = Len(l) + 1
  BY ChildIs DEF Labels
<1>2. ASSUME NEW p \in 1 .. Len(l) + 1 PROVE Child(l, c)[p] = At(str, p)
  <2>1. Child(l, c)[p] = IF p = Len(l) + 1 THEN c ELSE l[p]
    BY <1>1 DEF Child, Labels
  <2> QED BY <1>1, <2>1 DEF Along
<1> QED BY <1>1, <1>2 DEF Along

(***************************************************************************)
(* Walking and retrieving                                                  *)
(***************************************************************************)

\* A walk along str has ended: at a separate node with the rest of the string before it,
\* or where the child is missing.
WalkEnded(w, L, A, str) ==
  IF w.walked THEN /\ A[L[w.s]] < 0
                   /\ \A q \in Positive : At(From(str, w.p), q) = At(str, Len(L[w.s]) + q)
              ELSE /\ A[L[w.s]] = 1 /\ w.p = Len(L[w.s]) + 1
                   /\ Child(L[w.s], At(str, w.p)) \notin DOMAIN A
WalkedTo(w, k, L, A, str) ==
  /\ w.s \in DOMAIN L /\ Along(L[w.s], str) /\ w.p \in Positive
  /\ IF w.over THEN WalkEnded(w, L, A, str)
     ELSE ~w.walked /\ w.p = k + 1 /\ Len(L[w.s]) = k /\ k <= Len(str)

WalkState == [s : Int, p : Nat, over : BOOLEAN, walked : BOOLEAN]

\* The mark of a label that is not separate.
LEMMA MarkOf ==
  ASSUME NEW A, NEW C, LabelTree(A), Joined(A, C), NEW l \in DOMAIN A, ~(A[l] < 0)
  PROVE  A[l] = 1
<1>1. l = <<>> \/ \E c \in Chars : Child(l, c) \in DOMAIN A
  BY DEF Joined
<1>2. l \in Labels
  BY DEF LabelTree
<1>3. l = <<>> => A[l] = 1
  BY DEF LabelTree
<1> QED BY <1>1, <1>2, <1>3, ParentIs

\* One turn of the walk.
LEMMA WalkTurnIs ==
  ASSUME NEW d, NEW L, NEW A, Bears(d, L, A), NEW C, Joined(A, C), NEW str \in Rests,
         NEW k \in Nat, NEW w \in WalkState, WalkedTo(w, k, L, A, str)
  PROVE  WalkTurn(d, str, w) \in WalkState /\ WalkedTo(WalkTurn(d, str, w), k + 1, L, A, str)
<1> DEFINE next == da_walk(d, w.s, At(str, w.p))
           l == L[w.s]
           c == At(str, w.p)
<1>1. LabelTree(A) /\ IsTree(L, A)
  BY LabelTreeIs
<1>2. w = [s |-> w.s, p |-> w.p, over |-> w.over, walked |-> w.walked]
      /\ w.s \in Int /\ w.p \in Nat /\ w.over \in BOOLEAN /\ w.walked \in BOOLEAN
  BY DEF WalkState
<1>3. w.s \in DOMAIN L /\ Along(l, str) /\ w.p \in Positive /\ l \in DOMAIN A /\ l \in Labels
  BY <1>1 DEF WalkedTo, IsTree
<1>4. CASE w.over
  <2>1. WalkTurn(d, str, w) = w
    BY <1>4 DEF WalkTurn
  <2> QED BY <1>4, <2>1 DEF WalkedTo
<1>5. CASE ~w.over
  <2>1. ~w.walked /\ w.p = k + 1 /\ Len(l) = k /\ k <= Len(str) /\ k + 1 \in Positive
    BY <1>5 DEF WalkedTo, Positive
  <2>2. c \in Chars /\ Len(str) \in Nat /\ (c = 0 <=> k + 1 > Len(str))
    BY <2>1, StringIs
  <2>3. CASE trie_da_is_separate(d, w.s)
    <3> DEFINE v == [w EXCEPT !.over = TRUE, !.walked = TRUE]
    <3>1. WalkTurn(d, str, w) = v
      BY <1>5, <2>3 DEF WalkTurn
    <3>2. A[l] < 0
      BY <1>3, <2>3, BaseAt DEF trie_da_is_separate
    <3>3. \A q \in Positive : At(From(str, k + 1), q) = At(str, k + q)
      <4>1. ASSUME NEW q \in Positive PROVE At(From(str, k + 1), q) = At(str, k + q)
        <5>1. At(From(str, k + 1), q) = At(str, k + 1 + q - 1)
          BY <2>1, FromIs
        <5>2. k + 1 + q - 1 = k + q
          BY DEF Positive
        <5> QED BY <5>1, <5>2
      <4> QED BY <4>1
    <3>4. v \in WalkState
      BY DEF WalkState
    <3>5. v.s = w.s /\ v.p = w.p /\ v.over /\ v.walked
      BY DEF WalkState
    <3> HIDE DEF v
    <3>6. WalkEnded(v, L, A, str)
      BY <2>1, <3>2, <3>3, <3>5 DEF WalkEnded
    <3> QED BY <1>3, <3>1, <3>4, <3>5, <3>6 DEF WalkedTo
  <2>4. CASE ~trie_da_is_separate(d, w.s)
    <3>1. A[l] = 1
      <4>1. ~(A[l] < 0)
        BY <1>3, <2>4, BaseAt DEF trie_da_is_separate
      <4> QED BY <1>1, <1>3, <4>1, MarkOf
    <3>2. IF Child(l, c) \in DOMAIN A
          THEN next \in DOMAIN L /\ next # TRIE_INDEX_ERROR /\ L[next] = Child(l, c)
          ELSE next = TRIE_INDEX_ERROR
      BY <1>3, <2>2, <3>1, WalkAt
    <3>3. CASE next = TRIE_INDEX_ERROR
      <4> DEFINE v == [w EXCEPT !.over = TRUE]
      <4>1. WalkTurn(d, str, w) = v
        BY <1>5, <2>4, <3>3 DEF WalkTurn
      <4>2. v \in WalkState /\ v.s = w.s /\ v.p = w.p /\ v.over /\ ~v.walked
        BY <2>1 DEF WalkState
      <4>3. Child(l, c) \notin DOMAIN A
        BY <3>2, <3>3
      <4> HIDE DEF v
      <4>4. WalkEnded(v, L, A, str)
        BY <2>1, <3>1, <4>2, <4>3 DEF WalkEnded
      <4> QED BY <1>3, <4>1, <4>2, <4>4 DEF WalkedTo
    <3>4. CASE next # TRIE_INDEX_ERROR
      <4>1. next \in DOMAIN L /\ L[next] = Child(l, c) /\ Child(l, c) \in DOMAIN A /\ next \in Int
        BY <1>1, <3>2, <3>4 DEF IsTree
      <4>2. Along(Child(l, c), str) /\ Len(Child(l, c)) = k + 1
        BY <1>3, <2>1, <2>2, AlongChild
      <4>3. CASE c = 0
        <5> DEFINE v == [w EXCEPT !.over = TRUE, !.walked = TRUE, !.s = next]
        <5>1. WalkTurn(d, str, w) = v
          <6>1. At(str, w.p) = TRIE_CHAR_TERM
            BY <4>3 DEF TRIE_CHAR_TERM
          <6> QED BY <1>5, <2>4, <3>4, <6>1 DEF WalkTurn
        <5>2. v \in WalkState /\ v.s = next /\ v.p = w.p /\ v.over /\ v.walked
          <6> HIDE DEF next
          <6> QED BY <4>1 DEF WalkState
        <5>3. A[Child(l, c)] < 0
          <6>1. Child(l, c)[k + 1] = 0 /\ k + 1 \in 1 .. Len(Child(l, c))
            BY <1>3, <2>1, <4>2, <4>3 DEF Child, Labels
          <6> QED BY <4>1, <6>1 DEF Joined
        <5>4. ASSUME NEW q \in Positive PROVE At(From(str, k + 1), q) = At(str, k + 1 + q)
          <6>1. At(From(str, k + 1), q) = At(str, k + 1 + q - 1)
            BY <2>1, FromIs
          <6>2. k + 1 + q - 1 \in Positive /\ k + 1 + q - 1 > Len(str) /\ k + 1 + q \in Positive /\ k + 1 + q > Len(str)
            BY <2>2, <4>3 DEF Positive
          <6> QED BY <6>1, <6>2, StringIs
        <5> HIDE DEF v
        <5>5. WalkEnded(v, L, A, str)
          BY <2>1, <4>1, <4>2, <5>2, <5>3, <5>4 DEF WalkEnded
        <5> QED BY <1>3, <4>1, <4>2, <5>1, <5>2, <5>5 DEF WalkedTo
      <4>4. CASE c # 0
        <5> DEFINE v == [w EXCEPT !.s = next, !.p = @ + 1]
        <5>1. WalkTurn(d, str, w) = v
          <6>1. At(str, w.p) # TRIE_CHAR_TERM
            BY <4>4 DEF TRIE_CHAR_TERM
          <6> QED BY <1>5, <2>4, <3>4, <6>1 DEF WalkTurn
        <5>2. v \in WalkState /\ v.s = next /\ v.p = k + 2 /\ ~v.over /\ ~v.walked
          <6> HIDE DEF next
          <6>0. next \in Int /\ w.p \in Nat /\ w.p + 1 \in Nat
            BY <1>2, <4>1
          <6>1. v \in WalkState /\ v.s = next /\ v.p = w.p + 1 /\ v.over = w.over /\ v.walked = w.walked
            <7>1. v \in WalkState
              BY ONLY <6>0, w \in WalkState DEF WalkState
            <7>2. v.s = next /\ v.p = w.p + 1
              BY ONLY <6>0, w \in WalkState DEF WalkState
            <7>3. v.over = w.over /\ v.walked = w.walked
              BY ONLY <6>0, w \in WalkState DEF WalkState
            <7> QED BY <7>1, <7>2, <7>3
          <6>2. w.p + 1 = k + 2
            BY <2>1
          <6> HIDE DEF v
          <6> QED BY <1>5, <2>1, <6>1, <6>2
        <5>3. k + 1 <= Len(str) /\ k + 2 = (k + 1) + 1 /\ k + 2 \in Positive
          BY <2>2, <4>4 DEF Positive
        <5> HIDE DEF v
        <5> QED BY <4>1, <4>2, <5>1, <5>2, <5>3 DEF WalkedTo
      <4> QED BY <4>3, <4>4
    <3> QED BY <3>3, <3>4
  <2> QED BY <2>3, <2>4
<1> QED BY <1>4, <1>5

\* The first loop of retrieving, storing and deleting.
LEMMA WalkIs ==
  ASSUME NEW d, NEW L, NEW A, Bears(d, L, A), NEW C, Joined(A, C), NEW str \in Rests
  PROVE  LET w == WalkBranches(d, str) IN
         /\ w \in WalkState
         /\ w.s \in DOMAIN L /\ L[w.s] \in DOMAIN A /\ Along(L[w.s], str) /\ w.p \in Positive
         /\ WalkEnded(w, L, A, str)
<1> DEFINE n == Len(str) + 1
           base == [s |-> ROOT, p |-> 1, over |-> FALSE, walked |-> FALSE]
           I == {x \in Nat \X WalkState : WalkedTo(x[2], x[1], L, A, str)}
           step == [x \in Nat \X WalkState |-> WalkTurn(d, str, x[2])]
           at == CHOOSE f : f = [k \in 0 .. n |-> IF k = 0 THEN base ELSE WalkTurn(d, str, f[k - 1])]
<1>1. LabelTree(A) /\ IsTree(L, A) /\ n \in Nat /\ Len(str) \in Nat /\ n = Len(str) + 1
  BY LabelTreeIs, StringIs
<1>2. WalkBranches(d, str) = at[n]
  BY DEF WalkBranches
<1>3. base \in WalkState /\ base.s = ROOT /\ base.p = 1 /\ ~base.over /\ ~base.walked
  BY DEF WalkState, ROOT
<1> HIDE DEF base
<1>4. <<0, base>> \in I
  <2>1. ROOT \in DOMAIN L /\ L[ROOT] = <<>> /\ Len(<<>>) = 0
    BY <1>1 DEF IsTree
  <2>2. Along(<<>>, str)
    BY DEF Along
  <2>3. WalkedTo(base, 0, L, A, str)
    BY <1>1, <1>3, <2>1, <2>2 DEF WalkedTo, Positive
  <2> QED BY <1>3, <2>3
<1> HIDE DEF n
<1>5. ASSUME NEW k \in 1 .. n, NEW v \in WalkState, <<k - 1, v>> \in I
      PROVE  step[<<k, v>>] = WalkTurn(d, str, v) /\ step[<<k, v>>] \in WalkState /\ <<k, step[<<k, v>>]>> \in I
  <2>1. k \in Nat /\ k - 1 \in Nat /\ (k - 1) + 1 = k
    BY <1>1
  <2>2. WalkedTo(v, k - 1, L, A, str)
    BY <1>5
  <2>3. step[<<k, v>>] = WalkTurn(d, str, v)
    BY <2>1
  <2> HIDE DEF step
  <2>4. WalkTurn(d, str, v) \in WalkState /\ WalkedTo(WalkTurn(d, str, v), (k - 1) + 1, L, A, str)
    BY <2>1, <2>2, WalkTurnIs
  <2> QED BY <2>1, <2>3, <2>4
<1>6. PICK f : Follows(f, n, base, step) /\ \A k \in 0 .. n : f[k] \in WalkState /\ <<k, f[k]>> \in I
  <2>1. \A k \in 1 .. n : \A v \in WalkState : <<k - 1, v>> \in I =>
           step[<<k, v>>] \in WalkState /\ <<k, step[<<k, v>>]>> \in I
    BY <1>5
  <2> HIDE DEF step, I
  <2> QED BY <1>1, <1>3, <1>4, <2>1, GuidedRecursion
<1>7. f = [k \in 0 .. n |-> f[k]] /\ f[0] = base /\ \A k \in 1 .. n : f[k] = step[<<k, f[k - 1]>>]
  BY <1>6 DEF Follows
<1> HIDE DEF step, I
<1>8. ASSUME NEW k \in 1 .. n PROVE f[k] = WalkTurn(d, str, f[k - 1])
  <2>1. k - 1 \in 0 .. n
    BY <1>1
  <2>2. f[k - 1] \in WalkState /\ <<k - 1, f[k - 1]>> \in I
    BY <1>6, <2>1
  <2> QED BY <1>5, <1>7, <2>2
<1>9. f = [k \in 0 .. n |-> IF k = 0 THEN base ELSE WalkTurn(d, str, f[k - 1])]
  <2>1. ASSUME NEW k \in 0 .. n PROVE f[k] = IF k = 0 THEN base ELSE WalkTurn(d, str, f[k - 1])
    <3>1. k # 0 => k \in 1 .. n
      BY <1>1
    <3> QED BY <1>7, <1>8, <3>1
  <2> QED BY <1>7, <2>1
<1>10. at = [k \in 0 .. n |-> IF k = 0 THEN base ELSE WalkTurn(d, str, at[k - 1])]
  BY <1>9
<1> HIDE DEF at
<1>11. \A k \in 0 .. n : at[k] = f[k]
  <2> DEFINE Same == {k \in 0 .. n : at[k] = f[k]}
  <2>1. 0 \in Same
    BY <1>1, <1>9, <1>10
  <2>2. ASSUME NEW k \in 1 .. n, k - 1 \in Same PROVE k \in Same
    BY <1>1, <1>8, <1>10, <2>2
  <2> HIDE DEF Same
  <2>3. \A k \in 0 .. n : k \in Same
    BY <1>1, <2>1, <2>2, UpToInduction
  <2> QED BY <2>3 DEF Same
<1> DEFINE w == at[n]
<1>12. w \in WalkState /\ WalkedTo(w, n, L, A, str)
  <2>1. n \in 0 .. n
    BY <1>1
  <2>2. f[n] \in WalkState /\ <<n, f[n]>> \in I
    BY <1>6, <2>1
  <2> QED BY <1>11, <2>1, <2>2 DEF I
<1> HIDE DEF w
<1>13. w.over
  BY <1>1, <1>12 DEF WalkedTo
<1>14. L[w.s] \in DOMAIN A
  BY <1>1, <1>12 DEF WalkedTo, IsTree
<1> QED BY <1>2, <1>12, <1>13, <1>14 DEF WalkedTo, w

\* What is known at the end of the walk: the block there, and whether str is its string.
Arrived(w, d, t, L, A, C, str) ==
  LET l == L[w.s] IN
  /\ w.s \in DOMAIN L /\ l \in DOMAIN A /\ l \in Labels /\ Along(l, str) /\ w.p \in Positive
  /\ \A m \in DOMAIN A : A[m] < 0 /\ Along(m, str) => w.walked /\ m = l
  /\ IF w.walked
     THEN /\ A[l] < 0 /\ -A[l] \in DOMAIN C /\ trie_da_get_tail_index(d, w.s) = -A[l]
          /\ Spelled(l, From(str, w.p), str) /\ From(str, w.p) \in Rests
          /\ InTail(d, t, w, str) <=> C[-A[l]].suffix = From(str, w.p)
     ELSE /\ ~InTail(d, t, w, str)
          /\ A[l] = 1 /\ At(str, w.p) \in Chars
          /\ w.p = Len(l) + 1 /\ Child(l, At(str, w.p)) \notin DOMAIN A

\* Where the walk for a string ends.
LEMMA ArrivedIs ==
  ASSUME NEW d, NEW L, NEW A, Bears(d, L, A), NEW t, NEW C, TailHolds(t, C), Joined(A, C),
         NEW str \in Rests
  PROVE  Arrived(WalkBranches(d, str), d, t, L, A, C, str)
<1> DEFINE w == WalkBranches(d, str)
           l == L[w.s]
<1>1. LabelTree(A) /\ IsTree(L, A)
  BY LabelTreeIs
<1>2. /\ w \in WalkState /\ w.s \in DOMAIN L /\ l \in DOMAIN A /\ Along(l, str) /\ w.p \in Positive
      /\ WalkEnded(w, L, A, str)
  BY WalkIs
<1> HIDE DEF w
<1>3. l \in Labels /\ Len(l) \in Nat
  BY <1>1, <1>2 DEF LabelTree, Labels
<1>4. CASE w.walked
  <2>1. A[l] < 0 /\ \A q \in Positive : At(From(str, w.p), q) = At(str, Len(l) + q)
    BY <1>2, <1>4 DEF WalkEnded
  <2>2. -A[l] \in DOMAIN C
    BY <1>2, <2>1 DEF Joined
  <2>3. trie_da_get_tail_index(d, w.s) = -A[l]
    BY <1>2, <2>1, BaseAt DEF trie_da_get_tail_index
  <2>4. Spelled(l, From(str, w.p), str)
    BY <1>2, <2>1 DEF Spelled
  <2>5. InTail(d, t, w, str) <=> C[-A[l]].suffix = From(str, w.p)
    <3>1. tail_get_suffix(t, -A[l]) = C[-A[l]].suffix
      BY <2>2, BlockIs
    <3> QED BY <1>4, <2>3, <3>1 DEF InTail
  <2>6. ASSUME NEW m \in DOMAIN A, A[m] < 0, Along(m, str) PROVE m = l
    <3>1. A[l] # 1 /\ A[m] # 1
      <4>1. A[l] \in Int /\ A[m] \in Int
        BY <1>1, <1>2 DEF LabelTree
      <4> QED BY <2>1, <2>6, <4>1
    <3>2. Len(m) <= Len(l) /\ (Len(m) = Len(l) => m = l)
      BY <1>1, <1>2, <2>6, <3>1, AlongOne
    <3>3. Len(l) <= Len(m)
      BY <1>1, <1>2, <2>6, <3>1, AlongOne
    <3>4. Len(m) \in Nat
      BY <1>1 DEF LabelTree, Labels
    <3> QED BY <1>3, <3>2, <3>3, <3>4
  <2>7. From(str, w.p) \in Rests
    BY <1>2, FromIs
  <2> QED BY <1>2, <1>3, <1>4, <2>1, <2>2, <2>3, <2>4, <2>5, <2>6, <2>7 DEF Arrived, w
<1>5. CASE ~w.walked
  <2>1. A[l] = 1 /\ w.p = Len(l) + 1 /\ Child(l, At(str, w.p)) \notin DOMAIN A
    BY <1>2, <1>5 DEF WalkEnded
  <2>2. ~InTail(d, t, w, str)
    BY <1>5 DEF InTail
  <2>3. ASSUME NEW m \in DOMAIN A, A[m] < 0, Along(m, str) PROVE FALSE
    <3>1. A[m] # 1 /\ m # l
      <4>1. A[m] \in Int
        BY <1>1 DEF LabelTree
      <4> QED BY <2>1, <2>3, <4>1
    <3>2. Len(l) <= Len(m) /\ (Len(m) = Len(l) => m = l)
      BY <1>1, <1>2, <2>3, <3>1, AlongOne
    <3>3. Len(m) \in Nat /\ m \in Seq(Chars)
      BY <1>1 DEF LabelTree, Labels
    <3>4. Len(l) < Len(m) /\ Len(l) \in 0 .. Len(m) /\ Len(l) + 1 \in 0 .. Len(m) /\ Len(l) + 1 \in 1 .. Len(m)
      BY <1>3, <3>1, <3>2, <3>3
    <3>5. /\ SubSeq(m, 1, Len(l) + 1) \in DOMAIN A
          /\ SubSeq(m, 1, Len(l) + 1) = Child(SubSeq(m, 1, Len(l)), m[Len(l) + 1])
      BY <1>1, <3>4, PrefixIs
    <3>6. SubSeq(m, 1, Len(l)) = l
      <4>1. SubSeq(m, 1, Len(l)) \in Seq(Chars) /\ Len(SubSeq(m, 1, Len(l))) = Len(l)
            /\ \A p \in 1 .. Len(l) : SubSeq(m, 1, Len(l))[p] = m[p]
        BY <1>3, <3>3, <3>4
      <4>2. \A p \in 1 .. Len(l) : m[p] = l[p]
        BY <1>2, <1>3, <2>3, <3>3, <3>4 DEF Along
      <4>3. l \in Seq(Chars)
        BY <1>3 DEF Labels
      <4> QED BY <1>3, <4>1, <4>2, <4>3
    <3>7. m[Len(l) + 1] = At(str, w.p)
      BY <2>1, <2>3, <3>4 DEF Along
    <3> QED BY <2>1, <3>5, <3>6, <3>7
  <2>4. At(str, w.p) \in Chars
    BY <1>2, StringIs
  <2> QED BY <1>2, <1>3, <1>5, <2>1, <2>2, <2>3, <2>4 DEF Arrived, w
<1> QED BY <1>4, <1>5

\* What is retrieved is what is spelled (trie_retrieve).
LEMMA RetrievedIs ==
  ASSUME NEW d, NEW L, NEW A, Bears(d, L, A), NEW t, NEW C, TailHolds(t, C), Joined(A, C),
         NEW str \in Rests
  PROVE  \A v : v \in Retrieved(d, t, str) <=> Key(A, C, str, v)
<1> DEFINE w == WalkBranches(d, str)
           l == L[w.s]
<1>1. Arrived(w, d, t, L, A, C, str)
  BY ArrivedIs
<1>2. LabelTree(A) /\ Blocks(C)
  BY LabelTreeIs, BlocksHold
<1>3. Retrieved(d, t, str)
        = IF InTail(d, t, w, str) THEN {tail_get_data(t, trie_da_get_tail_index(d, w.s))} ELSE {}
  BY DEF Retrieved
<1> HIDE DEF w
<1>4. CASE InTail(d, t, w, str)
  <2>1. w.walked
    BY <1>1, <1>4 DEF Arrived
  <2>2. /\ l \in DOMAIN A /\ A[l] < 0 /\ -A[l] \in DOMAIN C /\ trie_da_get_tail_index(d, w.s) = -A[l]
        /\ Spelled(l, C[-A[l]].suffix, str)
        /\ \A m \in DOMAIN A : A[m] < 0 /\ Along(m, str) => m = l
    BY <1>1, <1>4, <2>1 DEF Arrived
  <2>3. tail_get_data(t, -A[l]) = C[-A[l]].data
    BY <2>2, BlockIs
  <2>4. \A v : v \in Retrieved(d, t, str) <=> v = C[-A[l]].data
    BY <1>3, <1>4, <2>2, <2>3
  <2>5. \A v : Key(A, C, str, v) => v = C[-A[l]].data
    BY <2>2 DEF Key, Spelled
  <2>6. Key(A, C, str, C[-A[l]].data)
    BY <2>2 DEF Key
  <2> QED BY <2>4, <2>5, <2>6
<1>5. CASE ~InTail(d, t, w, str)
  <2>1. ASSUME NEW v, Key(A, C, str, v) PROVE FALSE
    <3>1. PICK m \in DOMAIN A : A[m] < 0 /\ Spelled(m, C[-A[m]].suffix, str)
      BY <2>1 DEF Key
    <3>2. Along(m, str)
      BY <3>1 DEF Spelled
    <3>3. w.walked /\ m = l
      BY <1>1, <3>1, <3>2 DEF Arrived
    <3>4. /\ A[l] < 0 /\ -A[l] \in DOMAIN C /\ Spelled(l, From(str, w.p), str) /\ From(str, w.p) \in Rests
          /\ l \in Labels /\ C[-A[l]].suffix # From(str, w.p)
      BY <1>1, <1>5, <3>3 DEF Arrived
    <3>5. C[-A[l]].suffix \in Rests
      BY <1>2, <3>4 DEF Blocks, Content
    <3> QED BY <3>1, <3>3, <3>4, <3>5, RestOne
  <2> QED BY <1>3, <1>5, <2>1
<1> QED BY <1>4, <1>5

(***************************************************************************)
(* A new leaf                                                              *)
(***************************************************************************)

\* A node without children other than the root is given a block, or none (da_set_base).
LEMMA SetBears ==
  ASSUME NEW d, NEW L, NEW A, Bears(d, L, A), NEW s \in DOMAIN L, L[s] # <<>>,
         \A c \in Chars : Child(L[s], c) \notin DOMAIN A,
         NEW v \in Int, v <= 0
  PROVE  Bears(da_set_base(d, s, v), L, [A EXCEPT ![L[s]] = v])
<1>1. PICK u : Bearing(d, u, L, A)
  BY DEF Bears
<1>2. DaHolds(d, u) /\ Tree(u) /\ Labelled(u, L) /\ Marked(u, L, A)
  BY <1>1 DEF Bearing
<1>3. DOMAIN L = DOMAIN u /\ L[ROOT] = <<>>
  BY <1>2, LabelsAre
<1>4. ASSUME NEW x \in DOMAIN u, u[x].check = s PROVE FALSE
  <2>1. x # ROOT
    BY <1>2, <1>3, <1>4, TreeKids
  <2>2. x - u[s].base \in Chars /\ L[x] = Child(L[s], x - u[s].base)
    BY <1>2, <1>4, <2>1, LabelsAre
  <2>3. L[x] \in DOMAIN A
    BY <1>2 DEF Marked
  <2> QED BY <2>2, <2>3
<1>5. s # ROOT
  BY <1>3
<1>6. Bearing(da_set_base(d, s, v), Rebased(u, s, v), L, [A EXCEPT ![L[s]] = Mark(v)])
  BY <1>1, <1>3, <1>4, <1>5, RebaseBears
<1>7. Mark(v) = v
  BY DEF Mark
<1> QED BY <1>6, <1>7 DEF Bears

\* The characters of a child.
LEMMA ChildChars ==
  ASSUME NEW l \in Labels, NEW c \in Chars
  PROVE  /\ Len(l) \in Nat /\ Len(Child(l, c)) = Len(l) + 1
         /\ Child(l, c)[Len(l) + 1] = c /\ \A p \in 1 .. Len(l) : Child(l, c)[p] = l[p]
<1>1. l \in Seq(Chars)
  BY DEF Labels
<1> QED BY <1>1 DEF Child

\* With a leaf for a new block they are joined still, and the string of the leaf is a key.
LEMMA LeafJoined ==
  ASSUME NEW A, NEW C, LabelTree(A), Joined(A, C), Blocks(C),
         NEW l \in DOMAIN A, A[l] = 1, NEW c \in Chars, Child(l, c) \notin DOMAIN A,
         NEW k \in Nat, k > 0, k \notin DOMAIN C, NEW x \in Content, c = 0 => x.suffix = <<>>
  PROVE  LET B == WithLeaf(A, l, c, -k)
             D == With(C, k, x)
         IN  /\ Joined(B, D)
             /\ \A str, v : Key(B, D, str, v)
                  <=> Key(A, C, str, v) \/ (Spelled(Child(l, c), x.suffix, str) /\ v = x.data)
<1> DEFINE B == WithLeaf(A, l, c, -k)
           D == With(C, k, x)
           n == Child(l, c)
<1>1. l \in Labels /\ DOMAIN A \subseteq Labels /\ \A m \in DOMAIN A : A[m] \in Int /\ A[m] <= 1
  BY DEF LabelTree
<1>2. DOMAIN B = DOMAIN A \cup {n} /\ B[n] = -k /\ \A m \in DOMAIN A : m # n /\ B[m] = A[m]
  BY DEF WithLeaf
<1>3. DOMAIN D = DOMAIN C \cup {k} /\ D[k] = x /\ \A i \in DOMAIN C : i # k /\ D[i] = C[i]
  BY DEF With
<1> HIDE DEF B, D
<1>4. -k < 0 /\ -k \in Int /\ -(-k) = k
  OBVIOUS
<1>5. ASSUME NEW m \in DOMAIN A, A[m] < 0
      PROVE  /\ B[m] = A[m] /\ -A[m] \in DOMAIN C /\ D[-A[m]] = C[-A[m]] /\ A[m] # -k
  <2>1. -A[m] \in DOMAIN C
    BY <1>5 DEF Joined
  <2>2. -A[m] # k
    BY <2>1
  <2>3. A[m] # -k
    BY <1>1, <2>2
  <2> QED BY <1>2, <1>3, <2>1, <2>3
<1>6. Joined(B, D)
  <2>1. ASSUME NEW m \in DOMAIN B
        PROVE  m = <<>> \/ B[m] < 0 \/ \E e \in Chars : Child(m, e) \in DOMAIN B
    <3>1. CASE m = n
      BY <1>2, <1>4, <3>1
    <3>2. CASE m \in DOMAIN A
      BY <1>2, <3>2 DEF Joined
    <3> QED BY <1>2, <3>1, <3>2
  <2>2. ASSUME NEW m \in DOMAIN B, B[m] < 0 PROVE -B[m] \in DOMAIN D
    <3>1. CASE m = n
      BY <1>2, <1>3, <1>4, <3>1
    <3>2. CASE m \in DOMAIN A
      <4>1. B[m] = A[m] /\ A[m] < 0
        BY <1>2, <2>2, <3>2
      <4> QED BY <1>3, <1>5, <3>2, <4>1
    <3> QED BY <1>2, <3>1, <3>2
  <2>3. ASSUME NEW i \in DOMAIN D PROVE \E m \in DOMAIN B : B[m] = -i
    <3>1. CASE i = k
      BY <1>2, <3>1
    <3>2. CASE i \in DOMAIN C
      <4>1. PICK m \in DOMAIN A : A[m] = -i
        BY <3>2 DEF Joined
      <4> QED BY <1>2, <4>1
    <3> QED BY <1>3, <3>1, <3>2
  <2>4. ASSUME NEW m \in DOMAIN B, NEW j \in DOMAIN B, B[m] < 0, B[m] = B[j] PROVE m = j
    <3>1. CASE m \in DOMAIN A /\ j \in DOMAIN A
      <4>1. A[m] < 0 /\ A[m] = A[j]
        BY <1>2, <2>4, <3>1
      <4> QED BY <3>1, <4>1 DEF Joined
    <3>2. CASE m = n /\ j \in DOMAIN A
      <4>1. A[j] = -k /\ A[j] < 0
        BY <1>2, <1>4, <2>4, <3>2
      <4> QED BY <1>5, <3>2, <4>1
    <3>3. CASE j = n /\ m \in DOMAIN A
      <4>1. A[m] = -k /\ A[m] < 0
        BY <1>2, <1>4, <2>4, <3>3
      <4> QED BY <1>5, <3>3, <4>1
    <3> QED BY <1>2, <3>1, <3>2, <3>3
  <2>5. ASSUME NEW m \in DOMAIN B, NEW p \in 1 .. Len(m), m[p] = 0
        PROVE  p = Len(m) /\ B[m] < 0 /\ D[-B[m]].suffix = <<>>
    <3>1. CASE m \in DOMAIN A
      <4>1. p = Len(m) /\ A[m] < 0 /\ C[-A[m]].suffix = <<>>
        BY <2>5, <3>1 DEF Joined
      <4>2. B[m] = A[m] /\ D[-A[m]] = C[-A[m]]
        BY <1>5, <3>1, <4>1
      <4> QED BY <4>1, <4>2
    <3>2. CASE m = n
      <4>1. /\ Len(l) \in Nat /\ Len(n) = Len(l) + 1 /\ n[Len(l) + 1] = c
            /\ \A q \in 1 .. Len(l) : n[q] = l[q]
        BY <1>1, ChildChars
      <4>2. p = Len(l) + 1
        <5>1. SUFFICES ASSUME p \in 1 .. Len(l) PROVE FALSE
          BY <2>5, <3>2, <4>1
        <5>2. l[p] = 0
          BY <2>5, <3>2, <4>1, <5>1
        <5>3. A[l] < 0
          BY <5>1, <5>2 DEF Joined
        <5> QED BY <5>3
      <4>3. c = 0
        BY <2>5, <3>2, <4>1, <4>2
      <4> QED BY <1>2, <1>3, <1>4, <3>2, <4>1, <4>2, <4>3
    <3> QED BY <1>2, <3>1, <3>2
  <2> QED BY <2>1, <2>2, <2>3, <2>4, <2>5 DEF Joined
<1>7. ASSUME NEW str, NEW v
      PROVE  Key(B, D, str, v) <=> Key(A, C, str, v) \/ (Spelled(n, x.suffix, str) /\ v = x.data)
  <2>1. ASSUME Key(A, C, str, v) PROVE Key(B, D, str, v)
    <3>1. PICK m \in DOMAIN A : A[m] < 0 /\ Spelled(m, C[-A[m]].suffix, str) /\ v = C[-A[m]].data
      BY <2>1 DEF Key
    <3>2. B[m] = A[m] /\ D[-A[m]] = C[-A[m]] /\ m \in DOMAIN B
      BY <1>2, <1>5, <3>1
    <3> QED BY <3>1, <3>2 DEF Key
  <2>2. ASSUME Spelled(n, x.suffix, str) /\ v = x.data PROVE Key(B, D, str, v)
    <3>1. n \in DOMAIN B /\ B[n] < 0 /\ D[-B[n]] = x
      BY <1>2, <1>3, <1>4
    <3> QED BY <2>2, <3>1 DEF Key
  <2>3. ASSUME Key(B, D, str, v)
        PROVE  Key(A, C, str, v) \/ (Spelled(n, x.suffix, str) /\ v = x.data)
    <3>1. PICK m \in DOMAIN B : B[m] < 0 /\ Spelled(m, D[-B[m]].suffix, str) /\ v = D[-B[m]].data
      BY <2>3 DEF Key
    <3>2. CASE m = n
      <4>1. D[-B[m]] = x
        BY <1>2, <1>3, <1>4, <3>2
      <4> QED BY <3>1, <3>2, <4>1
    <3>3. CASE m \in DOMAIN A
      <4>1. B[m] = A[m] /\ A[m] < 0
        BY <1>2, <3>1, <3>3
      <4>2. D[-A[m]] = C[-A[m]]
        BY <1>5, <3>3, <4>1
      <4> QED BY <3>1, <3>3, <4>1, <4>2 DEF Key
    <3> QED BY <1>2, <3>2, <3>3
  <2> QED BY <2>1, <2>2, <2>3
<1> QED BY <1>6, <1>7 DEF B, D

\* r comes of a branch from label l for the suffix: nothing has changed, or there is a leaf
\* with a block of its own.
IsBranched(r, L, t, A, C, l, suffix, data) ==
  \/ r.ok = FALSE /\ r.t = t /\ Bears(r.d, L, A)
  \/ r.ok = TRUE /\ \E M, k : /\ k \in Nat /\ k > 0 /\ k \notin DOMAIN C
                              /\ Bears(r.d, M, WithLeaf(A, l, At(suffix, 1), -k))
                              /\ TailHolds(r.t, With(C, k, [suffix |-> From(suffix, 2), data |-> data]))

\* A leaf that a branch has led to has no children, and another mark is all that a block
\* changes (trie_da_set_tail_index).
LEMMA LeafSet ==
  ASSUME NEW d, NEW M, NEW A, NEW l \in Labels, NEW c \in Chars, NEW v \in Int, v < 0,
         Bears(d, M, WithLeaf(A, l, c, v)), NEW s \in DOMAIN M, M[s] = Child(l, c),
         NEW k \in Nat
  PROVE  Bears(trie_da_set_tail_index(d, s, k), M, WithLeaf(A, l, c, -k))
<1> DEFINE B == WithLeaf(A, l, c, v)
           n == Child(l, c)
<1>1. LabelTree(B)
  BY LabelTreeIs
<1>2. n \in Labels /\ n # <<>>
  BY ChildIs
<1>3. B[n] = v
  BY DEF WithLeaf
<1>4. [B EXCEPT ![n] = -k] = WithLeaf(A, l, c, -k)
  BY DEF WithLeaf
<1> HIDE DEF B
<1>5. ASSUME NEW e \in Chars, Child(n, e) \in DOMAIN B PROVE FALSE
  <2>1. B[n] = 1
    BY <1>1, <1>2, <1>5, ParentIs
  <2> QED BY <1>3, <2>1
<1>6. -k \in Int /\ -k <= 0
  OBVIOUS
<1>7. Bears(d, M, B)
  BY DEF B
<1>8. M[s] # <<>> /\ \A e \in Chars : Child(M[s], e) \notin DOMAIN B
  BY <1>2, <1>5
<1>9. Bears(da_set_base(d, s, -k), M, [B EXCEPT ![M[s]] = -k])
  BY <1>6, <1>7, <1>8, SetBears
<1>10. [B EXCEPT ![M[s]] = -k] = WithLeaf(A, l, c, -k)
  BY <1>4
<1> QED BY <1>9, <1>10 DEF trie_da_set_tail_index

\* A branch from a node with children (trie_branch_in_branch).
LEMMA BranchIs ==
  ASSUME NEW d, NEW L, NEW A, Bears(d, L, A), NEW t, NEW C, TailHolds(t, C),
         NEW s \in DOMAIN L, A[L[s]] = 1, NEW suffix \in Rests,
         Child(L[s], At(suffix, 1)) \notin DOMAIN A,
         NEW data \in TrieData
  PROVE  IsBranched(trie_branch_in_branch(d, t, s, suffix, data), L, t, A, C, L[s], suffix, data)
<1> DEFINE c == At(suffix, 1)
           b == da_insert_branch(d, s, c)
           rest == From(suffix, 2)
           a == tail_add_suffix(t, rest)
           filled == [ok |-> TRUE, d |-> trie_da_set_tail_index(b.d, b.next, a.block),
                     t |-> tail_set_data(a.t, a.block, data)]
           failed == [ok |-> FALSE, d |-> b.d, t |-> t]
           r == trie_branch_in_branch(d, t, s, suffix, data)
           l == L[s]
<1>1. LabelTree(A) /\ IsTree(L, A)
  BY LabelTreeIs
<1>2. l \in DOMAIN A /\ l \in Labels
  BY <1>1 DEF IsTree
<1>3. c \in Chars
  BY StringIs DEF Positive
<1>4. rest \in Rests
  BY FromIs DEF Positive
<1>5. IsInserted(b, d, L, A, s, c)
  BY <1>3, InsertIs
<1>6. r = IF b.next = TRIE_INDEX_ERROR THEN failed ELSE filled
  BY DEF trie_branch_in_branch
<1>7. /\ failed.ok = FALSE /\ failed.d = b.d /\ failed.t = t
      /\ filled.ok = TRUE /\ filled.d = trie_da_set_tail_index(b.d, b.next, a.block)
      /\ filled.t = tail_set_data(a.t, a.block, data)
  OBVIOUS
<1> HIDE DEF filled, failed, b, r
<1>8. CASE b.next = TRIE_INDEX_ERROR
  <2>1. Bears(b.d, L, A)
    BY <1>5, <1>8 DEF IsInserted
  <2>2. r.ok = FALSE /\ r.t = t /\ r.d = b.d
    BY <1>6, <1>7, <1>8
  <2> QED BY <2>1, <2>2 DEF IsBranched, r
<1>9. CASE b.next # TRIE_INDEX_ERROR
  <2>1. \E M : \E v \in Int :
          /\ v < 0 /\ Bears(b.d, M, WithLeaf(A, l, c, v))
          /\ b.next \in DOMAIN M /\ M[b.next] = Child(l, c)
    <3>1. ~(b.next \in DOMAIN L /\ L[b.next] = Child(l, c))
      BY <1>1 DEF IsTree
    <3> QED BY <1>5, <1>9, <3>1 DEF IsInserted
  <2>2. PICK M : \E v \in Int :
          /\ v < 0 /\ Bears(b.d, M, WithLeaf(A, l, c, v))
          /\ b.next \in DOMAIN M /\ M[b.next] = Child(l, c)
    BY <2>1
  <2>3. PICK v \in Int :
          /\ v < 0 /\ Bears(b.d, M, WithLeaf(A, l, c, v))
          /\ b.next \in DOMAIN M /\ M[b.next] = Child(l, c)
    BY <2>2
  <2> DEFINE k == a.block
             x == [suffix |-> rest, data |-> TRIE_DATA_ERROR]
             y == [suffix |-> rest, data |-> data]
             D == With(C, k, x)
  <2>4. k \in Nat /\ k > 0 /\ k \notin DOMAIN C /\ TailHolds(a.t, D)
    BY <1>4, TailAdds
  <2>5. Bears(trie_da_set_tail_index(b.d, b.next, k), M, WithLeaf(A, l, c, -k))
    <3> HIDE DEF k, c, l
    <3> QED BY <1>2, <1>3, <2>3, <2>4, LeafSet
  <2>6. D[k] = x /\ k \in DOMAIN D
    BY DEF With
  <2>7. x.suffix = rest /\ data \in TrieData \cup {TRIE_DATA_ERROR}
    OBVIOUS
  <2>8. With(D, k, y) = With(C, k, y)
    BY DEF With
  <2> HIDE DEF D, x
  <2>9. TailHolds(tail_set_data(a.t, k, data), With(D, k, y))
    <3>1. [suffix |-> D[k].suffix, data |-> data] = y
      BY <2>6, <2>7
    <3>2. TailHolds(tail_set_data(a.t, k, data), With(D, k, [suffix |-> D[k].suffix, data |-> data]))
      <4> HIDE DEF k, a, rest
      <4> QED BY <1>4, <2>4, <2>6, <2>7, TailSets
    <3> HIDE DEF y
    <3> QED BY <3>1, <3>2
  <2>10. r.ok = TRUE /\ r.d = trie_da_set_tail_index(b.d, b.next, k) /\ r.t = tail_set_data(a.t, k, data)
    BY <1>6, <1>7, <1>9
  <2>11. TailHolds(r.t, With(C, k, y)) /\ Bears(r.d, M, WithLeaf(A, l, c, -k))
    BY <2>5, <2>8, <2>9, <2>10
  <2> HIDE DEF k, a, l
  <2> QED BY <2>4, <2>10, <2>11 DEF IsBranched, r, l
<1> QED BY <1>8, <1>9

(***************************************************************************)
(* A chain of branches (trie_branch_in_tail)                               *)
(***************************************************************************)

\* The label that is i characters of r below l, and A with the labels down to it.
Path(l, r, i) == [q \in 1 .. Len(l) + i |-> IF q <= Len(l) THEN l[q] ELSE At(r, q - Len(l))]
ChainOf(A, l, r, i, v) ==
  [m \in DOMAIN A \cup {Path(l, r, j) : j \in 1 .. i} |->
     IF m = Path(l, r, i) THEN v ELSE IF \E j \in 0 .. i - 1 : m = Path(l, r, j) THEN 1 ELSE A[m]]

\* The labels of a path.
LEMMA PathIs ==
  ASSUME NEW l \in Labels, NEW r \in Rests, NEW i \in Nat
  PROVE  /\ Path(l, r, i) \in Labels /\ Len(l) \in Nat /\ Len(Path(l, r, i)) = Len(l) + i
         /\ Path(l, r, 0) = l
         /\ At(r, i + 1) \in Chars
         /\ Path(l, r, i + 1) = Child(Path(l, r, i), At(r, i + 1))
<1>1. l \in Seq(Chars) /\ Len(l) \in Nat /\ \A q \in 1 .. Len(l) : l[q] \in Chars
  BY DEF Labels
<1>2. ASSUME NEW q \in Nat, q > Len(l) PROVE At(r, q - Len(l)) \in Chars
  BY <1>1, <1>2, StringIs DEF Positive
<1>3. ASSUME NEW n \in Nat
      PROVE  /\ Path(l, r, n) \in Seq(Chars) /\ Len(Path(l, r, n)) = Len(l) + n
             /\ \A q \in 1 .. Len(l) + n : Path(l, r, n)[q] = IF q <= Len(l) THEN l[q] ELSE At(r, q - Len(l))
  <2>1. ASSUME NEW q \in 1 .. Len(l) + n
        PROVE  (IF q <= Len(l) THEN l[q] ELSE At(r, q - Len(l))) \in Chars
    BY <1>1, <1>2
  <2>2. Path(l, r, n) \in [1 .. Len(l) + n -> Chars]
    BY <2>1 DEF Path
  <2>3. Len(l) + n \in Nat
    BY <1>1
  <2>4. Path(l, r, n) \in Seq(Chars) /\ Len(Path(l, r, n)) = Len(l) + n
    BY <2>2, <2>3
  <2> QED BY <2>4 DEF Path
<1>4. At(r, i + 1) \in Chars
  BY StringIs DEF Positive
<1>5. Path(l, r, 0) = l
  <2> DEFINE y == Path(l, r, 0)
  <2>1. 0 \in Nat /\ Len(l) + 0 = Len(l)
    BY <1>1
  <2>2. /\ y \in Seq(Chars) /\ Len(y) = Len(l)
        /\ \A q \in 1 .. Len(l) : y[q] = IF q <= Len(l) THEN l[q] ELSE At(r, q - Len(l))
    BY <1>3, <2>1
  <2> HIDE DEF y
  <2>3. \A q \in 1 .. Len(l) : y[q] = l[q]
    BY <1>1, <2>2
  <2>4. y = l
    BY <1>1, <2>2, <2>3
  <2> QED BY <2>4 DEF y
<1>6. Path(l, r, i + 1) = Append(Path(l, r, i), At(r, i + 1))
  <2> DEFINE x == Path(l, r, i + 1)
             y == Path(l, r, i)
             z == Append(y, At(r, i + 1))
  <2>1. /\ x \in Seq(Chars) /\ Len(x) = Len(l) + i + 1
        /\ \A q \in 1 .. Len(l) + i + 1 : x[q] = IF q <= Len(l) THEN l[q] ELSE At(r, q - Len(l))
    <3>1. i + 1 \in Nat /\ Len(l) + (i + 1) = Len(l) + i + 1
      BY <1>1
    <3> QED BY <1>3, <3>1
  <2>2. /\ y \in Seq(Chars) /\ Len(y) = Len(l) + i
        /\ \A q \in 1 .. Len(l) + i : y[q] = IF q <= Len(l) THEN l[q] ELSE At(r, q - Len(l))
    BY <1>3
  <2> HIDE DEF x, y
  <2>3. z \in Seq(Chars) /\ Len(z) = Len(l) + i + 1 /\ z[Len(l) + i + 1] = At(r, i + 1)
        /\ \A q \in 1 .. Len(l) + i : z[q] = y[q]
    BY <1>1, <1>4, <2>2
  <2> HIDE DEF z
  <2>4. ASSUME NEW q \in 1 .. Len(l) + i + 1 PROVE x[q] = z[q]
    <3>1. CASE q \in 1 .. Len(l) + i
      BY <1>1, <2>1, <2>2, <2>3, <3>1
    <3>2. CASE q = Len(l) + i + 1
      <4>1. ~(q <= Len(l)) /\ q - Len(l) = i + 1
        BY <1>1, <3>2
      <4> QED BY <2>1, <2>3, <3>2, <4>1
    <3> QED BY <1>1, <3>1, <3>2
  <2>5. x = z
    BY <1>1, <2>1, <2>3, <2>4
  <2> QED BY <2>5 DEF x, y, z
<1> QED BY <1>1, <1>3, <1>4, <1>5, <1>6 DEF Labels, Child

\* The same, as one fact.
IsPath(l, r, i) ==
  /\ Path(l, r, i) \in Labels /\ Len(l) \in Nat /\ Len(Path(l, r, i)) = Len(l) + i
  /\ Path(l, r, 0) = l
  /\ At(r, i + 1) \in Chars
  /\ Path(l, r, i + 1) = Child(Path(l, r, i), At(r, i + 1))

\* Every path through a label and the rest of a key is such a path.
LEMMA PathFacts ==
  ASSUME NEW l \in Labels, NEW r \in Rests, NEW i \in Nat
  PROVE  IsPath(l, r, i)
BY PathIs DEF IsPath

\* Paths of different lengths are different.
LEMMA PathsDiffer ==
  ASSUME NEW l \in Labels, NEW r \in Rests, NEW i \in Nat, NEW j \in Nat, Path(l, r, i) = Path(l, r, j)
  PROVE  i = j
<1>1. Len(Path(l, r, i)) = Len(l) + i /\ Len(l) \in Nat
  BY PathIs
<1>2. Len(Path(l, r, j)) = Len(l) + j
  BY PathIs
<1> QED BY <1>1, <1>2

\* What a chain is.
IsChain(B, A, l, r, i, v) ==
  /\ B[Path(l, r, i)] = v
  /\ DOMAIN B = DOMAIN A \cup {Path(l, r, j) : j \in 1 .. i}
  /\ Path(l, r, i) \in DOMAIN B
  /\ \A j \in 0 .. i - 1 : B[Path(l, r, j)] = 1
  /\ \A m \in DOMAIN A : m # l /\ (\A j \in 1 .. i : m # Path(l, r, j)) => B[m] = A[m]
\* A chain is one.
LEMMA ChainIs ==
  ASSUME NEW A, NEW l \in DOMAIN A, l \in Labels, NEW r \in Rests, NEW i \in Nat, NEW v
  PROVE  IsChain(ChainOf(A, l, r, i, v), A, l, r, i, v)
<1> DEFINE B == ChainOf(A, l, r, i, v)
<1>1. DOMAIN B = DOMAIN A \cup {Path(l, r, j) : j \in 1 .. i}
      /\ \A m \in DOMAIN B : B[m] = IF m = Path(l, r, i) THEN v
                                   ELSE IF \E j \in 0 .. i - 1 : m = Path(l, r, j) THEN 1 ELSE A[m]
  BY DEF ChainOf
<1> HIDE DEF B
<1>2. Path(l, r, 0) = l
  BY PathIs
<1>3. ASSUME NEW j \in 0 .. i PROVE Path(l, r, j) \in DOMAIN B
  <2>1. CASE j = 0
    BY <1>1, <1>2, <2>1
  <2>2. CASE j \in 1 .. i
    BY <1>1, <2>2
  <2> QED BY <2>1, <2>2
<1>4. ASSUME NEW j \in 0 .. i - 1 PROVE B[Path(l, r, j)] = 1
  <2>1. Path(l, r, j) # Path(l, r, i) /\ Path(l, r, j) \in DOMAIN B
    BY <1>3, PathsDiffer
  <2> QED BY <1>1, <2>1
<1>5. ASSUME NEW m \in DOMAIN A, m # l /\ (\A j \in 1 .. i : m # Path(l, r, j)) PROVE B[m] = A[m]
  <2>1. m # Path(l, r, i)
    BY <1>2, <1>5
  <2>2. ASSUME NEW j \in 0 .. i - 1 PROVE m # Path(l, r, j)
    BY <1>2, <1>5
  <2> QED BY <1>1, <2>1, <2>2
<1>6. i \in 0 .. i
  OBVIOUS
<1>7. B[Path(l, r, i)] = v
  BY <1>1, <1>3, <1>6
<1>8. IsChain(B, A, l, r, i, v)
  BY <1>1, <1>3, <1>4, <1>5, <1>6, <1>7 DEF IsChain
<1> QED BY <1>8 DEF B

\* One more label makes a longer chain.
LEMMA ChainGrows ==
  ASSUME NEW A, NEW l \in DOMAIN A, l \in Labels, NEW r \in Rests, NEW i \in Nat, NEW v, NEW u
  PROVE  WithLeaf(ChainOf(A, l, r, i, v), Path(l, r, i), At(r, i + 1), u) = ChainOf(A, l, r, i + 1, u)
<1> DEFINE B == ChainOf(A, l, r, i, v)
           E == ChainOf(A, l, r, i + 1, u)
           W == WithLeaf(B, Path(l, r, i), At(r, i + 1), u)
           n == Path(l, r, i + 1)
<1>1. DOMAIN B = DOMAIN A \cup {Path(l, r, j) : j \in 1 .. i}
      /\ \A m \in DOMAIN B : B[m] = IF m = Path(l, r, i) THEN v
                                   ELSE IF \E j \in 0 .. i - 1 : m = Path(l, r, j) THEN 1 ELSE A[m]
  BY DEF ChainOf
<1>2. /\ DOMAIN E = DOMAIN A \cup {Path(l, r, j) : j \in 1 .. i + 1}
      /\ E = [m \in DOMAIN E |-> E[m]]
      /\ \A m \in DOMAIN E : E[m] = IF m = n THEN u
                                   ELSE IF \E j \in 0 .. (i + 1) - 1 : m = Path(l, r, j) THEN 1 ELSE A[m]
  BY DEF ChainOf
<1>3. n = Child(Path(l, r, i), At(r, i + 1))
  BY PathIs
<1>4. /\ DOMAIN W = DOMAIN B \cup {n} /\ W = [m \in DOMAIN W |-> W[m]]
      /\ \A m \in DOMAIN W : W[m] = IF m = n THEN u ELSE IF m = Path(l, r, i) THEN 1 ELSE B[m]
  BY <1>3 DEF WithLeaf
<1> HIDE DEF B, E, W, n
<1>5. DOMAIN W = DOMAIN E
  <2>1. {Path(l, r, j) : j \in 1 .. i + 1} = {Path(l, r, j) : j \in 1 .. i} \cup {n}
    <3>1. \A j \in 1 .. i + 1 : j \in 1 .. i \/ j = i + 1
      OBVIOUS
    <3>2. i + 1 \in 1 .. i + 1 /\ \A j \in 1 .. i : j \in 1 .. i + 1
      OBVIOUS
    <3> QED BY <3>1, <3>2 DEF n
  <2> QED BY <1>1, <1>2, <1>4, <2>1
<1>6. ASSUME NEW m \in DOMAIN W PROVE W[m] = E[m]
  <2>1. CASE m = n
    BY <1>2, <1>4, <1>5, <2>1
  <2>2. CASE m # n /\ m = Path(l, r, i)
    <3>1. i \in 0 .. (i + 1) - 1
      OBVIOUS
    <3>2. E[m] = 1
      BY <1>2, <1>5, <2>2, <3>1
    <3> QED BY <1>4, <2>2, <3>2
  <2>3. CASE m # n /\ m # Path(l, r, i)
    <3>1. m \in DOMAIN B /\ W[m] = B[m]
      BY <1>4, <2>3
    <3>2. (\E j \in 0 .. i - 1 : m = Path(l, r, j)) <=> (\E j \in 0 .. (i + 1) - 1 : m = Path(l, r, j))
      <4>1. \A j \in 0 .. (i + 1) - 1 : j \in 0 .. i - 1 \/ j = i
        OBVIOUS
      <4>2. \A j \in 0 .. i - 1 : j \in 0 .. (i + 1) - 1
        OBVIOUS
      <4> QED BY <2>3, <4>1, <4>2
    <3> QED BY <1>1, <1>2, <1>5, <2>3, <3>1, <3>2
  <2> QED BY <2>1, <2>2, <2>3
<1>7. W = E
  BY <1>2, <1>4, <1>5, <1>6
<1> QED BY <1>7 DEF W, E, B

\* x comes of k branches from l along r, or of fewer and a failure.
ChainState == [ok : BOOLEAN, d : Arrays, s : Int]
ChainWith(x, i, M, v, k, L, A, l, r) ==
  /\ v < 0 /\ (i = 0 => v = A[l])
  /\ Bears(x.d, M, ChainOf(A, l, r, i, v))
  /\ x.s \in DOMAIN M /\ M[x.s] = Path(l, r, i) /\ Extends(M, L)
  /\ x.ok => i = k
  /\ \A j \in 1 .. i : Path(l, r, j) \notin DOMAIN A
ChainedTo(x, k, L, A, l, r) ==
  \E i \in 0 .. k : \E M : \E v \in Int : ChainWith(x, i, M, v, k, L, A, l, r)

\* y is x with a branch more, if all went well.
Grew(y, x, k, A, l, r) ==
  y.ok => \E M : \E v \in Int :
            /\ v < 0 /\ Bears(y.d, M, ChainOf(A, l, r, k + 1, v))
            /\ x.s \in DOMAIN M /\ M[x.s] = Path(l, r, k)
            /\ y.s \in DOMAIN M /\ M[y.s] = Path(l, r, k + 1)
            /\ \A j \in 1 .. k + 1 : Path(l, r, j) \notin DOMAIN A
\* One branch more (lines 468-481).
LEMMA BranchedIs ==
  ASSUME NEW L, NEW A, NEW l \in DOMAIN A, l \in Labels, NEW r \in Rests, NEW k \in Nat,
         NEW x \in ChainState, ChainedTo(x, k, L, A, l, r)
  PROVE  /\ ChainedTo(Branched(x, At(r, k + 1)), k + 1, L, A, l, r)
         /\ Branched(x, At(r, k + 1)) \in ChainState
         /\ Grew(Branched(x, At(r, k + 1)), x, k, A, l, r)
<1> DEFINE c == At(r, k + 1)
           b == da_insert_branch(x.d, x.s, c)
           y == [ok |-> b.next # TRIE_INDEX_ERROR, d |-> b.d,
                 s |-> IF b.next = TRIE_INDEX_ERROR THEN x.s ELSE b.next]
<1>1. PICK i \in 0 .. k : \E M : \E v \in Int : ChainWith(x, i, M, v, k, L, A, l, r)
  BY DEF ChainedTo
<1>2. PICK M : \E v \in Int : ChainWith(x, i, M, v, k, L, A, l, r)
  BY <1>1
<1>3. PICK v \in Int : ChainWith(x, i, M, v, k, L, A, l, r)
  BY <1>2
<1>4. i \in Nat /\ i \in 0 .. k + 1 /\ k + 1 \in Nat
  OBVIOUS
<1>5. CASE ~x.ok
  <2>1. Branched(x, c) = x
    BY <1>5 DEF Branched
  <2>2. ChainWith(x, i, M, v, k + 1, L, A, l, r)
    BY <1>3, <1>5 DEF ChainWith
  <2>3. Grew(x, x, k, A, l, r)
    BY <1>5 DEF Grew
  <2>4. ChainedTo(x, k + 1, L, A, l, r)
    BY <1>4, <2>2 DEF ChainedTo
  <2> QED BY <2>1, <2>3, <2>4
<1>6. CASE x.ok
  <2> DEFINE B == ChainOf(A, l, r, i, v)
  <2>1. /\ i = k /\ v < 0 /\ Bears(x.d, M, B) /\ x.s \in DOMAIN M /\ M[x.s] = Path(l, r, k)
        /\ Extends(M, L) /\ \A j \in 1 .. k : Path(l, r, j) \notin DOMAIN A
    BY <1>3, <1>6 DEF ChainWith
  <2>2. B[Path(l, r, k)] = v /\ DOMAIN A \subseteq DOMAIN B
    <3>1. IsChain(B, A, l, r, i, v)
      BY <1>4, ChainIs
    <3> HIDE DEF B
    <3> QED BY <2>1, <3>1 DEF IsChain
  <2>3. c \in Chars /\ Path(l, r, k) \in Labels /\ Path(l, r, k + 1) = Child(Path(l, r, k), c)
    BY PathIs
  <2>4. IsTree(M, B)
    BY <2>1, BearsIs
  <2>5. Branched(x, c) = y
    BY <1>6 DEF Branched
  <2>6. /\ y.ok = (b.next # TRIE_INDEX_ERROR) /\ y.d = b.d
        /\ y.s = IF b.next = TRIE_INDEX_ERROR THEN x.s ELSE b.next
    OBVIOUS
  <2> HIDE DEF c, b, B
  <2>7. IsInserted(b, x.d, M, B, x.s, c)
    BY <2>1, <2>3, InsertIs DEF b
  <2>8. ASSUME NEW n, NEW N, Bears(b.d, N, n), y.s \in DOMAIN N PROVE y \in ChainState
    <3>1. b.d \in Arrays
      BY <2>8, NodesAre DEF Bears, Bearing
    <3>2. y.s \in Int
      BY <2>8, BearsIs DEF IsTree
    <3> QED BY <2>6, <3>1, <3>2 DEF ChainState
  <2> HIDE DEF y
  <2>9. CASE b.next = TRIE_INDEX_ERROR
    <3>1. Bears(b.d, M, B)
      BY <2>7, <2>9 DEF IsInserted
    <3>2. y.d = b.d /\ y.s = x.s /\ ~y.ok
      BY <2>6, <2>9
    <3>3. ChainWith(y, i, M, v, k + 1, L, A, l, r)
      BY <1>3, <2>1, <3>1, <3>2 DEF ChainWith, B
    <3>4. y \in ChainState
      BY <2>1, <2>8, <3>1, <3>2
    <3>5. ChainedTo(y, k + 1, L, A, l, r)
      BY <1>4, <3>3 DEF ChainedTo
    <3>6. Grew(y, x, k, A, l, r)
      BY <3>2 DEF Grew
    <3> QED BY <2>5, <3>4, <3>5, <3>6 DEF c
  <2>10. CASE b.next # TRIE_INDEX_ERROR
    <3>1. ~(b.next \in DOMAIN M /\ M[b.next] = Child(M[x.s], c))
      <4>1. SUFFICES ASSUME b.next \in DOMAIN M, M[b.next] = Child(M[x.s], c) PROVE FALSE
        OBVIOUS
      <4>2. M[x.s] \in DOMAIN B /\ Child(M[x.s], c) \in DOMAIN B
        BY <2>1, <2>4, <4>1 DEF IsTree
      <4>3. B[M[x.s]] = 1
        BY <2>3, <2>4, <4>2 DEF IsTree
      <4> QED BY <2>1, <2>2, <4>3
    <3>2. /\ Child(M[x.s], c) \notin DOMAIN B
          /\ \E N : \E u \in Int :
               /\ u < 0 /\ Bears(b.d, N, WithLeaf(B, M[x.s], c, u))
               /\ b.next \in DOMAIN N /\ N[b.next] = Child(M[x.s], c)
               /\ x.s \in DOMAIN N /\ N[x.s] = M[x.s]
               /\ B[M[x.s]] <= 0 => Extends(N, M)
      BY <2>7, <2>10, <3>1 DEF IsInserted
    <3>3. PICK N : \E u \in Int :
               /\ u < 0 /\ Bears(b.d, N, WithLeaf(B, M[x.s], c, u))
               /\ b.next \in DOMAIN N /\ N[b.next] = Child(M[x.s], c)
               /\ x.s \in DOMAIN N /\ N[x.s] = M[x.s]
               /\ B[M[x.s]] <= 0 => Extends(N, M)
      BY <3>2
    <3>4. PICK u \in Int :
               /\ u < 0 /\ Bears(b.d, N, WithLeaf(B, M[x.s], c, u))
               /\ b.next \in DOMAIN N /\ N[b.next] = Child(M[x.s], c)
               /\ x.s \in DOMAIN N /\ N[x.s] = M[x.s]
               /\ B[M[x.s]] <= 0 => Extends(N, M)
      BY <3>3
    <3>5. WithLeaf(B, Path(l, r, k), c, u) = ChainOf(A, l, r, k + 1, u)
      BY <2>1, ChainGrows DEF B, c
    <3>6. Bears(b.d, N, ChainOf(A, l, r, k + 1, u)) /\ N[b.next] = Path(l, r, k + 1)
      BY <2>1, <2>3, <3>4, <3>5
    <3>7. Extends(N, L)
      <4>1. Extends(N, M)
        BY <2>1, <2>2, <3>4
      <4> QED BY <2>1, <4>1 DEF Extends
    <3>8. \A j \in 1 .. k + 1 : Path(l, r, j) \notin DOMAIN A
      <4>1. Path(l, r, k + 1) \notin DOMAIN A
        BY <2>1, <2>2, <2>3, <3>2
      <4>2. \A j \in 1 .. k + 1 : j \in 1 .. k \/ j = k + 1
        OBVIOUS
      <4> QED BY <2>1, <4>1, <4>2
    <3>9. y.d = b.d /\ y.s = b.next /\ y.ok
      BY <2>6, <2>10
    <3>10. k + 1 # 0
      OBVIOUS
    <3>11. ChainWith(y, k + 1, N, u, k + 1, L, A, l, r)
      BY <3>4, <3>6, <3>7, <3>8, <3>9, <3>10 DEF ChainWith
    <3>12. y \in ChainState
      BY <2>8, <3>4, <3>6, <3>9
    <3>13. k + 1 \in 0 .. k + 1
      OBVIOUS
    <3>14. ChainedTo(y, k + 1, L, A, l, r)
      BY <3>11, <3>13 DEF ChainedTo
    <3>15. Grew(y, x, k, A, l, r)
      BY <2>1, <3>4, <3>6, <3>8, <3>9 DEF Grew
    <3> QED BY <2>5, <3>12, <3>14, <3>15 DEF c
  <2> QED BY <2>9, <2>10
<1> QED BY <1>5, <1>6

\* The first loop of branching in the tail (lines 468-474).
LEMMA SharedIs ==
  ASSUME NEW d, NEW L, NEW A, Bears(d, L, A), NEW s \in DOMAIN L, A[L[s]] < 0,
         NEW r \in Rests, NEW n \in Nat
  PROVE  ChainedTo(SharedBranches(d, s, r, n), n, L, A, L[s], r) /\ SharedBranches(d, s, r, n) \in ChainState
<1> DEFINE l == L[s]
           base == [ok |-> TRUE, d |-> d, s |-> s]
           I == {z \in Nat \X ChainState : ChainedTo(z[2], z[1], L, A, l, r)}
           step == [z \in Nat \X ChainState |-> Branched(z[2], At(r, z[1]))]
           upto == CHOOSE f : f = [k \in 0 .. n |-> IF k = 0 THEN base ELSE Branched(f[k - 1], At(r, k))]
<1>1. LabelTree(A) /\ IsTree(L, A)
  BY LabelTreeIs
<1>2. l \in DOMAIN A /\ l \in Labels /\ A[l] \in Int /\ s \in Int /\ d \in Arrays
  <2>1. d \in Arrays
    BY NodesAre DEF Bears, Bearing
  <2> QED BY <1>1, <2>1 DEF IsTree
<1>3. SharedBranches(d, s, r, n) = upto[n]
  BY DEF SharedBranches
<1>4. base \in ChainState /\ base.ok /\ base.d = d /\ base.s = s
  BY <1>2 DEF ChainState
<1> HIDE DEF base
<1>5. <<0, base>> \in I
  <2>1. Path(l, r, 0) = l
    BY <1>2, PathIs
  <2>2. ChainOf(A, l, r, 0, A[l]) = A
    <3>1. {Path(l, r, j) : j \in 1 .. 0} = {} /\ ~\E j \in 0 .. 0 - 1 : TRUE
      OBVIOUS
    <3>2. \A m \in DOMAIN A : (IF m = l THEN A[l] ELSE IF \E j \in 0 .. 0 - 1 : m = Path(l, r, j) THEN 1 ELSE A[m]) = A[m]
      BY <3>1
    <3>3. DOMAIN A \cup {Path(l, r, j) : j \in 1 .. 0} = DOMAIN A
      BY <3>1
    <3>4. A = [m \in DOMAIN A |-> A[m]]
      BY <1>1 DEF LabelTree
    <3> QED BY <2>1, <3>2, <3>3, <3>4 DEF ChainOf
  <2>3. Extends(L, L)
    BY DEF Extends
  <2>4. ~\E j \in 1 .. 0 : TRUE
    OBVIOUS
  <2>5. ChainWith(base, 0, L, A[l], 0, L, A, l, r)
    BY <1>4, <2>1, <2>2, <2>3, <2>4 DEF ChainWith
  <2>6. 0 \in 0 .. 0
    OBVIOUS
  <2>7. ChainedTo(base, 0, L, A, l, r)
    BY <1>2, <2>5, <2>6 DEF ChainedTo
  <2> QED BY <1>4, <2>7
<1> HIDE DEF l
<1>6. ASSUME NEW k \in 1 .. n, NEW v \in ChainState, <<k - 1, v>> \in I
      PROVE  /\ step[<<k, v>>] = Branched(v, At(r, k)) /\ step[<<k, v>>] \in ChainState
             /\ <<k, step[<<k, v>>]>> \in I
  <2>1. k \in Nat /\ k - 1 \in Nat /\ (k - 1) + 1 = k
    OBVIOUS
  <2>2. ChainedTo(v, k - 1, L, A, l, r)
    BY <1>6
  <2>3. step[<<k, v>>] = Branched(v, At(r, k))
    BY <2>1
  <2> HIDE DEF step
  <2>4. /\ ChainedTo(Branched(v, At(r, (k - 1) + 1)), (k - 1) + 1, L, A, l, r)
        /\ Branched(v, At(r, (k - 1) + 1)) \in ChainState
    BY <1>2, <2>1, <2>2, BranchedIs
  <2> QED BY <2>1, <2>3, <2>4
<1>7. PICK f : Follows(f, n, base, step) /\ \A k \in 0 .. n : f[k] \in ChainState /\ <<k, f[k]>> \in I
  <2>1. \A k \in 1 .. n : \A v \in ChainState : <<k - 1, v>> \in I =>
           step[<<k, v>>] \in ChainState /\ <<k, step[<<k, v>>]>> \in I
    BY <1>6
  <2> HIDE DEF step, I
  <2> QED BY <1>4, <1>5, <2>1, GuidedRecursion
<1>8. f = [k \in 0 .. n |-> f[k]] /\ f[0] = base /\ \A k \in 1 .. n : f[k] = step[<<k, f[k - 1]>>]
  BY <1>7 DEF Follows
<1> HIDE DEF step, I
<1>9. ASSUME NEW k \in 1 .. n PROVE f[k] = Branched(f[k - 1], At(r, k))
  <2>1. k - 1 \in 0 .. n
    OBVIOUS
  <2>2. f[k - 1] \in ChainState /\ <<k - 1, f[k - 1]>> \in I
    BY <1>7, <2>1
  <2> QED BY <1>6, <1>8, <2>2
<1>10. f = [k \in 0 .. n |-> IF k = 0 THEN base ELSE Branched(f[k - 1], At(r, k))]
  <2>1. ASSUME NEW k \in 0 .. n PROVE f[k] = IF k = 0 THEN base ELSE Branched(f[k - 1], At(r, k))
    <3>1. k # 0 => k \in 1 .. n
      OBVIOUS
    <3> QED BY <1>8, <1>9, <3>1
  <2> QED BY <1>8, <2>1
<1>11. upto = [k \in 0 .. n |-> IF k = 0 THEN base ELSE Branched(upto[k - 1], At(r, k))]
  BY <1>10
<1> HIDE DEF upto
<1>12. \A k \in 0 .. n : upto[k] = f[k]
  <2> DEFINE Same == {k \in 0 .. n : upto[k] = f[k]}
  <2>1. 0 \in Same
    BY <1>10, <1>11
  <2>2. ASSUME NEW k \in 1 .. n, k - 1 \in Same PROVE k \in Same
    BY <1>9, <1>11, <2>2
  <2> HIDE DEF Same
  <2>3. \A k \in 0 .. n : k \in Same
    BY <2>1, <2>2, UpToInduction
  <2> QED BY <2>3 DEF Same
<1>13. upto[n] \in ChainState /\ ChainedTo(upto[n], n, L, A, l, r)
  <2>1. n \in 0 .. n
    OBVIOUS
  <2>2. f[n] \in ChainState /\ <<n, f[n]>> \in I
    BY <1>7, <2>1
  <2>3. ChainedTo(f[n], n, L, A, l, r)
    BY <2>2 DEF I
  <2> QED BY <1>12, <2>1, <2>2, <2>3
<1> QED BY <1>3, <1>13 DEF l

\* A separate node whose children are pruned gets its block back (lines 488-492).
LEMMA UndoneIs ==
  ASSUME NEW L, NEW A, LabelTree(A), NEW s \in DOMAIN L, L[s] \in DOMAIN A, A[L[s]] < 0,
         NEW r \in Rests, NEW k \in Nat, NEW x, ChainedTo(x, k, L, A, L[s], r)
  PROVE  \E N : Bears(Undone(x.d, s, x.s, -A[L[s]]), N, A)
<1> DEFINE l == L[s]
<1>0. l \in Labels /\ l \in DOMAIN A /\ A[l] \in Int /\ A[l] < 0 /\ l # <<>>
  BY DEF LabelTree
<1>1. PICK i \in 0 .. k : \E M : \E v \in Int : ChainWith(x, i, M, v, k, L, A, l, r)
  BY DEF ChainedTo
<1>2. PICK M : \E v \in Int : ChainWith(x, i, M, v, k, L, A, l, r)
  BY <1>1
<1>3. PICK v \in Int : ChainWith(x, i, M, v, k, L, A, l, r)
  BY <1>2
<1>4. i \in Nat
  OBVIOUS
<1> DEFINE B == ChainOf(A, l, r, i, v)
           P(j) == Path(l, r, j)
           Below(y) == {P(j) : j \in y + 1 .. i}
           H == {<<Below(y), P(y)>> : y \in 0 .. i}
<1>5. /\ v < 0 /\ (i = 0 => v = A[l]) /\ Bears(x.d, M, B)
      /\ x.s \in DOMAIN M /\ M[x.s] = P(i) /\ s \in DOMAIN M /\ M[s] = l
      /\ \A j \in 1 .. i : P(j) \notin DOMAIN A
  BY <1>3 DEF ChainWith, Extends
<1>6. LabelTree(B) /\ IsTree(M, B)
  BY <1>5, LabelTreeIs
<1>7. /\ B[P(i)] = v
      /\ DOMAIN B = DOMAIN A \cup {P(j) : j \in 1 .. i}
      /\ \A j \in 0 .. i - 1 : B[P(j)] = 1
      /\ \A m \in DOMAIN A : m # l /\ (\A j \in 1 .. i : m # P(j)) => B[m] = A[m]
  <2>1. IsChain(B, A, l, r, i, v)
    <3> HIDE DEF l
    <3> QED BY <1>0, <1>4, ChainIs
  <2> HIDE DEF B
  <2> QED BY <2>1 DEF IsChain
<1>8. /\ P(0) = l /\ Len(l) \in Nat
      /\ \A j \in 0 .. i : P(j) \in Labels /\ Len(P(j)) = Len(l) + j
      /\ \A j \in 1 .. i : At(r, j) \in Chars /\ P(j) = Child(P(j - 1), At(r, j))
  <2>1. P(0) = l /\ Len(l) \in Nat
    BY <1>0, PathIs
  <2>2. ASSUME NEW j \in 0 .. i PROVE P(j) \in Labels /\ Len(P(j)) = Len(l) + j
    <3> HIDE DEF l
    <3>1. IsPath(l, r, j)
      BY <1>0, PathFacts
    <3> QED BY <3>1 DEF IsPath
  <2>3. ASSUME NEW j \in 1 .. i PROVE At(r, j) \in Chars /\ P(j) = Child(P(j - 1), At(r, j))
    <3>1. j - 1 \in Nat /\ (j - 1) + 1 = j
      OBVIOUS
    <3>2. At(r, (j - 1) + 1) \in Chars /\ P((j - 1) + 1) = Child(P(j - 1), At(r, (j - 1) + 1))
      <4> HIDE DEF l
      <4>1. IsPath(l, r, j - 1)
        BY <1>0, <3>1, PathFacts
      <4> QED BY <4>1 DEF IsPath
    <3> QED BY <3>1, <3>2
  <2> QED BY <2>1, <2>2, <2>3
<1> HIDE DEF B, P, l
<1>9. Allows(H, M, B, x.s, s)
  <2>1. <<{}, M[x.s]>> \in H
    <3>1. Below(i) = {} /\ i \in 0 .. i
      BY <1>4
    <3> QED BY <1>5, <3>1
  <2>2. ASSUME NEW G, <<G, <<>>>> \in H PROVE FALSE
    <3>1. PICK y \in 0 .. i : P(y) = <<>>
      BY <2>2
    <3>2. Len(l) + y = 0
      BY <1>8, <3>1
    <3>3. y = 0
      BY <1>8, <3>2
    <3> QED BY <1>0, <1>8, <3>1, <3>3
  <2>3. ASSUME NEW G, NEW m \in DOMAIN B, NEW c \in Chars, <<G, Child(m, c)>> \in H, Child(m, c) # M[s]
        PROVE  <<G \cup {Child(m, c)}, m>> \in H
    <3>1. PICK y \in 0 .. i : G = Below(y) /\ Child(m, c) = P(y)
      BY <2>3
    <3>2. y # 0
      BY <1>5, <1>8, <2>3, <3>1
    <3>3. y \in 1 .. i /\ y - 1 \in 0 .. i /\ (y - 1) + 1 = y
      BY <3>2
    <3>4. m \in Labels
      BY <1>6 DEF LabelTree
    <3>5. m = P(y - 1)
      <4>1. P(y - 1) \in Labels /\ At(r, y) \in Chars /\ Child(m, c) = Child(P(y - 1), At(r, y))
        BY <1>8, <3>1, <3>3
      <4> QED BY <3>4, <4>1, ChildIs
    <3>6. Below(y - 1) = G \cup {P(y)}
      <4>1. \A j \in (y - 1) + 1 .. i : j = y \/ j \in y + 1 .. i
        BY <3>3
      <4>2. y \in (y - 1) + 1 .. i /\ \A j \in y + 1 .. i : j \in (y - 1) + 1 .. i
        BY <3>3
      <4> QED BY <3>1, <4>1, <4>2
    <3> HIDE DEF Below
    <3> QED BY <3>1, <3>3, <3>5, <3>6
  <2> HIDE DEF H
  <2> QED BY <2>1, <2>2, <2>3 DEF Allows
<1> DEFINE e == da_prune_upto(x.d, s, x.s)
<1>10. \E G, N, q : /\ IsPruned(e, q, G, N, M, B, x.s, H)
                    /\ q = s \/ \E c \in Chars : Child(M[q], c) \in DOMAIN B \ G
  <2> HIDE DEF H
  <2> QED BY <1>5, <1>9, PruneIs
<1>11. PICK G, N, q : /\ IsPruned(e, q, G, N, M, B, x.s, H)
                      /\ q = s \/ \E c \in Chars : Child(M[q], c) \in DOMAIN B \ G
  BY <1>10
<1>12. /\ Bears(e, N, Only(B, DOMAIN B \ G)) /\ <<G, M[q]>> \in H
       /\ \A z \in DOMAIN N : z \in DOMAIN M /\ N[z] = M[z]
       /\ \A z \in DOMAIN M : M[z] \notin G => z \in DOMAIN N
  BY <1>11 DEF IsPruned
<1>13. PICK y \in 0 .. i : G = Below(y) /\ M[q] = P(y)
  BY <1>12
<1>14. y = 0
  <2>1. CASE q = s
    <3>1. Len(l) + y = Len(l) + 0
      BY <1>5, <1>8, <1>13, <2>1
    <3> QED BY <1>8, <3>1
  <2>2. CASE \E c \in Chars : Child(M[q], c) \in DOMAIN B \ G
    <3>1. SUFFICES ASSUME y # 0 PROVE FALSE
      OBVIOUS
    <3>2. y \in 1 .. i
      BY <3>1
    <3>3. PICK c \in Chars : Child(P(y), c) \in DOMAIN B \ G
      BY <1>13, <2>2
    <3>4. P(y) \in Labels /\ P(y) \notin DOMAIN A
      BY <1>5, <1>8, <3>2
    <3>5. Child(P(y), c) \notin DOMAIN A
      BY <3>4, ParentIs
    <3>6. PICK j \in 1 .. i : Child(P(y), c) = P(j)
      BY <1>7, <3>3, <3>5
    <3>7. j \in 0 .. i /\ Len(P(j)) = Len(l) + j /\ Len(P(y)) = Len(l) + y /\ Len(P(j)) = Len(P(y)) + 1
      <4>1. Len(Child(P(y), c)) = Len(P(y)) + 1
        BY <3>4, ChildIs
      <4>2. j \in 0 .. i
        OBVIOUS
      <4>3. Len(P(j)) = Len(l) + j /\ Len(P(y)) = Len(l) + y
        BY <1>8, <4>2
      <4> QED BY <3>6, <4>1, <4>2, <4>3
    <3>8. j = y + 1
      BY <1>8, <3>7
    <3>9. P(j) \in Below(y)
      BY <3>8
    <3> QED BY <1>13, <3>3, <3>6, <3>9
  <2> QED BY <1>11, <2>1, <2>2
<1>15. G = {P(j) : j \in 1 .. i} /\ l \notin G
  <2>1. 0 + 1 = 1
    OBVIOUS
  <2>2. G = {P(j) : j \in 1 .. i}
    BY <1>13, <1>14, <2>1
  <2> QED BY <1>0, <1>5, <2>2
<1>16. DOMAIN B \ G = DOMAIN A
  BY <1>5, <1>7, <1>15, SMTT(60)
<1> DEFINE F == Only(B, DOMAIN A)
<1>17. /\ Bears(e, N, F) /\ DOMAIN F = DOMAIN A
       /\ F = [m \in DOMAIN F |-> F[m]] /\ \A m \in DOMAIN A : m # l => F[m] = A[m]
  <2>1. DOMAIN F = DOMAIN A /\ F = [m \in DOMAIN F |-> F[m]] /\ \A m \in DOMAIN A : F[m] = B[m]
    BY DEF Only
  <2>2. \A m \in DOMAIN A : m # l => B[m] = A[m]
    BY <1>5, <1>7
  <2> QED BY <1>12, <1>16, <2>1, <2>2
<1> HIDE DEF F, e
<1>18. s \in DOMAIN N /\ N[s] = l
  BY <1>5, <1>12, <1>15
<1>19. \A c \in Chars : Child(l, c) \notin DOMAIN F
  BY <1>0, <1>17, ParentIs
<1>20. Bears(da_set_base(e, s, A[l]), N, [F EXCEPT ![l] = A[l]])
  <2> DEFINE w == A[l]
  <2>1. w \in Int /\ w <= 0 /\ N[s] # <<>> /\ \A c \in Chars : Child(N[s], c) \notin DOMAIN F
    BY <1>0, <1>18, <1>19
  <2> HIDE DEF w
  <2>2. Bears(da_set_base(e, s, w), N, [F EXCEPT ![N[s]] = w])
    BY <1>17, <1>18, <2>1, SetBears
  <2> QED BY <1>18, <2>2 DEF w
<1>21. [F EXCEPT ![l] = A[l]] = A
  <2>1. A = [m \in DOMAIN A |-> A[m]]
    BY DEF LabelTree
  <2>2. [F EXCEPT ![l] = A[l]] = [m \in DOMAIN A |-> IF m = l THEN A[l] ELSE F[m]]
    BY <1>17
  <2>3. \A m \in DOMAIN A : (IF m = l THEN A[l] ELSE F[m]) = A[m]
    BY <1>17
  <2> QED BY <2>1, <2>2, <2>3
<1>22. Undone(x.d, s, x.s, -A[l]) = da_set_base(e, s, A[l])
  <2>1. -(-A[l]) = A[l]
    BY <1>0
  <2>2. Undone(x.d, s, x.s, -A[l]) = da_set_base(e, s, -(-A[l]))
    BY ZenonT(60) DEF Undone, trie_da_set_tail_index, e
  <2> QED BY <2>1, <2>2
<1> QED BY <1>20, <1>21, <1>22 DEF l

(***************************************************************************)
(* A separate node moves down its suffix (trie_branch_in_tail)             *)
(***************************************************************************)

\* Two different strings part at a first character (line 468).
LEMMA DifferAt ==
  ASSUME NEW x \in Rests, NEW y \in Rests, x # y
  PROVE  /\ FirstDifference(x, y) \in 1 .. Len(x) + 1 /\ FirstDifference(x, y) \in Nat
         /\ At(x, FirstDifference(x, y)) # At(y, FirstDifference(x, y))
         /\ \A j \in Positive : j < FirstDifference(x, y) => At(x, j) = At(y, j) /\ At(x, j) # 0
<1> DEFINE T == {p \in 1 .. Len(x) + 1 : At(x, p) # At(y, p)}
<1>1. /\ Len(x) \in Nat /\ Len(y) \in Nat
      /\ \A p \in Positive : (At(x, p) = 0 <=> p > Len(x)) /\ (At(y, p) = 0 <=> p > Len(y))
  BY StringIs
<1>2. PICK q \in Positive : At(x, q) # At(y, q)
  BY SameString
<1>3. T # {}
  <2>1. CASE q \in 1 .. Len(x) + 1
    BY <1>2, <2>1
  <2>2. CASE ~(q \in 1 .. Len(x) + 1)
    <3>1. q \in Nat /\ q > 0
      BY DEF Positive
    <3>2. q > Len(x) + 1
      BY <1>1, <2>2, <3>1
    <3>3. At(x, q) = 0 /\ q <= Len(y)
      BY <1>1, <1>2, <3>1, <3>2
    <3>4. Len(x) + 1 \in Positive /\ Len(x) + 1 <= Len(y) /\ Len(x) + 1 > Len(x)
      BY <1>1, <3>1, <3>2, <3>3 DEF Positive
    <3>5. At(x, Len(x) + 1) = 0 /\ At(y, Len(x) + 1) # 0
      BY <1>1, <3>4
    <3>6. Len(x) + 1 \in 1 .. Len(x) + 1
      BY <1>1
    <3> QED BY <3>5, <3>6
  <2> QED BY <2>1, <2>2
<1>4. T \in SUBSET Nat
  OBVIOUS
<1> DEFINE p == FirstDifference(x, y)
<1>5. p \in T /\ \A z \in T : p <= z
  <2>1. p = Min(T)
    BY DEF FirstDifference
  <2> HIDE DEF T, p
  <2> QED BY <1>3, <1>4, <2>1, MinNatural
<1>6. p \in 1 .. Len(x) + 1 /\ p \in Nat /\ At(x, p) # At(y, p)
  BY <1>4, <1>5
<1>7. ASSUME NEW j \in Positive, j < p PROVE At(x, j) = At(y, j) /\ At(x, j) # 0
  <2> HIDE DEF p
  <2>1. j \in 1 .. Len(x) + 1 /\ j <= Len(x)
    BY <1>1, <1>6, <1>7 DEF Positive
  <2>2. j \notin T
    BY <1>5, <1>6, <1>7, <2>1
  <2> QED BY <1>1, <2>1, <2>2
<1> QED BY <1>6, <1>7

\* What is left of the rest further down spells the same string.
LEMMA PathSpells ==
  ASSUME NEW l \in Labels, NEW r \in Rests, NEW p \in Nat, NEW str
  PROVE  Spelled(Path(l, r, p), From(r, p + 1), str) <=> Spelled(l, r, str)
<1> DEFINE m == Path(l, r, p)
<1>1. Len(l) \in Nat /\ Len(m) = Len(l) + p
  BY PathIs
<1>2. \A q \in 1 .. Len(l) + p : m[q] = IF q <= Len(l) THEN l[q] ELSE At(r, q - Len(l))
  BY DEF Path
<1>3. ASSUME NEW q \in Positive PROVE At(From(r, p + 1), q) = At(r, p + q)
  <2>1. p + 1 \in Positive /\ p + 1 + q - 1 = p + q
    BY DEF Positive
  <2>2. At(From(r, p + 1), q) = At(r, p + 1 + q - 1)
    BY <2>1, FromIs
  <2> QED BY <2>1, <2>2
<1> HIDE DEF m
<1>4. ASSUME Spelled(l, r, str) PROVE Spelled(m, From(r, p + 1), str)
  <2>1. (\A q \in 1 .. Len(l) : l[q] = At(str, q)) /\ \A q \in Positive : At(r, q) = At(str, Len(l) + q)
    BY <1>4 DEF Spelled, Along
  <2>2. ASSUME NEW q \in 1 .. Len(l) + p PROVE m[q] = At(str, q)
    <3>1. CASE q <= Len(l)
      BY <1>1, <1>2, <2>1, <3>1
    <3>2. CASE ~(q <= Len(l))
      <4>1. q - Len(l) \in Positive /\ Len(l) + (q - Len(l)) = q
        BY <1>1, <3>2 DEF Positive
      <4>2. At(r, q - Len(l)) = At(str, Len(l) + (q - Len(l)))
        BY <2>1, <4>1
      <4> QED BY <1>2, <3>2, <4>1, <4>2
    <3> QED BY <3>1, <3>2
  <2>3. ASSUME NEW q \in Positive PROVE At(From(r, p + 1), q) = At(str, Len(m) + q)
    <3>1. p + q \in Positive /\ Len(l) + (p + q) = Len(m) + q
      BY <1>1 DEF Positive
    <3>2. At(r, p + q) = At(str, Len(l) + (p + q))
      BY <2>1, <3>1
    <3> QED BY <1>3, <3>1, <3>2
  <2> QED BY <1>1, <2>2, <2>3 DEF Spelled, Along
<1>5. ASSUME Spelled(m, From(r, p + 1), str) PROVE Spelled(l, r, str)
  <2>1. /\ \A q \in 1 .. Len(l) + p : m[q] = At(str, q)
        /\ \A q \in Positive : At(From(r, p + 1), q) = At(str, Len(m) + q)
    BY <1>1, <1>5 DEF Spelled, Along
  <2>2. ASSUME NEW q \in 1 .. Len(l) PROVE l[q] = At(str, q)
    <3>1. q \in 1 .. Len(l) + p /\ q <= Len(l)
      BY <1>1
    <3> QED BY <1>2, <2>1, <3>1
  <2>3. ASSUME NEW q \in Positive PROVE At(r, q) = At(str, Len(l) + q)
    <3>1. CASE q <= p
      <4>1. Len(l) + q \in 1 .. Len(l) + p /\ ~(Len(l) + q <= Len(l)) /\ (Len(l) + q) - Len(l) = q
        BY <1>1, <3>1 DEF Positive
      <4>2. m[Len(l) + q] = At(r, (Len(l) + q) - Len(l))
        BY <1>2, <4>1
      <4> QED BY <2>1, <4>1, <4>2
    <3>2. CASE q > p
      <4>1. q - p \in Positive /\ p + (q - p) = q /\ Len(m) + (q - p) = Len(l) + q
        BY <1>1, <3>2 DEF Positive
      <4>2. At(From(r, p + 1), q - p) = At(r, p + (q - p))
        BY <1>3, <4>1
      <4> QED BY <2>1, <4>1, <4>2
    <3>3. q <= p \/ q > p
      BY DEF Positive
    <3> QED BY <3>1, <3>2, <3>3
  <2> QED BY <2>2, <2>3 DEF Spelled, Along
<1> QED BY <1>4, <1>5 DEF m

\* The labels when l has moved p characters down, and its block.
NoEnd(l) == \A q \in 1 .. Len(l) : l[q] # 0
IsDeep(B, D, A, C, l, p) ==
  LET k == -A[l]
      r == C[k].suffix
  IN  /\ B = ChainOf(A, l, r, p, -k)
      /\ D = With(C, k, [suffix |-> From(r, p + 1), data |-> C[k].data])
      /\ p \in Positive /\ \A j \in 1 .. p : Path(l, r, j) \notin DOMAIN A
      /\ \A j \in Positive : j < p => At(r, j) # 0
Deep(B, D, A, C, l, p, k, r) ==
  /\ k \in DOMAIN C /\ A[l] = -k /\ -k < 0 /\ k = -A[l] /\ r = C[k].suffix /\ r \in Rests
  /\ p \in Nat /\ p > 0 /\ l = Path(l, r, 0) /\ Len(l) \in Nat
  /\ DOMAIN B = DOMAIN A \cup {Path(l, r, j) : j \in 1 .. p}
  /\ B[Path(l, r, p)] = -k /\ Path(l, r, p) \in DOMAIN B
  /\ \A j \in 0 .. p - 1 : B[Path(l, r, j)] = 1
  /\ \A m \in DOMAIN A : m # l => B[m] = A[m]
  /\ DOMAIN D = DOMAIN C /\ D[k].suffix = From(r, p + 1) /\ D[k].data = C[k].data
  /\ \A i \in DOMAIN C : i # k => D[i] = C[i]
  /\ \A m \in DOMAIN A : m # l /\ A[m] < 0 => -A[m] \in DOMAIN C /\ -A[m] # k
  /\ \A m \in DOMAIN B : B[m] < 0 => m = Path(l, r, p) \/ (m \in DOMAIN A /\ m # l /\ B[m] = A[m])

\* What it means.
LEMMA DeepIs ==
  ASSUME NEW A, NEW C, LabelTree(A), Joined(A, C), Blocks(C), NEW l \in DOMAIN A, A[l] < 0,
         NEW p, NEW B, NEW D, IsDeep(B, D, A, C, l, p)
  PROVE  Deep(B, D, A, C, l, p, -A[l], C[-A[l]].suffix)
<1> DEFINE k == -A[l]
           r == C[k].suffix
<1>1. l \in Labels /\ A[l] \in Int
  BY DEF LabelTree
<1>2. k \in DOMAIN C /\ C[k] \in Content /\ -k = A[l] /\ k \in Int
  <2>1. k \in DOMAIN C
    BY DEF Joined
  <2>2. C[k] \in Content
    BY <2>1 DEF Blocks
  <2>3. -k = A[l]
    BY <1>1
  <2> QED BY <1>1, <2>1, <2>2, <2>3
<1>3. r \in Rests
  BY <1>2 DEF Content
<1>4. /\ B = ChainOf(A, l, r, p, -k) /\ D = With(C, k, [suffix |-> From(r, p + 1), data |-> C[k].data])
      /\ p \in Nat /\ p > 0 /\ \A j \in 1 .. p : Path(l, r, j) \notin DOMAIN A
  BY DEF IsDeep, Positive
<1> HIDE DEF k, r
<1>5. IsChain(B, A, l, r, p, -k)
  BY <1>1, <1>3, <1>4, ChainIs
<1>6. Path(l, r, 0) = l /\ Len(l) \in Nat
  BY <1>1, <1>3, PathIs
<1>7. /\ B[Path(l, r, p)] = -k /\ DOMAIN B = DOMAIN A \cup {Path(l, r, j) : j \in 1 .. p}
      /\ Path(l, r, p) \in DOMAIN B /\ \A j \in 0 .. p - 1 : B[Path(l, r, j)] = 1
  BY <1>5 DEF IsChain
<1>8. \A m \in DOMAIN A : m # l => B[m] = A[m]
  <2>1. \A m \in DOMAIN A : m # l /\ (\A j \in 1 .. p : m # Path(l, r, j)) => B[m] = A[m]
    BY <1>5 DEF IsChain
  <2> QED BY <1>4, <2>1
<1>9. DOMAIN D = DOMAIN C /\ D[k].suffix = From(r, p + 1) /\ D[k].data = C[k].data
      /\ \A i \in DOMAIN C : i # k => D[i] = C[i]
  <2>1. DOMAIN D = DOMAIN C \cup {k}
    BY <1>4 DEF With
  <2>2. D[k] = [suffix |-> From(r, p + 1), data |-> C[k].data]
    BY <1>4 DEF With
  <2>3. \A i \in DOMAIN C : i # k => D[i] = C[i]
    BY <1>4 DEF With
  <2> QED BY <1>2, <2>1, <2>2, <2>3
<1>10. ASSUME NEW m \in DOMAIN A, m # l, A[m] < 0 PROVE -A[m] \in DOMAIN C /\ -A[m] # k
  <2>1. -A[m] \in DOMAIN C
    BY <1>10 DEF Joined
  <2>2. A[m] \in Int
    BY DEF LabelTree
  <2>3. A[m] # A[l]
    BY <1>10 DEF Joined
  <2>4. -A[m] # k
    BY <1>1, <1>2, <2>2, <2>3
  <2> QED BY <2>1, <2>4
<1>11. ASSUME NEW m \in DOMAIN B, B[m] < 0
       PROVE  m = Path(l, r, p) \/ (m \in DOMAIN A /\ m # l /\ B[m] = A[m])
  <2>1. CASE \E j \in 0 .. p - 1 : m = Path(l, r, j)
    BY <1>7, <1>11, <2>1
  <2>2. CASE \A j \in 0 .. p - 1 : m # Path(l, r, j)
    <3>1. m # l
      BY <1>4, <1>6, <2>2
    <3>2. CASE m \in DOMAIN A
      BY <1>8, <3>1, <3>2
    <3>3. CASE m \notin DOMAIN A
      <4>1. PICK j \in 1 .. p : m = Path(l, r, j)
        BY <1>7, <3>3
      <4>2. j = p
        BY <1>4, <2>2, <4>1
      <4> QED BY <4>1, <4>2
    <3> QED BY <3>2, <3>3
  <2> QED BY <2>1, <2>2
<1>12. A[l] = -k /\ -k < 0 /\ k = -A[l] /\ r = C[k].suffix
  BY <1>2 DEF k, r
<1>13. Deep(B, D, A, C, l, p, k, r)
  BY <1>2, <1>3, <1>4, <1>6, <1>7, <1>8, <1>9, <1>10, <1>11, <1>12 DEF Deep
<1> QED BY <1>13 DEF k, r

\* The strings are the same.
LEMMA DeepKeys ==
  ASSUME NEW A, NEW C, LabelTree(A), Joined(A, C), Blocks(C), NEW l \in DOMAIN A, A[l] < 0,
         NEW p, NEW B, NEW D, IsDeep(B, D, A, C, l, p), NEW str, NEW v
  PROVE  Key(B, D, str, v) <=> Key(A, C, str, v)
<1> DEFINE k == -A[l]
           r == C[k].suffix
<1>1. Deep(B, D, A, C, l, p, k, r)
  BY DeepIs
<1> HIDE DEF k, r
<1>2. /\ k \in DOMAIN C /\ A[l] = -k /\ -k < 0 /\ r = C[k].suffix /\ r \in Rests /\ p \in Nat
      /\ B[Path(l, r, p)] = -k /\ Path(l, r, p) \in DOMAIN B /\ DOMAIN A \subseteq DOMAIN B
      /\ \A m \in DOMAIN A : m # l => B[m] = A[m]
      /\ D[k].suffix = From(r, p + 1) /\ D[k].data = C[k].data
      /\ \A i \in DOMAIN C : i # k => D[i] = C[i]
      /\ \A m \in DOMAIN A : m # l /\ A[m] < 0 => -A[m] \in DOMAIN C /\ -A[m] # k
      /\ \A m \in DOMAIN B : B[m] < 0 => m = Path(l, r, p) \/ (m \in DOMAIN A /\ m # l /\ B[m] = A[m])
  BY <1>1 DEF Deep
<1>3. k \in Nat /\ -(-k) = k /\ l \in Labels
  <2>1. k \in Nat
    BY <1>2 DEF Blocks
  <2> QED BY <2>1 DEF LabelTree
<1>4. Spelled(Path(l, r, p), From(r, p + 1), str) <=> Spelled(l, r, str)
  BY <1>2, <1>3, PathSpells
<1>5. ASSUME Key(B, D, str, v) PROVE Key(A, C, str, v)
  <2>1. PICK m \in DOMAIN B : B[m] < 0 /\ Spelled(m, D[-B[m]].suffix, str) /\ v = D[-B[m]].data
    BY <1>5 DEF Key
  <2>2. CASE m = Path(l, r, p)
    <3>1. -B[m] = k
      BY <1>2, <1>3, <2>2
    <3>2. Spelled(l, r, str) /\ v = C[k].data
      BY <1>2, <1>4, <2>1, <2>2, <3>1
    <3>3. -A[l] = k
      BY <1>2, <1>3
    <3> QED BY <1>2, <3>2, <3>3 DEF Key
  <2>3. CASE m \in DOMAIN A /\ m # l /\ B[m] = A[m]
    <3>1. D[-A[m]] = C[-A[m]]
      BY <1>2, <2>1, <2>3
    <3> QED BY <2>1, <2>3, <3>1 DEF Key
  <2> QED BY <1>2, <2>1, <2>2, <2>3
<1>6. ASSUME Key(A, C, str, v) PROVE Key(B, D, str, v)
  <2>1. PICK m \in DOMAIN A : A[m] < 0 /\ Spelled(m, C[-A[m]].suffix, str) /\ v = C[-A[m]].data
    BY <1>6 DEF Key
  <2>2. CASE m = l
    <3>1. -A[l] = k
      BY <1>2, <1>3
    <3>2. Spelled(Path(l, r, p), D[k].suffix, str) /\ v = D[k].data
      BY <1>2, <1>4, <2>1, <2>2, <3>1
    <3>3. -B[Path(l, r, p)] = k /\ B[Path(l, r, p)] < 0
      BY <1>2, <1>3
    <3> QED BY <1>2, <3>2, <3>3 DEF Key
  <2>3. CASE m # l
    <3>1. D[-A[m]] = C[-A[m]] /\ B[m] = A[m] /\ m \in DOMAIN B
      BY <1>2, <2>1, <2>3
    <3> QED BY <2>1, <3>1 DEF Key
  <2> QED BY <2>2, <2>3
<1> QED BY <1>5, <1>6

\* The labels and the blocks are joined still.
LEMMA DeepJoined ==
  ASSUME NEW A, NEW C, LabelTree(A), Joined(A, C), Blocks(C), NEW l \in DOMAIN A, A[l] < 0, NoEnd(l),
         NEW p, NEW B, NEW D, IsDeep(B, D, A, C, l, p)
  PROVE  Joined(B, D)
<1> DEFINE k == -A[l]
           r == C[k].suffix
<1>1. Deep(B, D, A, C, l, p, k, r)
  BY DeepIs
<1>2. \A j \in Positive : j < p => At(r, j) # 0
  BY DEF IsDeep
<1> HIDE DEF k, r
<1>3. /\ k \in DOMAIN C /\ A[l] = -k /\ -k < 0 /\ r = C[k].suffix /\ r \in Rests /\ p \in Nat /\ p > 0
      /\ l = Path(l, r, 0)
      /\ DOMAIN B = DOMAIN A \cup {Path(l, r, j) : j \in 1 .. p}
      /\ B[Path(l, r, p)] = -k /\ Path(l, r, p) \in DOMAIN B /\ DOMAIN A \subseteq DOMAIN B
      /\ \A j \in 0 .. p - 1 : B[Path(l, r, j)] = 1
      /\ \A m \in DOMAIN A : m # l => B[m] = A[m]
      /\ DOMAIN D = DOMAIN C /\ D[k].suffix = From(r, p + 1)
      /\ \A i \in DOMAIN C : i # k => D[i] = C[i]
      /\ \A m \in DOMAIN A : m # l /\ A[m] < 0 => -A[m] \in DOMAIN C /\ -A[m] # k
      /\ \A m \in DOMAIN B : B[m] < 0 => m = Path(l, r, p) \/ (m \in DOMAIN A /\ m # l /\ B[m] = A[m])
  BY <1>1 DEF Deep
<1>4. k \in Nat /\ -(-k) = k /\ l \in Labels /\ A[l] \in Int
  <2>1. k \in Nat
    BY <1>3 DEF Blocks
  <2> QED BY <2>1 DEF LabelTree
<1>5. ASSUME NEW m \in DOMAIN B PROVE m = <<>> \/ B[m] < 0 \/ \E c \in Chars : Child(m, c) \in DOMAIN B
  <2>1. CASE \E j \in 0 .. p : m = Path(l, r, j)
    <3>1. PICK j \in 0 .. p : m = Path(l, r, j)
      BY <2>1
    <3>2. CASE j = p
      BY <1>3, <3>1, <3>2
    <3>3. CASE j # p
      <4>1. j \in Nat /\ j + 1 \in 1 .. p
        BY <1>3, <3>3
      <4>2. IsPath(l, r, j)
        BY <1>3, <1>4, <4>1, PathFacts
      <4>3. At(r, j + 1) \in Chars /\ Child(m, At(r, j + 1)) = Path(l, r, j + 1)
        BY <3>1, <4>2 DEF IsPath
      <4> QED BY <1>3, <4>1, <4>3
    <3> QED BY <3>2, <3>3
  <2>2. CASE ~\E j \in 0 .. p : m = Path(l, r, j)
    <3>1. m \in DOMAIN A /\ m # l
      <4>1. \A j \in 1 .. p : j \in 0 .. p
        OBVIOUS
      <4>2. 0 \in 0 .. p
        BY <1>3
      <4> QED BY <1>3, <2>2, <4>1, <4>2
    <3>2. m = <<>> \/ A[m] < 0 \/ \E c \in Chars : Child(m, c) \in DOMAIN A
      BY <3>1 DEF Joined
    <3> QED BY <1>3, <3>1, <3>2
  <2> QED BY <2>1, <2>2
<1>6. ASSUME NEW m \in DOMAIN B, B[m] < 0 PROVE -B[m] \in DOMAIN D
  <2>1. CASE m = Path(l, r, p)
    BY <1>3, <1>4, <2>1
  <2>2. CASE m \in DOMAIN A /\ m # l /\ B[m] = A[m]
    BY <1>3, <1>6, <2>2
  <2> QED BY <1>3, <1>6, <2>1, <2>2
<1>7. ASSUME NEW i \in DOMAIN D PROVE \E m \in DOMAIN B : B[m] = -i
  <2>1. CASE i = k
    BY <1>3, <2>1
  <2>2. CASE i # k
    <3>1. PICK m \in DOMAIN A : A[m] = -i
      BY <1>3 DEF Joined
    <3>2. i \in Nat
      BY <1>3 DEF Blocks
    <3>3. m # l
      BY <1>3, <1>4, <2>2, <3>1, <3>2
    <3> QED BY <1>3, <3>1, <3>3
  <2> QED BY <2>1, <2>2
<1>8. ASSUME NEW m \in DOMAIN B, NEW n \in DOMAIN B, B[m] < 0, B[m] = B[n] PROVE m = n
  <2>1. /\ m = Path(l, r, p) \/ (m \in DOMAIN A /\ m # l /\ B[m] = A[m])
        /\ n = Path(l, r, p) \/ (n \in DOMAIN A /\ n # l /\ B[n] = A[n])
    BY <1>3, <1>8
  <2>2. ASSUME NEW z \in DOMAIN A, z # l, A[z] < 0 PROVE A[z] # -k
    BY <1>3, <2>2 DEF Joined
  <2>3. CASE m \in DOMAIN A /\ m # l /\ B[m] = A[m] /\ n \in DOMAIN A /\ n # l /\ B[n] = A[n]
    BY <1>8, <2>3 DEF Joined
  <2> QED BY <1>3, <1>8, <2>1, <2>2, <2>3
<1>9. ASSUME NEW m \in DOMAIN B, NEW q \in 1 .. Len(m), m[q] = 0
      PROVE  q = Len(m) /\ B[m] < 0 /\ D[-B[m]].suffix = <<>>
  <2>1. CASE m \in DOMAIN A /\ m # l
    <3>1. q = Len(m) /\ A[m] < 0 /\ C[-A[m]].suffix = <<>>
      BY <1>9, <2>1 DEF Joined
    <3>2. B[m] = A[m] /\ D[-A[m]] = C[-A[m]]
      BY <1>3, <2>1, <3>1
    <3> QED BY <3>1, <3>2
  <2>2. CASE m = l
    BY <1>9, <2>2 DEF NoEnd
  <2>3. CASE m \notin DOMAIN A
    <3>1. PICK j \in 1 .. p : m = Path(l, r, j)
      BY <1>3, <2>3
    <3>2. IsPath(l, r, j) /\ j \in Nat
      <4>1. j \in Nat
        OBVIOUS
      <4> QED BY <1>3, <1>4, <4>1, PathFacts
    <3>3. Len(m) = Len(l) + j /\ Len(l) \in Nat
      BY <3>1, <3>2 DEF IsPath
    <3>4. m[q] = IF q <= Len(l) THEN l[q] ELSE At(r, q - Len(l))
      <4>1. q \in 1 .. Len(l) + j
        BY <3>3
      <4> QED BY <3>1, <4>1 DEF Path
    <3>5. ~(q <= Len(l))
      <4>1. SUFFICES ASSUME q <= Len(l) PROVE FALSE
        OBVIOUS
      <4>2. q \in 1 .. Len(l) /\ l[q] = 0
        BY <1>9, <3>3, <3>4, <4>1
      <4> QED BY <4>2 DEF NoEnd
    <3>6. q - Len(l) \in Positive /\ At(r, q - Len(l)) = 0 /\ q - Len(l) <= j
      BY <1>9, <3>3, <3>4, <3>5 DEF Positive
    <3>7. ~(q - Len(l) < p)
      BY <1>2, <3>6
    <3>8. j = p /\ q - Len(l) = p /\ q = Len(m)
      <4>1. q \in Int /\ p \in Nat /\ j \in 1 .. p /\ Len(l) \in Nat /\ Len(m) = Len(l) + j
            /\ q - Len(l) <= j /\ ~(q - Len(l) < p)
        BY <1>3, <3>3, <3>6, <3>7
      <4> QED BY ONLY <4>1
    <3>9. p > Len(r) /\ Len(r) \in Nat
      <4>1. At(r, p) = 0 /\ p \in Positive
        BY <3>6, <3>8
      <4> QED BY <1>3, <4>1, StringIs
    <3>10. From(r, p + 1) = <<>>
      <4>1. From(r, p + 1) = [i \in 1 .. 0 |-> r[p + i]]
        BY <1>3, <3>9 DEF From, Rests
      <4> QED BY <1>3, <3>9, <4>1 DEF From, Rests
    <3>11. B[m] = -k /\ -B[m] = k
      BY <1>3, <1>4, <3>1, <3>8
    <3> QED BY <1>3, <3>8, <3>10, <3>11
  <2> QED BY <2>1, <2>2, <2>3
<1> QED BY <1>5, <1>6, <1>7, <1>8, <1>9 DEF Joined

(***************************************************************************)
(* Storing                                                                 *)
(***************************************************************************)

\* The array and the tail have the labels A and the blocks C.
Holding(d, t, A, C) == (\E L : Bears(d, L, A)) /\ TailHolds(t, C) /\ Joined(A, C)
\* r comes of storing data for str: it is the only entry that is changed, if r.ok, and none
\* is otherwise.
StoredIn(r, A, C, str, data) ==
  \E B, D : /\ Holding(r.d, r.t, B, D)
            /\ \A x \in Rests : \A v :
                 Key(B, D, x, v) <=> \/ r.ok /\ x = str /\ v = data
                                     \/ ~(r.ok /\ x = str) /\ Key(A, C, x, v)

\* Behind the terminator there is nothing.
LEMMA EndIs ==
  ASSUME NEW r \in Rests, NEW p \in Positive, At(r, p) = 0
  PROVE  From(r, p + 1) = <<>>
<1>1. p > Len(r) /\ Len(r) \in Nat /\ p \in Nat
  BY StringIs DEF Positive
<1>2. From(r, p + 1) = SubSeq(r, p + 1, Len(r))
  BY DEF From
<1>3. r \in Seq(1 .. TRIE_CHAR_MAX - 1)
  BY DEF Rests
<1> QED BY <1>1, <1>2, <1>3

\* Nothing stored is as before.
LEMMA NothingStored ==
  ASSUME NEW A, NEW C, NEW r, r.ok = FALSE, NEW B, NEW D, Holding(r.d, r.t, B, D),
         \A x, v : Key(B, D, x, v) <=> Key(A, C, x, v), NEW str, NEW data
  PROVE  StoredIn(r, A, C, str, data)
BY DEF StoredIn

\* A branch from a node with children (trie_branch_in_branch).
LEMMA BranchStores ==
  ASSUME NEW d, NEW L, NEW A, Bears(d, L, A), NEW t, NEW C, TailHolds(t, C), Joined(A, C),
         NEW s \in DOMAIN L, A[L[s]] = 1, NEW suffix \in Rests,
         Child(L[s], At(suffix, 1)) \notin DOMAIN A, NEW data \in TrieData,
         NEW str \in Rests, Spelled(L[s], suffix, str), \A v : ~Key(A, C, str, v)
  PROVE  StoredIn(trie_branch_in_branch(d, t, s, suffix, data), A, C, str, data)
<1> DEFINE r == trie_branch_in_branch(d, t, s, suffix, data)
           l == L[s]
           c == At(suffix, 1)
           rest == From(suffix, 2)
           y == [suffix |-> rest, data |-> data]
<1>1. LabelTree(A) /\ IsTree(L, A) /\ Blocks(C)
  BY LabelTreeIs, BlocksHold
<1>2. l \in DOMAIN A /\ l \in Labels
  BY <1>1 DEF IsTree
<1>3. IsBranched(r, L, t, A, C, l, suffix, data)
  BY BranchIs
<1>4. 1 \in Positive /\ 2 \in Positive /\ 1 + 1 = 2 /\ 0 + 1 = 1 /\ 1 \in Nat /\ 0 \in Nat
  BY DEF Positive
<1>5. c \in Chars /\ rest \in Rests /\ (c = 0 => rest = <<>>)
  <2>1. c \in Chars
    BY <1>4, StringIs
  <2>2. rest \in Rests
    BY <1>4, FromIs
  <2>3. c = 0 => From(suffix, 1 + 1) = <<>>
    BY <1>4, EndIs
  <2> QED BY <1>4, <2>1, <2>2, <2>3
<1>6. Spelled(Child(l, c), rest, str)
  <2>1. IsPath(l, suffix, 0)
    BY <1>2, <1>4, PathFacts
  <2>2. Path(l, suffix, 1) = Child(l, c)
    BY <1>4, <2>1 DEF IsPath
  <2>3. Spelled(Path(l, suffix, 1), From(suffix, 1 + 1), str)
    BY <1>2, <1>4, PathSpells
  <2> QED BY <1>4, <2>2, <2>3
<1>7. y \in Content /\ y.suffix = rest /\ y.data = data
  BY <1>5 DEF Content
<1>8. Child(l, c) \in Labels /\ Child(l, c) \notin DOMAIN A /\ A[l] = 1
  BY <1>2, <1>5, ChildIs
<1> HIDE DEF r, l, c, rest, y
<1>9. CASE r.ok = FALSE /\ r.t = t /\ Bears(r.d, L, A)
  <2>1. Holding(r.d, r.t, A, C)
    BY <1>9 DEF Holding
  <2>2. StoredIn(r, A, C, str, data)
    BY <1>9, <2>1, NothingStored
  <2> QED BY <2>2 DEF r
<1>10. CASE r.ok = TRUE /\ \E M, k : /\ k \in Nat /\ k > 0 /\ k \notin DOMAIN C
                              /\ Bears(r.d, M, WithLeaf(A, l, c, -k))
                              /\ TailHolds(r.t, With(C, k, y))
  <2>1. PICK M, k : /\ k \in Nat /\ k > 0 /\ k \notin DOMAIN C
                    /\ Bears(r.d, M, WithLeaf(A, l, c, -k))
                    /\ TailHolds(r.t, With(C, k, y))
    BY <1>10
  <2> DEFINE B == WithLeaf(A, l, c, -k)
             D == With(C, k, y)
  <2>2. /\ Joined(B, D)
        /\ \A x, v : Key(B, D, x, v) <=> Key(A, C, x, v) \/ (Spelled(Child(l, c), y.suffix, x) /\ v = y.data)
    BY <1>1, <1>2, <1>5, <1>7, <1>8, <2>1, LeafJoined
  <2> HIDE DEF B, D
  <2>3. Holding(r.d, r.t, B, D)
    BY <2>1, <2>2 DEF Holding, B, D
  <2>4. ASSUME NEW x \in Rests, NEW v
        PROVE  Key(B, D, x, v) <=> \/ r.ok /\ x = str /\ v = data
                                   \/ ~(r.ok /\ x = str) /\ Key(A, C, x, v)
    <3>1. Spelled(Child(l, c), rest, x) <=> x = str
      BY <1>5, <1>6, <1>8, SpelledOne
    <3>2. Key(B, D, x, v) <=> Key(A, C, x, v) \/ (x = str /\ v = data)
      BY <1>7, <2>2, <3>1
    <3> QED BY <1>10, <3>2
  <2>5. StoredIn(r, A, C, str, data)
    BY <2>3, <2>4 DEF StoredIn
  <2> QED BY <2>5 DEF r
<1>11. (r.ok = FALSE /\ r.t = t /\ Bears(r.d, L, A))
       \/ (r.ok = TRUE /\ \E M, k : /\ k \in Nat /\ k > 0 /\ k \notin DOMAIN C
                              /\ Bears(r.d, M, WithLeaf(A, l, c, -k))
                              /\ TailHolds(r.t, With(C, k, y)))
  BY <1>3 DEF IsBranched, c, rest, y
<1> QED BY <1>9, <1>10, <1>11

\* Paths along strings that agree so far are the same.
LEMMA SamePath ==
  ASSUME NEW l \in Labels, NEW x \in Rests, NEW y \in Rests, NEW n \in Nat,
         \A j \in 1 .. n : At(x, j) = At(y, j)
  PROVE  Path(l, x, n) = Path(l, y, n)
<1>1. Len(l) \in Nat
  BY DEF Labels
<1>2. ASSUME NEW q \in 1 .. Len(l) + n
      PROVE  (IF q <= Len(l) THEN l[q] ELSE At(x, q - Len(l))) = (IF q <= Len(l) THEN l[q] ELSE At(y, q - Len(l)))
  <2>1. ~(q <= Len(l)) => q - Len(l) \in 1 .. n
    BY <1>1
  <2> QED BY <2>1
<1> QED BY <1>2 DEF Path

\* The label that the new branch leaves from, after l has moved.
LEMMA DeepBranch ==
  ASSUME NEW A, NEW C, LabelTree(A), Joined(A, C), Blocks(C), NEW l \in DOMAIN A, A[l] < 0,
         NEW p, NEW B, NEW D, IsDeep(B, D, A, C, l, p),
         NEW c \in Chars, c # At(C[-A[l]].suffix, p)
  PROVE  /\ p - 1 \in Nat /\ B[Path(l, C[-A[l]].suffix, p - 1)] = 1
         /\ Child(Path(l, C[-A[l]].suffix, p - 1), c) \notin DOMAIN B
<1> DEFINE k == -A[l]
           r == C[k].suffix
           m == Path(l, r, p - 1)
<1>1. Deep(B, D, A, C, l, p, k, r)
  BY DeepIs
<1>2. \A j \in 1 .. p : Path(l, r, j) \notin DOMAIN A
  BY DEF IsDeep
<1>3. c # At(r, p)
  OBVIOUS
<1> HIDE DEF k, r
<1>4. /\ p \in Nat /\ p > 0 /\ r \in Rests /\ l = Path(l, r, 0)
      /\ DOMAIN B = DOMAIN A \cup {Path(l, r, j) : j \in 1 .. p}
      /\ \A j \in 0 .. p - 1 : B[Path(l, r, j)] = 1
  BY <1>1 DEF Deep
<1>5. l \in Labels
  BY DEF LabelTree
<1>6. p - 1 \in Nat /\ (p - 1) + 1 = p /\ p - 1 \in 0 .. p - 1
  BY <1>4
<1>7. IsPath(l, r, p - 1)
  BY <1>4, <1>5, <1>6, PathFacts
<1>8. m \in Labels /\ Len(m) = Len(l) + (p - 1) /\ Len(l) \in Nat /\ At(r, p) \in Chars
      /\ Path(l, r, p) = Child(m, At(r, p))
  BY <1>6, <1>7 DEF IsPath
<1> HIDE DEF m
<1>9. SUFFICES ASSUME Child(m, c) \in DOMAIN B PROVE FALSE
  BY <1>4, <1>6 DEF m, r, k
<1>10. CASE Child(m, c) \in DOMAIN A
  <2>1. m \in DOMAIN A /\ A[m] = 1
    BY <1>8, <1>10, ParentIs
  <2>2. p - 1 = 0
    <3>1. SUFFICES ASSUME p - 1 # 0 PROVE FALSE
      OBVIOUS
    <3>2. p - 1 \in 1 .. p
      BY <1>6, <3>1
    <3> QED BY <1>2, <2>1, <3>2 DEF m
  <2>3. m = l
    BY <1>4, <2>2 DEF m
  <2> QED BY <2>1, <2>3
<1>11. CASE \E j \in 1 .. p : Child(m, c) = Path(l, r, j)
  <2>1. PICK j \in 1 .. p : Child(m, c) = Path(l, r, j)
    BY <1>11
  <2>2. IsPath(l, r, j) /\ j \in Nat
    <3>1. j \in Nat
      BY <1>4
    <3> QED BY <1>4, <1>5, <3>1, PathFacts
  <2>3. Len(Child(m, c)) = Len(l) + j
    BY <2>1, <2>2 DEF IsPath
  <2>4. Len(Child(m, c)) = Len(m) + 1
    BY <1>8, ChildIs
  <2>5. j = p
    BY <1>4, <1>8, <2>2, <2>3, <2>4
  <2>6. Child(m, c) = Child(m, At(r, p))
    BY <1>8, <2>1, <2>5
  <2> QED BY <1>3, <1>8, <2>6, ChildIs
<1> QED BY <1>4, <1>9, <1>10, <1>11

\* A label with a suffix other than the rest of a string on whose way it is does not end the
\* string, and the string is no entry.
LEMMA PartingIs ==
  ASSUME NEW A, NEW C, LabelTree(A), Joined(A, C), Blocks(C), NEW l \in DOMAIN A, A[l] < 0,
         NEW suffix \in Rests, C[-A[l]].suffix # suffix, NEW str \in Rests, Spelled(l, suffix, str),
         \A m \in DOMAIN A : A[m] < 0 /\ Along(m, str) => m = l
  PROVE  NoEnd(l) /\ \A v : ~Key(A, C, str, v)
<1> DEFINE old == C[-A[l]].suffix
<1>1. l \in Labels /\ Len(l) \in Nat
  BY DEF LabelTree, Labels
<1>2. -A[l] \in DOMAIN C /\ old \in Rests
  <2>1. -A[l] \in DOMAIN C
    BY DEF Joined
  <2>2. C[-A[l]] \in Content
    BY <2>1 DEF Blocks
  <2> QED BY <2>1, <2>2 DEF Content
<1>3. NoEnd(l)
  <2>1. SUFFICES ASSUME NEW q \in 1 .. Len(l), l[q] = 0 PROVE FALSE
    BY DEF NoEnd
  <2>2. q = Len(l) /\ old = <<>>
    BY <2>1 DEF Joined
  <2>3. At(str, Len(l)) = 0 /\ Len(l) \in Positive
    BY <1>1, <2>1, <2>2, SMTT(60) DEF Spelled, Along, Positive
  <2>4. Len(str) \in Nat /\ Len(l) > Len(str)
    BY <2>3, StringIs
  <2>5. ASSUME NEW j \in Positive PROVE At(suffix, j) = At(<<>>, j)
    <3>1. Len(l) + j \in Positive /\ Len(l) + j > Len(str)
      BY <1>1, <2>4 DEF Positive
    <3>2. At(str, Len(l) + j) = 0
      BY <3>1, StringIs
    <3>3. <<>> \in Rests /\ j > Len(<<>>)
      BY DEF Rests, Positive
    <3>4. At(<<>>, j) = 0
      BY <3>3, StringIs
    <3> QED BY <3>2, <3>4 DEF Spelled
  <2>6. <<>> \in Rests
    BY DEF Rests
  <2>7. suffix = <<>>
    BY <2>5, <2>6, SameString
  <2> QED BY <2>2, <2>7
<1>4. ASSUME NEW v, Key(A, C, str, v) PROVE FALSE
  <2>1. PICK m \in DOMAIN A : A[m] < 0 /\ Spelled(m, C[-A[m]].suffix, str)
    BY <1>4 DEF Key
  <2>2. Along(m, str)
    BY <2>1 DEF Spelled
  <2>3. m = l
    BY <2>1, <2>2
  <2>4. Spelled(l, old, str)
    BY <2>1, <2>3
  <2>5. old # suffix
    OBVIOUS
  <2> HIDE DEF old
  <2>6. old = suffix
    BY <1>1, <1>2, <2>4, RestOne
  <2> QED BY <2>5, <2>6
<1> QED BY <1>3, <1>4

\* What has been stored when the labels and blocks before had the same entries.
LEMMA StoredSame ==
  ASSUME NEW r, NEW A, NEW C, NEW B, NEW D, NEW str, NEW data, StoredIn(r, B, D, str, data),
         \A x, v : Key(B, D, x, v) <=> Key(A, C, x, v)
  PROVE  StoredIn(r, A, C, str, data)
<1>1. PICK E, F : /\ Holding(r.d, r.t, E, F)
                  /\ \A x \in Rests : \A v :
                       Key(E, F, x, v) <=> \/ r.ok /\ x = str /\ v = data
                                           \/ ~(r.ok /\ x = str) /\ Key(B, D, x, v)
  BY DEF StoredIn
<1>2. ASSUME NEW x \in Rests, NEW v
      PROVE  Key(E, F, x, v) <=> \/ r.ok /\ x = str /\ v = data
                                 \/ ~(r.ok /\ x = str) /\ Key(A, C, x, v)
  BY <1>1
<1> QED BY <1>1, <1>2 DEF StoredIn

\* The node has moved down its suffix and gets its block, which gets the rest (lines 483-486).
LEMMA DeepHolds ==
  ASSUME NEW A, NEW C, LabelTree(A), Joined(A, C), NEW l \in DOMAIN A, A[l] < 0, NoEnd(l),
         NEW t, TailHolds(t, C), NEW p \in Positive,
         \A j \in 1 .. p : Path(l, C[-A[l]].suffix, j) \notin DOMAIN A,
         \A j \in Positive : j < p => At(C[-A[l]].suffix, j) # 0,
         NEW d, NEW M, NEW v \in Int, v < 0, Bears(d, M, ChainOf(A, l, C[-A[l]].suffix, p, v)),
         NEW s \in DOMAIN M, M[s] = Path(l, C[-A[l]].suffix, p)
  PROVE  LET k == -A[l]
             r == C[k].suffix
             B == ChainOf(A, l, r, p, -k)
             D == With(C, k, [suffix |-> From(r, p + 1), data |-> C[k].data])
         IN  /\ IsDeep(B, D, A, C, l, p) /\ Blocks(C) /\ Joined(B, D)
             /\ Bears(trie_da_set_tail_index(d, s, k), M, B)
             /\ TailHolds(tail_set_suffix(t, k, From(r, p + 1)), D)
<1> DEFINE k == -A[l]
           r == C[k].suffix
           B == ChainOf(A, l, r, p, -k)
           D == With(C, k, [suffix |-> From(r, p + 1), data |-> C[k].data])
<1>1. Blocks(C)
  BY BlocksHold
<1>2. IsDeep(B, D, A, C, l, p)
  BY DEF IsDeep
<1>3. Joined(B, D)
  BY <1>1, <1>2, DeepJoined
<1>4. k \in DOMAIN C /\ C[k] \in Content /\ k \in Nat
  <2>1. k \in DOMAIN C
    BY DEF Joined
  <2> HIDE DEF k
  <2> QED BY <1>1, <2>1 DEF Blocks
<1>5. r \in Rests /\ C[k].data \in TrieData \cup {TRIE_DATA_ERROR}
  BY <1>4 DEF Content
<1>6. l \in Labels
  BY DEF LabelTree
<1>7. p \in Nat /\ p > 0 /\ p - 1 \in Nat /\ (p - 1) + 1 = p /\ p + 1 \in Positive
  BY DEF Positive
<1>8. Bears(d, M, ChainOf(A, l, r, p, v)) /\ s \in DOMAIN M /\ M[s] = Path(l, r, p)
  OBVIOUS
<1> HIDE DEF k, r
<1>9. Path(l, r, p) = Child(Path(l, r, p - 1), At(r, p)) /\ At(r, p) \in Chars /\ Path(l, r, p - 1) \in Labels
  <2>1. IsPath(l, r, p - 1)
    BY <1>5, <1>6, <1>7, PathFacts
  <2> QED BY <1>7, <2>1 DEF IsPath
<1>10. ASSUME NEW u
       PROVE  ChainOf(A, l, r, p, u) = WithLeaf(ChainOf(A, l, r, p - 1, 1), Path(l, r, p - 1), At(r, p), u)
  <2>1. WithLeaf(ChainOf(A, l, r, p - 1, 1), Path(l, r, p - 1), At(r, (p - 1) + 1), u)
          = ChainOf(A, l, r, (p - 1) + 1, u)
    BY <1>5, <1>6, <1>7, ChainGrows
  <2> QED BY <1>7, <2>1
<1>11. Bears(trie_da_set_tail_index(d, s, k), M, ChainOf(A, l, r, p, -k))
  <2> DEFINE E == ChainOf(A, l, r, p - 1, 1)
             m == Path(l, r, p - 1)
             c == At(r, p)
  <2>1. Bears(d, M, WithLeaf(E, m, c, v)) /\ M[s] = Child(m, c) /\ m \in Labels /\ c \in Chars
    BY <1>8, <1>9, <1>10
  <2>2. ChainOf(A, l, r, p, -k) = WithLeaf(E, m, c, -k)
    BY <1>10
  <2> HIDE DEF E, m, c
  <2>3. Bears(trie_da_set_tail_index(d, s, k), M, WithLeaf(E, m, c, -k))
    BY <1>4, <1>8, <2>1, LeafSet
  <2> QED BY <2>2, <2>3
<1>12. TailHolds(tail_set_suffix(t, k, From(r, p + 1)), D)
  <2>1. From(r, p + 1) \in Rests
    BY <1>5, <1>7, FromIs
  <2> QED BY <1>4, <1>5, <2>1, TailSets
<1> QED BY <1>1, <1>2, <1>3, <1>11, <1>12 DEF k, r

\* Branching in the tail (trie_branch_in_tail).
LEMMA TailBranchStores ==
  ASSUME NEW d, NEW L, NEW A, Bears(d, L, A), NEW t, NEW C, TailHolds(t, C), Joined(A, C),
         NEW s \in DOMAIN L, A[L[s]] < 0, NEW suffix \in Rests, C[-A[L[s]]].suffix # suffix,
         NEW data \in TrieData, NEW str \in Rests, Spelled(L[s], suffix, str),
         \A m \in DOMAIN A : A[m] < 0 /\ Along(m, str) => m = L[s]
  PROVE  StoredIn(trie_branch_in_tail(d, t, s, suffix, data), A, C, str, data)
<1> DEFINE l == L[s]
           k == trie_da_get_tail_index(d, s)
           old == tail_get_suffix(t, k)
           p == FirstDifference(old, suffix)
           shared == SharedBranches(d, s, old, p - 1)
           b == Branched(shared, At(old, p))
           failed == [ok |-> FALSE, d |-> Undone(b.d, s, b.s, k), t |-> t]
           d1 == trie_da_set_tail_index(b.d, b.s, k)
           t1 == tail_set_suffix(t, k, From(old, p + 1))
           rest == From(suffix, p)
           deep == trie_branch_in_branch(d1, t1, shared.s, rest, data)
           r == trie_branch_in_tail(d, t, s, suffix, data)
<1>1. LabelTree(A) /\ IsTree(L, A) /\ Blocks(C)
  BY LabelTreeIs, BlocksHold
<1>2. l \in DOMAIN A /\ l \in Labels /\ A[l] \in Int
  BY <1>1 DEF IsTree
<1>3. k = -A[l]
  BY BaseAt DEF trie_da_get_tail_index
<1>4. k \in DOMAIN C /\ old = C[k].suffix
  <2>1. k \in DOMAIN C
    BY <1>2, <1>3 DEF Joined
  <2> HIDE DEF k
  <2> QED BY <2>1, BlockIs
<1>5. old \in Rests /\ old # NULL
  <2>1. C[k] \in Content
    BY <1>1, <1>4 DEF Blocks
  <2>2. C[k].suffix \in Rests
    BY <2>1 DEF Content
  <2> HIDE DEF old
  <2> QED BY <1>4, <2>2, RestsAre
<1>6. r = IF ~b.ok THEN failed ELSE deep
  <2>1. r = IF old = NULL THEN [ok |-> FALSE, d |-> d, t |-> t] ELSE IF ~b.ok THEN failed ELSE deep
    BY ZenonT(60) DEF trie_branch_in_tail
  <2> QED BY <1>5, <2>1
<1>7. old # suffix
  BY <1>3, <1>4
<1>8. failed.ok = FALSE /\ failed.t = t /\ failed.d = Undone(b.d, s, b.s, k)
  OBVIOUS
<1> HIDE DEF failed, d1, t1, deep, r, b, shared, p, old, k
<1>9. /\ p \in 1 .. Len(old) + 1 /\ p \in Nat /\ At(old, p) # At(suffix, p)
      /\ \A j \in Positive : j < p => At(old, j) = At(suffix, j) /\ At(old, j) # 0
  BY <1>5, <1>7, DifferAt DEF p
<1>10. p \in Positive /\ p > 0 /\ p - 1 \in Nat /\ (p - 1) + 1 = p
  BY <1>9 DEF Positive
<1>11. shared \in ChainState /\ ChainedTo(shared, p - 1, L, A, l, old)
  BY <1>5, <1>10, SharedIs DEF shared
<1>12. ChainedTo(b, p, L, A, l, old) /\ Grew(b, shared, p - 1, A, l, old)
  <2>1. /\ ChainedTo(Branched(shared, At(old, (p - 1) + 1)), (p - 1) + 1, L, A, l, old)
        /\ Grew(Branched(shared, At(old, (p - 1) + 1)), shared, p - 1, A, l, old)
    BY <1>2, <1>5, <1>10, <1>11, BranchedIs
  <2> QED BY <1>10, <2>1 DEF b
<1>13. NoEnd(l) /\ \A v : ~Key(A, C, str, v)
  <2>1. C[-A[l]].suffix # suffix
    BY <1>3, <1>4, <1>7
  <2> QED BY <1>1, <1>2, <2>1, PartingIs
<1>14. CASE ~b.ok
  <2>1. r.ok = FALSE /\ r.t = t /\ r.d = Undone(b.d, s, b.s, -A[l])
    BY <1>3, <1>6, <1>8, <1>14
  <2>2. \E N : Bears(Undone(b.d, s, b.s, -A[l]), N, A)
    <3>1. L[s] \in DOMAIN A /\ ChainedTo(b, p, L, A, L[s], old)
      BY <1>2, <1>12
    <3> QED BY <1>1, <1>5, <1>9, <3>1, UndoneIs
  <2>3. Holding(r.d, r.t, A, C)
    BY <2>1, <2>2 DEF Holding
  <2> HIDE DEF l
  <2>4. StoredIn(r, A, C, str, data)
    BY <2>1, <2>3, NothingStored
  <2> QED BY <2>4 DEF r
<1>15. CASE b.ok
  <2>1. \E M : \E v \in Int :
            /\ v < 0 /\ Bears(b.d, M, ChainOf(A, l, old, p, v))
            /\ shared.s \in DOMAIN M /\ M[shared.s] = Path(l, old, p - 1)
            /\ b.s \in DOMAIN M /\ M[b.s] = Path(l, old, p)
            /\ \A j \in 1 .. p : Path(l, old, j) \notin DOMAIN A
    BY <1>10, <1>12, <1>15 DEF Grew
  <2>2. PICK M : \E v \in Int :
            /\ v < 0 /\ Bears(b.d, M, ChainOf(A, l, old, p, v))
            /\ shared.s \in DOMAIN M /\ M[shared.s] = Path(l, old, p - 1)
            /\ b.s \in DOMAIN M /\ M[b.s] = Path(l, old, p)
            /\ \A j \in 1 .. p : Path(l, old, j) \notin DOMAIN A
    BY <2>1
  <2>3. PICK v \in Int :
            /\ v < 0 /\ Bears(b.d, M, ChainOf(A, l, old, p, v))
            /\ shared.s \in DOMAIN M /\ M[shared.s] = Path(l, old, p - 1)
            /\ b.s \in DOMAIN M /\ M[b.s] = Path(l, old, p)
            /\ \A j \in 1 .. p : Path(l, old, j) \notin DOMAIN A
    BY <2>2
  <2> DEFINE B == ChainOf(A, l, old, p, -k)
             D == With(C, k, [suffix |-> From(old, p + 1), data |-> C[k].data])
  <2> HIDE DEF l
  <2>4. -A[l] = k /\ C[-A[l]].suffix = old
    BY <1>3, <1>4
  <2>5. /\ \A j \in 1 .. p : Path(l, C[-A[l]].suffix, j) \notin DOMAIN A
        /\ \A j \in Positive : j < p => At(C[-A[l]].suffix, j) # 0
        /\ Bears(b.d, M, ChainOf(A, l, C[-A[l]].suffix, p, v))
        /\ M[b.s] = Path(l, C[-A[l]].suffix, p) /\ A[l] < 0
    BY <1>9, <2>3, <2>4 DEF l
  <2>6. /\ IsDeep(B, D, A, C, l, p) /\ Joined(B, D) /\ Bears(d1, M, B) /\ TailHolds(t1, D)
    <3>1. LET q == -A[l]
              o == C[q].suffix
              E == ChainOf(A, l, o, p, -q)
              F == With(C, q, [suffix |-> From(o, p + 1), data |-> C[q].data])
          IN  /\ IsDeep(E, F, A, C, l, p) /\ Blocks(C) /\ Joined(E, F)
              /\ Bears(trie_da_set_tail_index(b.d, b.s, q), M, E)
              /\ TailHolds(tail_set_suffix(t, q, From(o, p + 1)), F)
      BY <1>1, <1>2, <1>10, <1>13, <2>3, <2>5, DeepHolds
    <3> QED BY <2>4, <3>1 DEF d1, t1
  <2>7. \A x, w : Key(B, D, x, w) <=> Key(A, C, x, w)
    <3> HIDE DEF B, D
    <3> QED BY <1>1, <1>2, <2>5, <2>6, DeepKeys
  <2>8. \A j \in 1 .. p - 1 : At(old, j) = At(suffix, j)
    <3>1. \A j \in 1 .. p - 1 : j \in Positive /\ j < p
      BY <1>9 DEF Positive
    <3> QED BY <1>9, <3>1
  <2>9. rest \in Rests /\ At(rest, 1) = At(suffix, p) /\ At(rest, 1) \in Chars
    <3>1. 1 \in Positive /\ p + 1 - 1 = p
      BY <1>9 DEF Positive
    <3>2. rest \in Rests /\ At(rest, 1) = At(suffix, p + 1 - 1)
      BY <1>10, <3>1, FromIs
    <3> HIDE DEF rest
    <3> QED BY <3>1, <3>2, StringIs
  <2>10. M[shared.s] = Path(l, old, p - 1) /\ shared.s \in DOMAIN M
    BY <2>3
  <2>11. Spelled(M[shared.s], rest, str)
    <3>1. Path(l, old, p - 1) = Path(l, suffix, p - 1)
      BY <1>2, <1>5, <1>10, <2>8, SamePath
    <3>2. Spelled(Path(l, suffix, p - 1), From(suffix, (p - 1) + 1), str) <=> Spelled(l, suffix, str)
      BY <1>2, <1>10, PathSpells
    <3>3. Spelled(l, suffix, str)
      BY DEF l
    <3> QED BY <1>10, <2>10, <3>1, <3>2, <3>3
  <2> HIDE DEF B, D, rest
  <2>12. B[M[shared.s]] = 1 /\ Child(M[shared.s], At(rest, 1)) \notin DOMAIN B
    <3> DEFINE c == At(rest, 1)
    <3>1. c \in Chars /\ c # At(C[-A[l]].suffix, p)
      BY <1>9, <2>4, <2>9
    <3> HIDE DEF c
    <3>2. /\ B[Path(l, C[-A[l]].suffix, p - 1)] = 1
          /\ Child(Path(l, C[-A[l]].suffix, p - 1), c) \notin DOMAIN B
      BY <1>1, <1>2, <2>5, <2>6, <3>1, DeepBranch
    <3> QED BY <2>4, <2>10, <3>2 DEF c
  <2>13. \A w : ~Key(B, D, str, w)
    BY <1>13, <2>7
  <2>14. StoredIn(deep, B, D, str, data)
    BY <2>6, <2>9, <2>10, <2>11, <2>12, <2>13, BranchStores DEF deep
  <2>15. StoredIn(deep, A, C, str, data)
    BY <2>7, <2>14, StoredSame
  <2>16. r = deep
    BY <1>6, <1>15
  <2> QED BY <2>15, <2>16 DEF r
<1> QED BY <1>14, <1>15

\* An entry's block gets other data (tail_set_data).
LEMMA OverwriteStores ==
  ASSUME NEW d, NEW L, NEW A, Bears(d, L, A), NEW t, NEW C, TailHolds(t, C), Joined(A, C),
         NEW l \in DOMAIN A, A[l] < 0, NEW data \in TrieData, NEW str \in Rests,
         Spelled(l, C[-A[l]].suffix, str), \A m \in DOMAIN A : A[m] < 0 /\ Along(m, str) => m = l
  PROVE  StoredIn([ok |-> TRUE, d |-> d, t |-> tail_set_data(t, -A[l], data)], A, C, str, data)
<1> DEFINE k == -A[l]
           y == [suffix |-> C[k].suffix, data |-> data]
           D == With(C, k, y)
           g == tail_set_data(t, k, data)
           r == [ok |-> TRUE, d |-> d, t |-> g]
<1>1. LabelTree(A) /\ Blocks(C)
  BY LabelTreeIs, BlocksHold
<1>2. l \in Labels /\ A[l] \in Int
  BY <1>1 DEF LabelTree
<1>3. k \in DOMAIN C /\ C[k] \in Content /\ k \in Int /\ A[l] = -k
  <2>1. k \in DOMAIN C
    BY DEF Joined
  <2>2. A[l] = -k /\ k \in Int
    BY <1>2
  <2> HIDE DEF k
  <2> QED BY <1>1, <2>1, <2>2 DEF Blocks
<1>4. C[k].suffix \in Rests
  BY <1>3 DEF Content
<1>5. y.suffix = C[k].suffix /\ y.data = data
  OBVIOUS
<1>6. r.ok = TRUE /\ r.d = d /\ r.t = g
  OBVIOUS
<1>7. Spelled(l, C[k].suffix, str)
  OBVIOUS
<1> HIDE DEF k, y, r
<1>8. TailHolds(g, D)
  <2>1. data \in TrieData \cup {TRIE_DATA_ERROR}
    OBVIOUS
  <2>2. TailHolds(tail_set_data(t, k, data), With(C, k, [suffix |-> C[k].suffix, data |-> data]))
    BY <1>3, <1>4, <2>1, TailSets
  <2> QED BY <2>2 DEF y
<1>9. DOMAIN D = DOMAIN C /\ D[k] = y /\ \A i \in DOMAIN C : i # k => D[i] = C[i]
  BY <1>3 DEF With
<1> HIDE DEF D, g
<1>10. \A m \in DOMAIN A : A[m] < 0 => D[-A[m]].suffix = C[-A[m]].suffix
  <2>1. SUFFICES ASSUME NEW m \in DOMAIN A, A[m] < 0 PROVE D[-A[m]].suffix = C[-A[m]].suffix
    OBVIOUS
  <2>2. -A[m] \in DOMAIN C
    BY <2>1 DEF Joined
  <2> QED BY <1>5, <1>9, <2>2
<1>11. Joined(A, D)
  BY <1>9, <1>10 DEF Joined
<1>12. Holding(r.d, r.t, A, D)
  BY <1>6, <1>8, <1>11 DEF Holding
<1>13. ASSUME NEW m \in DOMAIN A, A[m] < 0, m # l PROVE D[-A[m]] = C[-A[m]] /\ \A s : ~Spelled(m, s, str)
  <2>1. -A[m] \in DOMAIN C /\ A[m] # A[l] /\ A[m] \in Int
    BY <1>1, <1>13 DEF Joined, LabelTree
  <2>2. -A[m] # k
    BY <1>2, <1>3, <2>1
  <2>3. D[-A[m]] = C[-A[m]]
    BY <1>9, <2>1, <2>2
  <2>4. ~Along(m, str)
    BY <1>13
  <2> QED BY <2>3, <2>4 DEF Spelled
<1>14. D[-A[l]] = y /\ -A[l] = k
  BY <1>9 DEF k
<1>15. ASSUME NEW x \in Rests, NEW v
       PROVE  Key(A, D, x, v) <=> \/ r.ok /\ x = str /\ v = data
                                  \/ ~(r.ok /\ x = str) /\ Key(A, C, x, v)
  <2>1. CASE x = str
    <3>1. Key(A, D, str, v) => v = data
      <4>1. SUFFICES ASSUME Key(A, D, str, v) PROVE v = data
        OBVIOUS
      <4>2. PICK m \in DOMAIN A : A[m] < 0 /\ Spelled(m, D[-A[m]].suffix, str) /\ v = D[-A[m]].data
        BY <4>1 DEF Key
      <4>3. m = l
        BY <1>13, <4>2
      <4> QED BY <1>5, <1>14, <4>2, <4>3
    <3>2. Key(A, D, str, data)
      BY <1>5, <1>7, <1>14 DEF Key
    <3> QED BY <1>6, <2>1, <3>1, <3>2
  <2>2. CASE x # str
    <3>1. ~Spelled(l, C[k].suffix, x)
      BY <1>2, <1>7, <2>2, SpelledOne
    <3>2. ASSUME NEW m \in DOMAIN A, A[m] < 0
          PROVE  /\ Spelled(m, D[-A[m]].suffix, x) <=> Spelled(m, C[-A[m]].suffix, x)
                 /\ Spelled(m, C[-A[m]].suffix, x) => D[-A[m]].data = C[-A[m]].data
      <4>1. CASE m = l
        BY <1>5, <1>14, <3>1, <4>1
      <4>2. CASE m # l
        BY <1>13, <3>2, <4>2
      <4> QED BY <4>1, <4>2
    <3>3. Key(A, D, x, v) <=> Key(A, C, x, v)
      BY <3>2 DEF Key
    <3> QED BY <2>2, <3>3
  <2> QED BY <2>1, <2>2
<1>16. StoredIn(r, A, C, str, data)
  BY <1>12, <1>15 DEF StoredIn
<1> QED BY <1>16 DEF r, g, k

\* trie_store_conditionally, on an array and a tail.
StoreOf(d, t, str, data, overwrite) ==
  LET w == WalkBranches(d, str) IN
  IF ~w.walked THEN trie_branch_in_branch(d, t, w.s, From(str, w.p), data)
  ELSE IF ~InTail(d, t, w, str) THEN trie_branch_in_tail(d, t, w.s, From(str, w.p), data)
  ELSE [ok |-> overwrite, d |-> d,
        t |-> IF overwrite THEN tail_set_data(t, trie_da_get_tail_index(d, w.s), data) ELSE t]

\* What storing does.
LEMMA StoreIs ==
  ASSUME NEW d, NEW t, NEW A, NEW C, Holding(d, t, A, C), NEW str \in Rests, NEW data \in TrieData,
         NEW overwrite \in BOOLEAN
  PROVE  StoredIn(StoreOf(d, t, str, data, overwrite), A, C, str, data)
<1>1. PICK L : Bears(d, L, A)
  BY DEF Holding
<1>2. TailHolds(t, C) /\ Joined(A, C)
  BY DEF Holding
<1> DEFINE w == WalkBranches(d, str)
           r == StoreOf(d, t, str, data, overwrite)
           rest == From(str, w.p)
           l == L[w.s]
           k == trie_da_get_tail_index(d, w.s)
           kept == [ok |-> overwrite, d |-> d, t |-> IF overwrite THEN tail_set_data(t, k, data) ELSE t]
<1>3. Arrived(w, d, t, L, A, C, str)
  BY <1>1, <1>2, ArrivedIs
<1>4. r = IF ~w.walked THEN trie_branch_in_branch(d, t, w.s, rest, data)
          ELSE IF ~InTail(d, t, w, str) THEN trie_branch_in_tail(d, t, w.s, rest, data)
          ELSE kept
  BY DEF StoreOf
<1>5. kept.ok = overwrite /\ kept.d = d /\ kept.t = IF overwrite THEN tail_set_data(t, k, data) ELSE t
  OBVIOUS
<1> HIDE DEF w, r
<1>6. /\ w.s \in DOMAIN L /\ l \in DOMAIN A /\ l \in Labels /\ Along(l, str) /\ w.p \in Positive
      /\ \A m \in DOMAIN A : A[m] < 0 /\ Along(m, str) => w.walked /\ m = l
  BY <1>3 DEF Arrived
<1>7. rest \in Rests
  BY <1>6, FromIs
<1>8. CASE ~w.walked
  <2>1. A[l] = 1 /\ At(str, w.p) \in Chars /\ w.p = Len(l) + 1 /\ Child(l, At(str, w.p)) \notin DOMAIN A
    BY <1>3, <1>8 DEF Arrived
  <2>2. Len(l) \in Nat
    BY <1>6 DEF Labels
  <2>3. \A q \in Positive : At(rest, q) = At(str, Len(l) + q)
    <3>1. SUFFICES ASSUME NEW q \in Positive PROVE At(rest, q) = At(str, Len(l) + q)
      OBVIOUS
    <3>2. w.p + q - 1 = Len(l) + q
      BY <2>1, <2>2 DEF Positive
    <3>3. At(rest, q) = At(str, w.p + q - 1)
      BY <1>6, FromIs
    <3> QED BY <3>2, <3>3
  <2>4. Spelled(l, rest, str)
    BY <1>6, <2>3 DEF Spelled
  <2>5. At(rest, 1) = At(str, w.p)
    <3>1. 1 \in Positive
      BY DEF Positive
    <3>2. At(rest, 1) = At(str, Len(l) + 1)
      BY <2>3, <3>1
    <3> QED BY <2>1, <3>2
  <2>6. \A v : ~Key(A, C, str, v)
    BY <1>6, <1>8 DEF Key, Spelled
  <2>7. Child(l, At(rest, 1)) \notin DOMAIN A
    BY <2>1, <2>5
  <2> HIDE DEF rest
  <2>8. StoredIn(trie_branch_in_branch(d, t, w.s, rest, data), A, C, str, data)
    BY <1>1, <1>2, <1>6, <1>7, <2>1, <2>4, <2>6, <2>7, BranchStores
  <2>9. r = trie_branch_in_branch(d, t, w.s, rest, data)
    BY <1>4, <1>8
  <2> QED BY <2>8, <2>9 DEF r
<1>9. ASSUME w.walked
      PROVE  /\ A[l] < 0 /\ -A[l] \in DOMAIN C /\ k = -A[l] /\ Spelled(l, rest, str)
             /\ InTail(d, t, w, str) <=> C[-A[l]].suffix = rest
             /\ \A m \in DOMAIN A : A[m] < 0 /\ Along(m, str) => m = l
  BY <1>3, <1>6, <1>9 DEF Arrived
<1>10. CASE w.walked /\ ~InTail(d, t, w, str)
  <2>1. StoredIn(trie_branch_in_tail(d, t, w.s, rest, data), A, C, str, data)
    <3>1. A[l] < 0 /\ C[-A[l]].suffix # rest /\ Spelled(l, rest, str)
          /\ \A m \in DOMAIN A : A[m] < 0 /\ Along(m, str) => m = l
      BY <1>9, <1>10
    <3> HIDE DEF rest
    <3> QED BY <1>1, <1>2, <1>6, <1>7, <3>1, TailBranchStores
  <2>2. r = trie_branch_in_tail(d, t, w.s, rest, data)
    BY <1>4, <1>10
  <2> QED BY <2>1, <2>2 DEF r
<1>11. CASE w.walked /\ InTail(d, t, w, str)
  <2>1. r = kept
    BY <1>4, <1>11
  <2> HIDE DEF kept, rest
  <2>2. CASE overwrite
    <3>1. /\ A[l] < 0 /\ Spelled(l, C[-A[l]].suffix, str)
          /\ \A m \in DOMAIN A : A[m] < 0 /\ Along(m, str) => m = l
      BY <1>9, <1>11
    <3>2. StoredIn([ok |-> TRUE, d |-> d, t |-> tail_set_data(t, -A[l], data)], A, C, str, data)
      <4> HIDE DEF l
      <4> QED BY <1>1, <1>2, <1>6, <3>1, OverwriteStores
    <3>3. kept = [ok |-> TRUE, d |-> d, t |-> tail_set_data(t, -A[l], data)]
      BY <1>9, <1>11, <2>2 DEF kept
    <3> QED BY <2>1, <3>2, <3>3 DEF r
  <2>3. CASE ~overwrite
    <3>1. r.ok = FALSE /\ r.d = d /\ r.t = t
      BY <1>5, <2>1, <2>3
    <3>2. Holding(r.d, r.t, A, C)
      BY <3>1
    <3>3. StoredIn(r, A, C, str, data)
      BY <3>1, <3>2, NothingStored
    <3> QED BY <3>3 DEF r
  <2> QED BY <2>2, <2>3
<1> QED BY <1>8, <1>10, <1>11

(***************************************************************************)
(* Deleting                                                                *)
(***************************************************************************)

\* The entry of str is gone, the others are as they were.
DeletedIn(d, t, A, C, str) ==
  \E B, D : /\ Holding(d, t, B, D)
            /\ \A x \in Rests : \A v : Key(B, D, x, v) <=> x # str /\ Key(A, C, x, v)

\* The labels G go, with label l among them, of which q is the last one's parent.
IsCut(B, G, q, A, l) ==
  /\ l \in G /\ G \subseteq DOMAIN A /\ \A m \in G : m = l \/ ~(A[m] < 0)
  /\ DOMAIN B = DOMAIN A \ G /\ \A m \in DOMAIN B : B[m] = A[m]
  /\ \A m \in DOMAIN A \ G : \A c \in Chars : Child(m, c) \in G => m = q
  /\ q = <<>> \/ \E c \in Chars : Child(q, c) \in DOMAIN A \ G

\* What is left is joined.
LEMMA CutJoined ==
  ASSUME NEW A, NEW C, LabelTree(A), Joined(A, C), Blocks(C), NEW l \in DOMAIN A, A[l] < 0,
         NEW B, NEW G, NEW q, IsCut(B, G, q, A, l)
  PROVE  Joined(B, Less(C, -A[l]))
<1> DEFINE k == -A[l]
           D == Less(C, k)
<1>1. A[l] \in Int /\ A[l] = -k
  <2>1. A[l] \in Int
    BY DEF LabelTree
  <2> QED BY <2>1
<1>2. DOMAIN D = DOMAIN C \ {k} /\ \A i \in DOMAIN D : D[i] = C[i]
  BY DEF Less
<1> HIDE DEF k, D
<1>3. /\ l \in G /\ G \subseteq DOMAIN A /\ \A m \in G : m = l \/ ~(A[m] < 0)
      /\ DOMAIN B = DOMAIN A \ G /\ \A m \in DOMAIN B : B[m] = A[m]
      /\ \A m \in DOMAIN A \ G : \A c \in Chars : Child(m, c) \in G => m = q
      /\ q = <<>> \/ \E c \in Chars : Child(q, c) \in DOMAIN A \ G
  BY DEF IsCut
<1>4. ASSUME NEW m \in DOMAIN B, B[m] < 0
      PROVE  /\ m \in DOMAIN A /\ m # l /\ A[m] = B[m] /\ A[m] < 0
             /\ -A[m] \in DOMAIN D /\ D[-A[m]] = C[-A[m]]
  <2>1. m \in DOMAIN A /\ m # l /\ A[m] = B[m] /\ A[m] < 0
    BY <1>3, <1>4
  <2>2. -A[m] \in DOMAIN C /\ A[m] # A[l]
    BY <2>1 DEF Joined
  <2>3. A[m] \in Int
    BY <2>1 DEF LabelTree
  <2>4. -A[m] # k
    BY <1>1, <2>2, <2>3
  <2> QED BY <1>2, <2>1, <2>2, <2>4
<1>5. ASSUME NEW m \in DOMAIN B PROVE m = <<>> \/ B[m] < 0 \/ \E c \in Chars : Child(m, c) \in DOMAIN B
  <2>1. m \in DOMAIN A \ G /\ B[m] = A[m]
    BY <1>3
  <2>2. m = <<>> \/ A[m] < 0 \/ \E c \in Chars : Child(m, c) \in DOMAIN A
    BY <2>1 DEF Joined
  <2>3. CASE \E c \in Chars : Child(m, c) \in DOMAIN A
    <3>1. PICK c \in Chars : Child(m, c) \in DOMAIN A
      BY <2>3
    <3>2. CASE Child(m, c) \in G
      BY <1>3, <2>1, <3>2
    <3>3. CASE Child(m, c) \notin G
      BY <1>3, <3>1, <3>3
    <3> QED BY <3>2, <3>3
  <2> QED BY <2>1, <2>2, <2>3
<1>6. ASSUME NEW i \in DOMAIN D PROVE \E m \in DOMAIN B : B[m] = -i
  <2>1. i \in DOMAIN C /\ i # k
    BY <1>2
  <2>2. PICK m \in DOMAIN A : A[m] = -i
    BY <2>1 DEF Joined
  <2>3. i \in Nat /\ i > 0
    BY <2>1 DEF Blocks
  <2>4. k \in Int
    BY <1>1 DEF k
  <2>5. m # l
    BY <1>1, <2>1, <2>2, <2>3, <2>4
  <2>6. m \notin G
    BY <1>3, <2>2, <2>3, <2>5
  <2> QED BY <1>3, <2>2, <2>6
<1>7. \A m, n \in DOMAIN B : B[m] < 0 /\ B[m] = B[n] => m = n
  BY <1>3 DEF Joined
<1>8. ASSUME NEW m \in DOMAIN B, NEW p \in 1 .. Len(m), m[p] = 0
      PROVE  p = Len(m) /\ B[m] < 0 /\ D[-B[m]].suffix = <<>>
  <2>1. m \in DOMAIN A /\ B[m] = A[m]
    BY <1>3
  <2>2. p = Len(m) /\ A[m] < 0 /\ C[-A[m]].suffix = <<>>
    BY <1>8, <2>1 DEF Joined
  <2> QED BY <1>4, <2>1, <2>2
<1>9. \A m \in DOMAIN B : B[m] < 0 => -B[m] \in DOMAIN D
  BY <1>4
<1>10. Joined(B, D)
  BY <1>5, <1>6, <1>7, <1>8, <1>9 DEF Joined
<1> QED BY <1>10 DEF D, k

\* One entry is gone.
LEMMA CutKeys ==
  ASSUME NEW A, NEW C, LabelTree(A), Joined(A, C), Blocks(C), NEW l \in DOMAIN A, A[l] < 0,
         NEW B, NEW G, NEW q, IsCut(B, G, q, A, l),
         NEW str \in Rests, Spelled(l, C[-A[l]].suffix, str),
         \A m \in DOMAIN A : A[m] < 0 /\ Along(m, str) => m = l,
         NEW x \in Rests, NEW v
  PROVE  Key(B, Less(C, -A[l]), x, v) <=> x # str /\ Key(A, C, x, v)
<1> DEFINE k == -A[l]
           D == Less(C, k)
<1>1. A[l] \in Int /\ A[l] = -k /\ l \in Labels
  <2>1. A[l] \in Int /\ l \in Labels
    BY DEF LabelTree
  <2> QED BY <2>1
<1>2. DOMAIN D = DOMAIN C \ {k} /\ \A i \in DOMAIN D : D[i] = C[i]
  BY DEF Less
<1>3. Spelled(l, C[k].suffix, str) /\ k = -A[l]
  OBVIOUS
<1> HIDE DEF k, D
<1>4. /\ l \in G /\ \A m \in G : m = l \/ ~(A[m] < 0)
      /\ DOMAIN B = DOMAIN A \ G /\ \A m \in DOMAIN B : B[m] = A[m]
  BY DEF IsCut
<1>5. ASSUME NEW m \in DOMAIN A, A[m] < 0, m # l
      PROVE  m \in DOMAIN B /\ B[m] = A[m] /\ D[-A[m]] = C[-A[m]] /\ ~Along(m, str)
  <2>1. m \in DOMAIN B /\ B[m] = A[m] /\ ~Along(m, str)
    BY <1>4, <1>5
  <2>2. -A[m] \in DOMAIN C /\ A[m] # A[l]
    BY <1>5 DEF Joined
  <2>3. A[m] \in Int
    BY DEF LabelTree
  <2>4. -A[m] # k
    BY <1>1, <2>2, <2>3
  <2> QED BY <1>2, <2>1, <2>2, <2>4
<1>6. ASSUME Key(B, D, x, v) PROVE x # str /\ Key(A, C, x, v)
  <2>1. PICK m \in DOMAIN B : B[m] < 0 /\ Spelled(m, D[-B[m]].suffix, x) /\ v = D[-B[m]].data
    BY <1>6 DEF Key
  <2>2. m \in DOMAIN A /\ m # l /\ A[m] = B[m]
    BY <1>4
  <2>3. D[-A[m]] = C[-A[m]] /\ ~Along(m, str)
    BY <1>5, <2>1, <2>2
  <2>4. Key(A, C, x, v)
    BY <2>1, <2>2, <2>3 DEF Key
  <2>5. x # str
    BY <2>1, <2>3 DEF Spelled
  <2> QED BY <2>4, <2>5
<1>7. ASSUME x # str, Key(A, C, x, v) PROVE Key(B, D, x, v)
  <2>1. PICK m \in DOMAIN A : A[m] < 0 /\ Spelled(m, C[-A[m]].suffix, x) /\ v = C[-A[m]].data
    BY <1>7 DEF Key
  <2>2. m # l
    <3>1. SUFFICES ASSUME m = l PROVE FALSE
      OBVIOUS
    <3>2. Spelled(l, C[k].suffix, x)
      BY <1>3, <2>1, <3>1
    <3> QED BY <1>1, <1>3, <1>7, <3>2, SpelledOne
  <2>3. m \in DOMAIN B /\ B[m] = A[m] /\ D[-A[m]] = C[-A[m]]
    BY <1>5, <2>1, <2>2
  <2> QED BY <2>1, <2>3 DEF Key
<1>8. Key(B, D, x, v) <=> x # str /\ Key(A, C, x, v)
  BY <1>6, <1>7
<1> QED BY <1>8 DEF D, k

\* The node of the entry is freed, with those above it that are left without children
\* (da_prune_upto).
LEMMA CutIs ==
  ASSUME NEW d, NEW L, NEW A, Bears(d, L, A), NEW s \in DOMAIN L, A[L[s]] < 0
  PROVE  \E M, B, G, q : /\ Bears(da_prune_upto(da_set_base(d, s, TRIE_INDEX_ERROR), ROOT, s), M, B)
                         /\ IsCut(B, G, q, A, L[s])
<1> DEFINE l == L[s]
           F == [A EXCEPT ![l] = TRIE_INDEX_ERROR]
           e == da_set_base(d, s, TRIE_INDEX_ERROR)
           g == da_prune_upto(e, ROOT, s)
           Kept == {m \in DOMAIN A : ~(F[m] < 0)}
           H == (SUBSET Kept) \X Kept
<1>1. LabelTree(A) /\ IsTree(L, A)
  BY LabelTreeIs
<1>2. l \in DOMAIN A /\ l \in Labels /\ l # <<>> /\ \A c \in Chars : Child(l, c) \notin DOMAIN A
  <2>1. l \in DOMAIN A /\ l \in Labels
    BY <1>1 DEF IsTree
  <2>2. l # <<>> /\ \A c \in Chars : Child(l, c) \notin DOMAIN A
    BY <1>1, <2>1 DEF LabelTree
  <2> QED BY <2>1, <2>2
<1>3. TRIE_INDEX_ERROR \in Int /\ TRIE_INDEX_ERROR <= 0 /\ ~(TRIE_INDEX_ERROR < 0)
  BY DEF TRIE_INDEX_ERROR
<1>4. Bears(e, L, F)
  BY <1>2, <1>3, SetBears
<1>5. DOMAIN F = DOMAIN A /\ F[l] = TRIE_INDEX_ERROR /\ \A m \in DOMAIN A : m # l => F[m] = A[m]
  BY <1>2
<1>6. IsTree(L, F)
  BY <1>4, LabelTreeIs
<1> HIDE DEF l, F, e, g
<1>7. ROOT \in DOMAIN L /\ L[ROOT] = <<>>
  BY <1>1 DEF IsTree
<1>8. Allows(H, L, F, s, ROOT)
  <2>1. <<{}, L[s]>> \in H
    BY <1>2, <1>3, <1>5 DEF l
  <2>2. ASSUME NEW G, NEW m \in DOMAIN F, NEW c \in Chars, <<G, Child(m, c)>> \in H
        PROVE  <<G \cup {Child(m, c)}, m>> \in H
    <3>1. G \subseteq Kept /\ Child(m, c) \in Kept
      BY <2>2
    <3>2. Child(m, c) \in DOMAIN F
      BY <1>5, <3>1
    <3>3. F[m] = 1
      BY <1>6, <3>2 DEF IsTree
    <3>4. m \in Kept
      BY <1>5, <3>3
    <3> HIDE DEF Kept
    <3> QED BY <3>1, <3>4
  <2> HIDE DEF H
  <2> QED BY <2>1, <2>2 DEF Allows
<1>9. \E G, M, q : /\ IsPruned(g, q, G, M, L, F, s, H)
                   /\ q = ROOT \/ \E c \in Chars : Child(L[q], c) \in DOMAIN F \ G
  <2> HIDE DEF H
  <2> QED BY <1>4, <1>7, <1>8, PruneIs DEF g
<1>10. PICK G, M, q : /\ IsPruned(g, q, G, M, L, F, s, H)
                      /\ q = ROOT \/ \E c \in Chars : Child(L[q], c) \in DOMAIN F \ G
  BY <1>9
<1> DEFINE B == Only(F, DOMAIN F \ G)
<1>11. /\ G \subseteq DOMAIN F /\ Bears(g, M, B) /\ <<G, L[q]>> \in H
       /\ \A m \in DOMAIN F \ G : \A c \in Chars : Child(m, c) \in G => m = L[q]
       /\ q = s \/ L[s] \in G
  BY <1>10 DEF IsPruned
<1>12. l \in G
  <2>1. q # s
    <3>1. SUFFICES ASSUME q = s PROVE FALSE
      OBVIOUS
    <3>2. s # ROOT
      BY <1>2, <1>7 DEF l
    <3> QED BY <1>2, <1>5, <1>10, <3>1, <3>2 DEF l
  <2> QED BY <1>11, <2>1 DEF l
<1>13. DOMAIN B = DOMAIN A \ G /\ \A m \in DOMAIN B : B[m] = A[m]
  <2>1. DOMAIN B = DOMAIN F \ G /\ \A m \in DOMAIN B : B[m] = F[m]
    BY DEF Only
  <2> HIDE DEF B
  <2> QED BY <1>5, <1>12, <2>1
<1>14. \A m \in G : m = l \/ ~(A[m] < 0)
  <2>1. G \subseteq Kept
    BY <1>11
  <2> QED BY <1>5, <2>1
<1>15. L[q] = <<>> \/ \E c \in Chars : Child(L[q], c) \in DOMAIN A \ G
  BY <1>5, <1>7, <1>10
<1> HIDE DEF B, H
<1>16. IsCut(B, G, L[q], A, l)
  BY <1>5, <1>11, <1>12, <1>13, <1>14, <1>15 DEF IsCut
<1> QED BY <1>11, <1>16 DEF g, e, l

\* What deleting does (trie_delete).
LEMMA DeleteIs ==
  ASSUME NEW d, NEW t, NEW A, NEW C, Holding(d, t, A, C), NEW str \in Rests,
         InTail(d, t, WalkBranches(d, str), str)
  PROVE  LET w == WalkBranches(d, str) IN
         DeletedIn(da_prune_upto(da_set_base(d, w.s, TRIE_INDEX_ERROR), ROOT, w.s),
                   tail_delete(t, trie_da_get_tail_index(d, w.s)), A, C, str)
<1>1. PICK L : Bears(d, L, A)
  BY DEF Holding
<1>2. TailHolds(t, C) /\ Joined(A, C)
  BY DEF Holding
<1> DEFINE w == WalkBranches(d, str)
           l == L[w.s]
           k == trie_da_get_tail_index(d, w.s)
           g == da_prune_upto(da_set_base(d, w.s, TRIE_INDEX_ERROR), ROOT, w.s)
           h == tail_delete(t, k)
           D == Less(C, k)
<1>3. Arrived(w, d, t, L, A, C, str) /\ InTail(d, t, w, str)
  BY <1>1, <1>2, ArrivedIs
<1> HIDE DEF w
<1>4. w.walked
  BY <1>3 DEF Arrived
<1>5. /\ w.s \in DOMAIN L /\ l \in DOMAIN A /\ A[l] < 0 /\ k = -A[l] /\ k \in DOMAIN C
      /\ Spelled(l, C[-A[l]].suffix, str) /\ \A m \in DOMAIN A : A[m] < 0 /\ Along(m, str) => m = l
  BY <1>3, <1>4 DEF Arrived
<1>6. LabelTree(A) /\ Blocks(C)
  BY <1>1, <1>2, LabelTreeIs, BlocksHold
<1>7. PICK M, B, G, q : Bears(g, M, B) /\ IsCut(B, G, q, A, l)
  BY <1>1, <1>5, CutIs
<1> HIDE DEF l, k, g
<1>8. TailHolds(h, D)
  BY <1>2, <1>5, TailDeletes
<1>9. Joined(B, D)
  BY <1>2, <1>5, <1>6, <1>7, CutJoined
<1>10. \A x \in Rests : \A v : Key(B, D, x, v) <=> x # str /\ Key(A, C, x, v)
  <2>1. SUFFICES ASSUME NEW x \in Rests, NEW v PROVE Key(B, D, x, v) <=> x # str /\ Key(A, C, x, v)
    OBVIOUS
  <2>2. Key(B, Less(C, -A[l]), x, v) <=> x # str /\ Key(A, C, x, v)
    BY <1>2, <1>5, <1>6, <1>7, CutKeys
  <2> QED BY <1>5, <2>2
<1> HIDE DEF h, D
<1>11. Holding(g, h, B, D)
  BY <1>7, <1>8, <1>9 DEF Holding
<1>12. DeletedIn(g, h, A, C, str)
  BY <1>10, <1>11 DEF DeletedIn
<1> QED BY <1>12 DEF g, h, k, w

(***************************************************************************)
(* The new trie                                                            *)
(***************************************************************************)

\* The array with the root alone (da_new).
FirstNodes == [x \in {ROOT} |-> [base |-> DA_POOL_BEGIN, check |-> 0]]
FirstLabels == [x \in {ROOT} |-> <<>>]
FirstTree == [l \in {<<>>} |-> 1]

\* It is an array without free cells.
LEMMA FirstHolds == DaHolds(da_new, FirstNodes)
<1> DEFINE u == FirstNodes
<1>1. DA_POOL_BEGIN = 3 /\ ROOT = 2 /\ FREE_LIST = 1 /\ DA_SIGNATURE \in Int
  BY DEF DA_POOL_BEGIN, ROOT, FREE_LIST, DA_SIGNATURE
<1>2. /\ DOMAIN da_new = 0 .. 2
      /\ da_new[0] = [base |-> DA_SIGNATURE, check |-> 3]
      /\ da_new[1] = [base |-> -1, check |-> -1]
      /\ da_new[2] = [base |-> 3, check |-> 0]
      /\ da_new = [s \in 0 .. 2 |-> da_new[s]]
  BY <1>1 DEF da_new
<1>3. \A s \in 0 .. 2 : da_new[s] \in Cell
  <2>1. \A s \in 0 .. 2 : s = 0 \/ s = 1 \/ s = 2
    OBVIOUS
  <2> HIDE DEF da_new
  <2>2. [base |-> DA_SIGNATURE, check |-> 3] \in Cell /\ [base |-> -1, check |-> -1] \in Cell
        /\ [base |-> 3, check |-> 0] \in Cell
    BY <1>1 DEF Cell
  <2> QED BY <1>2, <2>1, <2>2
<1>4. IsArray(da_new, 3)
  BY <1>1, <1>2, <1>3, LimitsAssumption, TrieDefsAssumption DEF IsArray
<1>5. DOMAIN u = {2} /\ u[2] = [base |-> 3, check |-> 0]
  BY <1>1 DEF FirstNodes
<1>6. AreNodes(3, u)
  <2>1. u = [x \in {2} |-> u[x]]
    BY <1>1 DEF FirstNodes
  <2>2. u[2] \in Cell /\ u[2].check >= 0
    BY <1>5 DEF Cell
  <2> HIDE DEF u
  <2> QED BY <1>1, <1>5, <2>1, <2>2 DEF AreNodes
<1>7. FreeOf(3, u) = {}
  BY <1>1 DEF FreeOf
<1>8. Listed(da_new, {})
  BY <1>1, <1>2 DEF Listed, IsNext, IsPrev
<1>9. \A s \in DOMAIN u : da_new[s] = u[s]
  BY <1>2, <1>5
<1>10. DaIs(da_new, 3, u)
  BY <1>4, <1>6, <1>7, <1>8, <1>9 DEF DaIs
<1> QED BY <1>10, HoldsIs

\* Its tree is the empty label.
LEMMA FirstBears == Bears(da_new, FirstLabels, FirstTree)
<1>1. DaHolds(da_new, FirstNodes)
  BY FirstHolds
<1>2. DA_POOL_BEGIN = 3 /\ ROOT = 2
  BY DEF DA_POOL_BEGIN, ROOT
<1>3. DOMAIN FirstNodes = {2} /\ FirstNodes[2].base = 3 /\ FirstNodes[2].check = 0
  BY <1>2 DEF FirstNodes
<1>4. Tree(FirstNodes)
  BY <1>2, <1>3 DEF Tree
<1>5. DOMAIN FirstLabels = {2} /\ FirstLabels[2] = <<>> /\ FirstLabels = [x \in {2} |-> FirstLabels[x]]
  BY <1>2 DEF FirstLabels
<1>6. Labelled(FirstNodes, FirstLabels)
  <2>1. <<>> \in Labels
    BY DEF Labels
  <2> QED BY <1>2, <1>3, <1>5, <2>1 DEF Labelled
<1>7. Marked(FirstNodes, FirstLabels, FirstTree)
  <2>1. DOMAIN FirstTree = {<<>>} /\ FirstTree[<<>>] = 1 /\ FirstTree = [l \in {<<>>} |-> FirstTree[l]]
    BY DEF FirstTree
  <2>2. Mark(3) = 1
    BY DEF Mark
  <2>3. \A x \in DOMAIN FirstNodes : x = 2
    BY <1>3
  <2> QED BY <1>3, <1>5, <2>1, <2>2, <2>3 DEF Marked
<1> QED BY <1>1, <1>4, <1>6, <1>7 DEF Bearing, Bears

\* The new trie holds no key (trie_new).
HasKeys(d, t, K) ==
  \E A, C : Holding(d, t, A, C) /\ \A x \in Rests : \A v : Key(A, C, x, v) <=> <<x, v>> \in K

\* The array and the tail of trie_new hold the empty set of keys.
LEMMA NewHasKeys == HasKeys(da_new, tail_new, {})
<1> DEFINE C == [k \in {} |-> 0]
           A == FirstTree
<1>1. Bears(da_new, FirstLabels, A)
  BY FirstBears
<1>2. TailHolds(tail_new, C)
  BY TailNewHolds
<1>3. DOMAIN A = {<<>>} /\ A[<<>>] = 1 /\ DOMAIN C = {} /\ Len(<<>>) = 0
  BY DEF FirstTree
<1> HIDE DEF A, C
<1>4. Joined(A, C)
  BY <1>3 DEF Joined
<1>5. \A x, v : ~Key(A, C, x, v)
  BY <1>3 DEF Key
<1>6. Holding(da_new, tail_new, A, C)
  BY <1>1, <1>2, <1>4 DEF Holding
<1> QED BY <1>5, <1>6 DEF HasKeys

(***************************************************************************)
(* Keys and their codes                                                    *)
(***************************************************************************)

CodesOf(am, key) == [i \in DOMAIN key |-> alpha_map_char_to_trie(am, key[i])]

\* Every character has a code of its own, which is neither the terminator nor
\* TRIE_CHAR_MAX.
Sharp(am) ==
  /\ \A c \in Characters : alpha_map_char_to_trie(am, c) \in 1 .. TRIE_CHAR_MAX - 1
  /\ \A c, d \in Characters :
       alpha_map_char_to_trie(am, c) = alpha_map_char_to_trie(am, d) => c = d

\* The map of all the characters is sharp.
LEMMA MapIsSharp ==
  ASSUME AlphaInv, added = Characters
  PROVE  Sharp(alpha_map)
<1> DEFINE code(c) == alpha_map_char_to_trie(alpha_map, c)
           n == Cardinality(added)
<1>1. CodesExact
  BY CodesAreExact, AlphabetAssumption
<1>2. n \in Nat /\ n < TRIE_CHAR_MAX /\ TRIE_CHAR_MAX \in Nat
  BY AlphabetAssumption, CharMaxIs, FS_CardinalityType
<1>3. {code(c) : c \in added} = 1 .. n /\ \A c, d \in added : c < d => code(c) < code(d)
  BY <1>1 DEF CodesExact
<1>4. Characters \subseteq Int
  BY DEF AlphaInv, Holds, Within
<1> HIDE DEF code, n
<1>5. \A c \in Characters : code(c) \in 1 .. n
  BY <1>3
<1>6. \A c \in Characters : code(c) \in 1 .. TRIE_CHAR_MAX - 1
  BY <1>2, <1>5
<1>7. ASSUME NEW c \in Characters, NEW d \in Characters, code(c) = code(d) PROVE c = d
  <2>1. c \in Int /\ d \in Int /\ code(c) \in Int /\ code(d) \in Int
    BY <1>4, <1>6
  <2>2. ~(c < d) /\ ~(d < c)
    BY <1>3, <1>7, <2>1
  <2> QED BY <2>1, <2>2
<1> QED BY <1>6, <1>7 DEF Sharp, code

\* Sequences with the same domain are as long.
LEMMA SameLength ==
  ASSUME NEW m \in Nat, NEW n \in Nat, 1 .. m = 1 .. n
  PROVE  m = n
<1>1. CASE m < n
  <2>1. n \in 1 .. n /\ n \notin 1 .. m
    BY <1>1
  <2> QED BY <2>1
<1>2. CASE n < m
  <2>1. m \in 1 .. m /\ m \notin 1 .. n
    BY <1>2
  <2> QED BY <2>1
<1> QED BY <1>1, <1>2

\* So a key has codes, and no two keys have the same.
LEMMA CodesAre ==
  ASSUME NEW am, Sharp(am), NEW key \in Seq(Characters)
  PROVE  /\ CodesOf(am, key) \in Rests
         /\ \A k \in Seq(Characters) : CodesOf(am, k) = CodesOf(am, key) => k = key
<1> DEFINE code(c) == alpha_map_char_to_trie(am, c)
           r == CodesOf(am, key)
<1>1. /\ \A c \in Characters : code(c) \in 1 .. TRIE_CHAR_MAX - 1
      /\ \A c, d \in Characters : code(c) = code(d) => c = d
  BY DEF Sharp
<1> HIDE DEF code
<1>2. Len(key) \in Nat /\ DOMAIN key = 1 .. Len(key) /\ \A i \in 1 .. Len(key) : key[i] \in Characters
  OBVIOUS
<1>3. r = [i \in 1 .. Len(key) |-> code(key[i])]
  BY <1>2 DEF CodesOf, code
<1>4. r \in Rests
  <2>1. \A i \in 1 .. Len(key) : code(key[i]) \in 1 .. TRIE_CHAR_MAX - 1
    BY <1>1, <1>2
  <2> DEFINE S == 1 .. TRIE_CHAR_MAX - 1
  <2>2. r \in [1 .. Len(key) -> S]
    BY <1>3, <2>1
  <2> HIDE DEF r, S
  <2>3. r \in Seq(S)
    BY <1>2, <2>2, IsASeq
  <2> QED BY <2>3 DEF Rests, S
<1>5. ASSUME NEW k \in Seq(Characters), CodesOf(am, k) = r PROVE k = key
  <2>1. Len(k) \in Nat /\ DOMAIN k = 1 .. Len(k) /\ \A i \in 1 .. Len(k) : k[i] \in Characters
    OBVIOUS
  <2>2. CodesOf(am, k) = [i \in 1 .. Len(k) |-> code(k[i])]
    BY <2>1 DEF CodesOf, code
  <2>3. 1 .. Len(k) = 1 .. Len(key)
    BY <1>3, <1>5, <2>2, SMTT(60)
  <2>4. Len(k) = Len(key)
    BY <1>2, <2>1, <2>3, SameLength
  <2>5. \A i \in 1 .. Len(k) : code(k[i]) = code(key[i])
    <3>1. \A i \in 1 .. Len(k) : r[i] = code(k[i])
      BY <1>5, <2>2
    <3>2. \A i \in 1 .. Len(key) : r[i] = code(key[i])
      BY <1>3
    <3> QED BY <2>4, <3>1, <3>2
  <2>6. \A i \in 1 .. Len(k) : k[i] = key[i]
    BY <1>1, <1>2, <2>1, <2>4, <2>5
  <2> QED BY <2>4, <2>6
<1> QED BY <1>4, <1>5

(***************************************************************************)
(* The invariant                                                           *)
(***************************************************************************)

\* The entries of the dictionary with the codes of their keys.
Entries(am, K) == {<<CodesOf(am, e[1]), e[2]>> : e \in K}

\* The alphabet is the one the trie was made with, the array and the tail hold the
\* dictionary, and a trie that is not dirty is what was saved.
TrieInv == /\ AlphaInv /\ added = Characters
           /\ is_dirty \in BOOLEAN
           /\ dict \subseteq Keys \X TrieData
           /\ HasKeys(da, tail, Entries(alpha_map, dict))
           /\ ~is_dirty => saved = dict

\* A key of the trie is a sequence of characters.
LEMMA KeysAre ==
  ASSUME NEW key \in Keys
  PROVE  key \in Strings /\ key \in Seq(Characters)
BY KeysAssumption

\* The entries of other keys are not those of one.
LEMMA EntriesAre ==
  ASSUME NEW am, Sharp(am), NEW K \in SUBSET (Keys \X TrieData), NEW key \in Seq(Characters)
  PROVE  \A v : <<CodesOf(am, key), v>> \in Entries(am, K) <=> <<key, v>> \in K
<1> SUFFICES ASSUME NEW v
             PROVE  <<CodesOf(am, key), v>> \in Entries(am, K) <=> <<key, v>> \in K
  OBVIOUS
<1>1. ASSUME <<key, v>> \in K PROVE <<CodesOf(am, key), v>> \in Entries(am, K)
  BY <1>1 DEF Entries
<1>2. ASSUME <<CodesOf(am, key), v>> \in Entries(am, K) PROVE <<key, v>> \in K
  <2>1. PICK e \in K : <<CodesOf(am, key), v>> = <<CodesOf(am, e[1]), e[2]>>
    BY <1>2 DEF Entries
  <2>2. e = <<e[1], e[2]>> /\ e[1] \in Keys
    OBVIOUS
  <2>3. CodesOf(am, e[1]) = CodesOf(am, key) /\ e[2] = v
    BY <2>1
  <2>4. e[1] = key
    BY <2>2, <2>3, KeysAre, CodesAre
  <2> QED BY <2>2, <2>3, <2>4
<1> QED BY <1>1, <1>2

\* The new trie (trie_new, list2tri.c).
LEMMA TrieInvInit == TrieInit => TrieInv
<1> SUFFICES ASSUME TrieInit PROVE TrieInv
  OBVIOUS
<1> DEFINE am == AddAll(Alphabet)
<1>1. /\ alpha_map = alpha_map_clone(am)
      /\ added = Characters /\ da = da_new /\ tail = tail_new /\ is_dirty = TRUE /\ dict = {}
  BY DEF TrieInit, AddAll
<1>2. /\ InOrder(am)
      /\ \A c : Holds(am, c) <=> \E i \in 1 .. Len(Alphabet) : c \in Alphabet[i][1] .. Alphabet[i][2]
  BY AllAdded, AlphabetAssumption
<1> HIDE DEF am
<1>3. alpha_map = am
  BY <1>1, <1>2, CloneExact
<1>4. AlphaInv
  <2>1. DOMAIN Alphabet = 1 .. Len(Alphabet)
    BY AlphabetAssumption
  <2>2. \A c : c \in Characters <=> \E i \in 1 .. Len(Alphabet) : c \in Alphabet[i][1] .. Alphabet[i][2]
    BY <2>1 DEF Characters
  <2> QED BY <1>1, <1>2, <1>3, <2>2 DEF AlphaInv
<1>5. Entries(alpha_map, dict) = {}
  BY <1>1 DEF Entries
<1>6. HasKeys(da, tail, Entries(alpha_map, dict))
  BY <1>1, <1>5, NewHasKeys
<1> QED BY <1>1, <1>4, <1>6 DEF TrieInv

(***************************************************************************)
(* The actions                                                             *)
(***************************************************************************)

\* K without the entries of str.
Others(K, str) == {e \in K : e[1] # str}

\* Storing changes the entry of its own string, or none.
LEMMA StoreKeeps ==
  ASSUME NEW d, NEW t, NEW K, HasKeys(d, t, K), NEW str \in Rests, NEW data \in TrieData,
         NEW overwrite \in BOOLEAN, NEW r, r = StoreOf(d, t, str, data, overwrite)
  PROVE  HasKeys(r.d, r.t, IF r.ok THEN Others(K, str) \cup {<<str, data>>} ELSE K)
<1>1. PICK A, C : Holding(d, t, A, C) /\ \A x \in Rests : \A v : Key(A, C, x, v) <=> <<x, v>> \in K
  BY DEF HasKeys
<1>2. StoredIn(r, A, C, str, data)
  BY <1>1, StoreIs
<1>3. PICK B, D : /\ Holding(r.d, r.t, B, D)
                  /\ \A x \in Rests : \A v :
                       Key(B, D, x, v) <=> \/ r.ok /\ x = str /\ v = data
                                           \/ ~(r.ok /\ x = str) /\ Key(A, C, x, v)
  BY <1>2 DEF StoredIn
<1> DEFINE M == IF r.ok THEN Others(K, str) \cup {<<str, data>>} ELSE K
<1>4. ASSUME NEW x \in Rests, NEW v PROVE Key(B, D, x, v) <=> <<x, v>> \in M
  <2>1. Key(A, C, x, v) <=> <<x, v>> \in K
    BY <1>1
  <2>2. Key(B, D, x, v) <=> \/ r.ok /\ x = str /\ v = data
                            \/ ~(r.ok /\ x = str) /\ <<x, v>> \in K
    BY <1>3, <2>1
  <2>3. CASE r.ok
    <3>1. <<x, v>> \in M <=> (x # str /\ <<x, v>> \in K) \/ (x = str /\ v = data)
      BY <2>3 DEF Others
    <3> QED BY <2>2, <2>3, <3>1
  <2>4. CASE ~r.ok
    BY <2>2, <2>4
  <2> QED BY <2>3, <2>4
<1> HIDE DEF M
<1>5. HasKeys(r.d, r.t, M)
  BY <1>3, <1>4 DEF HasKeys
<1> QED BY <1>5 DEF M

\* Deleting takes the entry of its string away.
LEMMA DeleteKeeps ==
  ASSUME NEW d, NEW t, NEW K, HasKeys(d, t, K), NEW str \in Rests,
         NEW w, w = WalkBranches(d, str), InTail(d, t, w, str)
  PROVE  HasKeys(da_prune_upto(da_set_base(d, w.s, TRIE_INDEX_ERROR), ROOT, w.s),
                 tail_delete(t, trie_da_get_tail_index(d, w.s)), Others(K, str))
<1> DEFINE g == da_prune_upto(da_set_base(d, w.s, TRIE_INDEX_ERROR), ROOT, w.s)
           h == tail_delete(t, trie_da_get_tail_index(d, w.s))
<1>1. PICK A, C : Holding(d, t, A, C) /\ \A x \in Rests : \A v : Key(A, C, x, v) <=> <<x, v>> \in K
  BY DEF HasKeys
<1>2. DeletedIn(g, h, A, C, str)
  BY <1>1, DeleteIs
<1> HIDE DEF g, h
<1>3. PICK B, D : /\ Holding(g, h, B, D)
                  /\ \A x \in Rests : \A v : Key(B, D, x, v) <=> x # str /\ Key(A, C, x, v)
  BY <1>2 DEF DeletedIn
<1>4. ASSUME NEW x \in Rests, NEW v PROVE Key(B, D, x, v) <=> <<x, v>> \in Others(K, str)
  <2>1. Key(B, D, x, v) <=> x # str /\ <<x, v>> \in K
    BY <1>1, <1>3
  <2>2. <<x, v>> \in Others(K, str) <=> x # str /\ <<x, v>> \in K
    BY DEF Others
  <2> QED BY <2>1, <2>2
<1>5. HasKeys(g, h, Others(K, str))
  BY <1>3, <1>4 DEF HasKeys
<1> QED BY <1>5 DEF g, h

\* The entries of other keys are the entries of other strings.
LEMMA OtherEntries ==
  ASSUME NEW am, Sharp(am), NEW K \in SUBSET (Keys \X TrieData), NEW key \in Keys
  PROVE  Entries(am, Others(K, key)) = Others(Entries(am, K), CodesOf(am, key))
<1>1. \A e \in K : e = <<e[1], e[2]>> /\ e[1] \in Keys
  OBVIOUS
<1>2. \A e \in K : CodesOf(am, e[1]) = CodesOf(am, key) <=> e[1] = key
  <2> SUFFICES ASSUME NEW e \in K
               PROVE  CodesOf(am, e[1]) = CodesOf(am, key) <=> e[1] = key
    OBVIOUS
  <2>1. e[1] \in Seq(Characters) /\ key \in Seq(Characters)
    BY <1>1, KeysAre
  <2> QED BY <2>1, CodesAre
<1>3. Entries(am, Others(K, key)) = Others(Entries(am, K), CodesOf(am, key))
  <2>1. ASSUME NEW x PROVE x \in Entries(am, Others(K, key)) <=> x \in Others(Entries(am, K), CodesOf(am, key))
    <3>1. x \in Entries(am, Others(K, key)) <=> \E e \in K : e[1] # key /\ x = <<CodesOf(am, e[1]), e[2]>>
      BY DEF Entries, Others
    <3>2. x \in Others(Entries(am, K), CodesOf(am, key))
            <=> \E e \in K : x = <<CodesOf(am, e[1]), e[2]>> /\ x[1] # CodesOf(am, key)
      BY DEF Entries, Others
    <3>3. \A e \in K : x = <<CodesOf(am, e[1]), e[2]>> => x[1] = CodesOf(am, e[1])
      OBVIOUS
    <3> QED BY <1>2, <3>1, <3>2, <3>3
  <2> QED BY <2>1
<1> QED BY <1>3

\* K with another entry for str.
Replaced(K, str, v) == Others(K, str) \cup {<<str, v>>}

\* So they are when the key gets an entry.
LEMMA EntryReplaced ==
  ASSUME NEW am, Sharp(am), NEW K \in SUBSET (Keys \X TrieData), NEW key \in Keys, NEW v
  PROVE  Entries(am, Replaced(K, key, v)) = Replaced(Entries(am, K), CodesOf(am, key), v)
<1>1. Entries(am, Others(K, key) \cup {<<key, v>>})
        = Entries(am, Others(K, key)) \cup {<<CodesOf(am, key), v>>}
  <2> DEFINE M == Others(K, key)
             N == M \cup {<<key, v>>}
  <2>1. \A e \in N : e \in M \/ e = <<key, v>>
    OBVIOUS
  <2>2. M \subseteq N /\ <<key, v>> \in N
    OBVIOUS
  <2>3. <<key, v>>[1] = key /\ <<key, v>>[2] = v
    OBVIOUS
  <2> HIDE DEF M, N
  <2>4. ASSUME NEW x PROVE x \in Entries(am, N) <=> x \in Entries(am, M) \cup {<<CodesOf(am, key), v>>}
    <3>1. x \in Entries(am, N) <=> \E e \in N : x = <<CodesOf(am, e[1]), e[2]>>
      BY DEF Entries
    <3>2. x \in Entries(am, M) <=> \E e \in M : x = <<CodesOf(am, e[1]), e[2]>>
      BY DEF Entries
    <3> QED BY <2>1, <2>2, <2>3, <3>1, <3>2
  <2>5. Entries(am, N) = Entries(am, M) \cup {<<CodesOf(am, key), v>>}
    BY <2>4
  <2> QED BY <2>5 DEF M, N
<1>2. Entries(am, Others(K, key)) = Others(Entries(am, K), CodesOf(am, key))
  BY OtherEntries
<1> QED BY <1>1, <1>2 DEF Replaced

(***************************************************************************)
(* Files: the parts of one come one after the other                        *)
(***************************************************************************)

IsJoin(f, P, Q, S) == /\ f \in Seq(S) /\ Len(f) = Len(P) + Len(Q)
                      /\ \A i \in 1 .. Len(P) : f[i] = P[i]
                      /\ \A i \in 1 .. Len(Q) : f[Len(P) + i] = Q[i]
IsPart(g, f, m, n, S) == /\ g \in Seq(S) /\ Len(g) = n - m + 1
                         /\ \A i \in 1 .. n - m + 1 : g[i] = f[m + i - 1]

\* What a concatenation is.
LEMMA JoinIs ==
  ASSUME NEW S, NEW P \in Seq(S), NEW Q \in Seq(S)
  PROVE  IsJoin(P \o Q, P, Q, S)
<1> DEFINE f == P \o Q
<1>1. /\ f \in Seq(S) /\ Len(f) = Len(P) + Len(Q)
      /\ \A i \in 1 .. Len(P) + Len(Q) : f[i] = IF i <= Len(P) THEN P[i] ELSE Q[i - Len(P)]
  BY ConcatProperties
<1>2. Len(P) \in Nat /\ Len(Q) \in Nat
  OBVIOUS
<1> HIDE DEF f
<1>3. \A i \in 1 .. Len(P) : f[i] = P[i]
  BY <1>1, <1>2
<1>4. ASSUME NEW i \in 1 .. Len(Q) PROVE f[Len(P) + i] = Q[i]
  <2>1. Len(P) + i \in 1 .. Len(P) + Len(Q) /\ ~(Len(P) + i <= Len(P)) /\ Len(P) + i - Len(P) = i
    BY <1>2
  <2> QED BY <1>1, <2>1
<1> QED BY <1>1, <1>3, <1>4 DEF IsJoin

\* What a part is.
LEMMA PartIs ==
  ASSUME NEW S, NEW f \in Seq(S), NEW m \in 1 .. Len(f) + 1, NEW n \in m - 1 .. Len(f)
  PROVE  IsPart(SubSeq(f, m, n), f, m, n, S)
<1> DEFINE g == SubSeq(f, m, n)
<1>1. m \in Int /\ n \in Int /\ m >= 1 /\ n >= m - 1 /\ n <= Len(f) /\ Len(f) \in Nat
  OBVIOUS
<1>2. \A i \in m .. n : f[i] \in S
  BY <1>1
<1>3. /\ g \in Seq(S) /\ Len(g) = IF m <= n THEN n - m + 1 ELSE 0
      /\ \A i \in 1 .. n - m + 1 : g[i] = f[m + i - 1]
  BY <1>1, <1>2, SubSeqProperties
<1> HIDE DEF g
<1>4. Len(g) = n - m + 1
  BY <1>1, <1>3
<1> QED BY <1>3, <1>4 DEF IsPart

\* What follows a part is the rest.
LEMMA RestOfJoin ==
  ASSUME NEW S, NEW P \in Seq(S), NEW Q \in Seq(S)
  PROVE  SubSeq(P \o Q, Len(P) + 1, Len(P \o Q)) = Q
<1> DEFINE f == P \o Q
           g == SubSeq(f, Len(P) + 1, Len(f))
<1>1. Len(P) \in Nat /\ Len(Q) \in Nat
  OBVIOUS
<1>2. /\ f \in Seq(S) /\ Len(f) = Len(P) + Len(Q)
      /\ \A i \in 1 .. Len(Q) : f[Len(P) + i] = Q[i]
  BY JoinIs DEF IsJoin
<1> HIDE DEF f
<1>3. Len(P) + 1 \in 1 .. Len(f) + 1 /\ Len(f) \in Len(P) + 1 - 1 .. Len(f)
  BY <1>1, <1>2
<1>4. IsPart(g, f, Len(P) + 1, Len(f), S)
  BY <1>2, <1>3, PartIs
<1> HIDE DEF g
<1>5. /\ g \in Seq(S) /\ Len(g) = Len(f) - (Len(P) + 1) + 1
      /\ \A i \in 1 .. Len(f) - (Len(P) + 1) + 1 : g[i] = f[Len(P) + 1 + i - 1]
  BY <1>4 DEF IsPart
<1>6. Len(f) - (Len(P) + 1) + 1 = Len(Q)
  BY <1>1, <1>2
<1>7. ASSUME NEW i \in 1 .. Len(Q) PROVE g[i] = Q[i]
  <2>1. Len(P) + 1 + i - 1 = Len(P) + i
    BY <1>1
  <2> QED BY <1>2, <1>5, <1>6, <2>1
<1>8. g \in Seq(S) /\ Len(g) = Len(Q)
  BY <1>5, <1>6
<1>9. g = Q
  BY <1>7, <1>8
<1> QED BY <1>9 DEF g, f

\* A file cut off in its first part is that part cut off.
LEMMA CutInFirst ==
  ASSUME NEW S, NEW P \in Seq(S), NEW Q \in Seq(S), NEW m \in 0 .. Len(P)
  PROVE  SubSeq(P \o Q, 1, m) = SubSeq(P, 1, m)
<1> DEFINE f == P \o Q
           g == SubSeq(f, 1, m)
           h == SubSeq(P, 1, m)
<1>1. Len(P) \in Nat /\ Len(Q) \in Nat /\ m \in Nat /\ m <= Len(P) /\ m - 1 + 1 = m
  OBVIOUS
<1>2. f \in Seq(S) /\ Len(f) = Len(P) + Len(Q) /\ \A i \in 1 .. Len(P) : f[i] = P[i]
  BY JoinIs DEF IsJoin
<1> HIDE DEF f
<1>3. 1 \in 1 .. Len(f) + 1 /\ m \in 1 - 1 .. Len(f) /\ 1 \in 1 .. Len(P) + 1 /\ m \in 1 - 1 .. Len(P)
  BY <1>1, <1>2
<1>4. IsPart(g, f, 1, m, S) /\ IsPart(h, P, 1, m, S)
  BY <1>2, <1>3, PartIs
<1> HIDE DEF g, h
<1>5. /\ g \in Seq(S) /\ Len(g) = m /\ \A i \in 1 .. m : g[i] = f[1 + i - 1]
      /\ h \in Seq(S) /\ Len(h) = m /\ \A i \in 1 .. m : h[i] = P[1 + i - 1]
  BY <1>1, <1>4 DEF IsPart
<1>6. ASSUME NEW i \in 1 .. m PROVE g[i] = h[i]
  <2>1. 1 + i - 1 = i /\ i \in 1 .. Len(P)
    BY <1>1
  <2> QED BY <1>2, <1>5, <2>1
<1>7. g = h
  BY <1>5, <1>6
<1> QED BY <1>7 DEF g, h, f

\* ... and one cut off behind it has it whole.
LEMMA CutInSecond ==
  ASSUME NEW S, NEW P \in Seq(S), NEW Q \in Seq(S), NEW m \in 0 .. Len(Q)
  PROVE  SubSeq(P \o Q, 1, Len(P) + m) = P \o SubSeq(Q, 1, m)
<1> DEFINE f == P \o Q
           g == SubSeq(f, 1, Len(P) + m)
           q == SubSeq(Q, 1, m)
           h == P \o q
<1>1. Len(P) \in Nat /\ Len(Q) \in Nat /\ m \in Nat /\ m <= Len(Q) /\ m - 1 + 1 = m
  OBVIOUS
<1>2. /\ f \in Seq(S) /\ Len(f) = Len(P) + Len(Q) /\ \A i \in 1 .. Len(P) : f[i] = P[i]
      /\ \A i \in 1 .. Len(Q) : f[Len(P) + i] = Q[i]
  BY JoinIs DEF IsJoin
<1> HIDE DEF f
<1>3. 1 \in 1 .. Len(f) + 1 /\ Len(P) + m \in 1 - 1 .. Len(f) /\ 1 \in 1 .. Len(Q) + 1 /\ m \in 1 - 1 .. Len(Q)
  BY <1>1, <1>2
<1>4. IsPart(g, f, 1, Len(P) + m, S) /\ IsPart(q, Q, 1, m, S)
  BY <1>2, <1>3, PartIs
<1> HIDE DEF g, q
<1>5. q \in Seq(S) /\ Len(q) = m /\ \A i \in 1 .. m : q[i] = Q[1 + i - 1]
  BY <1>1, <1>4 DEF IsPart
<1>6. Len(P) + m - 1 + 1 = Len(P) + m
  BY <1>1
<1>7. g \in Seq(S) /\ Len(g) = Len(P) + m /\ \A i \in 1 .. Len(P) + m : g[i] = f[1 + i - 1]
  BY <1>4, <1>6 DEF IsPart
<1>8. /\ h \in Seq(S) /\ Len(h) = Len(P) + m /\ \A i \in 1 .. Len(P) : h[i] = P[i]
      /\ \A i \in 1 .. m : h[Len(P) + i] = q[i]
  <2>1. IsJoin(h, P, q, S)
    BY <1>5, JoinIs
  <2> HIDE DEF h
  <2> QED BY <1>5, <2>1 DEF IsJoin
<1> HIDE DEF h
<1>9. ASSUME NEW i \in 1 .. Len(P) + m PROVE g[i] = h[i]
  <2>1. CASE i <= Len(P)
    <3>1. 1 + i - 1 = i /\ i \in 1 .. Len(P)
      BY <1>1, <2>1
    <3> QED BY <1>2, <1>7, <1>8, <3>1
  <2>2. CASE ~(i <= Len(P))
    <3> DEFINE j == i - Len(P)
    <3>1. j \in 1 .. m /\ j \in 1 .. Len(Q) /\ i = Len(P) + j /\ 1 + i - 1 = Len(P) + j /\ 1 + j - 1 = j
      BY <1>1, <2>2
    <3> HIDE DEF j
    <3>2. g[i] = f[Len(P) + j]
      BY <1>7, <3>1
    <3>3. h[i] = q[j]
      BY <1>8, <3>1
    <3>4. q[j] = Q[j]
      BY <1>5, <3>1
    <3> QED BY <1>2, <3>1, <3>2, <3>3, <3>4
  <2> QED BY <2>1, <2>2
<1>10. g = h
  BY <1>7, <1>8, <1>9
<1> QED BY <1>10 DEF g, h, f, q

(***************************************************************************)
(* The parts of the trie's file                                            *)
(***************************************************************************)

Item == (Int \X Int) \cup (Int \X (Int \cup TrieData) \X (Int \cup Seq(Nat)))

\* What comes of reading a file that has value in its part, before more; cut off in the
\* part it gives nothing.
Reads(r, value, more) == r.ok /\ r.value = value /\ r.rest = more

\* A file cut off in a part of n items whose header tells that there are n.
IsCutOff(file, part, m) ==
  /\ m \in 0 .. Len(part) - 1 /\ Len(file) = m
  /\ m = 0 => file = <<>>
  /\ m > 0 => file # <<>> /\ file[1] = part[1]

\* It is such a file.
LEMMA CutOffIs ==
  ASSUME NEW S, NEW part \in Seq(S), NEW m \in 0 .. Len(part) - 1
  PROVE  IsCutOff(SubSeq(part, 1, m), part, m)
<1> DEFINE g == SubSeq(part, 1, m)
<1>1. Len(part) \in Nat /\ m \in Nat /\ m <= Len(part) /\ m - 1 + 1 = m
  OBVIOUS
<1>2. 1 \in 1 .. Len(part) + 1 /\ m \in 1 - 1 .. Len(part)
  BY <1>1
<1>3. IsPart(g, part, 1, m, S)
  BY <1>2, PartIs
<1> HIDE DEF g
<1>4. g \in Seq(S) /\ Len(g) = m /\ \A i \in 1 .. m : g[i] = part[1 + i - 1]
  BY <1>1, <1>3 DEF IsPart
<1>5. ASSUME m > 0 PROVE g # <<>> /\ g[1] = part[1]
  <2>1. 1 \in 1 .. m /\ 1 + 1 - 1 = 1
    BY <1>1, <1>5
  <2> QED BY <1>4, <2>1
<1>6. ASSUME m = 0 PROVE g = <<>>
  BY <1>4, <1>6
<1> QED BY <1>4, <1>5, <1>6 DEF IsCutOff, g

\* What follows the part in a file.
LEMMA PartThenMore ==
  ASSUME NEW S, NEW part \in Seq(S), NEW more \in Seq(S), Len(part) > 0
  PROVE  LET file == part \o more IN
         /\ file \in Seq(S) /\ file # <<>> /\ Len(file) \in Nat /\ Len(file) >= Len(part)
         /\ \A i \in 1 .. Len(part) : file[i] = part[i]
         /\ SubSeq(file, Len(part) + 1, Len(file)) = more
<1> DEFINE file == part \o more
<1>1. IsJoin(file, part, more, S) /\ SubSeq(file, Len(part) + 1, Len(file)) = more
  BY JoinIs, RestOfJoin
<1>2. Len(part) \in Nat /\ Len(more) \in Nat
  OBVIOUS
<1> HIDE DEF file
<1>3. file \in Seq(S) /\ Len(file) = Len(part) + Len(more) /\ \A i \in 1 .. Len(part) : file[i] = part[i]
  BY <1>1 DEF IsJoin
<1>4. file # <<>> /\ Len(file) \in Nat /\ Len(file) >= Len(part)
  BY <1>2, <1>3
<1> QED BY <1>1, <1>3, <1>4 DEF file

\* The part of the alphabet: a header and the bounds of the ranges.
LEMMA AlphaPart ==
  ASSUME NEW am, InOrder(am)
  PROVE  LET part == alpha_map_fwrite_bin(am) IN
         /\ part \in Seq(Item) /\ Len(part) = Len(am) + 1 /\ Len(am) \in Nat
         /\ part[1] = <<ALPHAMAP_SIGNATURE, Len(am)>>
         /\ \A i \in 1 .. Len(am) : part[i + 1] = <<am[i].begin, am[i].end>>
<1> DEFINE part == alpha_map_fwrite_bin(am)
           head == <<<<ALPHAMAP_SIGNATURE, Len(am)>>>>
           body == [i \in DOMAIN am |-> <<am[i].begin, am[i].end>>]
<1>1. Len(am) \in Nat /\ DOMAIN am = 1 .. Len(am)
  BY DEF InOrder
<1>2. \A i \in 1 .. Len(am) : am[i].begin \in Int /\ am[i].end \in Int
  BY RangeType
<1>3. \A i \in 1 .. Len(am) : <<am[i].begin, am[i].end>> \in Item
  BY <1>2 DEF Item
<1>4. <<ALPHAMAP_SIGNATURE, Len(am)>> \in Item
  BY <1>1 DEF Item, ALPHAMAP_SIGNATURE
<1>5. body \in Seq(Item) /\ Len(body) = Len(am) /\ \A i \in 1 .. Len(am) : body[i] = <<am[i].begin, am[i].end>>
  <2>1. body \in [1 .. Len(am) -> Item] /\ \A i \in 1 .. Len(am) : body[i] = <<am[i].begin, am[i].end>>
    BY <1>1, <1>3
  <2> HIDE DEF body
  <2>2. body \in Seq(Item)
    BY <1>1, <2>1, IsASeq
  <2> QED BY <1>1, <2>1, <2>2
<1>6. head \in Seq(Item) /\ Len(head) = 1 /\ head[1] = <<ALPHAMAP_SIGNATURE, Len(am)>>
  BY <1>4
<1>7. part = head \o body
  BY DEF alpha_map_fwrite_bin
<1> HIDE DEF head, body, part
<1>8. IsJoin(part, head, body, Item)
  BY <1>5, <1>6, <1>7, JoinIs
<1>9. /\ part \in Seq(Item) /\ Len(part) = 1 + Len(am) /\ part[1] = head[1]
      /\ \A i \in 1 .. Len(am) : part[1 + i] = body[i]
  BY <1>5, <1>6, <1>8 DEF IsJoin
<1>10. \A i \in 1 .. Len(am) : i + 1 = 1 + i
  BY <1>1
<1>11. Len(part) = Len(am) + 1
  BY <1>1, <1>9
<1> QED BY <1>1, <1>5, <1>6, <1>9, <1>10, <1>11 DEF part

\* It is read back, if it is whole (alpha_map_fread_bin).
LEMMA AlphaRead ==
  ASSUME NEW am, InOrder(am), NEW more \in Seq(Item)
  PROVE  LET part == alpha_map_fwrite_bin(am) IN
         /\ part \in Seq(Item) /\ Len(part) > 0
         /\ Reads(alpha_map_fread_bin(part \o more), am, more)
         /\ \A upto \in 0 .. Len(part) - 1 : ~alpha_map_fread_bin(SubSeq(part, 1, upto)).ok
<1> DEFINE part == alpha_map_fwrite_bin(am)
           file == part \o more
           n == Len(am)
<1>1. /\ part \in Seq(Item) /\ Len(part) = n + 1 /\ n \in Nat
      /\ part[1] = <<ALPHAMAP_SIGNATURE, n>>
      /\ \A i \in 1 .. n : part[i + 1] = <<am[i].begin, am[i].end>>
  BY AlphaPart
<1>2. Len(part) > 0
  BY <1>1
<1> HIDE DEF part
<1>3. /\ file \in Seq(Item) /\ file # <<>> /\ Len(file) \in Nat /\ Len(file) >= Len(part)
      /\ \A i \in 1 .. Len(part) : file[i] = part[i]
      /\ SubSeq(file, Len(part) + 1, Len(file)) = more
  BY <1>1, <1>2, PartThenMore
<1> HIDE DEF file, n
<1>4. file[1] = <<ALPHAMAP_SIGNATURE, n>> /\ file[1][1] = ALPHAMAP_SIGNATURE /\ file[1][2] = n
  <2>1. 1 \in 1 .. Len(part)
    BY <1>1
  <2> QED BY <1>1, <1>3, <2>1
<1> DEFINE pairs == SubSeq(file, 2, n + 1)
<1>5. AddAll(pairs) = am
  <2>1. 2 \in 1 .. Len(file) + 1 /\ n + 1 \in 2 - 1 .. Len(file) /\ (n + 1) - 2 + 1 = n
    BY <1>1, <1>3
  <2>2. IsPart(pairs, file, 2, n + 1, Item)
    BY <1>3, <2>1, PartIs
  <2> HIDE DEF pairs
  <2>3. pairs \in Seq(Item) /\ Len(pairs) = n /\ \A i \in 1 .. n : pairs[i] = file[2 + i - 1]
    <3>1. pairs \in Seq(Item) /\ Len(pairs) = (n + 1) - 2 + 1
      BY <2>2 DEF IsPart
    <3>2. ASSUME NEW i \in 1 .. n PROVE pairs[i] = file[2 + i - 1]
      <4>1. i \in 1 .. (n + 1) - 2 + 1
        BY <2>1
      <4> QED BY <2>2, <4>1 DEF IsPart
    <3>3. Len(pairs) = n
      BY <2>1, <3>1
    <3> QED BY <3>1, <3>2, <3>3
  <2>4. ASSUME NEW i \in 1 .. n PROVE pairs[i] = <<am[i].begin, am[i].end>>
    <3>1. 2 + i - 1 = i + 1 /\ i + 1 \in 1 .. Len(part)
      BY <1>1
    <3> QED BY <1>1, <1>3, <2>3, <2>4, <3>1
  <2> QED BY <2>3, <2>4, ReadBack DEF n
<1>6. alpha_map_fread_bin(file) = [ok |-> TRUE, value |-> AddAll(pairs),
                                   rest |-> SubSeq(file, n + 2, Len(file))]
  <2>1. ~(file = <<>> \/ file[1][1] # ALPHAMAP_SIGNATURE \/ Len(file) < file[1][2] + 1)
    BY <1>1, <1>3, <1>4
  <2> QED BY <1>4, <2>1 DEF alpha_map_fread_bin, AddAll
<1>7. SubSeq(file, n + 2, Len(file)) = more
  <2>1. Len(part) + 1 = n + 2
    BY <1>1
  <2> QED BY <1>3, <2>1
<1>8. Reads(alpha_map_fread_bin(file), am, more)
  BY <1>5, <1>6, <1>7 DEF Reads
<1>9. ASSUME NEW upto \in 0 .. Len(part) - 1 PROVE ~alpha_map_fread_bin(SubSeq(part, 1, upto)).ok
  <2> DEFINE g == SubSeq(part, 1, upto)
  <2>1. IsCutOff(g, part, upto)
    BY <1>1, CutOffIs
  <2> HIDE DEF g
  <2>2. upto \in Nat /\ upto < n + 1 /\ Len(g) = upto /\ (upto = 0 => g = <<>>) /\ (upto > 0 => g # <<>> /\ g[1] = part[1])
    BY <1>1, <2>1 DEF IsCutOff
  <2>3. g = <<>> \/ Len(g) < g[1][2] + 1
    BY <1>1, <2>2
  <2>4. alpha_map_fread_bin(g) = NotRead
    BY <2>3 DEF alpha_map_fread_bin
  <2> QED BY <2>4 DEF NotRead, g
<1> QED BY <1>1, <1>2, <1>8, <1>9 DEF part, file

\* The part of the array: its cells, of which the header is the first.
LEMMA ArrayPart ==
  ASSUME NEW d, NEW n, IsArray(d, n)
  PROVE  LET part == da_fwrite(d) IN
         /\ part \in Seq(Item) /\ Len(part) = n /\ n \in Nat /\ n >= 3
         /\ part[1] = <<DA_SIGNATURE, n>>
         /\ \A i \in 1 .. n : part[i] = <<d[i - 1].base, d[i - 1].check>>
<1> DEFINE part == da_fwrite(d)
<1>1. /\ n \in Nat /\ n >= 3 /\ Cardinality(DOMAIN d) = n
      /\ \A s \in 0 .. n - 1 : d[s] \in Cell /\ d[s].base \in Int /\ d[s].check \in Int
  BY ArrayIs DEF num_cells
<1>2. part = [i \in 1 .. n |-> <<d[i - 1].base, d[i - 1].check>>]
  BY <1>1 DEF da_fwrite
<1>3. \A i \in 1 .. n : <<d[i - 1].base, d[i - 1].check>> \in Item
  <2> SUFFICES ASSUME NEW i \in 1 .. n PROVE <<d[i - 1].base, d[i - 1].check>> \in Item
    OBVIOUS
  <2>1. i - 1 \in 0 .. n - 1
    BY <1>1
  <2>2. d[i - 1].base \in Int /\ d[i - 1].check \in Int
    BY <1>1, <2>1
  <2> QED BY <2>2 DEF Item
<1>4. part \in Seq(Item) /\ Len(part) = n /\ \A i \in 1 .. n : part[i] = <<d[i - 1].base, d[i - 1].check>>
  <2>1. part \in [1 .. n -> Item] /\ \A i \in 1 .. n : part[i] = <<d[i - 1].base, d[i - 1].check>>
    BY <1>2, <1>3
  <2> HIDE DEF part
  <2>2. part \in Seq(Item)
    BY <1>1, <2>1, IsASeq
  <2> QED BY <1>1, <2>1, <2>2
<1>5. d[0] = [base |-> DA_SIGNATURE, check |-> n]
  BY DEF IsArray
<1> HIDE DEF part
<1>6. part[1] = <<DA_SIGNATURE, n>>
  <2>1. 1 \in 1 .. n /\ 1 - 1 = 0
    BY <1>1
  <2>2. part[1] = <<d[0].base, d[0].check>>
    BY <1>4, <2>1
  <2> QED BY <1>5, <2>2
<1> QED BY <1>1, <1>4, <1>6 DEF part

\* It is read back, if it is whole (da_fread).
LEMMA ArrayRead ==
  ASSUME NEW d, NEW n, IsArray(d, n), NEW more \in Seq(Item)
  PROVE  LET part == da_fwrite(d) IN
         /\ part \in Seq(Item) /\ Len(part) > 0
         /\ Reads(da_fread(part \o more), d, more)
         /\ \A m \in 0 .. Len(part) - 1 : ~da_fread(SubSeq(part, 1, m)).ok
<1> DEFINE part == da_fwrite(d)
           file == part \o more
<1>1. /\ part \in Seq(Item) /\ Len(part) = n /\ n \in Nat /\ n >= 3
      /\ part[1] = <<DA_SIGNATURE, n>>
      /\ \A i \in 1 .. n : part[i] = <<d[i - 1].base, d[i - 1].check>>
  BY ArrayPart
<1>2. Len(part) > 0
  BY <1>1
<1> HIDE DEF part
<1>3. /\ file \in Seq(Item) /\ file # <<>> /\ Len(file) \in Nat /\ Len(file) >= Len(part)
      /\ \A i \in 1 .. Len(part) : file[i] = part[i]
      /\ SubSeq(file, Len(part) + 1, Len(file)) = more
  BY <1>1, <1>2, PartThenMore
<1> HIDE DEF file
<1>4. file[1] = <<DA_SIGNATURE, n>> /\ file[1][1] = DA_SIGNATURE /\ file[1][2] = n
  <2>1. 1 \in 1 .. Len(part)
    BY <1>1
  <2> QED BY <1>1, <1>3, <2>1
<1> DEFINE value == [i \in 0 .. n - 1 |-> [base |-> file[i + 1][1], check |-> file[i + 1][2]]]
<1>5. value = d
  <2>1. d = [i \in 0 .. n - 1 |-> d[i]] /\ \A i \in 0 .. n - 1 : d[i] \in Cell
    BY <1>1 DEF IsArray
  <2>2. ASSUME NEW i \in 0 .. n - 1 PROVE [base |-> file[i + 1][1], check |-> file[i + 1][2]] = d[i]
    <3>1. i + 1 \in 1 .. n /\ i + 1 - 1 = i
      BY <1>1
    <3>2. file[i + 1] = <<d[i].base, d[i].check>>
      BY <1>1, <1>3, <3>1
    <3>3. d[i] \in Cell
      BY <2>1
    <3> QED BY <3>2, <3>3 DEF Cell
  <2> QED BY <2>1, <2>2
<1>6. da_fread(file) = [ok |-> TRUE, value |-> value, rest |-> SubSeq(file, n + 1, Len(file))]
  <2>1. ~(file = <<>> \/ file[1][1] # DA_SIGNATURE \/ Len(file) < file[1][2])
    BY <1>1, <1>3, <1>4
  <2> QED BY <1>4, <2>1 DEF da_fread
<1> HIDE DEF value
<1>7. SubSeq(file, n + 1, Len(file)) = more
  BY <1>1, <1>3
<1>8. Reads(da_fread(file), d, more)
  BY <1>5, <1>6, <1>7 DEF Reads
<1>9. ASSUME NEW m \in 0 .. Len(part) - 1 PROVE ~da_fread(SubSeq(part, 1, m)).ok
  <2> DEFINE g == SubSeq(part, 1, m)
  <2>1. IsCutOff(g, part, m)
    BY <1>1, CutOffIs
  <2> HIDE DEF g
  <2>2. m \in Nat /\ m < n /\ Len(g) = m /\ (m = 0 => g = <<>>) /\ (m > 0 => g # <<>> /\ g[1] = part[1])
    BY <1>1, <2>1 DEF IsCutOff
  <2>3. g = <<>> \/ Len(g) < g[1][2]
    BY <1>1, <2>2
  <2>4. da_fread(g) = NotRead
    BY <2>3 DEF da_fread
  <2> QED BY <2>4 DEF NotRead, g
<1> QED BY <1>1, <1>2, <1>8, <1>9 DEF part, file

\* A short holds a number up to its limit, and never becomes more than it was given.
LEMMA ShortIs ==
  ASSUME NEW n \in Nat
  PROVE  Short(n) \in Int /\ Short(n) <= n /\ (n <= SHORT_MAX => Short(n) = n)
<1> DEFINE m == 2 * (SHORT_MAX + 1)
           x == n + SHORT_MAX + 1
<1>1. SHORT_MAX \in Nat
  BY LengthsAssumption
<1>2. m \in Nat /\ m > 0 /\ x \in Nat
  BY <1>1
<1>3. Short(n) = (x % m) - (SHORT_MAX + 1)
  BY DEF Short
<1> HIDE DEF m, x
<1>4. x % m \in Nat /\ x % m <= x
  BY <1>2
<1>5. x < m => x % m = x
  BY <1>2
<1> QED BY <1>1, <1>3, <1>4, <1>5 DEF m, x

\* What is written of a suffix: all of it, if a short holds its length (tail_fwrite).
LEMMA WrittenIs ==
  ASSUME NEW s \in Seq(Nat) \cup {NULL}
  PROVE  /\ Written(s) \in Seq(Nat)
         /\ s \in Seq(Nat) /\ Len(s) <= SHORT_MAX => Written(s) = s
<1>1. CASE s = NULL
  BY <1>1, LimitsAssumption DEF Written
<1>2. CASE s # NULL
  <2> DEFINE m == Short(Len(s))
  <2>1. s \in Seq(Nat) /\ Len(s) \in Nat
    BY <1>2
  <2>2. m \in Int /\ m <= Len(s) /\ (Len(s) <= SHORT_MAX => m = Len(s))
    BY <2>1, ShortIs
  <2>3. Written(s) = IF m <= 0 THEN <<>> ELSE SubSeq(s, 1, m)
    BY <1>2 DEF Written
  <2> HIDE DEF m
  <2>4. CASE m <= 0
    <3>1. Written(s) = <<>>
      BY <2>3, <2>4
    <3>2. Len(s) <= SHORT_MAX => s = <<>>
      BY <2>1, <2>2, <2>4
    <3> QED BY <3>1, <3>2
  <2>5. CASE ~(m <= 0)
    <3>1. Written(s) = SubSeq(s, 1, m) /\ m \in 0 .. Len(s)
      BY <2>1, <2>2, <2>3, <2>5
    <3>2. SubSeq(s, 1, m) \in Seq(Nat)
      BY <2>1, <3>1
    <3>3. SubSeq(s, 1, Len(s)) = s
      BY <2>1
    <3> QED BY <2>2, <3>1, <3>2, <3>3
  <2> QED BY <2>4, <2>5
<1> QED BY <1>1, <1>2

\* The tail that is read back: a missing suffix has become an empty one.
ReadCell(c) == [next_free |-> c.next_free, data |-> c.data, suffix |-> Written(c.suffix)]
ReadTail(t) == [first_free |-> t.first_free,
                tails |-> [i \in 1 .. num_tails(t) |-> ReadCell(t.tails[i])]]

\* The part of the tail: a header and the blocks.
LEMMA TailPart ==
  ASSUME NEW t, IsTail(t)
  PROVE  LET part == tail_fwrite(t)
             n == num_tails(t)
         IN  /\ part \in Seq(Item) /\ Len(part) = n + 1 /\ n \in Nat
             /\ part[1] = <<TAIL_SIGNATURE, t.first_free, n>>
             /\ \A i \in 1 .. n : part[i + 1] = <<t.tails[i].next_free, t.tails[i].data,
                                                 Written(t.tails[i].suffix)>>
<1> DEFINE part == tail_fwrite(t)
           n == num_tails(t)
           item(i) == <<t.tails[i].next_free, t.tails[i].data, Written(t.tails[i].suffix)>>
           head == <<<<TAIL_SIGNATURE, t.first_free, n>>>>
           body == [i \in 1 .. n |-> item(i)]
<1>1. /\ n \in Nat /\ t.first_free \in Int /\ TAIL_SIGNATURE \in Int
      /\ \A i \in 1 .. n : t.tails[i] \in TailCell
  BY DEF IsTail, num_tails, TAIL_SIGNATURE
<1>2. ASSUME NEW i \in 1 .. n PROVE item(i) \in Item
  <2>1. t.tails[i] \in TailCell
    BY <1>1
  <2>2. /\ t.tails[i].next_free \in Int /\ t.tails[i].data \in TrieData \cup {TRIE_DATA_ERROR}
        /\ t.tails[i].suffix \in Seq(Nat) \cup {NULL}
    BY <2>1 DEF TailCell
  <2>3. Written(t.tails[i].suffix) \in Seq(Nat)
    BY <2>2, WrittenIs
  <2>4. TRIE_DATA_ERROR \in Int
    BY DEF TRIE_DATA_ERROR
  <2> QED BY <2>2, <2>3, <2>4 DEF Item
<1>3. <<TAIL_SIGNATURE, t.first_free, n>> \in Item
  BY <1>1 DEF Item
<1>4. body \in Seq(Item) /\ Len(body) = n /\ \A i \in 1 .. n : body[i] = item(i)
  <2> HIDE DEF item, n
  <2>1. body \in [1 .. n -> Item] /\ \A i \in 1 .. n : body[i] = item(i)
    BY <1>2
  <2> HIDE DEF body
  <2>2. body \in Seq(Item)
    BY <1>1, <2>1, IsASeq
  <2> QED BY <1>1, <2>1, <2>2
<1>5. head \in Seq(Item) /\ Len(head) = 1 /\ head[1] = <<TAIL_SIGNATURE, t.first_free, n>>
  BY <1>3
<1>6. part = head \o body
  BY DEF tail_fwrite
<1> HIDE DEF head, body, part, item, n
<1>7. IsJoin(part, head, body, Item)
  BY <1>4, <1>5, <1>6, JoinIs
<1>8. /\ part \in Seq(Item) /\ Len(part) = 1 + n /\ part[1] = head[1]
      /\ \A i \in 1 .. n : part[1 + i] = body[i]
  BY <1>4, <1>5, <1>7 DEF IsJoin
<1>9. \A i \in 1 .. n : i + 1 = 1 + i
  BY <1>1
<1>10. Len(part) = n + 1
  BY <1>1, <1>8
<1>11. \A i \in 1 .. n : part[i + 1] = item(i)
  BY <1>4, <1>8, <1>9
<1> QED BY <1>1, <1>5, <1>8, <1>10, <1>11 DEF part, item, n

\* It is read back, if it is whole (tail_fread).
LEMMA TailRead ==
  ASSUME NEW t, IsTail(t)
  PROVE  LET part == tail_fwrite(t) IN
         /\ part \in Seq(Item) /\ Len(part) > 0
         /\ tail_fread(part).ok /\ tail_fread(part).value = ReadTail(t)
         /\ \A m \in 0 .. Len(part) - 1 : ~tail_fread(SubSeq(part, 1, m)).ok
<1> DEFINE part == tail_fwrite(t)
           n == num_tails(t)
<1>1. /\ part \in Seq(Item) /\ Len(part) = n + 1 /\ n \in Nat
      /\ part[1] = <<TAIL_SIGNATURE, t.first_free, n>>
      /\ \A i \in 1 .. n : part[i + 1] = <<t.tails[i].next_free, t.tails[i].data,
                                          Written(t.tails[i].suffix)>>
  BY TailPart
<1> HIDE DEF part, n
<1>2. Len(part) > 0 /\ part # <<>>
  BY <1>1
<1>3. part[1][1] = TAIL_SIGNATURE /\ part[1][2] = t.first_free /\ part[1][3] = n
  BY <1>1
<1>4. ASSUME NEW i \in 1 .. n
      PROVE  [next_free |-> part[i + 1][1], data |-> part[i + 1][2], suffix |-> part[i + 1][3]]
               = ReadCell(t.tails[i])
  <2>1. part[i + 1] = <<t.tails[i].next_free, t.tails[i].data, Written(t.tails[i].suffix)>>
    BY <1>1
  <2> QED BY <2>1 DEF ReadCell
<1> DEFINE F == [i \in 1 .. n |-> [next_free |-> part[i + 1][1], data |-> part[i + 1][2],
                                   suffix |-> part[i + 1][3]]]
<1>5. tail_fread(part)
        = [ok |-> TRUE,
           value |-> [first_free |-> t.first_free,
                      tails |-> F],
           rest |-> SubSeq(part, n + 2, Len(part))]
  <2>1. ~(part = <<>> \/ part[1][1] # TAIL_SIGNATURE \/ Len(part) < part[1][3] + 1)
    BY <1>1, <1>2, <1>3
  <2> QED BY <1>3, <2>1 DEF tail_fread
<1> DEFINE G == [i \in 1 .. n |-> ReadCell(t.tails[i])]
<1>6. F = G
  BY <1>4
<1>7. tail_fread(part).ok /\ tail_fread(part).value = ReadTail(t)
  <2>1. ReadTail(t) = [first_free |-> t.first_free, tails |-> G]
    BY DEF ReadTail, n
  <2> HIDE DEF F, G
  <2> QED BY <1>5, <1>6, <2>1
<1>8. ASSUME NEW m \in 0 .. Len(part) - 1 PROVE ~tail_fread(SubSeq(part, 1, m)).ok
  <2> DEFINE g == SubSeq(part, 1, m)
  <2>1. IsCutOff(g, part, m)
    BY <1>1, CutOffIs
  <2> HIDE DEF g
  <2>2. m \in Nat /\ m < n + 1 /\ Len(g) = m /\ (m = 0 => g = <<>>) /\ (m > 0 => g # <<>> /\ g[1] = part[1])
    BY <1>1, <2>1 DEF IsCutOff
  <2>3. g = <<>> \/ Len(g) < g[1][3] + 1
    BY <1>1, <2>2
  <2>4. tail_fread(g) = NotRead
    BY <2>3 DEF tail_fread
  <2> QED BY <2>4 DEF NotRead, g
<1> QED BY <1>1, <1>2, <1>7, <1>8 DEF part

\* The suffixes are no longer than a short tells.
ShortBlocks(C) == \A k \in DOMAIN C : Len(C[k].suffix) <= SHORT_MAX

\* The tail that is read back has the blocks that were written: only free ones were
\* without a suffix, and none is too long.
LEMMA ReadTailHolds ==
  ASSUME NEW t, NEW C, TailHolds(t, C), ShortBlocks(C)
  PROVE  TailHolds(ReadTail(t), C)
<1> DEFINE g == ReadTail(t)
           n == num_tails(t)
           F == FreeBlocks(n, C)
<1>1. IsTail(t) /\ BlocksAre(t, C) /\ Chained(F, t.first_free, NextBlocks(t, F))
  BY DEF TailHolds
<1>2. n \in Nat /\ t.first_free \in Int /\ \A i \in 1 .. n : t.tails[i] \in TailCell
  BY <1>1 DEF IsTail, num_tails
<1>3. \A i \in 1 .. n : ReadCell(t.tails[i]) \in TailCell
  <2> SUFFICES ASSUME NEW i \in 1 .. n PROVE ReadCell(t.tails[i]) \in TailCell
    OBVIOUS
  <2>1. t.tails[i] \in TailCell
    BY <1>2
  <2>2. Written(t.tails[i].suffix) \in Seq(Nat) \cup {NULL}
    BY <2>1, WrittenIs DEF TailCell
  <2> QED BY <2>1, <2>2 DEF TailCell, ReadCell
<1> DEFINE cells == [i \in 1 .. n |-> ReadCell(t.tails[i])]
<1>4. g = [first_free |-> t.first_free, tails |-> cells] /\ g.first_free = t.first_free /\ g.tails = cells
  BY DEF ReadTail
<1>5. cells \in Seq(TailCell) /\ Len(cells) = n /\ \A i \in 1 .. n : cells[i] = ReadCell(t.tails[i])
  <2> HIDE DEF n
  <2>1. cells \in [1 .. n -> TailCell] /\ \A i \in 1 .. n : cells[i] = ReadCell(t.tails[i])
    BY <1>3
  <2> HIDE DEF cells
  <2>2. cells \in Seq(TailCell)
    BY <1>2, <2>1, IsASeq
  <2> QED BY <1>2, <2>1, <2>2
<1> HIDE DEF g, n, F, cells
<1>6. IsTail(g) /\ num_tails(g) = n
  BY <1>2, <1>4, <1>5 DEF IsTail, num_tails
<1>7. C = [k \in DOMAIN C |-> C[k]] /\ DOMAIN C \subseteq 1 .. n
      /\ \A k \in DOMAIN C : C[k] \in Content /\ t.tails[k] = Filled(C[k])
  BY <1>1 DEF BlocksAre, n
<1>8. ASSUME NEW k \in DOMAIN C PROVE g.tails[k] = Filled(C[k])
  <2>1. C[k].suffix \in Rests
    BY <1>7 DEF Content
  <2>2. C[k].suffix \in Seq(Nat) /\ Len(C[k].suffix) <= SHORT_MAX
    BY <2>1, RestsAre DEF ShortBlocks
  <2>3. Written(C[k].suffix) = C[k].suffix
    BY <2>2, WrittenIs
  <2>4. g.tails[k] = ReadCell(Filled(C[k]))
    BY <1>4, <1>5, <1>7
  <2> QED BY <2>3, <2>4 DEF ReadCell, Filled
<1>9. BlocksAre(g, C)
  BY <1>6, <1>7, <1>8 DEF BlocksAre
<1>10. NextBlocks(g, F) = NextBlocks(t, F)
  <2>1. \A i \in F : i + 1 \in 1 .. n
    BY <1>2 DEF F, FreeBlocks
  <2>2. \A i \in F : g.tails[i + 1].next_free = t.tails[i + 1].next_free
    BY <1>4, <1>5, <2>1 DEF ReadCell
  <2> QED BY <2>2 DEF NextBlocks
<1>11. Chained(F, g.first_free, NextBlocks(g, F))
  BY <1>1, <1>4, <1>10
<1> QED BY <1>6, <1>9, <1>11 DEF TailHolds, g, F

\* What trie_fread makes of what its parts give.
LEMMA FreadIs ==
  ASSUME NEW f
  PROVE  /\ ~alpha_map_fread_bin(f).ok => ~trie_fread(f).ok
         /\ \A a, x : Reads(alpha_map_fread_bin(f), a, x) =>
              /\ ~da_fread(x).ok => ~trie_fread(f).ok
              /\ \A d, y : Reads(da_fread(x), d, y) =>
                   /\ ~tail_fread(y).ok => ~trie_fread(f).ok
                   /\ tail_fread(y).ok =>
                        trie_fread(f) = [ok |-> TRUE, alpha_map |-> a, da |-> d,
                                         tail |-> tail_fread(y).value]
<1> DEFINE A == alpha_map_fread_bin(f)
           D == da_fread(A.rest)
           T == tail_fread(D.rest)
<1>1. trie_fread(f) = IF ~A.ok THEN NotRead ELSE IF ~D.ok THEN NotRead ELSE IF ~T.ok THEN NotRead
                      ELSE [ok |-> TRUE, alpha_map |-> A.value, da |-> D.value, tail |-> T.value]
  BY DEF trie_fread
<1>2. ~NotRead.ok
  BY DEF NotRead
<1> HIDE DEF A
<1>3. ~A.ok => ~trie_fread(f).ok
  BY <1>1, <1>2
<1>4. ASSUME NEW a, NEW x, Reads(A, a, x)
      PROVE  /\ ~da_fread(x).ok => ~trie_fread(f).ok
             /\ \A d, y : Reads(da_fread(x), d, y) =>
                  /\ ~tail_fread(y).ok => ~trie_fread(f).ok
                  /\ tail_fread(y).ok =>
                       trie_fread(f) = [ok |-> TRUE, alpha_map |-> a, da |-> d,
                                        tail |-> tail_fread(y).value]
  <2>1. A.ok /\ A.value = a /\ A.rest = x
    BY <1>4 DEF Reads
  <2>2. D = da_fread(x)
    BY <2>1
  <2> HIDE DEF D
  <2>3. ~da_fread(x).ok => ~trie_fread(f).ok
    BY <1>1, <1>2, <2>1, <2>2
  <2>4. ASSUME NEW d, NEW y, Reads(da_fread(x), d, y)
        PROVE  /\ ~tail_fread(y).ok => ~trie_fread(f).ok
               /\ tail_fread(y).ok =>
                    trie_fread(f) = [ok |-> TRUE, alpha_map |-> a, da |-> d,
                                     tail |-> tail_fread(y).value]
    <3>1. D.ok /\ D.value = d /\ D.rest = y
      BY <2>2, <2>4 DEF Reads
    <3>2. T = tail_fread(y)
      BY <3>1
    <3> HIDE DEF T
    <3> QED BY <1>1, <1>2, <2>1, <3>1, <3>2
  <2> QED BY <2>3, <2>4
<1> QED BY <1>3, <1>4 DEF A

\* The file of a trie is read back, and cut off anywhere it is not (trie_fwrite,
\* trie_fread).
LEMMA FileRead ==
  ASSUME InOrder(alpha_map), NEW n, IsArray(da, n), IsTail(tail)
  PROVE  /\ trie_fread(trie_fwrite) = [ok |-> TRUE, alpha_map |-> alpha_map, da |-> da, tail |-> ReadTail(tail)]
         /\ \A k \in 0 .. Len(trie_fwrite) - 1 : ~trie_fread(SubSeq(trie_fwrite, 1, k)).ok
<1> DEFINE P == alpha_map_fwrite_bin(alpha_map)
           Q == da_fwrite(da)
           R == tail_fwrite(tail)
           S == Q \o R
           f == P \o S
           full == [ok |-> TRUE, alpha_map |-> alpha_map, da |-> da, tail |-> ReadTail(tail)]
<1>1. /\ R \in Seq(Item) /\ Len(R) > 0 /\ tail_fread(R).ok /\ tail_fread(R).value = ReadTail(tail)
      /\ \A k \in 0 .. Len(R) - 1 : ~tail_fread(SubSeq(R, 1, k)).ok
  BY TailRead
<1>2. <<>> \in Seq(Item)
  OBVIOUS
<1>3. Q \in Seq(Item) /\ Len(Q) > 0 /\ \A k \in 0 .. Len(Q) - 1 : ~da_fread(SubSeq(Q, 1, k)).ok
  BY <1>2, ArrayRead
<1>4. \A more \in Seq(Item) : Reads(da_fread(Q \o more), da, more)
  BY ArrayRead
<1>5. P \in Seq(Item) /\ Len(P) > 0 /\ \A k \in 0 .. Len(P) - 1 : ~alpha_map_fread_bin(SubSeq(P, 1, k)).ok
  BY <1>2, AlphaRead
<1>6. \A more \in Seq(Item) : Reads(alpha_map_fread_bin(P \o more), alpha_map, more)
  BY AlphaRead
<1>7. trie_fwrite = (P \o Q) \o R
  BY DEF trie_fwrite
<1> HIDE DEF P, Q, R
<1>8. trie_fwrite = f
  BY <1>1, <1>3, <1>5, <1>7, ConcatAssociative, SMTT(60)
<1>9. IsJoin(S, Q, R, Item)
  BY <1>1, <1>3, JoinIs
<1>10. S \in Seq(Item) /\ Len(S) = Len(Q) + Len(R)
  BY <1>9 DEF IsJoin
<1> HIDE DEF S
<1>11. IsJoin(f, P, S, Item)
  BY <1>5, <1>10, JoinIs
<1>12. f \in Seq(Item) /\ Len(f) = Len(P) + Len(S)
  BY <1>11 DEF IsJoin
<1>13. Len(P) \in Nat /\ Len(Q) \in Nat /\ Len(R) \in Nat /\ Len(S) \in Nat /\ Len(f) \in Nat
  BY <1>1, <1>3, <1>5, <1>10, <1>12
<1>14. ASSUME NEW k \in 0 .. Len(P) - 1 PROVE ~trie_fread(SubSeq(f, 1, k)).ok
  <2>1. k \in 0 .. Len(P)
    BY <1>13
  <2>2. SubSeq(f, 1, k) = SubSeq(P, 1, k)
    BY <1>5, <1>10, <2>1, CutInFirst
  <2>3. ~alpha_map_fread_bin(SubSeq(P, 1, k)).ok
    BY <1>5
  <2> QED BY <2>2, <2>3, FreadIs
<1>15. ASSUME NEW k \in 0 .. Len(Q) - 1 PROVE ~trie_fread(SubSeq(f, 1, Len(P) + k)).ok
  <2> DEFINE x == SubSeq(S, 1, k)
  <2>1. k \in 0 .. Len(Q) /\ k \in 0 .. Len(S)
    BY <1>10, <1>13
  <2>2. SubSeq(f, 1, Len(P) + k) = P \o x
    BY <1>5, <1>10, <2>1, CutInSecond
  <2>3. x = SubSeq(Q, 1, k)
    BY <1>1, <1>3, <2>1, CutInFirst DEF S
  <2>4. x \in Seq(Item)
    <3>1. 1 \in 1 .. Len(S) + 1 /\ k \in 1 - 1 .. Len(S)
      BY <1>13, <2>1
    <3>2. IsPart(x, S, 1, k, Item)
      BY <1>10, <3>1, PartIs
    <3> HIDE DEF x
    <3> QED BY <3>2 DEF IsPart
  <2>5. ~da_fread(x).ok
    BY <1>3, <2>3
  <2> HIDE DEF x
  <2>6. Reads(alpha_map_fread_bin(P \o x), alpha_map, x)
    BY <1>6, <2>4
  <2> QED BY <2>2, <2>5, <2>6, FreadIs
<1>16. ASSUME NEW k \in 0 .. Len(R)
       PROVE  LET y == SubSeq(R, 1, k) IN
              /\ ~tail_fread(y).ok => ~trie_fread(SubSeq(f, 1, Len(P) + (Len(Q) + k))).ok
              /\ tail_fread(y).ok =>
                   trie_fread(SubSeq(f, 1, Len(P) + (Len(Q) + k)))
                     = [ok |-> TRUE, alpha_map |-> alpha_map, da |-> da, tail |-> tail_fread(y).value]
  <2> DEFINE y == SubSeq(R, 1, k)
             x == Q \o y
  <2>1. Len(Q) + k \in 0 .. Len(S)
    BY <1>10, <1>13
  <2>2. SubSeq(f, 1, Len(P) + (Len(Q) + k)) = P \o SubSeq(S, 1, Len(Q) + k)
    BY <1>5, <1>10, <2>1, CutInSecond, ZenonT(60)
  <2>3. SubSeq(S, 1, Len(Q) + k) = x
    BY <1>1, <1>3, CutInSecond DEF S
  <2>4. y \in Seq(Item)
    <3>1. 1 \in 1 .. Len(R) + 1 /\ k \in 1 - 1 .. Len(R)
      BY <1>13
    <3>2. IsPart(y, R, 1, k, Item)
      BY <1>1, <3>1, PartIs
    <3> HIDE DEF y
    <3> QED BY <3>2 DEF IsPart
  <2> HIDE DEF y
  <2>5. IsJoin(x, Q, y, Item) /\ Reads(da_fread(x), da, y)
    BY <1>3, <1>4, <2>4, JoinIs
  <2>6. x \in Seq(Item)
    BY <2>5 DEF IsJoin
  <2> HIDE DEF x
  <2>7. Reads(alpha_map_fread_bin(P \o x), alpha_map, x)
    BY <1>6, <2>6
  <2>8. /\ ~tail_fread(y).ok => ~trie_fread(P \o x).ok
        /\ tail_fread(y).ok => trie_fread(P \o x) = [ok |-> TRUE, alpha_map |-> alpha_map, da |-> da,
                                                     tail |-> tail_fread(y).value]
    BY <2>5, <2>7, FreadIs
  <2> QED BY <2>2, <2>3, <2>8 DEF y
<1>17. SubSeq(R, 1, Len(R)) = R /\ SubSeq(f, 1, Len(f)) = f
  BY <1>1, <1>12
<1>18. trie_fread(f) = full
  <2>1. Len(R) \in 0 .. Len(R) /\ Len(P) + (Len(Q) + Len(R)) = Len(f)
    BY <1>10, <1>12, <1>13
  <2> HIDE DEF f
  <2> QED BY <1>1, <1>16, <1>17, <2>1
<1>19. ASSUME NEW k \in 0 .. Len(f) PROVE trie_fread(SubSeq(f, 1, k)).ok <=> k = Len(f)
  <2>1. CASE k < Len(P)
    <3>1. k \in 0 .. Len(P) - 1 /\ k # Len(f)
      BY <1>12, <1>13, <2>1
    <3> QED BY <1>14, <3>1
  <2>2. CASE k >= Len(P) /\ k < Len(P) + Len(Q)
    <3> DEFINE i == k - Len(P)
    <3>1. i \in 0 .. Len(Q) - 1 /\ Len(P) + i = k /\ k # Len(f)
      BY <1>1, <1>10, <1>12, <1>13, <2>2
    <3> HIDE DEF i
    <3> QED BY <1>15, <3>1
  <2>3. CASE k >= Len(P) + Len(Q) /\ k # Len(f)
    <3> DEFINE i == k - (Len(P) + Len(Q))
    <3>1. i \in 0 .. Len(R) - 1 /\ i \in 0 .. Len(R) /\ Len(P) + (Len(Q) + i) = k
      BY <1>10, <1>12, <1>13, <2>3
    <3> HIDE DEF i, f
    <3>2. ~tail_fread(SubSeq(R, 1, i)).ok
      BY <1>1, <3>1
    <3>3. ~trie_fread(SubSeq(f, 1, Len(P) + (Len(Q) + i))).ok
      BY <1>16, <3>1, <3>2
    <3> QED BY <2>3, <3>1, <3>3
  <2>4. CASE k = Len(f)
    <3> HIDE DEF f
    <3>1. trie_fread(f).ok
      BY <1>18
    <3>2. SubSeq(f, 1, k) = f
      BY <1>17, <2>4
    <3>3. trie_fread(SubSeq(f, 1, k)).ok
      BY <3>1, <3>2
    <3> QED BY <2>4, <3>3
  <2> QED BY <1>12, <1>13, <2>1, <2>2, <2>3, <2>4
<1> HIDE DEF f
<1>20. \A k \in 0 .. Len(f) - 1 : k \in 0 .. Len(f) /\ k # Len(f)
  BY <1>12, <1>13
<1> QED BY <1>8, <1>18, <1>19, <1>20

\* Every separate label spells a string with the suffix of its block: its characters, but
\* for a terminator at its end, and those of the suffix.
LEMMA SpellsOne ==
  ASSUME NEW A, LabelTree(A), NEW C, Joined(A, C), Blocks(C), NEW l \in DOMAIN A, A[l] < 0
  PROVE  \E x \in Rests : Spelled(l, C[-A[l]].suffix, x)
<1> DEFINE r == C[-A[l]].suffix
<1>1. r \in Rests /\ r \in Seq(1 .. TRIE_CHAR_MAX - 1)
  <2>1. -A[l] \in DOMAIN C
    BY DEF Joined
  <2>2. C[-A[l]] \in Content
    BY <2>1 DEF Blocks
  <2> QED BY <2>2 DEF Content, Rests
<1>2. l \in Seq(Chars) /\ Len(l) \in Nat /\ l # <<>>
  BY DEF LabelTree, Labels
<1>3. \A p \in 1 .. Len(l) : l[p] \in Chars
  BY <1>2
<1>4. Len(r) \in Nat /\ TRIE_CHAR_MAX \in Nat
  BY <1>1, CharMaxIs
<1>5. \A p \in 1 .. Len(l) : l[p] = 0 => p = Len(l) /\ r = <<>>
  BY DEF Joined
<1> HIDE DEF r
<1>6. CASE \A p \in 1 .. Len(l) : l[p] # 0
  <2> DEFINE x == [p \in 1 .. Len(l) + Len(r) |-> IF p <= Len(l) THEN l[p] ELSE r[p - Len(l)]]
  <2>1. \A p \in 1 .. Len(l) + Len(r) : x[p] \in 1 .. TRIE_CHAR_MAX - 1
    <3>1. ASSUME NEW p \in 1 .. Len(l) + Len(r) PROVE x[p] \in 1 .. TRIE_CHAR_MAX - 1
      <4>1. CASE p <= Len(l)
        <5>1. p \in 1 .. Len(l) /\ x[p] = l[p]
          BY <1>2, <1>4, <4>1
        <5> QED BY <1>3, <1>4, <1>6, <5>1 DEF Chars
      <4>2. CASE ~(p <= Len(l))
        <5> DEFINE q == p - Len(l)
        <5>1. q \in 1 .. Len(r) /\ x[p] = r[q]
          BY <1>2, <1>4, <4>2
        <5> HIDE DEF q, x
        <5>2. r[q] \in 1 .. TRIE_CHAR_MAX - 1
          BY <1>1, <5>1, ElementOfSeq
        <5> QED BY <5>1, <5>2
      <4> QED BY <4>1, <4>2
    <3> QED BY <3>1
  <2>2. x \in Rests /\ Len(x) = Len(l) + Len(r)
    BY <1>2, <1>4, <2>1 DEF Rests
  <2>3. Along(l, x)
    <3>1. ASSUME NEW p \in 1 .. Len(l) PROVE l[p] = At(x, p)
      BY <1>2, <1>4, <2>2 DEF At
    <3> QED BY <3>1 DEF Along
  <2>4. ASSUME NEW q \in Positive PROVE At(r, q) = At(x, Len(l) + q)
    <3>0. q \in Nat /\ q > 0 /\ (Len(l) + q) - Len(l) = q /\ ~(Len(l) + q <= Len(l))
      BY <1>2 DEF Positive
    <3>1. CASE q <= Len(r)
      <4>1. Len(l) + q \in 1 .. Len(l) + Len(r)
        BY <1>2, <1>4, <3>0, <3>1
      <4>2. x[Len(l) + q] = r[q]
        BY <3>0, <4>1
      <4> QED BY <1>4, <2>2, <3>1, <4>1, <4>2 DEF At
    <3>2. CASE ~(q <= Len(r))
      <4>1. ~(Len(l) + q <= Len(x))
        BY <1>2, <1>4, <2>2, <3>0, <3>2
      <4> QED BY <3>2, <4>1 DEF At
    <3> QED BY <3>1, <3>2
  <2> QED BY <2>2, <2>3, <2>4 DEF Spelled, r
<1>7. CASE ~\A p \in 1 .. Len(l) : l[p] # 0
  <2> DEFINE x == SubSeq(l, 1, Len(l) - 1)
  <2>1. r = <<>> /\ l[Len(l)] = 0 /\ \A p \in 1 .. Len(l) : p # Len(l) => l[p] # 0
    <3>1. PICK p \in 1 .. Len(l) : l[p] = 0
      BY <1>7
    <3>2. p = Len(l) /\ r = <<>>
      BY <1>5, <3>1 DEF r
    <3>3. \A q \in 1 .. Len(l) : q # Len(l) => l[q] # 0
      BY <1>5
    <3> QED BY <3>1, <3>2, <3>3
  <2>2. Len(l) > 0 /\ x \in Seq(Chars) /\ Len(x) = Len(l) - 1 /\ \A p \in 1 .. Len(l) - 1 : x[p] = l[p]
    <3> DEFINE n == Len(l) - 1
    <3>1. Len(l) > 0 /\ n \in 0 .. Len(l)
      BY <1>2
    <3> HIDE DEF n
    <3>2. /\ SubSeq(l, 1, n) \in Seq(Chars) /\ Len(SubSeq(l, 1, n)) = n
          /\ \A p \in 1 .. n : SubSeq(l, 1, n)[p] = l[p]
      BY <1>2, <3>1
    <3> QED BY <3>1, <3>2 DEF n
  <2>3. x \in Rests
    <3>1. \A p \in 1 .. Len(x) : x[p] \in 1 .. TRIE_CHAR_MAX - 1
      BY <1>2, <1>3, <1>4, <2>1, <2>2 DEF Chars
    <3>2. x = [p \in 1 .. Len(x) |-> x[p]]
      BY <2>2
    <3> HIDE DEF x
    <3> DEFINE n == Len(x)
               y == [p \in 1 .. n |-> x[p]]
    <3>3. n \in Nat
      BY <1>2, <2>2
    <3>4. x = y /\ \A p \in 1 .. n : x[p] \in 1 .. TRIE_CHAR_MAX - 1
      BY <3>1, <3>2
    <3> HIDE DEF n
    <3>5. y \in Rests
      BY <1>4, <3>3, <3>4 DEF Rests
    <3> QED BY <3>4, <3>5
  <2> HIDE DEF x
  <2>4. Along(l, x)
    <3>1. ASSUME NEW p \in 1 .. Len(l) PROVE l[p] = At(x, p)
      <4>1. CASE p = Len(l)
        BY <1>2, <2>1, <2>2, <4>1 DEF At, TRIE_CHAR_TERM
      <4>2. CASE p # Len(l)
        BY <1>2, <2>2, <4>2 DEF At
      <4> QED BY <4>1, <4>2
    <3> QED BY <3>1 DEF Along
  <2>5. ASSUME NEW q \in Positive PROVE At(r, q) = At(x, Len(l) + q)
    <3>1. ~(q <= Len(r)) /\ ~(Len(l) + q <= Len(x))
      BY <1>2, <2>1, <2>2 DEF Positive
    <3> QED BY <3>1 DEF At
  <2> QED BY <2>3, <2>4, <2>5 DEF Spelled, r
<1> QED BY <1>6, <1>7

\* So no suffix of the trie is longer than a key, nor than a short tells
\* (list2tri.c, trie_store_conditionally).
LEMMA BlocksAreShort ==
  ASSUME NEW A, LabelTree(A), NEW C, Joined(A, C), Blocks(C), NEW am,
         NEW K \in SUBSET (Keys \X TrieData),
         \A x \in Rests : \A v : Key(A, C, x, v) <=> <<x, v>> \in Entries(am, K)
  PROVE  ShortBlocks(C)
<1> SUFFICES ASSUME NEW k \in DOMAIN C PROVE Len(C[k].suffix) <= SHORT_MAX
  BY DEF ShortBlocks
<1> DEFINE r == C[k].suffix
<1>1. k \in Nat /\ k > 0 /\ C[k] \in Content
  BY DEF Blocks
<1>2. PICK l \in DOMAIN A : A[l] = -k
  BY DEF Joined
<1>3. A[l] < 0 /\ -A[l] = k
  BY <1>1, <1>2
<1>4. PICK x \in Rests : Spelled(l, r, x)
  BY <1>3, SpellsOne
<1>5. Key(A, C, x, C[k].data)
  BY <1>3, <1>4 DEF Key
<1>6. <<x, C[k].data>> \in Entries(am, K)
  BY <1>5
<1>7. PICK e \in K : <<x, C[k].data>> = <<CodesOf(am, e[1]), e[2]>>
  BY <1>6 DEF Entries
<1>8. e[1] \in Keys /\ x = CodesOf(am, e[1])
  BY <1>7
<1>9. e[1] \in Seq(Characters) /\ Len(e[1]) <= SHORT_MAX
  BY <1>8, KeysAre, LengthsAssumption
<1>10. Len(x) = Len(e[1])
  <2>1. DOMAIN x = 1 .. Len(e[1]) /\ Len(e[1]) \in Nat
    BY <1>8, <1>9 DEF CodesOf
  <2>2. DOMAIN x = 1 .. Len(x) /\ Len(x) \in Nat
    BY <1>4 DEF Rests
  <2> QED BY <2>1, <2>2, SameLength
<1>11. r \in Rests /\ Len(r) \in Nat /\ Len(x) \in Nat
  BY <1>1, <1>4 DEF Content, Rests
<1>12. Len(l) \in Nat
  BY DEF LabelTree, Labels
<1> HIDE DEF r
<1>13. Len(r) <= Len(x)
  <2> SUFFICES ASSUME Len(r) > Len(x) PROVE FALSE
    BY <1>11
  <2>1. Len(r) \in Positive /\ Len(r) \in 1 .. Len(r)
    BY <1>11 DEF Positive
  <2>2. At(r, Len(r)) = At(x, Len(l) + Len(r))
    BY <1>4, <2>1 DEF Spelled
  <2>3. ~(Len(l) + Len(r) <= Len(x))
    BY <1>11, <1>12
  <2>4. At(x, Len(l) + Len(r)) = 0
    BY <2>3 DEF At, TRIE_CHAR_TERM
  <2>5. r[Len(r)] \in 1 .. TRIE_CHAR_MAX - 1
    BY <1>11, <2>1, ElementOfSeq DEF Rests
  <2>6. At(r, Len(r)) = r[Len(r)]
    BY <1>11 DEF At
  <2> QED BY <2>2, <2>4, <2>5, <2>6, CharMaxIs
<1> QED BY <1>9, <1>10, <1>11, <1>13, LengthsAssumption DEF r

(***************************************************************************)
(* Every step keeps the invariant                                          *)
(***************************************************************************)

\* Storing a key (trie_store_conditionally).
LEMMA StoreStep ==
  ASSUME TrieInv, NEW key \in Keys, NEW data \in TrieData, NEW overwrite \in BOOLEAN,
         Store(key, data, overwrite)
  PROVE  TrieInv'
<1> DEFINE str == CodesOf(alpha_map, key)
           r == StoreOf(da, tail, str, data, overwrite)
           K == Entries(alpha_map, dict)
           other == Others(dict, key) \cup {<<key, data>>}
<1>1. /\ AlphaInv /\ added = Characters /\ is_dirty \in BOOLEAN /\ dict \in SUBSET (Keys \X TrieData)
      /\ HasKeys(da, tail, K) /\ (~is_dirty => saved = dict)
  BY DEF TrieInv
<1>2. Sharp(alpha_map) /\ str \in Rests
  BY <1>1, MapIsSharp, KeysAre, CodesAre, SMTT(60)
<1>3. da' = r.d /\ tail' = r.t /\ Answered(r.ok, other)
  BY DEF Store, StoreOf, Codes, CodesOf, Without, Others
<1>4. /\ is_dirty' = (is_dirty \/ r.ok)
      /\ dict' = IF r.ok THEN other ELSE dict
      /\ saved' = IF is_dirty \/ r.ok THEN {} ELSE saved
      /\ alpha_map' = alpha_map /\ added' = added
  <2> HIDE DEF r, other
  <2> QED BY <1>3 DEF Answered, Dirtied, alphaVars
<1>5. HasKeys(r.d, r.t, IF r.ok THEN Others(K, str) \cup {<<str, data>>} ELSE K)
  BY <1>1, <1>2, StoreKeeps
<1>6. Entries(alpha_map, other) = Others(K, str) \cup {<<str, data>>}
  <2>1. Entries(alpha_map, Replaced(dict, key, data)) = Replaced(K, str, data)
    BY <1>1, <1>2, EntryReplaced
  <2> QED BY <2>1 DEF Replaced
<1>7. other \subseteq Keys \X TrieData
  BY <1>1 DEF Others
<1> HIDE DEF r, other, str, K
<1>8. HasKeys(da', tail', Entries(alpha_map', dict'))
  <2>1. CASE r.ok
    <3>1. dict' = other /\ HasKeys(r.d, r.t, Entries(alpha_map, other))
      BY <1>4, <1>5, <1>6, <2>1
    <3> QED BY <1>3, <1>4, <3>1
  <2>2. CASE ~r.ok
    <3>1. dict' = dict /\ HasKeys(r.d, r.t, K)
      BY <1>4, <1>5, <2>2
    <3> QED BY <1>3, <1>4, <3>1 DEF K
  <2> QED BY <2>1, <2>2
<1>9. dict' \subseteq Keys \X TrieData
  BY <1>1, <1>4, <1>7
<1>10. is_dirty' \in BOOLEAN /\ (~is_dirty' => saved' = dict')
  BY <1>1, <1>4
<1>11. AlphaInv' /\ added' = Characters
  BY <1>1, <1>4 DEF AlphaInv
<1> QED BY <1>8, <1>9, <1>10, <1>11 DEF TrieInv

\* Deleting a key (trie_delete).
LEMMA DeleteStep ==
  ASSUME TrieInv, NEW key \in Keys, Delete(key)
  PROVE  TrieInv'
<1> DEFINE str == CodesOf(alpha_map, key)
           w == WalkBranches(da, str)
           g == da_prune_upto(da_set_base(da, w.s, TRIE_INDEX_ERROR), ROOT, w.s)
           h == tail_delete(tail, trie_da_get_tail_index(da, w.s))
           K == Entries(alpha_map, dict)
           other == Others(dict, key)
<1>1. /\ AlphaInv /\ added = Characters /\ is_dirty \in BOOLEAN /\ dict \in SUBSET (Keys \X TrieData)
      /\ HasKeys(da, tail, K) /\ (~is_dirty => saved = dict)
  BY DEF TrieInv
<1>2. Sharp(alpha_map) /\ str \in Rests
  BY <1>1, MapIsSharp, KeysAre, CodesAre
<1>3. \/ InTail(da, tail, w, str) /\ tail' = h /\ da' = g /\ Answered(TRUE, other)
      \/ tail' = tail /\ da' = da /\ Answered(FALSE, dict)
  <2>1. Codes(key) = str /\ Without(key) = other
    BY DEF Codes, CodesOf, Without, Others
  <2>2. \/ InTail(da, tail, w, str) /\ tail' = h /\ da' = g /\ Answered(TRUE, other)
        \/ UNCHANGED <<da, tail>> /\ Answered(FALSE, dict)
    BY <2>1 DEF Delete
  <2> HIDE DEF str, w, g, h, other
  <2> QED BY <2>2
<1>4. CASE InTail(da, tail, w, str) /\ tail' = h /\ da' = g /\ Answered(TRUE, other)
  <2>1. is_dirty' = TRUE /\ dict' = other /\ alpha_map' = alpha_map /\ added' = added
    <3> HIDE DEF other, w, str, g, h
    <3> QED BY <1>4 DEF Answered, Dirtied, alphaVars
  <2>2. HasKeys(g, h, Others(K, str))
    BY <1>1, <1>2, <1>4, DeleteKeeps
  <2>3. Entries(alpha_map, other) = Others(K, str)
    BY <1>1, <1>2, OtherEntries
  <2>4. other \subseteq Keys \X TrieData
    BY <1>1 DEF Others
  <2> HIDE DEF other, w, str, g, h, K
  <2>5. HasKeys(da', tail', Entries(alpha_map', dict'))
    BY <1>4, <2>1, <2>2, <2>3
  <2>6. AlphaInv' /\ added' = Characters
    BY <1>1, <2>1 DEF AlphaInv
  <2> QED BY <2>1, <2>4, <2>5, <2>6 DEF TrieInv
<1>5. CASE tail' = tail /\ da' = da /\ Answered(FALSE, dict)
  <2>1. /\ is_dirty' = is_dirty /\ dict' = dict /\ alpha_map' = alpha_map /\ added' = added
        /\ (~is_dirty => saved' = saved)
    BY <1>1, <1>5 DEF Answered, Dirtied, alphaVars
  <2>2. HasKeys(da', tail', Entries(alpha_map', dict'))
    BY <1>1, <1>5, <2>1
  <2>3. AlphaInv' /\ added' = Characters
    BY <1>1, <2>1 DEF AlphaInv
  <2> HIDE DEF other, w, str, g, h, K
  <2> QED BY <1>1, <2>1, <2>2, <2>3 DEF TrieInv
<1> QED BY <1>3, <1>4, <1>5

\* Saving (trie_save).
LEMMA SaveStep ==
  ASSUME TrieInv, NEW written \in BOOLEAN, NEW closed \in BOOLEAN, Save(written, closed)
  PROVE  TrieInv'
<1>1. /\ alpha_map' = alpha_map /\ added' = added
      /\ da' = da /\ tail' = tail /\ dict' = dict
  BY DEF Save, alphaVars
<1>2. HasKeys(da', tail', Entries(alpha_map', dict'))
  BY <1>1 DEF TrieInv
<1>3. AlphaInv' /\ added' = Characters
  BY <1>1 DEF TrieInv, AlphaInv
<1>4. dict' \subseteq Keys \X TrieData
  BY <1>1 DEF TrieInv
<1>5. is_dirty' = (is_dirty /\ ~written) /\ saved' = IF written THEN dict ELSE saved
  BY DEF Save
<1>6. is_dirty' \in BOOLEAN /\ (~is_dirty' => saved' = dict')
  BY <1>1, <1>5 DEF TrieInv
<1> QED BY <1>2, <1>3, <1>4, <1>6 DEF TrieInv

\* Saving and loading: the array and the alphabet come back as they were, and the tail
\* with the blocks it had (trie_save, trie_new_from_file).
LEMMA LoadStep ==
  ASSUME TrieInv, SaveAndLoad
  PROVE  TrieInv'
<1>1. /\ AlphaInv /\ added = Characters /\ dict \subseteq Keys \X TrieData
      /\ HasKeys(da, tail, Entries(alpha_map, dict))
  BY DEF TrieInv
<1>2. PICK A, C : /\ Holding(da, tail, A, C)
                  /\ \A x \in Rests : \A v : Key(A, C, x, v) <=> <<x, v>> \in Entries(alpha_map, dict)
  BY <1>1 DEF HasKeys
<1>3. (\E L : Bears(da, L, A)) /\ TailHolds(tail, C) /\ Joined(A, C)
  BY <1>2 DEF Holding
<1>4. PICK u : DaHolds(da, u)
  BY <1>3 DEF Bears, Bearing
<1>5. IsArray(da, num_cells(da)) /\ IsTail(tail) /\ InOrder(alpha_map)
  BY <1>1, <1>3, <1>4 DEF DaHolds, DaIs, TailHolds, AlphaInv
<1>6. trie_fread(trie_fwrite) = [ok |-> TRUE, alpha_map |-> alpha_map, da |-> da, tail |-> ReadTail(tail)]
  BY <1>5, FileRead
<1>7. /\ alpha_map' = alpha_map /\ da' = da /\ tail' = ReadTail(tail)
      /\ is_dirty' = FALSE /\ saved' = dict /\ added' = added /\ dict' = dict
  BY <1>6 DEF SaveAndLoad
<1>8. Holding(da, ReadTail(tail), A, C)
  <2>1. PICK L : Bears(da, L, A)
    BY <1>3
  <2>2. LabelTree(A) /\ Blocks(C)
    BY <1>3, <2>1, LabelTreeIs, BlocksHold
  <2>3. dict \in SUBSET (Keys \X TrieData)
    BY <1>1
  <2>4. ShortBlocks(C)
    BY <1>2, <1>3, <2>2, <2>3, BlocksAreShort
  <2> QED BY <1>3, <2>4, ReadTailHolds DEF Holding
<1>9. HasKeys(da, ReadTail(tail), Entries(alpha_map, dict))
  BY <1>2, <1>8 DEF HasKeys
<1>10. HasKeys(da', tail', Entries(alpha_map', dict'))
  BY <1>7, <1>9
<1>11. AlphaInv' /\ added' = Characters
  BY <1>1, <1>7 DEF AlphaInv
<1> QED BY <1>1, <1>7, <1>10, <1>11 DEF TrieInv

\* Every step keeps the invariant.
LEMMA TrieInvStep == TrieInv /\ [TrieNext]_trieVars => TrieInv'
<1> SUFFICES ASSUME TrieInv, [TrieNext]_trieVars PROVE TrieInv'
  OBVIOUS
<1>1. CASE TrieNext
  BY <1>1, StoreStep, DeleteStep, SaveStep, LoadStep DEF TrieNext
<1>2. CASE UNCHANGED trieVars
  BY <1>2 DEF trieVars, alphaVars, TrieInv, AlphaInv
<1> QED BY <1>1, <1>2

(***************************************************************************)
(* What the invariant says                                                 *)
(***************************************************************************)

\* The array, the tail and the tree of a state.
Shape(u, L, A, C) == Bearing(da, u, L, A) /\ TailHolds(tail, C) /\ Joined(A, C)

\* A state has them.
LEMMA ShapeIs ==
  ASSUME TrieInv
  PROVE  \E u, L, A, C :
           /\ Shape(u, L, A, C)
           /\ \A x \in Rests : \A v : Key(A, C, x, v) <=> <<x, v>> \in Entries(alpha_map, dict)
<1>1. PICK A, C : /\ Holding(da, tail, A, C)
                  /\ \A x \in Rests : \A v : Key(A, C, x, v) <=> <<x, v>> \in Entries(alpha_map, dict)
  BY DEF TrieInv, HasKeys
<1>2. TailHolds(tail, C) /\ Joined(A, C) /\ \E L : Bears(da, L, A)
  BY <1>1 DEF Holding
<1>3. PICK L : Bears(da, L, A)
  BY <1>2
<1>4. PICK u : Bearing(da, u, L, A)
  BY <1>3 DEF Bears
<1>5. Shape(u, L, A, C)
  BY <1>2, <1>4 DEF Shape
<1> QED BY <1>1, <1>5

\* The nodes but the root are those with a parent; the others are free.
LEMMA CellsAre ==
  ASSUME NEW u, DaHolds(da, u), Tree(u)
  PROVE  /\ num_cells(da) \in Nat /\ num_cells(da) >= 3 /\ DOMAIN da = 0 .. num_cells(da) - 1
         /\ Nodes = DOMAIN u \ {ROOT}
         /\ FreeCells = Frees(da, u)
<1> DEFINE n == num_cells(da)
<1>1. /\ n \in Nat /\ n >= 3 /\ da \in [0 .. n - 1 -> Cell]
      /\ \A x \in DOMAIN u : /\ x \in 2 .. n - 1 /\ da[x] = u[x]
                             /\ u[x].check \in Int /\ u[x].check >= 0
  BY NodesAre
<1>2. DOMAIN da = 0 .. n - 1 /\ DA_POOL_BEGIN = 3 /\ ROOT = 2
  BY <1>1 DEF DA_POOL_BEGIN, ROOT
<1>3. \A x \in DOMAIN u : x # ROOT => u[x].check \in DOMAIN u
  BY DEF Tree, Hangs
<1>4. \A x \in DOMAIN u : x # ROOT => u[x].check > 0
  BY <1>1, <1>3
<1>5. \A s \in Frees(da, u) : da[s].check < 0 /\ s >= 3 /\ s \in 0 .. n - 1
  <2> SUFFICES ASSUME NEW s \in Frees(da, u) PROVE da[s].check < 0 /\ s >= 3 /\ s \in 0 .. n - 1
    OBVIOUS
  <2>1. DaIs(da, n, u) /\ s \in FreeOf(n, u)
    BY DEF DaHolds, Frees
  <2>2. da[s].check < 0
    BY <2>1, FreeIs
  <2>3. s \in 3 .. n - 1
    BY <1>2, <2>1 DEF FreeOf
  <2> QED BY <2>2, <2>3
<1>6. \A s \in 0 .. n - 1 : s >= 3 => (s \in Frees(da, u) <=> s \notin DOMAIN u)
  BY <1>1, <1>2 DEF Frees, FreeOf
<1>7. \A s \in Frees(da, u) : da[s].check \in Int
  BY <1>1, <1>5 DEF Cell
<1> HIDE DEF n
<1>8. ASSUME NEW s PROVE s \in Nodes <=> s \in DOMAIN u \ {ROOT}
  <2>1. s \in Nodes <=> s \in 0 .. n - 1 /\ s >= 3 /\ da[s].check > 0
    BY <1>2 DEF Nodes
  <2>2. ASSUME s \in DOMAIN u, s # ROOT PROVE s \in 0 .. n - 1 /\ s >= 3 /\ da[s].check > 0
    BY <1>1, <1>2, <1>4, <2>2
  <2>3. ASSUME s \in 0 .. n - 1, s >= 3, da[s].check > 0 PROVE s \in DOMAIN u /\ s # ROOT
    BY <1>2, <1>5, <1>6, <1>7, <2>3
  <2> QED BY <2>1, <2>2, <2>3
<1>9. ASSUME NEW s PROVE s \in FreeCells <=> s \in Frees(da, u)
  <2>1. s \in FreeCells <=> s \in 0 .. n - 1 /\ s >= 3 /\ da[s].check < 0
    BY <1>2 DEF FreeCells
  <2>2. ASSUME s \in 0 .. n - 1, s >= 3, da[s].check < 0 PROVE s \in Frees(da, u)
    BY <1>1, <1>6, <2>2
  <2> QED BY <1>5, <2>1, <2>2
<1> QED BY <1>1, <1>2, <1>8, <1>9 DEF n

\* The shape of the state (TrieTypeOK).
LEMMA TypeHolds ==
  ASSUME TrieInv
  PROVE  TrieTypeOK
<1>1. PICK u, L, A, C : Shape(u, L, A, C)
  BY ShapeIs
<1>2. DaHolds(da, u) /\ TailHolds(tail, C)
  BY <1>1 DEF Shape, Bearing
<1>3. RangesApart /\ is_dirty \in BOOLEAN
  BY DEF TrieInv, AlphaInv, InOrder, RangesApart
<1> DEFINE n == num_cells(da)
<1>4. n \in Nat /\ n <= TRIE_INDEX_MAX /\ da \in [0 .. n - 1 -> Cell]
  BY <1>2, NodesAre
<1>5. da[0].check = n
  BY <1>2 DEF DaHolds, DaIs, IsArray
<1>6. tail.first_free \in 0 .. num_tails(tail)
  BY <1>2, AllocatedAre
<1>7. DOMAIN da = 0 .. n - 1 /\ \A s \in DOMAIN da : da[s] \in [base : Int, check : Int]
  BY <1>4 DEF Cell
<1> HIDE DEF n
<1> QED BY <1>3, <1>4, <1>5, <1>6, <1>7 DEF TrieTypeOK, n

\* The free list (FreeListSound).
LEMMA FreeListHolds ==
  ASSUME TrieInv
  PROVE  FreeListSound
<1>1. PICK u, L, A, C : Shape(u, L, A, C)
  BY ShapeIs
<1>2. DaHolds(da, u) /\ Tree(u)
  BY <1>1 DEF Shape, Bearing
<1> DEFINE n == num_cells(da)
           F == FreeCells
<1>3. n \in Nat /\ n >= 3 /\ F = Frees(da, u)
  BY <1>2, CellsAre
<1>4. DaIs(da, n, u) /\ F = FreeOf(n, u)
  BY <1>2, <1>3 DEF DaHolds, Frees
<1>5. F \subseteq 3 .. n - 1 /\ FREE_LIST = 1
  BY <1>4 DEF FreeOf, DA_POOL_BEGIN, FREE_LIST
<1>6. ASSUME NEW s \in F \cup {FREE_LIST}
      PROVE  IsNext(F, s, -da[s].check) /\ IsPrev(F, s, -da[s].base) /\ s \in Int
  BY <1>4, <1>5 DEF DaIs, Listed
<1> HIDE DEF F, n
<1>7. ASSUME NEW s \in F \cup {FREE_LIST}
      PROVE  LET above == {f \in F : f > s}
             IN  -da[s].check = IF above = {} THEN FREE_LIST ELSE Min(above)
  <2> DEFINE above == {f \in F : f > s}
             x == -da[s].check
  <2>1. /\ x \in F \cup {FREE_LIST} /\ (x # FREE_LIST => x > s)
        /\ \A f \in F : f > s => x # FREE_LIST /\ x <= f
    BY <1>6 DEF IsNext
  <2> HIDE DEF x
  <2>2. CASE above = {}
    <3>1. x = FREE_LIST
      BY <2>1, <2>2
    <3> QED BY <2>2, <3>1 DEF x
  <2>3. CASE above # {}
    <3>1. above \in SUBSET Nat /\ x \in above /\ x \in Int /\ \A f \in above : x <= f
      BY <1>3, <1>5, <2>1, <2>3
    <3> HIDE DEF above
    <3>2. Min(above) \in above /\ Min(above) <= x
      BY <3>1, <2>3, MinNatural
    <3>3. Min(above) = x
      <4>1. Min(above) \in Nat /\ x <= Min(above)
        BY <3>1, <3>2
      <4> QED BY <3>1, <3>2, <4>1
    <3> QED BY <2>3, <3>3 DEF x, above
  <2> QED BY <2>2, <2>3
<1>8. ASSUME NEW s \in F \cup {FREE_LIST}
      PROVE  LET below == {f \in F : f < s} IN
             -da[s].base = IF s = FREE_LIST THEN (IF F = {} THEN FREE_LIST ELSE Max(F))
                           ELSE (IF below = {} THEN FREE_LIST ELSE Max(below))
  <2> DEFINE below == IF s = FREE_LIST THEN F ELSE {f \in F : f < s}
             y == -da[s].base
  <2>1. /\ y \in F \cup {FREE_LIST} /\ (s # FREE_LIST => y < s)
        /\ \A f \in F : s = FREE_LIST \/ f < s => f <= y
    BY <1>6 DEF IsPrev
  <2> HIDE DEF y
  <2>2. y = IF below = {} THEN FREE_LIST ELSE Max(below)
    <3>1. CASE below = {}
      <4>1. \A f \in F : ~(s = FREE_LIST \/ f < s)
        BY <3>1
      <4>2. y = FREE_LIST
        BY <2>1, <4>1
      <4> QED BY <3>1, <4>2
    <3>2. CASE below # {}
      <4>1. below \in SUBSET (1 .. n)
        BY <1>3, <1>5
      <4>2. y \in below /\ y \in Int /\ \A f \in below : f <= y
        <5>1. PICK f \in F : s = FREE_LIST \/ f < s
          BY <3>2
        <5>2. f <= y /\ f >= 3 /\ f \in Int
          BY <1>5, <2>1, <5>1
        <5>3. y \in F
          BY <1>5, <2>1, <5>2
        <5> QED BY <1>5, <2>1, <5>3
      <4> HIDE DEF below
      <4>3. Max(below) \in below /\ y <= Max(below)
        BY <1>3, <3>2, <4>1, <4>2, MaxUpTo
      <4>4. \A f \in below : f \in Int /\ f <= y
        BY <1>3, <4>1, <4>2
      <4>5. Max(below) \in Int /\ Max(below) <= y
        BY <4>3, <4>4
      <4>6. Max(below) = y
        BY ONLY <4>2, <4>3, <4>5
      <4> QED BY <3>2, <4>6
    <3> QED BY <3>1, <3>2
  <2>3. CASE s = FREE_LIST
    BY <2>2, <2>3 DEF y
  <2>4. CASE s # FREE_LIST
    BY <2>2, <2>4 DEF y
  <2> QED BY <2>3, <2>4
<1> QED BY <1>7, <1>8 DEF FreeListSound, F

\* The nodes (NodesSound).
LEMMA NodesHold ==
  ASSUME TrieInv
  PROVE  NodesSound
<1>1. PICK u, L, A, C : Shape(u, L, A, C)
  BY ShapeIs
<1>2. DaHolds(da, u) /\ Tree(u) /\ Labelled(u, L) /\ Marked(u, L, A) /\ Joined(A, C)
  BY <1>1 DEF Shape, Bearing
<1>3. Nodes = DOMAIN u \ {ROOT} /\ ROOT \in DOMAIN u
  BY <1>2, CellsAre, NodesAre
<1>4. \A x \in DOMAIN u : da[x] = u[x] /\ u[x].base \in Int /\ da_get_base(da, x) = u[x].base
  BY <1>2, NodesAre
<1>5. /\ \A x \in DOMAIN u : L[x] \in Labels
      /\ \A x, y \in DOMAIN u : L[x] = L[y] => x = y
      /\ L[ROOT] = <<>>
      /\ \A x \in DOMAIN u : x # ROOT =>
           /\ u[x].check \in DOMAIN u
           /\ x - u[u[x].check].base \in Chars
           /\ L[x] = Child(L[u[x].check], x - u[u[x].check].base)
           /\ L[x] # <<>>
  BY <1>2, LabelsAre
<1>6. DOMAIN A = {L[x] : x \in DOMAIN u} /\ \A x \in DOMAIN u : A[L[x]] = Mark(u[x].base)
  BY <1>2 DEF Marked
<1>7. \A l \in DOMAIN A : l = <<>> \/ A[l] < 0 \/ \E c \in Chars : Child(l, c) \in DOMAIN A
  BY <1>2 DEF Joined
<1>8. ASSUME NEW s \in Nodes
      PROVE  LET p == da[s].check IN
             /\ p \in Nodes \cup {ROOT}
             /\ s - da[p].base \in 0 .. TRIE_CHAR_MAX - 1
             /\ trie_da_is_separate(da, s) \/ \E x \in Nodes : da[x].check = s
  <2> DEFINE p == u[s].check
  <2>1. s \in DOMAIN u /\ s # ROOT /\ da[s].check = p
    BY <1>3, <1>4
  <2>2. p \in DOMAIN u /\ s - u[p].base \in Chars /\ L[s] \in Labels /\ L[s] # <<>>
    BY <1>5, <2>1
  <2>3. p \in Nodes \cup {ROOT} /\ da[p].base = u[p].base
    BY <1>3, <1>4, <2>2
  <2>4. L[s] \in DOMAIN A /\ A[L[s]] = Mark(u[s].base)
    BY <1>6, <2>1
  <2>5. CASE A[L[s]] < 0
    <3>1. u[s].base \in Int /\ Mark(u[s].base) < 0
      BY <1>4, <2>1, <2>4, <2>5
    <3>2. u[s].base < 0
      BY <3>1 DEF Mark
    <3>3. trie_da_is_separate(da, s)
      BY <1>4, <2>1, <3>2 DEF trie_da_is_separate
    <3> QED BY <2>1, <2>2, <2>3, <3>3 DEF Chars
  <2>6. CASE \E c \in Chars : Child(L[s], c) \in DOMAIN A
    <3>1. PICK c \in Chars : Child(L[s], c) \in DOMAIN A
      BY <2>6
    <3>2. PICK x \in DOMAIN u : L[x] = Child(L[s], c)
      BY <1>6, <3>1
    <3>3. Child(L[s], c) # <<>>
      BY <2>2, <3>1, ChildIs
    <3>4. x # ROOT
      BY <1>5, <3>2, <3>3
    <3> DEFINE q == u[x].check
    <3>5. q \in DOMAIN u /\ x - u[q].base \in Chars /\ L[x] = Child(L[q], x - u[q].base) /\ L[q] \in Labels
      BY <1>5, <3>4
    <3> HIDE DEF q
    <3>6. L[s] = L[q]
      <4>1. Child(L[s], c) = Child(L[q], x - u[q].base)
        BY <3>2, <3>5
      <4> QED BY <2>2, <3>1, <3>5, <4>1, ChildIs
    <3>7. q = s
      BY <1>5, <2>1, <3>5, <3>6
    <3>8. x \in Nodes /\ da[x].check = s
      BY <1>3, <1>4, <3>4, <3>7 DEF q
    <3> QED BY <2>1, <2>2, <2>3, <3>8 DEF Chars
  <2> QED BY <1>7, <2>2, <2>4, <2>5, <2>6
<1>9. ASSUME NEW S \in SUBSET Nodes, S # {} PROVE \E s \in S : da[s].check \notin S
  <2> DEFINE lengths == {Len(L[s]) : s \in S}
  <2>1. lengths # {} /\ lengths \subseteq Nat
    <3>1. \A s \in S : s \in DOMAIN u
      BY <1>3
    <3>2. \A s \in S : Len(L[s]) \in Nat
      BY <1>5, <3>1 DEF Labels
    <3> QED BY <1>9, <3>2
  <2> HIDE DEF lengths
  <2>2. PICK m \in lengths : \A x \in lengths : m <= x
    BY <2>1, LeastNatural
  <2>3. PICK s \in S : Len(L[s]) = m
    BY <2>2 DEF lengths
  <2>4. ASSUME da[s].check \in S PROVE FALSE
    <3> DEFINE p == u[s].check
    <3>1. s \in DOMAIN u /\ s # ROOT /\ da[s].check = p
      BY <1>3, <1>4
    <3>2. p \in DOMAIN u /\ s - u[p].base \in Chars /\ L[s] = Child(L[p], s - u[p].base)
          /\ L[p] \in Labels
      BY <1>5, <3>1
    <3>3. p \in S
      BY <2>4, <3>1
    <3> HIDE DEF p
    <3>4. Len(L[s]) = Len(L[p]) + 1 /\ Len(L[p]) \in Nat
      <4> DEFINE l == L[p]
                 c == s - u[p].base
      <4>1. l \in Labels /\ c \in Chars /\ L[s] = Child(l, c)
        BY <3>2
      <4> HIDE DEF l, c
      <4>2. Len(Child(l, c)) = Len(l) + 1
        BY <4>1, ChildIs
      <4>3. Len(l) \in Nat
        BY <4>1 DEF Labels
      <4> QED BY <4>1, <4>2, <4>3 DEF l
    <3>5. m <= Len(L[p])
      BY <2>2, <3>3 DEF lengths
    <3> QED BY <2>3, <3>4, <3>5
  <2> QED BY <2>4
<1> QED BY <1>8, <1>9 DEF NodesSound

\* The blocks of the tail (TailsOwned).
LEMMA TailsHold ==
  ASSUME TrieInv
  PROVE  TailsOwned
<1>1. PICK u, L, A, C : Shape(u, L, A, C)
  BY ShapeIs
<1>2. DaHolds(da, u) /\ Tree(u) /\ Labelled(u, L) /\ Marked(u, L, A) /\ Joined(A, C) /\ TailHolds(tail, C)
  BY <1>1 DEF Shape, Bearing
<1> DEFINE separate == {s \in Nodes : trie_da_is_separate(da, s)}
           allocated == {i \in 1 .. num_tails(tail) : tail.tails[i].next_free = -1}
           f == [s \in separate |-> trie_da_get_tail_index(da, s)]
<1>3. allocated = DOMAIN C /\ DOMAIN C \subseteq 1 .. num_tails(tail) /\ num_tails(tail) \in Nat
  BY <1>2, AllocatedAre
<1>4. Nodes = DOMAIN u \ {ROOT} /\ ROOT \in DOMAIN u
  BY <1>2, CellsAre, NodesAre
<1>5. \A x \in DOMAIN u : u[x].base \in Int /\ da_get_base(da, x) = u[x].base
  BY <1>2, NodesAre
<1>6. \A x, y \in DOMAIN u : L[x] = L[y] => x = y
  BY <1>2, LabelsAre
<1>7. DOMAIN A = {L[x] : x \in DOMAIN u} /\ \A x \in DOMAIN u : A[L[x]] = Mark(u[x].base)
  BY <1>2 DEF Marked
<1>8. /\ \A l \in DOMAIN A : A[l] < 0 => -A[l] \in DOMAIN C
      /\ \A k \in DOMAIN C : \E l \in DOMAIN A : A[l] = -k
      /\ \A l, m \in DOMAIN A : A[l] < 0 /\ A[l] = A[m] => l = m
  BY <1>2 DEF Joined
<1>9. ASSUME NEW x \in DOMAIN u
      PROVE  /\ trie_da_is_separate(da, x) <=> A[L[x]] < 0
             /\ A[L[x]] < 0 => x # ROOT /\ trie_da_get_tail_index(da, x) = -A[L[x]] /\ A[L[x]] \in Int
  <2>1. u[x].base \in Int /\ da_get_base(da, x) = u[x].base /\ A[L[x]] = Mark(u[x].base)
    BY <1>5, <1>7
  <2>2. Mark(u[x].base) < 0 <=> u[x].base < 0
    BY <2>1 DEF Mark
  <2>3. ASSUME u[x].base < 0 PROVE Mark(u[x].base) = u[x].base /\ x # ROOT
    <3>1. u[ROOT].base >= 3
      BY <1>2 DEF Tree
    <3>2. x # ROOT
      BY <2>1, <2>3, <3>1
    <3> QED BY <2>1, <2>3, <3>2 DEF Mark
  <2> QED BY <2>1, <2>2, <2>3 DEF trie_da_is_separate, trie_da_get_tail_index
<1>10. separate = {x \in DOMAIN u : A[L[x]] < 0}
  BY <1>4, <1>9
<1> HIDE DEF separate, allocated
<1>11. ASSUME NEW s \in separate
       PROVE  /\ s \in DOMAIN u /\ L[s] \in DOMAIN A /\ A[L[s]] < 0
              /\ f[s] = -A[L[s]] /\ f[s] \in allocated /\ A[L[s]] \in Int
  <2>1. s \in DOMAIN u /\ A[L[s]] < 0 /\ L[s] \in DOMAIN A
    BY <1>7, <1>10
  <2>2. trie_da_get_tail_index(da, s) = -A[L[s]] /\ A[L[s]] \in Int
    BY <1>9, <2>1
  <2> QED BY <1>3, <1>8, <2>1, <2>2
<1>12. ASSUME NEW k \in allocated PROVE \E s \in separate : f[s] = k
  <2>1. k \in Nat /\ k > 0 /\ k \in DOMAIN C
    BY <1>3
  <2>2. PICK l \in DOMAIN A : A[l] = -k
    BY <1>8, <2>1
  <2>3. PICK x \in DOMAIN u : L[x] = l
    BY <1>7
  <2>4. A[L[x]] = -k /\ A[L[x]] < 0 /\ -A[L[x]] = k
    BY <2>1, <2>2, <2>3
  <2>5. x \in separate
    BY <1>10, <2>4
  <2> QED BY <1>11, <2>4, <2>5
<1>13. ASSUME NEW s \in separate, NEW r \in separate, f[s] = f[r] PROVE s = r
  <2>1. -A[L[s]] = -A[L[r]] /\ A[L[s]] \in Int /\ A[L[r]] \in Int
    BY <1>11, <1>13
  <2>2. A[L[s]] = A[L[r]]
    BY <2>1
  <2>3. L[s] = L[r]
    BY <1>8, <1>11, <2>2
  <2> QED BY <1>6, <1>11, <2>3
<1>14. {trie_da_get_tail_index(da, s) : s \in separate} = allocated
  <2>1. \A s \in separate : trie_da_get_tail_index(da, s) = f[s]
    OBVIOUS
  <2> HIDE DEF f
  <2> QED BY <1>11, <1>12, <2>1
<1>15. Cardinality(allocated) = Cardinality(separate)
  <2>1. f \in [separate -> allocated]
    BY <1>11
  <2> HIDE DEF f
  <2>2. f \in Bijection(separate, allocated)
    BY <1>12, <1>13, <2>1 DEF Bijection, Injection, Surjection, IsInjective
  <2>3. ExistsBijection(separate, allocated)
    BY <2>2 DEF ExistsBijection
  <2>4. IsFiniteSet(separate)
    <3>1. separate \subseteq 2 .. num_cells(da) - 1
      BY <1>2, <1>10, NodesAre
    <3>2. IsFiniteSet(2 .. num_cells(da) - 1)
      BY <1>2, NodesAre, FS_Interval
    <3> QED BY <3>1, <3>2, FS_Subset
  <2> QED BY <2>3, <2>4, FS_Bijection
<1> QED BY <1>14, <1>15 DEF TailsOwned, separate, allocated

\* What is retrieved (MapExact).
LEMMA MapHolds ==
  ASSUME TrieInv
  PROVE  Stored = dict
<1>1. PICK u, L, A, C :
        /\ Shape(u, L, A, C)
        /\ \A x \in Rests : \A v : Key(A, C, x, v) <=> <<x, v>> \in Entries(alpha_map, dict)
  BY ShapeIs
<1>2. Bears(da, L, A) /\ TailHolds(tail, C) /\ Joined(A, C)
  BY <1>1 DEF Shape, Bears
<1>3. AlphaInv /\ added = Characters /\ dict \in SUBSET (Keys \X TrieData)
  BY DEF TrieInv
<1>4. Sharp(alpha_map)
  BY <1>3, MapIsSharp
<1>5. ASSUME NEW key \in Strings, NEW v PROVE v \in trie_retrieve(key) <=> <<key, v>> \in dict
  <2> DEFINE str == CodesOf(alpha_map, key)
  <2>1. key \in Seq(Characters)
    BY KeysAssumption
  <2>2. str \in Rests
    BY <1>4, <2>1, CodesAre
  <2>3. trie_retrieve(key) = Retrieved(da, tail, str)
    BY DEF trie_retrieve, Codes, CodesOf
  <2>4. <<str, v>> \in Entries(alpha_map, dict) <=> <<key, v>> \in dict
    BY <1>3, <1>4, <2>1, EntriesAre
  <2> HIDE DEF str
  <2>5. v \in Retrieved(da, tail, str) <=> Key(A, C, str, v)
    BY <1>2, <2>2, RetrievedIs
  <2>6. Key(A, C, str, v) <=> <<str, v>> \in Entries(alpha_map, dict)
    BY <1>1, <2>2
  <2> QED BY <2>3, <2>4, <2>5, <2>6
<1>6. ASSUME NEW e \in dict PROVE e \in Stored
  <2>1. e = <<e[1], e[2]>> /\ e[1] \in Strings
    BY <1>3, KeysAre
  <2>2. e[2] \in trie_retrieve(e[1])
    BY <1>5, <2>1
  <2>3. <<e[1], e[2]>> \in {e[1]} \X trie_retrieve(e[1])
    BY <2>2
  <2> QED BY <2>1, <2>3 DEF Stored
<1>7. ASSUME NEW e \in Stored PROVE e \in dict
  <2>1. PICK key \in Strings : e \in {key} \X trie_retrieve(key)
    BY <1>7 DEF Stored
  <2>2. e = <<key, e[2]>> /\ e[2] \in trie_retrieve(key)
    BY <2>1
  <2> QED BY <1>5, <2>2
<1> QED BY <1>6, <1>7

\* The file (FileExact).
LEMMA FileHolds ==
  ASSUME TrieInv
  PROVE  FileExact
<1>1. PICK u, L, A, C :
        /\ Shape(u, L, A, C)
        /\ \A x \in Rests : \A v : Key(A, C, x, v) <=> <<x, v>> \in Entries(alpha_map, dict)
  BY ShapeIs
<1>2. /\ DaHolds(da, u) /\ TailHolds(tail, C) /\ Bears(da, L, A) /\ Joined(A, C)
      /\ dict \in SUBSET (Keys \X TrieData)
  BY <1>1 DEF Shape, Bearing, Bears, TrieInv
<1>3. IsArray(da, num_cells(da)) /\ IsTail(tail) /\ InOrder(alpha_map)
  BY <1>2 DEF DaHolds, DaIs, TailHolds, TrieInv, AlphaInv
<1> DEFINE file == trie_fwrite
           r == trie_fread(file)
           n == num_tails(tail)
<1>4. /\ r = [ok |-> TRUE, alpha_map |-> alpha_map, da |-> da, tail |-> ReadTail(tail)]
      /\ \A k \in 0 .. Len(file) - 1 : ~trie_fread(SubSeq(file, 1, k)).ok
  BY <1>3, FileRead
<1>5. ShortBlocks(C)
  <2>1. LabelTree(A) /\ Blocks(C)
    BY <1>2, LabelTreeIs, BlocksHold
  <2> QED BY <1>1, <1>2, <2>1, BlocksAreShort
<1>6. {i \in 1 .. n : tail.tails[i].next_free = -1} = DOMAIN C /\ n \in Nat
  BY <1>2, AllocatedAre
<1>7. r.ok /\ r.alpha_map = alpha_map /\ r.da = da /\ r.tail = ReadTail(tail)
  BY <1>4
<1> HIDE DEF r, file
<1>8. /\ r.tail.first_free = tail.first_free /\ num_tails(r.tail) = n
      /\ \A i \in 1 .. n : r.tail.tails[i] = ReadCell(tail.tails[i])
  <2> DEFINE cells == [i \in 1 .. n |-> ReadCell(tail.tails[i])]
  <2>1. r.tail = [first_free |-> tail.first_free, tails |-> cells]
    BY <1>7 DEF ReadTail
  <2> HIDE DEF n
  <2>2. Len(cells) = n /\ \A i \in 1 .. n : cells[i] = ReadCell(tail.tails[i])
    BY <1>6
  <2> HIDE DEF cells
  <2> QED BY <2>1, <2>2 DEF num_tails
<1>9. ASSUME NEW i \in 1 .. n PROVE SameBlock(r.tail.tails[i], tail.tails[i])
  <2> DEFINE c == tail.tails[i]
  <2>1. r.tail.tails[i] = [next_free |-> c.next_free, data |-> c.data, suffix |-> Written(c.suffix)]
    BY <1>8 DEF ReadCell
  <2>2. ASSUME c.next_free = -1 PROVE Written(c.suffix) = c.suffix
    <3>1. i \in DOMAIN C
      BY <1>6, <2>2
    <3>2. C[i] \in Content /\ c = Filled(C[i]) /\ Len(C[i].suffix) <= SHORT_MAX
      BY <1>2, <1>5, <3>1 DEF TailHolds, BlocksAre, ShortBlocks
    <3>3. c.suffix = C[i].suffix /\ C[i].suffix \in Rests
      BY <3>2 DEF Filled, Content
    <3>4. C[i].suffix \in Seq(Nat)
      BY <3>3, RestsAre
    <3> QED BY <3>2, <3>3, <3>4, WrittenIs
  <2> HIDE DEF c
  <2> QED BY <2>1, <2>2 DEF SameBlock, c
<1> QED BY <1>4, <1>7, <1>8, <1>9 DEF FileExact, r, file

(***************************************************************************)
(* Stepwise walks                                                          *)
(***************************************************************************)

\* A label that another is longer than on the way of the same string has a child there.
LEMMA LongerIs ==
  ASSUME NEW A, LabelTree(A), NEW l \in DOMAIN A, NEW m \in DOMAIN A, A[l] = 1, A[m] < 0,
         NEW str, Along(l, str), Along(m, str)
  PROVE  Len(l) \in Nat /\ Child(l, At(str, Len(l) + 1)) \in DOMAIN A
<1>1. A[m] # 1 /\ m # l
  <2>1. A[m] \in Int
    BY DEF LabelTree
  <2> QED BY <2>1
<1>2. Len(l) <= Len(m) /\ (Len(l) = Len(m) => l = m)
  BY <1>1, AlongOne
<1>3. l \in Seq(Chars) /\ m \in Seq(Chars) /\ Len(l) \in Nat /\ Len(m) \in Nat
  BY DEF LabelTree, Labels
<1>4. Len(l) < Len(m) /\ Len(l) \in 0 .. Len(m) /\ Len(l) + 1 \in 0 .. Len(m) /\ Len(l) + 1 \in 1 .. Len(m)
  BY <1>1, <1>2, <1>3
<1>5. /\ SubSeq(m, 1, Len(l) + 1) \in DOMAIN A
      /\ SubSeq(m, 1, Len(l) + 1) = Child(SubSeq(m, 1, Len(l)), m[Len(l) + 1])
  BY <1>4, PrefixIs
<1>6. SubSeq(m, 1, Len(l)) = l
  <2>1. SubSeq(m, 1, Len(l)) \in Seq(Chars) /\ Len(SubSeq(m, 1, Len(l))) = Len(l)
        /\ \A p \in 1 .. Len(l) : SubSeq(m, 1, Len(l))[p] = m[p]
    BY <1>3, <1>4
  <2>2. \A p \in 1 .. Len(l) : m[p] = l[p]
    BY <1>3, <1>4 DEF Along
  <2> QED BY <1>3, <2>1, <2>2
<1>7. m[Len(l) + 1] = At(str, Len(l) + 1)
  BY <1>4 DEF Along
<1> QED BY <1>3, <1>5, <1>6, <1>7

\* Two separate labels on the way of one string are one.
LEMMA SeparateOne ==
  ASSUME NEW A, LabelTree(A), NEW l \in DOMAIN A, NEW m \in DOMAIN A, A[l] < 0, A[m] < 0,
         NEW str, Along(l, str), Along(m, str)
  PROVE  m = l
<1>1. A[l] # 1 /\ A[m] # 1
  <2>1. A[l] \in Int /\ A[m] \in Int
    BY DEF LabelTree
  <2> QED BY <2>1
<1>2. Len(m) <= Len(l) /\ (Len(m) = Len(l) => m = l)
  BY <1>1, AlongOne
<1>3. Len(l) <= Len(m)
  BY <1>1, AlongOne
<1>4. Len(l) \in Nat /\ Len(m) \in Nat
  BY DEF LabelTree, Labels
<1> QED BY <1>2, <1>3, <1>4

\* A tree has finitely many labels.
LEMMA LabelsFinite ==
  ASSUME NEW L, NEW A, IsTree(L, A)
  PROVE  IsFiniteSet(DOMAIN A)
<1> DEFINE f == [x \in DOMAIN L |-> L[x]]
<1>1. DOMAIN A = {L[x] : x \in DOMAIN L} /\ IsFiniteSet(DOMAIN L)
  BY DEF IsTree
<1>2. f \in Surjection(DOMAIN L, DOMAIN A)
  BY <1>1 DEF Surjection
<1> HIDE DEF f
<1> QED BY <1>1, <1>2, FS_Surjection

\* m goes on from l; the labels that do.
Begins(l, m) == Len(l) <= Len(m) /\ \A p \in 1 .. Len(l) : m[p] = l[p]
LabelsBelow(A, l) == {m \in DOMAIN A : Begins(l, m)}

\* A label goes on to a separate one: one with the fewest labels below it has no child.
LEMMA SeparateBelow ==
  ASSUME NEW A, LabelTree(A), IsFiniteSet(DOMAIN A), NEW C, Joined(A, C),
         NEW l \in DOMAIN A, l # <<>>
  PROVE  \E m \in DOMAIN A : A[m] < 0 /\ Begins(l, m)
<1>1. \A m \in DOMAIN A : m \in Seq(Chars) /\ Len(m) \in Nat
  BY DEF LabelTree, Labels
<1>2. l \in LabelsBelow(A, l) /\ Len(l) > 0
  BY <1>1 DEF Begins, LabelsBelow
<1>3. \A m \in DOMAIN A : IsFiniteSet(LabelsBelow(A, m)) /\ Cardinality(LabelsBelow(A, m)) \in Nat
  <2>1. ASSUME NEW m \in DOMAIN A
        PROVE  IsFiniteSet(LabelsBelow(A, m)) /\ Cardinality(LabelsBelow(A, m)) \in Nat
    <3>1. LabelsBelow(A, m) \subseteq DOMAIN A
      BY DEF LabelsBelow
    <3>2. IsFiniteSet(LabelsBelow(A, m))
      BY <3>1, FS_Subset
    <3> QED BY <3>2, FS_CardinalityType
  <2> QED BY <2>1
<1>4. PICK m \in LabelsBelow(A, l) :
        \A o \in LabelsBelow(A, l) : Cardinality(LabelsBelow(A, m)) <= Cardinality(LabelsBelow(A, o))
  <2> DEFINE T == {Cardinality(LabelsBelow(A, o)) : o \in LabelsBelow(A, l)}
  <2>1. T \in SUBSET Nat /\ T # {}
    BY <1>2, <1>3 DEF LabelsBelow
  <2>2. \E x \in T : \A y \in T : x <= y
    <3> HIDE DEF T
    <3> QED BY <2>1, LeastNatural
  <2> QED BY <2>2
<1>5. m \in DOMAIN A /\ Begins(l, m) /\ m \in Seq(Chars) /\ Len(m) \in Nat
  BY <1>1, <1>4 DEF LabelsBelow
<1>6. m # <<>>
  BY <1>1, <1>2, <1>5 DEF Begins
<1>7. ASSUME NEW c \in Chars, Child(m, c) \in DOMAIN A PROVE FALSE
  <2> DEFINE o == Child(m, c)
  <2>1. m \in Labels
    BY <1>5 DEF Labels
  <2>2. Len(o) = Len(m) + 1 /\ \A p \in 1 .. Len(m) : o[p] = m[p]
    BY <2>1, ChildChars
  <2>3. o \in DOMAIN A
    BY <1>7
  <2> HIDE DEF o
  <2>4. Begins(l, o) /\ ~Begins(o, m)
    BY <1>1, <1>5, <2>2 DEF Begins
  <2>5. ASSUME NEW n \in DOMAIN A, Begins(o, n) PROVE Begins(m, n)
    <3>1. Len(n) \in Nat /\ Len(m) + 1 <= Len(n) /\ \A p \in 1 .. Len(m) + 1 : n[p] = o[p]
      BY <1>1, <2>2, <2>5 DEF Begins
    <3> QED BY <1>5, <2>2, <3>1 DEF Begins
  <2>6. o \in LabelsBelow(A, l) /\ LabelsBelow(A, o) \subseteq LabelsBelow(A, m)
        /\ m \in LabelsBelow(A, m) /\ m \notin LabelsBelow(A, o)
    BY <1>5, <2>3, <2>4, <2>5 DEF LabelsBelow, Begins
  <2>7. Cardinality(LabelsBelow(A, o)) < Cardinality(LabelsBelow(A, m))
    <3>1. IsFiniteSet(LabelsBelow(A, m)) /\ LabelsBelow(A, o) # LabelsBelow(A, m)
      BY <1>3, <1>5, <2>6
    <3>2. /\ Cardinality(LabelsBelow(A, o)) <= Cardinality(LabelsBelow(A, m))
          /\ Cardinality(LabelsBelow(A, o)) = Cardinality(LabelsBelow(A, m))
               => LabelsBelow(A, o) = LabelsBelow(A, m)
      BY <2>6, <3>1, FS_Subset
    <3> QED BY <1>3, <1>5, <2>3, <3>1, <3>2
  <2>8. Cardinality(LabelsBelow(A, m)) <= Cardinality(LabelsBelow(A, o))
    BY <1>4, <2>6
  <2> QED BY <1>3, <1>5, <2>3, <2>7, <2>8
<1>8. A[m] < 0
  BY <1>5, <1>6, <1>7 DEF Joined
<1> QED BY <1>5, <1>8

\* x and r have the same first k characters.
Same(x, r, k) == \A p \in 1 .. k : At(x, p) = At(r, p)

\* A walk along r has made k steps: it is at the node of r's first k characters, or in the block
\* of a separate node above, whose suffix goes on like r, or no key goes that way.
InNode(st, k, L, A, r) ==
  /\ ~st.is_suffix /\ st.index \in DOMAIN L
  /\ A[L[st.index]] = 1 /\ Along(L[st.index], r) /\ Len(L[st.index]) = k
InBlock(st, k, l, A, C, r) ==
  /\ st.is_suffix /\ l \in DOMAIN A /\ A[l] < 0 /\ st.index = -A[l] /\ Along(l, r) /\ Len(l) <= k
  /\ \A q \in 1 .. k - Len(l) : At(C[-A[l]].suffix, q) = At(r, Len(l) + q)
  /\ k <= Len(r) => st.suffix_idx = k - Len(l)
NoKey(k, A, C, r) == \A x \in Rests : \A v : Key(A, C, x, v) => ~Same(x, r, k)
Reached(st, k, L, A, C, r) ==
  \/ st # NoState /\ InNode(st, k, L, A, r)
  \/ st # NoState /\ \E l : InBlock(st, k, l, A, C, r)
  \/ st = NoState /\ NoKey(k, A, C, r)
States == [index : Int, suffix_idx : Int, is_suffix : BOOLEAN]

\* The last step goes from a node, and a key with the next character would have a child there.
LEMMA NoChildNoKey ==
  ASSUME NEW A, LabelTree(A), NEW C, NEW r \in Rests, NEW l \in DOMAIN A, A[l] = 1, Along(l, r),
         Child(l, At(r, Len(l) + 1)) \notin DOMAIN A
  PROVE  NoKey(Len(l) + 1, A, C, r)
<1> SUFFICES ASSUME NEW x \in Rests, NEW v, Key(A, C, x, v), Same(x, r, Len(l) + 1) PROVE FALSE
  BY DEF NoKey
<1>1. PICK m \in DOMAIN A : A[m] < 0 /\ Spelled(m, C[-A[m]].suffix, x)
  BY DEF Key
<1>2. Len(l) \in Nat
  BY DEF LabelTree, Labels
<1>3. Along(l, x)
  BY <1>2 DEF Along, Same
<1>4. Child(l, At(x, Len(l) + 1)) \in DOMAIN A
  BY <1>1, <1>3, LongerIs DEF Spelled
<1>5. At(x, Len(l) + 1) = At(r, Len(l) + 1)
  BY <1>2 DEF Same
<1> QED BY <1>4, <1>5

\* A key that goes on like r beyond a separate label has that label.
LEMMA KeyOfLabel ==
  ASSUME NEW A, LabelTree(A), NEW C, NEW r, NEW l \in DOMAIN A, A[l] < 0, Along(l, r),
         NEW k \in Nat, Len(l) <= k, NEW x, NEW v, Key(A, C, x, v), Same(x, r, k)
  PROVE  Spelled(l, C[-A[l]].suffix, x) /\ v = C[-A[l]].data
<1>1. PICK m \in DOMAIN A : A[m] < 0 /\ Spelled(m, C[-A[m]].suffix, x) /\ v = C[-A[m]].data
  BY DEF Key
<1>2. Len(l) \in Nat
  BY DEF LabelTree, Labels
<1>3. Along(l, x)
  BY <1>2 DEF Along, Same
<1>4. m = l
  BY <1>1, <1>3, SeparateOne DEF Spelled
<1> QED BY <1>1, <1>4

\* One step from a node (trie_state_walk).
LEMMA StepFromNode ==
  ASSUME NEW L, NEW A, Bears(da, L, A), NEW C, Joined(A, C), NEW r \in Rests,
         NEW k \in Nat, NEW st \in States, InNode(st, k, L, A, r)
  PROVE  LET g == trie_state_walk(st, At(r, k + 1)) IN
         g \in States /\ Reached(g, k + 1, L, A, C, r)
<1> DEFINE s == st.index
           l == L[s]
           c == At(r, k + 1)
           next == da_walk(da, s, c)
           g == trie_state_walk(st, c)
           m == Child(l, c)
<1>1. LabelTree(A) /\ IsTree(L, A)
  BY LabelTreeIs
<1>2. ~st.is_suffix /\ s \in DOMAIN L /\ A[l] = 1 /\ Along(l, r) /\ Len(l) = k
  BY DEF InNode
<1>3. l \in DOMAIN A /\ l \in Labels
  BY <1>1, <1>2 DEF IsTree
<1>4. c \in Chars
  BY StringIs DEF Positive
<1>5. IF m \in DOMAIN A THEN next \in DOMAIN L /\ next # TRIE_INDEX_ERROR /\ L[next] = m
                        ELSE next = TRIE_INDEX_ERROR
  BY <1>2, <1>4, WalkAt
<1>6. g = IF next = TRIE_INDEX_ERROR THEN NoState
          ELSE IF trie_da_is_separate(da, next)
          THEN [index |-> trie_da_get_tail_index(da, next), suffix_idx |-> 0, is_suffix |-> TRUE]
          ELSE [st EXCEPT !.index = next]
  BY <1>2 DEF trie_state_walk
<1>7. NoState \in States /\ NoState.index = TRIE_INDEX_ERROR /\ ~NoState.is_suffix /\ TRIE_INDEX_ERROR = 0
  BY DEF NoState, States, TRIE_INDEX_ERROR
<1>8. Along(m, r) /\ Len(m) = k + 1
  BY <1>2, <1>3, <1>4, AlongChild
<1> HIDE DEF next, g, m
<1>9. CASE next = TRIE_INDEX_ERROR
  <2>1. m \notin DOMAIN A
    BY <1>5, <1>9
  <2>2. NoKey(k + 1, A, C, r)
    BY <1>1, <1>2, <1>3, <2>1, NoChildNoKey DEF m
  <2> QED BY <1>6, <1>7, <1>9, <2>2 DEF Reached, g
<1>10. CASE next # TRIE_INDEX_ERROR /\ trie_da_is_separate(da, next)
  <2>1. m \in DOMAIN A /\ next \in DOMAIN L /\ L[next] = m
    BY <1>5, <1>10
  <2>2. A[m] < 0 /\ da_get_base(da, next) = A[m] /\ A[m] \in Int
    BY <1>1, <1>10, <2>1, BaseAt DEF trie_da_is_separate, LabelTree
  <2>3. g = [index |-> -A[m], suffix_idx |-> 0, is_suffix |-> TRUE]
    BY <1>6, <1>10, <2>2 DEF trie_da_get_tail_index
  <2>4. g \in States /\ g.is_suffix /\ g.index = -A[m] /\ g.suffix_idx = 0
    BY <2>2, <2>3 DEF States
  <2>5. InBlock(g, k + 1, m, A, C, r)
    BY <1>8, <2>1, <2>2, <2>4 DEF InBlock
  <2> QED BY <1>7, <2>4, <2>5 DEF Reached, g
<1>11. CASE next # TRIE_INDEX_ERROR /\ ~trie_da_is_separate(da, next)
  <2>1. m \in DOMAIN A /\ next \in DOMAIN L /\ L[next] = m /\ next \in Int
    BY <1>1, <1>5, <1>11 DEF IsTree
  <2>2. ~(A[m] < 0)
    BY <1>11, <2>1, BaseAt DEF trie_da_is_separate
  <2>3. A[m] = 1
    BY <1>1, <2>1, <2>2, MarkOf
  <2>4. g = [st EXCEPT !.index = next]
    BY <1>6, <1>11
  <2>5. g \in States /\ g.index = next /\ g.is_suffix = st.is_suffix
    BY <2>1, <2>4 DEF States
  <2>6. InNode(g, k + 1, L, A, r)
    BY <1>2, <1>8, <2>1, <2>3, <2>5 DEF InNode
  <2> QED BY <1>7, <1>11, <2>5, <2>6 DEF Reached, g
<1> QED BY <1>9, <1>10, <1>11 DEF g

\* One step in a block (tail_walk_char).
LEMMA StepInBlock ==
  ASSUME NEW L, NEW A, Bears(da, L, A), NEW C, TailHolds(tail, C), Joined(A, C), ShortBlocks(C),
         NEW r \in Rests, NEW k \in Nat, k <= Len(r), NEW st \in States, NEW l, InBlock(st, k, l, A, C, r)
  PROVE  LET g == trie_state_walk(st, At(r, k + 1)) IN
         /\ g \in States /\ Reached(g, k + 1, L, A, C, r)
         /\ g # NoState <=> At(C[-A[l]].suffix, k - Len(l) + 1) = At(r, k + 1)
<1> DEFINE c == At(r, k + 1)
           z == C[-A[l]].suffix
           i == k - Len(l)
           idx == tail_walk_char(tail, st.index, st.suffix_idx, c)
           g == trie_state_walk(st, c)
<1>1. LabelTree(A) /\ Len(r) \in Nat
  BY LabelTreeIs, StringIs
<1>2. /\ st.is_suffix /\ l \in DOMAIN A /\ A[l] < 0 /\ st.index = -A[l] /\ Along(l, r)
      /\ Len(l) <= k /\ st.suffix_idx = i
      /\ \A q \in 1 .. i : At(z, q) = At(r, Len(l) + q)
  BY DEF InBlock
<1>3. Len(l) \in Nat /\ i \in Nat /\ Len(l) + (i + 1) = k + 1 /\ (k + 1) - Len(l) = i + 1
  BY <1>1, <1>2 DEF LabelTree, Labels
<1>4. -A[l] \in DOMAIN C
  BY <1>2 DEF Joined
<1>5. tail_get_suffix(tail, -A[l]) = z /\ z \in Rests
  BY <1>4, BlockIs DEF Content
<1>6. z # NULL /\ Len(z) \in Nat
  BY <1>5, RestsAre
<1>7. SuffixChar(tail, st.index, st.suffix_idx) = At(z, i + 1)
  BY <1>2, <1>3, <1>5, <1>6 DEF SuffixChar, At, TRIE_CHAR_TERM
<1>8. idx = IF At(z, i + 1) # c THEN {} ELSE {IF c # 0 THEN i + 1 ELSE i}
  <2>1. At(z, i + 1) # 0 => Short(i + 1) = i + 1
    <3>1. At(z, i + 1) # 0 => i + 1 <= Len(z)
      BY DEF At, TRIE_CHAR_TERM
    <3>2. Len(z) <= SHORT_MAX /\ i + 1 \in Nat
      BY <1>3, <1>4 DEF ShortBlocks
    <3>3. SHORT_MAX \in Nat
      BY LengthsAssumption
    <3> DEFINE n == i + 1
    <3>4. n \in Nat /\ (At(z, n) # 0 => n <= Len(z))
      BY <3>1, <3>2
    <3> HIDE DEF n
    <3>5. n <= SHORT_MAX => Short(n) = n
      BY <3>4, ShortIs
    <3>6. Len(z) \in Nat /\ Len(z) <= SHORT_MAX
      BY <1>6, <3>2
    <3> HIDE DEF z
    <3>7. At(z, n) # 0 => Short(n) = n
      BY <3>3, <3>4, <3>5, <3>6
    <3> QED BY <3>7 DEF n
  <2>2. idx = IF At(z, i + 1) # c THEN {} ELSE {IF c # 0 THEN Short(i + 1) ELSE i}
    BY <1>2, <1>5, <1>6, <1>7 DEF tail_walk_char
  <2> HIDE DEF z, i, idx, c
  <2> QED BY <2>1, <2>2
<1>9. g = IF idx = {} THEN NoState ELSE [st EXCEPT !.suffix_idx = CHOOSE q \in idx : TRUE]
  BY <1>2 DEF trie_state_walk
<1>10. c \in Chars /\ (c = 0 <=> k + 1 > Len(r))
  BY <1>3, StringIs DEF Positive
<1>11. NoState \in States /\ ~NoState.is_suffix
  BY DEF NoState, States, TRIE_INDEX_ERROR
<1> HIDE DEF z, i, idx, g
<1>12. CASE At(z, i + 1) # c
  <2>1. g = NoState
    BY <1>8, <1>9, <1>12
  <2>2. NoKey(k + 1, A, C, r)
    <3> SUFFICES ASSUME NEW x \in Rests, NEW v, Key(A, C, x, v), Same(x, r, k + 1) PROVE FALSE
      BY DEF NoKey
    <3>1. Len(l) <= k + 1 /\ k + 1 \in Nat
      BY <1>2, <1>3
    <3>2. Spelled(l, z, x)
      BY <1>1, <1>2, <3>1, KeyOfLabel DEF z
    <3>3. At(z, i + 1) = At(x, k + 1)
      BY <1>3, <3>2 DEF Spelled, Positive
    <3>4. At(x, k + 1) = c
      BY <3>1 DEF Same
    <3> QED BY <1>12, <3>3, <3>4
  <2> QED BY <1>11, <1>12, <2>1, <2>2 DEF Reached, g, z, i
<1>13. CASE At(z, i + 1) = c
  <2> DEFINE j == IF c # 0 THEN i + 1 ELSE i
  <2>1. j \in Nat /\ (c # 0 => j = i + 1)
    BY <1>3
  <2>2. g = [st EXCEPT !.suffix_idx = j]
    <3>1. idx = {j}
      BY <1>8, <1>13
    <3> HIDE DEF j
    <3> QED BY <1>9, <3>1
  <2> HIDE DEF j
  <2>3. g \in States /\ g.is_suffix /\ g.index = -A[l] /\ g.suffix_idx = j
    BY <1>2, <2>1, <2>2 DEF States
  <2>4. g # NoState
    BY <1>11, <2>3
  <2>5. \A q \in 1 .. i + 1 : At(z, q) = At(r, Len(l) + q)
    <3>1. ASSUME NEW q \in 1 .. i + 1 PROVE At(z, q) = At(r, Len(l) + q)
      <4>1. CASE q = i + 1
        BY <1>3, <1>13, <4>1
      <4>2. CASE q # i + 1
        <5>1. q \in 1 .. i
          BY <1>3, <4>2
        <5> QED BY <1>2, <5>1
      <4> QED BY <4>1, <4>2
    <3> QED BY <3>1
  <2>6. k + 1 <= Len(r) => g.suffix_idx = i + 1
    BY <1>1, <1>10, <2>1, <2>3
  <2>7. Len(l) <= k + 1
    BY <1>2, <1>3
  <2>8. InBlock(g, k + 1, l, A, C, r)
    BY <1>2, <1>3, <2>3, <2>5, <2>6, <2>7 DEF InBlock, z
  <2> QED BY <1>13, <2>3, <2>4, <2>8 DEF Reached, g, z, i
<1> QED BY <1>12, <1>13 DEF g, z, i

\* One step more.
LEMMA WalkNextIs ==
  ASSUME NEW L, NEW A, Bears(da, L, A), NEW C, TailHolds(tail, C), Joined(A, C), ShortBlocks(C),
         NEW r \in Rests, NEW k \in Nat, k <= Len(r), NEW st \in States, Reached(st, k, L, A, C, r)
  PROVE  LET g == WalkNext(st, At(r, k + 1)) IN g \in States /\ Reached(g, k + 1, L, A, C, r)
<1> DEFINE g == WalkNext(st, At(r, k + 1))
<1>1. CASE st # NoState /\ InNode(st, k, L, A, r)
  <2>1. g = trie_state_walk(st, At(r, k + 1))
    BY <1>1 DEF WalkNext
  <2> QED BY <1>1, <2>1, StepFromNode
<1>2. CASE st # NoState /\ \E l : InBlock(st, k, l, A, C, r)
  <2>1. PICK l : InBlock(st, k, l, A, C, r)
    BY <1>2
  <2>2. g = trie_state_walk(st, At(r, k + 1))
    BY <1>2 DEF WalkNext
  <2> QED BY <2>1, <2>2, StepInBlock
<1>3. CASE st = NoState /\ NoKey(k, A, C, r)
  <2>1. g = NoState
    BY <1>3 DEF WalkNext
  <2>2. NoKey(k + 1, A, C, r)
    BY <1>3 DEF NoKey, Same
  <2> QED BY <1>3, <2>1, <2>2 DEF Reached
<1> QED BY <1>1, <1>2, <1>3 DEF Reached

\* str begins r, which may go on to its terminator.
Leads(str, r) == /\ str \in Seq(Chars) /\ Len(str) <= Len(r) + 1
                 /\ \A p \in 1 .. Len(str) : str[p] = At(r, p)

\* The state after walking such a string from the root.
LEMMA WalkStrIs ==
  ASSUME NEW L, NEW A, Bears(da, L, A), NEW C, TailHolds(tail, C), Joined(A, C), ShortBlocks(C),
         NEW r \in Rests, NEW str, Leads(str, r)
  PROVE  WalkStr(str) \in States /\ Reached(WalkStr(str), Len(str), L, A, C, r)
<1> DEFINE n == Len(str)
           I == {x \in Nat \X States : Reached(x[2], x[1], L, A, C, r)}
           step == [x \in (1 .. n) \X States |-> WalkNext(x[2], str[x[1]])]
           at == CHOOSE f : f = [k \in 0 .. n |-> IF k = 0 THEN trie_root ELSE WalkNext(f[k - 1], str[k])]
<1>1. LabelTree(A) /\ IsTree(L, A) /\ n \in Nat /\ Len(r) \in Nat /\ n <= Len(r) + 1
      /\ \A p \in 1 .. n : str[p] = At(r, p)
  BY LabelTreeIs, StringIs DEF Leads
<1>2. WalkStr(str) = at[n]
  BY DEF WalkStr
<1>3. <<0, trie_root>> \in I /\ trie_root \in States
  <2>1. trie_root \in States /\ trie_root # NoState /\ trie_root.index = ROOT /\ ~trie_root.is_suffix
    BY DEF trie_root, States, NoState, ROOT, TRIE_INDEX_ERROR
  <2>2. ROOT \in DOMAIN L /\ L[ROOT] = <<>> /\ A[<<>>] = 1 /\ Len(<<>>) = 0
    BY <1>1 DEF IsTree
  <2>3. Along(<<>>, r)
    BY DEF Along
  <2>4. Reached(trie_root, 0, L, A, C, r)
    BY <2>1, <2>2, <2>3 DEF Reached, InNode
  <2> QED BY <2>1, <2>4
<1> HIDE DEF n
<1>4. ASSUME NEW k \in 1 .. n, NEW v \in States, <<k - 1, v>> \in I
      PROVE  /\ step[<<k, v>>] = WalkNext(v, str[k])
             /\ step[<<k, v>>] \in States /\ <<k, step[<<k, v>>]>> \in I
  <2>1. k \in Nat /\ k - 1 \in Nat /\ (k - 1) + 1 = k /\ k - 1 <= Len(r)
    BY <1>1
  <2>2. Reached(v, k - 1, L, A, C, r)
    BY <1>4
  <2>3. step[<<k, v>>] = WalkNext(v, str[k])
    BY <2>1
  <2> HIDE DEF step
  <2>4. /\ WalkNext(v, At(r, (k - 1) + 1)) \in States
        /\ Reached(WalkNext(v, At(r, (k - 1) + 1)), (k - 1) + 1, L, A, C, r)
    BY <2>1, <2>2, WalkNextIs
  <2>5. str[k] = At(r, k)
    BY <1>1
  <2> QED BY <2>1, <2>3, <2>4, <2>5
<1>5. PICK f : Follows(f, n, trie_root, step) /\ \A k \in 0 .. n : f[k] \in States /\ <<k, f[k]>> \in I
  <2>1. \A k \in 1 .. n : \A v \in States : <<k - 1, v>> \in I =>
           step[<<k, v>>] \in States /\ <<k, step[<<k, v>>]>> \in I
    BY <1>4
  <2> HIDE DEF step, I
  <2> QED BY <1>1, <1>3, <2>1, GuidedRecursion
<1>6. f = [k \in 0 .. n |-> f[k]] /\ f[0] = trie_root /\ \A k \in 1 .. n : f[k] = step[<<k, f[k - 1]>>]
  BY <1>5 DEF Follows
<1> HIDE DEF step, I
<1>7. ASSUME NEW k \in 1 .. n PROVE f[k] = WalkNext(f[k - 1], str[k])
  <2>1. k - 1 \in 0 .. n
    BY <1>1
  <2>2. f[k - 1] \in States /\ <<k - 1, f[k - 1]>> \in I
    BY <1>5, <2>1
  <2> QED BY <1>4, <1>6, <2>2
<1>8. f = [k \in 0 .. n |-> IF k = 0 THEN trie_root ELSE WalkNext(f[k - 1], str[k])]
  <2>1. ASSUME NEW k \in 0 .. n PROVE f[k] = IF k = 0 THEN trie_root ELSE WalkNext(f[k - 1], str[k])
    <3>1. k # 0 => k \in 1 .. n
      BY <1>1
    <3> QED BY <1>6, <1>7, <3>1
  <2> QED BY <1>6, <2>1
<1>9. at = [k \in 0 .. n |-> IF k = 0 THEN trie_root ELSE WalkNext(at[k - 1], str[k])]
  BY <1>8
<1> HIDE DEF at
<1>10. \A k \in 0 .. n : at[k] = f[k]
  <2> DEFINE Alike == {k \in 0 .. n : at[k] = f[k]}
  <2>1. 0 \in Alike
    BY <1>1, <1>8, <1>9
  <2>2. ASSUME NEW k \in 1 .. n, k - 1 \in Alike PROVE k \in Alike
    BY <1>1, <1>7, <1>9, <2>2
  <2> HIDE DEF Alike
  <2>3. \A k \in 0 .. n : k \in Alike
    BY <1>1, <2>1, <2>2, UpToInduction
  <2> QED BY <2>3 DEF Alike
<1>11. n \in 0 .. n
  BY <1>1
<1>12. f[n] \in States /\ <<n, f[n]>> \in I /\ at[n] = f[n]
  BY <1>5, <1>10, <1>11
<1>13. Reached(f[n], n, L, A, C, r)
  BY <1>12 DEF I
<1> QED BY <1>2, <1>12, <1>13 DEF n

\* Where a walk has come to there is a key.
LEMMA ReachedKey ==
  ASSUME NEW L, NEW A, Bears(da, L, A), NEW C, TailHolds(tail, C), Joined(A, C), NEW r \in Rests,
         NEW k \in Nat, k > 0, NEW st, st # NoState, Reached(st, k, L, A, C, r)
  PROVE  \E x \in Rests : \E v : Key(A, C, x, v) /\ Same(x, r, k)
<1>1. LabelTree(A) /\ IsTree(L, A) /\ Blocks(C)
  BY LabelTreeIs, BlocksHold
<1>2. CASE InNode(st, k, L, A, r)
  <2> DEFINE l == L[st.index]
  <2>1. l \in DOMAIN A /\ Along(l, r) /\ Len(l) = k
    BY <1>1, <1>2 DEF InNode, IsTree
  <2> HIDE DEF l
  <2>2. l # <<>>
    BY <2>1
  <2>3. IsFiniteSet(DOMAIN A)
    BY <1>1, LabelsFinite
  <2>4. PICK m \in DOMAIN A : A[m] < 0 /\ Begins(l, m)
    BY <1>1, <2>1, <2>2, <2>3, SeparateBelow
  <2>5. PICK x \in Rests : Spelled(m, C[-A[m]].suffix, x)
    BY <1>1, <2>4, SpellsOne
  <2>6. Len(m) \in Nat /\ k <= Len(m)
    BY <1>1, <2>1, <2>4 DEF LabelTree, Labels, Begins
  <2>7. ASSUME NEW p \in 1 .. k PROVE At(x, p) = At(r, p)
    <3>1. p \in 1 .. Len(m)
      BY <2>6
    <3>2. m[p] = At(x, p)
      BY <2>5, <3>1 DEF Spelled, Along
    <3>3. m[p] = l[p] /\ l[p] = At(r, p)
      BY <2>1, <2>4 DEF Begins, Along
    <3> QED BY <3>2, <3>3
  <2>8. Key(A, C, x, C[-A[m]].data)
    BY <2>4, <2>5 DEF Key
  <2> QED BY <2>7, <2>8 DEF Same
<1>3. ASSUME NEW l, InBlock(st, k, l, A, C, r)
      PROVE  \E x \in Rests : \E v : Key(A, C, x, v) /\ Same(x, r, k)
  <2> DEFINE z == C[-A[l]].suffix
  <2>1. /\ l \in DOMAIN A /\ A[l] < 0 /\ Along(l, r) /\ Len(l) <= k
        /\ \A q \in 1 .. k - Len(l) : At(z, q) = At(r, Len(l) + q)
    BY <1>3 DEF InBlock
  <2>2. Len(l) \in Nat
    BY <1>1, <2>1 DEF LabelTree, Labels
  <2>3. PICK x \in Rests : Spelled(l, z, x)
    BY <1>1, <2>1, SpellsOne
  <2> HIDE DEF z
  <2>4. ASSUME NEW p \in 1 .. k PROVE At(x, p) = At(r, p)
    <3>1. CASE p <= Len(l)
      <4>1. p \in 1 .. Len(l)
        BY <2>2, <3>1
      <4> QED BY <2>1, <2>3, <4>1 DEF Spelled, Along
    <3>2. CASE ~(p <= Len(l))
      <4> DEFINE q == p - Len(l)
      <4>1. q \in 1 .. k - Len(l) /\ Len(l) + q = p /\ q \in Positive
        BY <2>2, <3>2 DEF Positive
      <4> HIDE DEF q
      <4>2. At(z, q) = At(x, Len(l) + q)
        BY <2>3, <4>1 DEF Spelled
      <4>3. At(z, q) = At(r, Len(l) + q)
        BY <2>1, <4>1
      <4> QED BY <4>1, <4>2, <4>3
    <3> QED BY <3>1, <3>2
  <2>5. Key(A, C, x, C[-A[l]].data)
    BY <2>1, <2>3 DEF Key, z
  <2> QED BY <2>4, <2>5 DEF Same
<1> QED BY <1>2, <1>3 DEF Reached

\* A string that has all characters of r and its terminator is r.
LEMMA SameIsOne ==
  ASSUME NEW x \in Rests, NEW r \in Rests, Same(x, r, Len(r) + 1)
  PROVE  x = r
<1>1. Len(r) \in Nat /\ Len(x) \in Nat
  BY StringIs
<1>2. At(x, Len(r) + 1) = At(r, Len(r) + 1)
  BY <1>1 DEF Same
<1>3. At(r, Len(r) + 1) = 0
  BY <1>1, StringIs DEF Positive
<1>4. Len(x) < Len(r) + 1
  BY <1>1, <1>2, <1>3, StringIs DEF Positive
<1>5. ASSUME NEW p \in Positive PROVE At(x, p) = At(r, p)
  <2>1. CASE p <= Len(r) + 1
    BY <1>1, <2>1 DEF Same, Positive
  <2>2. CASE ~(p <= Len(r) + 1)
    <3>1. p > Len(x) /\ p > Len(r)
      BY <1>1, <1>4, <2>2 DEF Positive
    <3>2. At(x, p) = 0 /\ At(r, p) = 0
      BY <3>1, StringIs
    <3> QED BY <3>2
  <2> QED BY <2>1, <2>2
<1> QED BY <1>5, SameString

\* A walk that has taken the terminator is at a key, and has its data.
LEMMA EndIsKey ==
  ASSUME NEW L, NEW A, Bears(da, L, A), NEW C, TailHolds(tail, C), Joined(A, C), NEW r \in Rests,
         NEW st, st # NoState, Reached(st, Len(r) + 1, L, A, C, r)
  PROVE  Key(A, C, r, trie_state_get_data(st))
<1>1. LabelTree(A) /\ IsTree(L, A) /\ Blocks(C) /\ Len(r) \in Nat
  BY LabelTreeIs, BlocksHold, StringIs
<1>2. ~InNode(st, Len(r) + 1, L, A, r)
  <2> SUFFICES ASSUME InNode(st, Len(r) + 1, L, A, r) PROVE FALSE
    OBVIOUS
  <2> DEFINE l == L[st.index]
  <2>1. l \in DOMAIN A /\ Along(l, r) /\ Len(l) = Len(r) + 1 /\ A[l] = 1
    BY <1>1 DEF InNode, IsTree
  <2> HIDE DEF l
  <2>2. l[Len(r) + 1] = At(r, Len(r) + 1) /\ Len(r) + 1 \in 1 .. Len(l)
    BY <1>1, <2>1 DEF Along
  <2>3. At(r, Len(r) + 1) = 0
    BY <1>1, StringIs DEF Positive
  <2>4. A[l] < 0
    BY <2>1, <2>2, <2>3 DEF Joined
  <2> QED BY <2>1, <2>4
<1>3. PICK l : InBlock(st, Len(r) + 1, l, A, C, r)
  BY <1>2 DEF Reached
<1>4. st.is_suffix /\ l \in DOMAIN A /\ A[l] < 0 /\ st.index = -A[l] /\ Along(l, r) /\ Len(l) <= Len(r) + 1
  BY <1>3 DEF InBlock
<1>5. PICK x \in Rests : \E v : Key(A, C, x, v) /\ Same(x, r, Len(r) + 1)
  BY <1>1, ReachedKey
<1>6. x = r
  BY <1>5, SameIsOne
<1>7. PICK v : Key(A, C, r, v) /\ Same(r, r, Len(r) + 1)
  BY <1>5, <1>6
<1>8. v = C[-A[l]].data
  <2>1. PICK m \in DOMAIN A : A[m] < 0 /\ Spelled(m, C[-A[m]].suffix, r) /\ v = C[-A[m]].data
    BY <1>7 DEF Key
  <2>2. m = l
    BY <1>1, <1>4, <2>1, SeparateOne DEF Spelled
  <2> QED BY <2>1, <2>2
<1>9. -A[l] \in DOMAIN C
  BY <1>4 DEF Joined
<1>10. trie_state_get_data(st) = C[-A[l]].data
  BY <1>4, <1>9, BlockIs DEF trie_state_get_data
<1> QED BY <1>7, <1>8, <1>10

\* A leaf is a key that begins no other (trie_state_is_leaf).
LEMMA LeafIsKey ==
  ASSUME NEW L, NEW A, Bears(da, L, A), NEW C, TailHolds(tail, C), Joined(A, C), ShortBlocks(C),
         NEW r \in Rests, NEW st \in States, st # NoState, Reached(st, Len(r), L, A, C, r),
         trie_state_is_leaf(st)
  PROVE  /\ \E v : Key(A, C, r, v)
         /\ \A x \in Rests : \A v : Key(A, C, x, v) /\ Same(x, r, Len(r)) => x = r
<1>1. LabelTree(A) /\ IsTree(L, A) /\ Blocks(C) /\ Len(r) \in Nat
  BY LabelTreeIs, BlocksHold, StringIs
<1>2. st.is_suffix /\ trie_state_walk(st, TRIE_CHAR_TERM) # NoState
  BY DEF trie_state_is_leaf, trie_state_is_walkable
<1>3. PICK l : InBlock(st, Len(r), l, A, C, r)
  BY <1>2 DEF Reached, InNode
<1>4. l \in DOMAIN A /\ A[l] < 0 /\ Along(l, r) /\ Len(l) <= Len(r)
  BY <1>3 DEF InBlock
<1>5. At(r, Len(r) + 1) = TRIE_CHAR_TERM
  BY <1>1, StringIs DEF Positive, TRIE_CHAR_TERM
<1>6. /\ Reached(trie_state_walk(st, TRIE_CHAR_TERM), Len(r) + 1, L, A, C, r)
  BY <1>1, <1>3, <1>5, StepInBlock
<1>7. Key(A, C, r, trie_state_get_data(trie_state_walk(st, TRIE_CHAR_TERM)))
  BY <1>2, <1>6, EndIsKey
<1>8. ASSUME NEW x \in Rests, NEW v, Key(A, C, x, v), Same(x, r, Len(r)) PROVE x = r
  <2>1. Spelled(l, C[-A[l]].suffix, x)
    BY <1>1, <1>4, <1>8, KeyOfLabel
  <2>2. Same(r, r, Len(r))
    BY DEF Same
  <2>3. Spelled(l, C[-A[l]].suffix, r)
    BY <1>1, <1>4, <1>7, <2>2, KeyOfLabel
  <2>4. l \in Labels
    BY <1>1, <1>4 DEF LabelTree
  <2> QED BY <2>1, <2>3, <2>4, SpelledOne
<1> QED BY <1>7, <1>8

\* A key begins with a string if its codes begin with those of the string.
LEMMA CodesBegin ==
  ASSUME NEW am, Sharp(am), NEW str \in Seq(Characters), NEW key \in Seq(Characters)
  PROVE  Same(CodesOf(am, key), CodesOf(am, str), Len(str)) <=> IsPrefix(str, key)
<1> DEFINE code(c) == alpha_map_char_to_trie(am, c)
           x == CodesOf(am, key)
           r == CodesOf(am, str)
<1>1. /\ \A c \in Characters : code(c) \in 1 .. TRIE_CHAR_MAX - 1
      /\ \A c, d \in Characters : code(c) = code(d) => c = d
  BY DEF Sharp
<1>2. /\ Len(key) \in Nat /\ Len(str) \in Nat /\ DOMAIN key = 1 .. Len(key) /\ DOMAIN str = 1 .. Len(str)
      /\ \A p \in 1 .. Len(key) : key[p] \in Characters
      /\ \A p \in 1 .. Len(str) : str[p] \in Characters
  OBVIOUS
<1>3. x \in Rests /\ r \in Rests
  BY CodesAre
<1>4. x = [p \in 1 .. Len(key) |-> code(key[p])] /\ r = [p \in 1 .. Len(str) |-> code(str[p])]
  BY <1>2 DEF CodesOf
<1>5. Len(x) = Len(key) /\ Len(r) = Len(str)
  BY <1>2, <1>3, <1>4, SameLength DEF Rests
<1> HIDE DEF code, x, r
<1>6. IsPrefix(str, key) <=> Len(str) <= Len(key) /\ \A p \in 1 .. Len(str) : str[p] = key[p]
  <2>1. ASSUME Len(str) <= Len(key)
        PROVE  SubSeq(str, 1, Len(str)) = SubSeq(key, 1, Len(str)) <=> \A p \in 1 .. Len(str) : str[p] = key[p]
    <3>1. SubSeq(str, 1, Len(str)) = str
      BY <1>2
    <3>2. /\ SubSeq(key, 1, Len(str)) \in Seq(Characters) /\ Len(SubSeq(key, 1, Len(str))) = Len(str)
          /\ \A p \in 1 .. Len(str) : SubSeq(key, 1, Len(str))[p] = key[p]
      BY <1>2, <2>1
    <3> QED BY <1>2, <3>1, <3>2
  <2> QED BY <2>1 DEF IsPrefix
<1>7. ASSUME Same(x, r, Len(str)) PROVE Len(str) <= Len(key) /\ \A p \in 1 .. Len(str) : str[p] = key[p]
  <2>1. \A p \in 1 .. Len(str) : At(x, p) = At(r, p)
    BY <1>7 DEF Same
  <2>2. Len(str) <= Len(key)
    <3> SUFFICES ASSUME Len(key) < Len(str) PROVE FALSE
      BY <1>2
    <3>1. Len(str) \in 1 .. Len(str) /\ Len(str) \in Positive
      BY <1>2 DEF Positive
    <3>2. At(x, Len(str)) = 0 /\ At(r, Len(str)) # 0
      BY <1>2, <1>3, <1>5, <3>1, StringIs
    <3> QED BY <2>1, <3>1, <3>2
  <2>3. ASSUME NEW p \in 1 .. Len(str) PROVE str[p] = key[p]
    <3>1. p \in 1 .. Len(key) /\ p <= Len(x) /\ p <= Len(r)
      BY <1>2, <1>5, <2>2
    <3>2. At(x, p) = code(key[p]) /\ At(r, p) = code(str[p])
      BY <1>4, <3>1 DEF At
    <3> QED BY <1>1, <1>2, <2>1, <3>1, <3>2
  <2> QED BY <2>2, <2>3
<1>8. ASSUME Len(str) <= Len(key), \A p \in 1 .. Len(str) : str[p] = key[p] PROVE Same(x, r, Len(str))
  <2>1. ASSUME NEW p \in 1 .. Len(str) PROVE At(x, p) = At(r, p)
    <3>1. p \in 1 .. Len(key) /\ p <= Len(x) /\ p <= Len(r)
      BY <1>2, <1>5, <1>8
    <3>2. At(x, p) = code(key[p]) /\ At(r, p) = code(str[p])
      BY <1>4, <3>1 DEF At
    <3> QED BY <1>8, <3>2
  <2> QED BY <2>1 DEF Same
<1> QED BY <1>6, <1>7, <1>8 DEF x, r

\* A string leads its own way, and so it does with its terminator.
LEMMA PathOf ==
  ASSUME NEW r \in Rests
  PROVE  /\ Leads(r, r)
         /\ Leads(Append(r, TRIE_CHAR_TERM), r) /\ Len(Append(r, TRIE_CHAR_TERM)) = Len(r) + 1
<1> DEFINE t == Append(r, TRIE_CHAR_TERM)
<1>1. r \in Seq(1 .. TRIE_CHAR_MAX - 1) /\ Len(r) \in Nat /\ TRIE_CHAR_MAX \in Nat
  BY CharMaxIs DEF Rests
<1>2. 1 .. TRIE_CHAR_MAX - 1 \subseteq Chars /\ TRIE_CHAR_TERM \in Chars
  BY <1>1, CharMaxIs DEF Chars
<1>3. r \in Seq(Chars)
  BY <1>1, <1>2
<1>4. t \in Seq(Chars) /\ Len(t) = Len(r) + 1 /\ t[Len(r) + 1] = TRIE_CHAR_TERM
      /\ \A p \in 1 .. Len(r) : t[p] = r[p]
  BY <1>2, <1>3
<1>5. \A p \in 1 .. Len(r) : r[p] = At(r, p)
  BY <1>1 DEF At
<1> HIDE DEF t
<1>6. ASSUME NEW p \in 1 .. Len(t) PROVE t[p] = At(r, p)
  <2>1. CASE p \in 1 .. Len(r)
    BY <1>4, <1>5, <2>1
  <2>2. CASE p \notin 1 .. Len(r)
    <3>1. p = Len(r) + 1 /\ ~(p <= Len(r))
      BY <1>1, <1>4, <2>2
    <3> QED BY <1>4, <3>1 DEF At
  <2> QED BY <2>1, <2>2
<1> QED BY <1>1, <1>3, <1>4, <1>5, <1>6 DEF Leads, t

\* What the walks along one string tell.
WalkTells(str) ==
  LET below == {k \in {e[1] : e \in dict} : IsPrefix(str, k)}
      st == WalkStr(Codes(str))
      end == WalkStr(Append(Codes(str), TRIE_CHAR_TERM))
  IN
  /\ str # <<>> => (st # NoState <=> below # {})
  /\ st # NoState => (trie_state_is_leaf(st) => below = {str})
  /\ end # NoState <=> str \in {e[1] : e \in dict}
  /\ end # NoState => <<str, trie_state_get_data(end)>> \in dict

\* The walks along one string.
LEMMA WalkOf ==
  ASSUME TrieInv, NEW str \in Strings
  PROVE  WalkTells(str)
<1> DEFINE r == CodesOf(alpha_map, str)
           keys == {e[1] : e \in dict}
           below == {k \in keys : IsPrefix(str, k)}
           st == WalkStr(r)
           end == WalkStr(Append(r, TRIE_CHAR_TERM))
<1>1. PICK u, L, A, C :
        /\ Shape(u, L, A, C)
        /\ \A x \in Rests : \A v : Key(A, C, x, v) <=> <<x, v>> \in Entries(alpha_map, dict)
  BY ShapeIs
<1>2. Bears(da, L, A) /\ TailHolds(tail, C) /\ Joined(A, C)
  BY <1>1 DEF Shape, Bears
<1>3. AlphaInv /\ added = Characters /\ dict \in SUBSET (Keys \X TrieData)
  BY DEF TrieInv
<1>19. ShortBlocks(C)
  <2>1. LabelTree(A) /\ Blocks(C)
    BY <1>2, LabelTreeIs, BlocksHold
  <2> QED BY <1>1, <1>2, <1>3, <2>1, BlocksAreShort
<1>4. Sharp(alpha_map) /\ str \in Seq(Characters)
  BY <1>3, MapIsSharp, KeysAssumption
<1>5. r \in Rests /\ Codes(str) = r /\ Len(r) = Len(str) /\ Len(str) \in Nat
  <2>1. r \in Rests
    BY <1>4, CodesAre
  <2>2. Codes(str) = r
    BY DEF Codes, CodesOf
  <2>3. Len(str) \in Nat /\ DOMAIN str = 1 .. Len(str) /\ DOMAIN r = DOMAIN str
    BY <1>4 DEF CodesOf
  <2> HIDE DEF r
  <2>4. Len(r) \in Nat /\ DOMAIN r = 1 .. Len(r)
    BY <2>1 DEF Rests
  <2> QED BY <2>1, <2>2, <2>3, <2>4
<1>6. ASSUME NEW key \in Seq(Characters), NEW v
      PROVE  Key(A, C, CodesOf(alpha_map, key), v) <=> <<key, v>> \in dict
  <2>1. CodesOf(alpha_map, key) \in Rests
    BY <1>4, CodesAre
  <2>2. <<CodesOf(alpha_map, key), v>> \in Entries(alpha_map, dict) <=> <<key, v>> \in dict
    BY <1>3, <1>4, EntriesAre
  <2> QED BY <1>1, <2>1, <2>2
<1>7. ASSUME NEW key, NEW v, <<key, v>> \in dict PROVE key \in keys /\ key \in Seq(Characters)
  <2>1. key \in Keys /\ <<key, v>>[1] = key
    BY <1>3, <1>7
  <2> QED BY <1>7, <2>1, KeysAre
<1>8. ASSUME NEW key \in keys PROVE key \in Seq(Characters) /\ \E v : <<key, v>> \in dict
  <2>1. PICK e \in dict : key = e[1]
    BY <1>8
  <2>2. e = <<key, e[2]>> /\ key \in Keys
    BY <1>3, <2>1
  <2> QED BY <2>1, <2>2, KeysAre
<1>9. ASSUME NEW x \in Rests, NEW v, Key(A, C, x, v)
      PROVE  \E key \in keys : key \in Seq(Characters) /\ x = CodesOf(alpha_map, key) /\ <<key, v>> \in dict
  <2>1. <<x, v>> \in Entries(alpha_map, dict)
    BY <1>1, <1>9
  <2>2. PICK e \in dict : <<x, v>> = <<CodesOf(alpha_map, e[1]), e[2]>>
    BY <2>1 DEF Entries
  <2>3. e = <<e[1], e[2]>> /\ e[1] \in Keys
    BY <1>3
  <2>4. e[1] \in keys /\ e[1] \in Seq(Characters) /\ x = CodesOf(alpha_map, e[1]) /\ v = e[2]
    BY <2>2, <2>3, KeysAre
  <2> QED BY <2>2, <2>3, <2>4
<1>10. ASSUME NEW key \in Seq(Characters)
       PROVE  Same(CodesOf(alpha_map, key), r, Len(str)) <=> IsPrefix(str, key)
  BY <1>4, CodesBegin
<1>11. /\ st \in States /\ Reached(st, Len(str), L, A, C, r)
  <2>1. Leads(r, r)
    BY <1>5, PathOf
  <2> HIDE DEF r
  <2>2. st \in States /\ Reached(st, Len(r), L, A, C, r)
    BY <1>2, <1>5, <1>19, <2>1, WalkStrIs
  <2> QED BY <1>5, <2>2
<1>12. end \in States /\ Reached(end, Len(r) + 1, L, A, C, r)
  <2>1. Leads(Append(r, TRIE_CHAR_TERM), r) /\ Len(Append(r, TRIE_CHAR_TERM)) = Len(r) + 1
    BY <1>5, PathOf
  <2> HIDE DEF r
  <2>2. end \in States /\ Reached(end, Len(Append(r, TRIE_CHAR_TERM)), L, A, C, r)
    BY <1>2, <1>5, <1>19, <2>1, WalkStrIs
  <2> QED BY <2>1, <2>2
<1> HIDE DEF r, st, end, keys
<1>13. ASSUME str # <<>>, st # NoState PROVE below # {}
  <2>1. Len(str) > 0
    BY <1>4, <1>5, <1>13
  <2>2. PICK x \in Rests : \E v : Key(A, C, x, v) /\ Same(x, r, Len(str))
    BY <1>2, <1>5, <1>11, <1>13, <2>1, ReachedKey
  <2>3. PICK key \in keys : key \in Seq(Characters) /\ x = CodesOf(alpha_map, key)
    BY <1>9, <2>2
  <2>4. IsPrefix(str, key)
    BY <1>10, <2>2, <2>3
  <2> QED BY <2>3, <2>4
<1>14. ASSUME st = NoState PROVE below = {}
  <2> SUFFICES ASSUME NEW key \in keys, IsPrefix(str, key) PROVE FALSE
    OBVIOUS
  <2>1. key \in Seq(Characters) /\ \E v : <<key, v>> \in dict
    BY <1>8
  <2>2. PICK v : Key(A, C, CodesOf(alpha_map, key), v)
    BY <1>6, <2>1
  <2>3. Same(CodesOf(alpha_map, key), r, Len(str)) /\ CodesOf(alpha_map, key) \in Rests
    BY <1>4, <1>10, <2>1, CodesAre
  <2>4. NoKey(Len(str), A, C, r)
    BY <1>11, <1>14 DEF Reached
  <2> QED BY <2>2, <2>3, <2>4 DEF NoKey
<1>15. ASSUME st # NoState, trie_state_is_leaf(st) PROVE below = {str}
  <2>1. /\ \E v : Key(A, C, r, v)
        /\ \A x \in Rests : \A v : Key(A, C, x, v) /\ Same(x, r, Len(str)) => x = r
    <3>1. Reached(st, Len(r), L, A, C, r)
      BY <1>5, <1>11
    <3>2. /\ \E v : Key(A, C, r, v)
          /\ \A x \in Rests : \A v : Key(A, C, x, v) /\ Same(x, r, Len(r)) => x = r
      BY <1>2, <1>5, <1>11, <1>15, <1>19, <3>1, LeafIsKey
    <3> QED BY <1>5, <3>2
  <2>2. str \in keys
    BY <1>4, <1>6, <1>7, <2>1 DEF r
  <2>3. IsPrefix(str, str)
    <3>1. Same(r, r, Len(str))
      BY DEF Same
    <3> QED BY <1>4, <1>10, <3>1 DEF r
  <2>4. ASSUME NEW key \in keys, IsPrefix(str, key) PROVE key = str
    <3>1. key \in Seq(Characters) /\ \E v : <<key, v>> \in dict
      BY <1>8
    <3>2. PICK v : Key(A, C, CodesOf(alpha_map, key), v)
      BY <1>6, <3>1
    <3>3. Same(CodesOf(alpha_map, key), r, Len(str)) /\ CodesOf(alpha_map, key) \in Rests
      BY <1>4, <1>10, <2>4, <3>1, CodesAre
    <3>4. CodesOf(alpha_map, key) = CodesOf(alpha_map, str)
      BY <2>1, <3>2, <3>3 DEF r
    <3> QED BY <1>4, <3>1, <3>4, CodesAre
  <2> QED BY <2>2, <2>3, <2>4
<1>16. ASSUME end # NoState
       PROVE  str \in keys /\ <<str, trie_state_get_data(end)>> \in dict
  <2>1. Key(A, C, r, trie_state_get_data(end))
    BY <1>2, <1>5, <1>12, <1>16, EndIsKey
  <2>2. <<str, trie_state_get_data(end)>> \in dict
    BY <1>4, <1>6, <2>1 DEF r
  <2> QED BY <1>7, <2>2
<1>17. ASSUME end = NoState, str \in keys PROVE FALSE
  <2>1. PICK v : <<str, v>> \in dict
    BY <1>8, <1>17
  <2>2. Key(A, C, r, v)
    BY <1>4, <1>6, <2>1 DEF r
  <2>3. NoKey(Len(r) + 1, A, C, r)
    BY <1>12, <1>17 DEF Reached
  <2> QED BY <1>5, <2>2, <2>3 DEF NoKey, Same
<1>18. WalkStr(Codes(str)) = st /\ WalkStr(Append(Codes(str), TRIE_CHAR_TERM)) = end
  BY <1>5 DEF st, end
<1> QED BY <1>13, <1>14, <1>15, <1>16, <1>17, <1>18 DEF WalkTells, keys

\* The walks tell what the trie retrieves (WalkExact).
LEMMA WalkHolds ==
  ASSUME TrieInv
  PROVE  WalkExact
<1>1. Stored = dict
  BY MapHolds
<1>2. \A str \in Strings : WalkTells(str)
  BY WalkOf
<1> HIDE DEF Stored
<1> QED BY <1>1, <1>2 DEF WalkExact, WalkTells

(***************************************************************************)
(* The theorems                                                            *)
(***************************************************************************)

\* Whatever is stored, deleted, saved and loaded, the invariant holds: the alphabet is the
\* one the trie was made with, and the array and the tail are the tree and the blocks of
\* the dictionary (trie_store_conditionally, trie_delete, trie_save, trie_fread).
THEOREM TrieHolds == TrieSpec => []TrieInv
BY TrieInvInit, TrieInvStep, PTL DEF TrieSpec

\* The array is as long as its header says and within TRIE_INDEX_MAX, its cells are
\* numbers, and the first free block of the tail is a block or none (da_extend_pool,
\* tail_alloc_block).
THEOREM TrieTypesHold == TrieSpec => []TrieTypeOK
<1>1. TrieInv => TrieTypeOK
  BY TypeHolds
<1> QED BY <1>1, TrieHolds, PTL

\* The free cells are one ascending circular list, in both directions: no insertion,
\* relocation, extension or pruning loses a cell or links one twice (da_alloc_cell,
\* da_free_cell, da_extend_pool, da_relocate_base).
THEOREM FreeListStaysSound == TrieSpec => []FreeListSound
<1>1. TrieInv => FreeListSound
  BY FreeListHolds
<1> QED BY <1>1, TrieHolds, PTL

\* Every node hangs on a parent that has it at base + c, leads to a key, and goes back to
\* the root from parent to parent: nodes form no cycle of their own (da_relocate_base,
\* da_prune_upto).
THEOREM NodesStaySound == TrieSpec => []NodesSound
<1>1. TrieInv => NodesSound
  BY NodesHold
<1> QED BY <1>1, TrieHolds, PTL

\* Each allocated block of the tail belongs to exactly one separate node, a free one to
\* none (trie_branch_in_tail, tail_alloc_block, tail_delete).
THEOREM TailsStayOwned == TrieSpec => []TailsOwned
<1>1. TrieInv => TailsOwned
  BY TailsHold
<1> QED BY <1>1, TrieHolds, PTL

\* The trie is a map: what any string retrieves is what the operations that answered TRUE
\* stored for it last and did not delete; an operation changes the entry of its own key and
\* no other, and one that fails halfway changes none (trie_retrieve,
\* trie_store_conditionally, trie_branch_in_tail, trie_delete).
THEOREM TrieIsAMap == TrieSpec => []MapExact
<1>1. TrieInv => MapExact
  BY MapHolds DEF MapExact
<1> QED BY <1>1, TrieHolds, PTL

\* A trie that is not dirty retrieves what it did when it was last saved, unless that file
\* was cut off by a save that failed (trie_store_conditionally, trie_delete, trie_save).
THEOREM CleanStaysSaved == TrieSpec => []CleanMeansSaved
<1>1. ASSUME TrieInv PROVE CleanMeansSaved
  <2>1. Stored = dict /\ (~is_dirty => saved = dict)
    BY <1>1, MapHolds DEF TrieInv
  <2> QED BY <2>1 DEF CleanMeansSaved
<1> QED BY <1>1, TrieHolds, PTL

\* The file of a trie gives the same trie back if it is whole - alphabet, array and blocks,
\* but for the suffixes of free ones - and is refused if it was cut off anywhere
\* (trie_fread, alpha_map_fread_bin, da_fread, tail_fread).
THEOREM FilesStayExact == TrieSpec => []FileExact
<1>1. TrieInv => FileExact
  BY FileHolds
<1> QED BY <1>1, TrieHolds, PTL

\* A walk character by character tells of every string what retrieval tells of the keys
\* it begins: whether there is one, whether it is one itself, with its data, and, at a
\* leaf, that there is no other (trie_state_walk, trie_state_is_leaf, trie_state_get_data).
THEOREM WalksAreExact == TrieSpec => []WalkExact
<1>1. TrieInv => WalkExact
  BY WalkHolds
<1> QED BY <1>1, TrieHolds, PTL
=============================================================================
