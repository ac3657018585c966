-------------------------------- MODULE Trie --------------------------------
(***************************************************************************)
(* The trie, trie.c, over its alphabet, its double array and its tail:     *)
(* stores, deletions, saving and loading as actions, retrieval,            *)
(* enumeration and stepwise walks as operators on the state.  A key is a   *)
(* sequence of characters without the terminator.                          *)
(*                                                                         *)
(* Characters are taken from the alphabet: one outside it has the code     *)
(* TRIE_CHAR_MAX, which the loops over children do not see.                *)
(***************************************************************************)
EXTENDS AlphaMap, DArray, TailBlocks

CONSTANTS Alphabet,   \* the ranges of the alphabet, as list2tri.c adds them
          Keys,       \* the keys that are stored and deleted
          Strings,    \* the keys that are looked up
          TrieData,   \* the data of keys
          MaxTails    \* bound on the blocks of the tail, which grows without end

\* The characters of the alphabet, which has a code of one byte for each.
Characters == UNION {Alphabet[i][1] .. Alphabet[i][2] : i \in DOMAIN Alphabet}

ASSUME AlphabetAssumption == /\ Alphabet \in Seq(AlphaChars \X AlphaChars)
                             /\ Cardinality(Characters) < TRIE_CHAR_MAX
ASSUME KeysAssumption == Keys \subseteq Strings /\ Strings \subseteq Seq(Characters)
ASSUME LimitsAssumption == TRIE_INDEX_MAX >= DA_POOL_BEGIN /\ NULL \notin Seq(Nat)
\* list2tri.c stores the lines of a buffer of 80 bytes.
ASSUME LengthsAssumption == SHORT_MAX \in Nat /\ \A k \in Keys : Len(k) <= SHORT_MAX

VARIABLES da, tail, is_dirty,
          dict,   \* history: the entries, as the answers of the operations have them
          saved,  \* history: the entries when is_dirty was last taken down, {} once it is up
          cut     \* history: the file last saved was cut off

trieVars == <<alphaVars, da, tail, is_dirty, dict, saved, cut>>

\* alpha_map_char_to_trie_str, and the character at position p of a string.
Codes(key) == [i \in DOMAIN key |-> alpha_map_char_to_trie(alpha_map, key[i])]
At(str, p) == IF p <= Len(str) THEN str[p] ELSE TRIE_CHAR_TERM
From(str, p) == SubSeq(str, p, Len(str))

\* trie_new with the alphabet of list2tri.c.
TrieInit == /\ alpha_map = alpha_map_clone(
                  FoldLeft(LAMBDA m, r : alpha_map_add_range(m, r[1], r[2]), <<>>, Alphabet))
            /\ added = Characters
            /\ da = da_new
            /\ tail = tail_new
            /\ is_dirty = TRUE
            /\ dict = {} /\ saved = {} /\ cut = FALSE

trie_da_is_separate(d, s) == da_get_base(d, s) < 0
trie_da_get_tail_index(d, s) == -da_get_base(d, s)
trie_da_set_tail_index(d, s, v) == da_set_base(d, s, -v)

\* The first loop of retrieve, store and delete: walk the branches from the root with
\* the characters of str, up to a separate node or one without the branch.
WalkTurn(d, str, w) ==
  LET next == da_walk(d, w.s, At(str, w.p)) IN
  IF w.over THEN w
  ELSE IF trie_da_is_separate(d, w.s) THEN [w EXCEPT !.over = TRUE, !.walked = TRUE]
  ELSE IF next = TRIE_INDEX_ERROR THEN [w EXCEPT !.over = TRUE]
  ELSE IF At(str, w.p) = TRIE_CHAR_TERM THEN [w EXCEPT !.over = TRUE, !.walked = TRUE, !.s = next]
  ELSE [w EXCEPT !.s = next, !.p = @ + 1]
WalkBranches(d, str) ==
  LET at[k \in 0 .. Len(str) + 1] ==
        IF k = 0 THEN [s |-> ROOT, p |-> 1, over |-> FALSE, walked |-> FALSE]
                 ELSE WalkTurn(d, str, at[k - 1])
  IN  at[Len(str) + 1]

\* The second loop: the rest of the string is the whole suffix of the block.
InTail(d, t, w, str) ==
  w.walked /\ tail_get_suffix(t, trie_da_get_tail_index(d, w.s)) = From(str, w.p)

\* trie_retrieve: {} if the key is absent, {its data} otherwise.
Retrieved(d, t, str) ==
  LET w == WalkBranches(d, str)
  IN  IF InTail(d, t, w, str) THEN {tail_get_data(t, trie_da_get_tail_index(d, w.s))} ELSE {}
trie_retrieve(key) == Retrieved(da, tail, Codes(key))

(***************************************************************************)
(* Storing                                                                 *)
(***************************************************************************)

trie_branch_in_branch(d, t, sep_node, suffix, data) ==
  LET Added(b, a) == [ok |-> TRUE,
                      d |-> trie_da_set_tail_index(b.d, b.next, a.block),
                      t |-> tail_set_data(a.t, a.block, data)]
      Inserted(b) == IF b.next = TRIE_INDEX_ERROR THEN [ok |-> FALSE, d |-> b.d, t |-> t]
                     ELSE Added(b, tail_add_suffix(t, From(suffix, 2)))
  IN  Inserted(da_insert_branch(d, sep_node, At(suffix, 1)))

\* A branch of node r.s, if all went well before: the node it leads to, or else r.s still.
Branched(r, c) ==
  LET Inserted(b) == [ok |-> b.next # TRIE_INDEX_ERROR, d |-> b.d,
                      s |-> IF b.next = TRIE_INDEX_ERROR THEN r.s ELSE b.next]
  IN  IF r.ok THEN Inserted(da_insert_branch(r.d, r.s, c)) ELSE r

\* Lines 468-474: branches for the first n characters of old.
SharedBranches(d, s, old, n) ==
  LET upto[k \in 0 .. n] ==
        IF k = 0 THEN [ok |-> TRUE, d |-> d, s |-> s] ELSE Branched(upto[k - 1], At(old, k))
  IN  upto[n]

\* Where two strings part.
FirstDifference(str, other) == Min({p \in 1 .. Len(str) + 1 : At(str, p) # At(other, p)})

\* Lines 488-492: undo the branches inserted below sep_node.  (Faulty variant: the
\* separate node does not get its block back.)
UndoneWithoutTail(d, sep_node, s, old_tail) == da_prune_upto(d, sep_node, s)
Undone(d, sep_node, s, old_tail) ==
  trie_da_set_tail_index(da_prune_upto(d, sep_node, s), sep_node, old_tail)

trie_branch_in_tail(d, t, sep_node, suffix, data) ==
  LET old_tail == trie_da_get_tail_index(d, sep_node)
      old == tail_get_suffix(t, old_tail)
      p == FirstDifference(old, suffix)
      shared == SharedBranches(d, sep_node, old, p - 1)
      b == Branched(shared, At(old, p))
  IN  IF old = NULL THEN [ok |-> FALSE, d |-> d, t |-> t]
      ELSE IF ~b.ok THEN [ok |-> FALSE, d |-> Undone(b.d, sep_node, b.s, old_tail), t |-> t]
      ELSE trie_branch_in_branch(trie_da_set_tail_index(b.d, b.s, old_tail),
                                 tail_set_suffix(t, old_tail, From(old, p + 1)),
                                 shared.s, From(suffix, p), data)

\* is_dirty after an operation that answered ok.  (Faulty variant: it is not set.)
DirtiedNever(ok) == is_dirty
Dirtied(ok) == is_dirty \/ ok

\* The flag and the history after an operation that answered ok.
Without(k) == {e \in dict : e[1] # k}
Answered(ok, entries) == /\ is_dirty' = Dirtied(ok)
                         /\ dict' = IF ok THEN entries ELSE dict
                         /\ saved' = IF Dirtied(ok) THEN {} ELSE saved
                         /\ UNCHANGED <<alphaVars, cut>>

\* trie_store_conditionally; overwrite tells trie_store from trie_store_if_absent.
Store(key, data, overwrite) ==
  LET str == Codes(key)
      Stores(r) == /\ da' = r.d
                   /\ tail' = r.t
                   /\ num_tails(r.t) <= MaxTails
                   /\ Answered(r.ok, Without(key) \cup {<<key, data>>})
      Walked(w) ==
        IF ~w.walked THEN trie_branch_in_branch(da, tail, w.s, From(str, w.p), data)
        ELSE IF ~InTail(da, tail, w, str) THEN trie_branch_in_tail(da, tail, w.s, From(str, w.p), data)
        ELSE [ok |-> overwrite, d |-> da,
              t |-> IF overwrite THEN tail_set_data(tail, trie_da_get_tail_index(da, w.s), data)
                                 ELSE tail]
  IN  Stores(Walked(WalkBranches(da, str)))

(***************************************************************************)
(* Deleting, saving and loading                                            *)
(***************************************************************************)

\* trie_delete
Delete(key) ==
  LET str == Codes(key)
      Walked(w) ==
        IF InTail(da, tail, w, str)
        THEN /\ tail' = tail_delete(tail, trie_da_get_tail_index(da, w.s))
             /\ da' = da_prune_upto(da_set_base(da, w.s, TRIE_INDEX_ERROR), ROOT, w.s)
             /\ Answered(TRUE, Without(key))
        ELSE /\ UNCHANGED <<da, tail>>
             /\ Answered(FALSE, dict)
  IN  Walked(WalkBranches(da, str))

\* trie_fwrite and trie_fread: the three parts one after the other.
trie_fwrite == alpha_map_fwrite_bin(alpha_map) \o da_fwrite(da) \o tail_fwrite(tail)
trie_fread(file) ==
  LET a == alpha_map_fread_bin(file)
      d == da_fread(a.rest)
      t == tail_fread(d.rest)
  IN  IF ~a.ok THEN NotRead ELSE IF ~d.ok THEN NotRead ELSE IF ~t.ok THEN NotRead
      ELSE [ok |-> TRUE, alpha_map |-> a.value, da |-> d.value, tail |-> t.value]

\* trie_save: the old file is emptied first; written tells whether trie_fwrite got to its
\* end, and closed whether what was still in the buffer got out, which nothing asks.
Save(written, closed) == /\ is_dirty' = (is_dirty /\ ~written)
                         /\ saved' = IF written THEN dict ELSE saved
                         /\ cut' = ~(written /\ closed)
                         /\ UNCHANGED <<alphaVars, da, tail, dict>>

\* trie_save, and trie_new_from_file of the file it wrote.
SaveAndLoad ==
  LET Load(r) == /\ r.ok
                 /\ alpha_map' = r.alpha_map
                 /\ da' = r.da
                 /\ tail' = r.tail
                 /\ is_dirty' = FALSE
                 /\ saved' = dict
                 /\ cut' = FALSE
                 /\ UNCHANGED <<added, dict>>
  IN  Load(trie_fread(trie_fwrite))

TrieNext == \/ \E k \in Keys, v \in TrieData, overwrite \in BOOLEAN : Store(k, v, overwrite)
            \/ \E k \in Keys : Delete(k)
            \/ \E written, closed \in BOOLEAN : Save(written, closed)
            \/ SaveAndLoad

TrieSpec == TrieInit /\ [][TrieNext]_trieVars

(***************************************************************************)
(* Enumeration and stepwise walks                                          *)
(***************************************************************************)

\* trie_enumerate: the entries enum_func is called with, in order.
trie_enumerate ==
  LET nodes == da_enumerate(da, ROOT)
      Entry(s) ==
        LET t == trie_da_get_tail_index(da, s)
            str == da_get_state_key(da, s) \o tail_get_suffix(tail, t)
        IN  <<[i \in DOMAIN str |-> alpha_map_trie_to_char(alpha_map, str[i])],
              tail_get_data(tail, t)>>
  IN  [i \in DOMAIN nodes |-> Entry(nodes[i])]

\* A TrieState, and the state at the root; a walk that fails has no state.
trie_root == [index |-> ROOT, suffix_idx |-> 0, is_suffix |-> FALSE]
NoState == [index |-> TRIE_INDEX_ERROR, suffix_idx |-> 0, is_suffix |-> FALSE]

trie_state_walk(st, c) ==
  LET next == da_walk(da, st.index, c)
      idx == tail_walk_char(tail, st.index, st.suffix_idx, c)
  IN  IF ~st.is_suffix
      THEN IF next = TRIE_INDEX_ERROR THEN NoState
           ELSE IF trie_da_is_separate(da, next)
           THEN [index |-> trie_da_get_tail_index(da, next), suffix_idx |-> 0, is_suffix |-> TRUE]
           ELSE [st EXCEPT !.index = next]
      ELSE IF idx = {} THEN NoState ELSE [st EXCEPT !.suffix_idx = CHOOSE i \in idx : TRUE]

\* The state after walking a string of codes from the root, character by character.
WalkNext(st, c) == IF st = NoState THEN st ELSE trie_state_walk(st, c)
WalkStr(str) ==
  LET at[k \in 0 .. Len(str)] == IF k = 0 THEN trie_root ELSE WalkNext(at[k - 1], str[k])
  IN  at[Len(str)]

trie_state_get_data(st) ==
  IF st.is_suffix THEN tail_get_data(tail, st.index) ELSE TRIE_DATA_ERROR

\* trie_state_is_walkable and trie_state_is_leaf.
trie_state_is_walkable(st, c) == trie_state_walk(st, c) # NoState
trie_state_is_leaf(st) == st.is_suffix /\ trie_state_is_walkable(st, TRIE_CHAR_TERM)

(***************************************************************************)
(* Properties                                                              *)
(***************************************************************************)

Nodes == {s \in DOMAIN da : s >= DA_POOL_BEGIN /\ da[s].check > 0}
FreeCells == {s \in DOMAIN da : s >= DA_POOL_BEGIN /\ da[s].check < 0}

\* The shape of the state: the array is as long as its header says and within
\* TRIE_INDEX_MAX, and the first free block is a block (DArray, Tail).
TrieTypeOK == /\ RangesApart
              /\ DOMAIN da = 0 .. num_cells(da) - 1
              /\ num_cells(da) <= TRIE_INDEX_MAX
              /\ da[0].check = num_cells(da)
              /\ \A s \in DOMAIN da : da[s] \in [base : Int, check : Int]
              /\ tail.first_free \in 0 .. num_tails(tail)
              /\ is_dirty \in BOOLEAN

\* The free cells form one ascending circular list through cell 1 that reads the
\* same in both directions, and every cell is a node or in it: no insertion,
\* relocation, extension or pruning leaks or doubly links a cell
\* (da_alloc_cell, da_free_cell, da_extend_pool).
FreeListSound ==
  \A s \in FreeCells \cup {FREE_LIST} :
    LET above == {f \in FreeCells : f > s}
        below == {f \in FreeCells : f < s}
    IN  /\ -da[s].check = IF above = {} THEN FREE_LIST ELSE Min(above)
        /\ -da[s].base = IF s = FREE_LIST
                         THEN (IF FreeCells = {} THEN FREE_LIST ELSE Max(FreeCells))
                         ELSE (IF below = {} THEN FREE_LIST ELSE Max(below))

\* Every node hangs on a parent that has it at base + c, and leads to a key: it is
\* separate or has a child.  Going from parent to parent leads to the root: no set of
\* nodes has all its parents in itself.  Relocation takes the grandchildren along, and
\* deleting the last key below a node removes the node
\* (da_relocate_base, da_prune_upto).
NodesSound ==
  /\ \A s \in Nodes : LET p == da[s].check IN
       /\ p \in Nodes \cup {ROOT}
       /\ s - da[p].base \in 0 .. TRIE_CHAR_MAX - 1
       /\ trie_da_is_separate(da, s) \/ \E n \in Nodes : da[n].check = s
  /\ \A S \in SUBSET Nodes : S # {} => \E s \in S : da[s].check \notin S

\* Each allocated block of the tail belongs to exactly one separate node, and a free
\* block to none (trie_branch_in_tail, trie_delete, tail_alloc_block).
TailsOwned ==
  LET separate == {s \in Nodes : trie_da_is_separate(da, s)}
      allocated == {i \in 1 .. num_tails(tail) : tail.tails[i].next_free = -1}
  IN  /\ {trie_da_get_tail_index(da, s) : s \in separate} = allocated
      /\ Cardinality(separate) = Cardinality(allocated)

\* What the strings looked up retrieve.
Stored == UNION {{k} \X trie_retrieve(k) : k \in Strings}

\* The trie is a map: what is retrieved is what the operations that answered TRUE
\* stored and did not delete, for every string, so that an operation changes the
\* entry of its own key and no other, and one that fails halfway is undone
\* (trie_store_conditionally, trie_branch_in_tail, trie_delete).
MapExact == Stored = dict

\* A trie that is not dirty has the entries of the file last saved, unless that was cut
\* off: no operation that changes an entry leaves the flag down, and no save that failed
\* takes it down over changes that are in no file.
CleanMeansSaved == ~is_dirty /\ ~cut => saved = Stored

\* A file that was written whole gives the trie back - its alphabet, its array and all
\* blocks of its tail, but for the suffix of a free one - and one that was cut off
\* anywhere, as by a full disk, is refused instead of giving a trie with less in it
\* (trie_fwrite, trie_fread).
SameBlock(b, c) == /\ b.next_free = c.next_free /\ b.data = c.data
                   /\ c.next_free = -1 => b.suffix = c.suffix
FileExact ==
  LET file == trie_fwrite
      r == trie_fread(file)
  IN  /\ \A n \in 0 .. Len(file) - 1 : ~trie_fread(SubSeq(file, 1, n)).ok
      /\ r.ok /\ r.alpha_map = alpha_map /\ r.da = da
      /\ r.tail.first_free = tail.first_free /\ num_tails(r.tail) = num_tails(tail)
      /\ \A i \in 1 .. num_tails(tail) : SameBlock(r.tail.tails[i], tail.tails[i])

\* The order of keys: that of their codes, a prefix first.
Precedes(k, l) == \E n \in 0 .. Len(k) :
                    /\ n < Len(l) /\ \A i \in 1 .. n : k[i] = l[i]
                    /\ n = Len(k) \/ k[n + 1] < l[n + 1]

\* Enumeration visits every entry of the map once, in order, with its own data.
EnumerateExact ==
  LET entries == trie_enumerate IN
  /\ ToSet(entries) = Stored
  /\ \A i, j \in DOMAIN entries : i < j => Precedes(entries[i][1], entries[j][1])

\* A stepwise walk gets through exactly the nonempty prefixes of keys, ends with a
\* terminator exactly at keys, and finds the data retrieval finds; a leaf is a key
\* that begins no other (trie_state_walk, trie_state_is_leaf).
WalkExact ==
  LET stored == Stored
      keys == {e[1] : e \in stored}
  IN  \A str \in Strings :
        LET below == {k \in keys : IsPrefix(str, k)}
            st == WalkStr(Codes(str))
            end == WalkStr(Append(Codes(str), TRIE_CHAR_TERM))
        IN
        /\ str # <<>> => (st # NoState <=> below # {})
        /\ st # NoState => (trie_state_is_leaf(st) => below = {str})
        /\ end # NoState <=> str \in keys
        /\ end # NoState => <<str, trie_state_get_data(end)>> \in stored
=============================================================================
