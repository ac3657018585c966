----------------------------- MODULE TailBlocks -----------------------------
(***************************************************************************)
(* The tail of the trie, tail.c: the parts of keys below their separate    *)
(* nodes, with the data of the keys, as operators on a value t.  Blocks    *)
(* are numbered from TAIL_START_BLOCKNO outside this module and from 0     *)
(* inside.  Free blocks form a list through next_free in which 0 stands    *)
(* for the end, although 0 is a block too.                                 *)
(***************************************************************************)
EXTENDS Integers, Sequences, SequencesExt, TrieDefs

CONSTANTS NULL,       \* no suffix
          SHORT_MAX   \* the largest short: the type of a suffix's length in a file and
                      \* of an index into a suffix

\* What a short becomes that is given the value n.
Short(n) == ((n + SHORT_MAX + 1) % (2 * (SHORT_MAX + 1))) - (SHORT_MAX + 1)

TAIL_START_BLOCKNO == 1
TRIE_DATA_ERROR == -1

tail_new == [first_free |-> 0, tails |-> <<>>]

num_tails(t) == Len(t.tails)
\* tails[i], counted from 0.
Block(t, i) == t.tails[i + 1]

\* tail_get_suffix, tail_get_data
tail_get_suffix(t, index) ==
  IF index - TAIL_START_BLOCKNO < num_tails(t)
  THEN Block(t, index - TAIL_START_BLOCKNO).suffix ELSE NULL
tail_get_data(t, index) ==
  IF index - TAIL_START_BLOCKNO < num_tails(t)
  THEN Block(t, index - TAIL_START_BLOCKNO).data ELSE TRIE_DATA_ERROR

tail_set_suffix(t, index, suffix) ==
  IF index - TAIL_START_BLOCKNO < num_tails(t)
  THEN [t EXCEPT !.tails[index - TAIL_START_BLOCKNO + 1].suffix = suffix] ELSE t
tail_set_data(t, index, data) ==
  IF index - TAIL_START_BLOCKNO < num_tails(t)
  THEN [t EXCEPT !.tails[index - TAIL_START_BLOCKNO + 1].data = data] ELSE t

\* tail_alloc_block: the tail, and the number of the block.  (Faulty variant: a
\* block taken from the list stays its first.)
EmptyBlock == [next_free |-> -1, data |-> TRIE_DATA_ERROR, suffix |-> NULL]
FirstStays(t) == t.first_free
NextFirst(t) == Block(t, t.first_free).next_free
tail_alloc_block(t) ==
  IF t.first_free # 0
  THEN [t |-> [first_free |-> NextFirst(t),
               tails |-> [t.tails EXCEPT ![t.first_free + 1] = EmptyBlock]],
        block |-> t.first_free + TAIL_START_BLOCKNO]
  ELSE [t |-> [t EXCEPT !.tails = Append(@, EmptyBlock)],
        block |-> num_tails(t) + TAIL_START_BLOCKNO]

\* tail_add_suffix
tail_add_suffix(t, suffix) ==
  LET a == tail_alloc_block(t) IN [a EXCEPT !.t = tail_set_suffix(a.t, a.block, suffix)]

\* Lines 339-342: the last free block before block and the one after it; 0 is none.
Beyond(t, at, block) == IF at[2] # 0 /\ at[2] < block THEN <<at[2], Block(t, at[2]).next_free>>
                                                      ELSE at
InsertionPoint(t, block) ==
  LET at[k \in 0 .. num_tails(t)] ==
        IF k = 0 THEN <<0, t.first_free>> ELSE Beyond(t, at[k - 1], block)
  IN  at[num_tails(t)]

\* tail_free_block, tail_delete
tail_delete(t, index) ==
  LET block == index - TAIL_START_BLOCKNO
      at == InsertionPoint(t, block)
      freed == [t EXCEPT !.tails[block + 1] =
                  [next_free |-> at[2], data |-> TRIE_DATA_ERROR, suffix |-> NULL]]
  IN  CASE block >= num_tails(t) -> t
        [] block < num_tails(t) /\ at[1] # 0 -> [freed EXCEPT !.tails[at[1] + 1].next_free = block]
        [] block < num_tails(t) /\ at[1] = 0 -> [freed EXCEPT !.first_free = block]

\* tail_walk_char: {the index into the suffix after c}, a short, or {} if another
\* character is there.  At the terminator it stays where it is.
SuffixChar(t, index, idx) ==
  LET suffix == tail_get_suffix(t, index) IN IF idx < Len(suffix) THEN suffix[idx + 1] ELSE 0
tail_walk_char(t, index, idx, c) ==
  IF tail_get_suffix(t, index) = NULL \/ SuffixChar(t, index, idx) # c THEN {}
  ELSE {IF c # 0 THEN Short(idx + 1) ELSE idx}

\* tail_fwrite and tail_fread: a suffix is written with its length as a short and as many
\* characters as that says, a missing one like an empty one.
TAIL_SIGNATURE == -537075716
Written(suffix) == IF suffix = NULL \/ Short(Len(suffix)) <= 0 THEN <<>>
                   ELSE SubSeq(suffix, 1, Short(Len(suffix)))
tail_fwrite(t) ==
  <<<<TAIL_SIGNATURE, t.first_free, num_tails(t)>>>>
    \o [i \in 1 .. num_tails(t) |->
          <<t.tails[i].next_free, t.tails[i].data, Written(t.tails[i].suffix)>>]
tail_fread(file) ==
  IF file = <<>> \/ file[1][1] # TAIL_SIGNATURE \/ Len(file) < file[1][3] + 1 THEN NotRead
  ELSE [ok |-> TRUE,
        value |-> [first_free |-> file[1][2],
                   tails |-> [i \in 1 .. file[1][3] |->
                                [next_free |-> file[i + 1][1], data |-> file[i + 1][2],
                                 suffix |-> file[i + 1][3]]]],
        rest |-> SubSeq(file, file[1][3] + 2, Len(file))]
=============================================================================
