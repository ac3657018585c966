------------------------------- MODULE DArray -------------------------------
(***************************************************************************)
(* The double array of the trie, darray.c, as operators on a value d, the  *)
(* array of cells.  Cell s of a node has the node's children at            *)
(* base + c for every character c, and the check of a child is s.  The     *)
(* free cells form a circular doubly linked list through cell 1: -check is *)
(* the next and -base the previous free cell.  A node with a negative base *)
(* is separate: -base is its block of the tail.                            *)
(*                                                                         *)
(* An operator that may extend the array returns the array with its        *)
(* result.  malloc and realloc are taken to succeed.  A loop is a function *)
(* of the turns it has made, or of the characters it has come to; each     *)
(* turn is an operator of its own, and what ends the loop makes its turns  *)
(* do nothing.                                                             *)
(***************************************************************************)
EXTENDS Integers, Sequences, SequencesExt, FiniteSetsExt, TrieDefs

DA_SIGNATURE == -620963076
FREE_LIST == 1
ROOT == 2
DA_POOL_BEGIN == 3

da_new == [s \in 0 .. DA_POOL_BEGIN - 1 |->
             CASE s = 0         -> [base |-> DA_SIGNATURE, check |-> DA_POOL_BEGIN]
               [] s = FREE_LIST -> [base |-> -FREE_LIST, check |-> -FREE_LIST]
               [] s = ROOT      -> [base |-> DA_POOL_BEGIN, check |-> 0]]

\* da_fwrite and da_fread: the header cell tells how many cells follow.
da_fwrite(d) == [i \in 1 .. Cardinality(DOMAIN d) |-> <<d[i - 1].base, d[i - 1].check>>]
da_fread(file) ==
  IF file = <<>> \/ file[1][1] # DA_SIGNATURE \/ Len(file) < file[1][2] THEN NotRead
  ELSE [ok |-> TRUE,
        value |-> [i \in 0 .. file[1][2] - 1 |-> [base |-> file[i + 1][1], check |-> file[i + 1][2]]],
        rest |-> SubSeq(file, file[1][2] + 1, Len(file))]

num_cells(d) == Cardinality(DOMAIN d)

da_get_base(d, s) == IF s < num_cells(d) THEN d[s].base ELSE TRIE_INDEX_ERROR
da_get_check(d, s) == IF s < num_cells(d) THEN d[s].check ELSE TRIE_INDEX_ERROR
da_set_base(d, s, v) == IF s < num_cells(d) THEN [d EXCEPT ![s].base = v] ELSE d

\* da_walk: the child of s for c, or TRIE_INDEX_ERROR.
da_walk(d, s, c) == IF da_get_check(d, da_get_base(d, s) + c) = s
                    THEN da_get_base(d, s) + c ELSE TRIE_INDEX_ERROR

\* The characters below base + c the loops over children look at: max_c itself,
\* which is TRIE_CHAR_MAX in an array that is not nearly full, is left out.
CharsFrom(base) == 0 .. Min({TRIE_CHAR_MAX, TRIE_INDEX_MAX - base}) - 1

\* da_output_symbols, a set of characters; symbols_add keeps them in order, and
\* Ascending is the order the loops take them in.  (Faulty variant: the other way.)
da_output_symbols(d, s) ==
  {c \in CharsFrom(da_get_base(d, s)) : da_get_check(d, da_get_base(d, s) + c) = s}
symbols_add(syms, c) == syms \cup {c}
Descending(syms) == SetToSortSeq(syms, >)
Ascending(syms) == SetToSortSeq(syms, <)

da_has_children(d, s) == da_get_base(d, s) > 0 /\ da_output_symbols(d, s) # {}

(***************************************************************************)
(* The free list                                                           *)
(***************************************************************************)

\* The header, cell 0, has the number of cells.  (Faulty variant: the old number.)
HeaderStale(d, n) == d
HeaderUpdated(d, n) == [d EXCEPT ![0].check = n + 1]

\* da_extend_pool: the cells up to index n, the new ones free and linked in at the
\* end of the list.
da_extend_pool(d, n) ==
  LET old == num_cells(d)
      free_tail == -d[FREE_LIST].base
      linked == [HeaderUpdated(d, n) EXCEPT ![free_tail].check = -old,
                                            ![FREE_LIST].base = -n]
      new(i) == [base |-> IF i = old THEN -free_tail ELSE -(i - 1),
                 check |-> IF i = n THEN -FREE_LIST ELSE -(i + 1)]
  IN  IF n <= 0 \/ TRIE_INDEX_MAX <= n THEN [ok |-> FALSE, d |-> d]
      ELSE [ok |-> TRUE,
            d |-> IF n < old THEN d ELSE [i \in 0 .. n |-> IF i < old THEN linked[i] ELSE new(i)]]

da_check_free_cell(d, s) ==
  LET e == da_extend_pool(d, s) IN [ok |-> e.ok /\ da_get_check(e.d, s) < 0, d |-> e.d]

\* da_alloc_cell takes a cell out of the list; its base and check stay as they are.
da_alloc_cell(d, cell) == [d EXCEPT ![-d[cell].base].check = d[cell].check,
                                    ![-d[cell].check].base = d[cell].base]

\* The first cell of the free list that is FREE_LIST or not below low.
Following(d, s, low) == IF s = FREE_LIST \/ s >= low THEN s ELSE -da_get_check(d, s)
FreeFrom(d, low) ==
  LET at[k \in 0 .. num_cells(d)] ==
        IF k = 0 THEN -da_get_check(d, FREE_LIST) ELSE Following(d, at[k - 1], low)
  IN  at[num_cells(d)]

\* da_free_cell: the cell goes back into the list, which is in ascending order.
\* (Faulty variant: the order is not kept.)
FreeAtEnd(d, cell) ==
  LET prev == -da_get_base(d, FREE_LIST)
  IN  [[d EXCEPT ![cell] = [base |-> -prev, check |-> -FREE_LIST]]
         EXCEPT ![prev].check = -cell, ![FREE_LIST].base = -cell]
da_free_cell(d, cell) ==
  LET i == FreeFrom(d, cell)
      prev == -da_get_base(d, i)
  IN  [[d EXCEPT ![cell] = [base |-> -prev, check |-> -i]]
         EXCEPT ![prev].check = -cell, ![i].base = -cell]

(***************************************************************************)
(* Branches                                                                *)
(***************************************************************************)

\* The test da_insert_branch and da_fit_symbols make of the cell for c: it is inside
\* the limits and free, the array being extended to reach it.
FreeCellFor(d, base, c) ==
  IF base > TRIE_INDEX_MAX - c THEN [ok |-> FALSE, d |-> d] ELSE da_check_free_cell(d, base + c)

\* da_fit_symbols: the cells for all the symbols are free; it stops at the first that
\* is not.
FitSymbol(f, base, syms, c) == IF f.ok /\ c \in syms THEN FreeCellFor(f.d, base, c) ELSE f
da_fit_symbols(d, base, syms) ==
  LET upto[c \in 0 .. TRIE_CHAR_MAX + 1] ==
        IF c = 0 THEN [ok |-> TRUE, d |-> d] ELSE FitSymbol(upto[c - 1], base, syms, c - 1)
  IN  upto[TRIE_CHAR_MAX + 1]

\* Lines 565-571: the first cell from low on that is not in use, the array being extended
\* to reach it.
FreeByGrowing(d, low) ==
  LET s == Min({i \in low .. Max({low, num_cells(d)}) : i >= num_cells(d) \/ d[i].check < 0})
      Extended(e) == [d |-> e.d, s |-> IF e.ok THEN s ELSE TRIE_INDEX_ERROR]
  IN  Extended(da_extend_pool(d, s))

\* Lines 575-585, one turn: the symbols fit at cell s, or the next cell of the free list is
\* tried; at its end the array is extended by one cell.
FitTurn(w, syms) ==
  LET Next(e) == [d |-> e.d, fits |-> ~e.ok,
                  s |-> IF e.ok THEN -da_get_check(e.d, w.s) ELSE TRIE_INDEX_ERROR]
      Tried(f) == IF f.ok THEN [d |-> f.d, s |-> w.s, fits |-> TRUE]
                  ELSE Next(IF da_get_check(f.d, w.s) = -FREE_LIST
                            THEN da_extend_pool(f.d, num_cells(f.d)) ELSE [ok |-> TRUE, d |-> f.d])
  IN  IF w.fits THEN w ELSE Tried(da_fit_symbols(w.d, w.s - Min(syms), syms))

\* Lines 574-588: every turn is further up in the array.
FitFrom(d, s, syms) ==
  LET turn[k \in 0 .. TRIE_INDEX_MAX] ==
        IF k = 0 THEN [d |-> d, s |-> s, fits |-> s = TRIE_INDEX_ERROR]
                 ELSE FitTurn(turn[k - 1], syms)
      Base(w) == [d |-> w.d, base |-> IF w.s = TRIE_INDEX_ERROR THEN TRIE_INDEX_ERROR
                                                                ELSE w.s - Min(syms)]
  IN  Base(turn[TRIE_INDEX_MAX])

da_find_free_base(d, syms) ==
  LET low == Min(syms) + DA_POOL_BEGIN
      FirstFree(s) == IF s = FREE_LIST THEN FreeByGrowing(d, low) ELSE [d |-> d, s |-> s]
      FitBeyond(f) == FitFrom(f.d, f.s, syms)
  IN  FitBeyond(FirstFree(FreeFrom(d, low)))

\* Lines 635-646: the children of old become those of new.  (Faulty variant: they
\* are forgotten.)
ChildrenForgotten(d, old, new) == d
ChildrenMoved(d, old, new) ==
  LET moved == IF da_get_base(d, old) > 0
               THEN {da_get_base(d, old) + c : c \in da_output_symbols(d, old)} ELSE {}
  IN  [i \in DOMAIN d |-> IF i \in moved THEN [d[i] EXCEPT !.check = new] ELSE d[i]]

\* da_relocate_base: each child of s moves to new_base + c.
Relocated(d, s, new_base, syms, c) ==
  LET old == da_get_base(d, s) + c
      new == new_base + c
  IN  IF c \notin syms THEN d
      ELSE da_free_cell(ChildrenMoved([da_alloc_cell(d, new) EXCEPT
                          ![new] = [base |-> da_get_base(d, old), check |-> s]], old, new), old)
da_relocate_base(d, s, new_base) ==
  LET syms == da_output_symbols(d, s)
      upto[c \in 0 .. TRIE_CHAR_MAX] ==
        IF c = 0 THEN d ELSE Relocated(upto[c - 1], s, new_base, syms, c - 1)
  IN  da_set_base(upto[TRIE_CHAR_MAX], s, new_base)

\* da_insert_branch: the array and the child of s for c, which is TRIE_INDEX_ERROR
\* if there is no room.
da_insert_branch(d, s, c) ==
  LET base == da_get_base(d, s)
      Attached(e, next) == [d |-> [da_alloc_cell(e, next) EXCEPT ![next].check = s], next |-> next]
      Moved(f) == IF f.base = TRIE_INDEX_ERROR THEN [d |-> f.d, next |-> TRIE_INDEX_ERROR]
                  ELSE Attached(IF base > 0 THEN da_relocate_base(f.d, s, f.base)
                                            ELSE da_set_base(f.d, s, f.base), f.base + c)
      Tried(cell) == IF cell.ok THEN Attached(cell.d, base + c)
                     ELSE Moved(da_find_free_base(cell.d, symbols_add(da_output_symbols(d, s), c)))
  IN  IF base <= 0 THEN Moved(da_find_free_base(d, symbols_add({}, c)))
      ELSE IF da_get_check(d, base + c) = s THEN [d |-> d, next |-> base + c]
      ELSE Tried(FreeCellFor(d, base, c))

\* da_prune_upto: s and its ancestors below p are freed as long as they have no
\* children.  (Faulty variant: only s is.)
PruneOne(d, p, s) == IF p = s \/ da_has_children(d, s) THEN d ELSE da_free_cell(d, s)
PruneTurn(w, p) == IF p = w.s \/ da_has_children(w.d, w.s) THEN w
                   ELSE [d |-> da_free_cell(w.d, w.s), s |-> da_get_check(w.d, w.s)]
da_prune_upto(d, p, s) ==
  LET turn[k \in 0 .. num_cells(d)] ==
        IF k = 0 THEN [d |-> d, s |-> s] ELSE PruneTurn(turn[k - 1], p)
  IN  turn[num_cells(d)].d

\* da_get_state_key: the characters on the way to s, found by going back to the root;
\* the terminator, where a node hangs on it, ends the string.
da_get_state_key(d, s) ==
  LET key[n \in DOMAIN d] ==
        LET parent == da_get_check(d, n)
            c == n - da_get_base(d, parent)
        IN  IF n = ROOT THEN <<>>
            ELSE key[parent] \o (IF c = TRIE_CHAR_TERM THEN <<>> ELSE <<c>>)
  IN  key[s]

\* da_enumerate_recursive: the separate nodes below s, in the order of the symbols.
da_enumerate(d, s) ==
  LET below[n \in DOMAIN d] ==
        IF da_get_base(d, n) < 0 THEN <<n>>
        ELSE FlattenSeq([i \in DOMAIN Ascending(da_output_symbols(d, n)) |->
                           below[da_get_base(d, n) + Ascending(da_output_symbols(d, n))[i]]])
  IN  below[s]
=============================================================================
