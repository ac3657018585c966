------------------------------- MODULE SList --------------------------------
(***************************************************************************)
(* The singly linked list of slist.c (server and client have the same      *)
(* file).  A list owns its nodes, 1 .. capacity; those that hold no        *)
(* element are chained on the blank list, with the data they held last.    *)
(* Nodes are named by the order of their allocation, and 0 is NULL.        *)
(***************************************************************************)
EXTENDS Naturals, Sequences, FiniteSets

NULL == 0

\* The nodes first, first + 1, ... chained in the order of their addresses, the last
\* one to node last: the loops of mk_slist and sl_expand.
Chained(first, n, last) ==
  [i \in first .. first + n - 1 |-> IF i = first + n - 1 THEN last ELSE i + 1]

mk_slist(capacity) ==
  [head |-> NULL, end |-> NULL, length |-> 0, capacity |-> capacity,
   blank |-> 1,
   data |-> [i \in 1 .. capacity |-> NULL],
   next |-> Chained(1, capacity, NULL),
   memlist |-> <<1 .. capacity>>]

sl_expand(sl, delta) ==
  LET new == Chained(sl.capacity + 1, delta, sl.blank)
  IN  [sl EXCEPT !.capacity = @ + delta,
                 !.blank = sl.capacity + 1,
                 !.data = [i \in 1 .. sl.capacity + delta |-> IF i \in DOMAIN @ THEN @[i] ELSE NULL],
                 !.next = [i \in 1 .. sl.capacity + delta |-> IF i \in DOMAIN @ THEN @[i] ELSE new[i]],
                 !.memlist = <<sl.capacity + 1 .. sl.capacity + delta>> \o @]

\* The nodes that sl_free gives back.
sl_free(sl) == UNION {sl.memlist[k] : k \in 1 .. Len(sl.memlist)}

\* Append at the end; a full list is left alone.
append(data, sl) ==
  IF sl.length = sl.capacity THEN sl
  ELSE LET ptr == sl.blank
       IN  [sl EXCEPT !.blank = sl.next[ptr],
                      !.data[ptr] = data,
                      !.head = IF @ = NULL THEN ptr ELSE @,
                      !.end = ptr,
                      !.next = [i \in DOMAIN @ |-> IF i = ptr THEN NULL
                                                   ELSE IF sl.head # NULL /\ i = sl.end THEN ptr
                                                   ELSE @[i]],
                      !.length = @ + 1]

\* What pop returns, and the list it leaves.
Popped(sl) == IF sl.head = NULL THEN NULL ELSE sl.data[sl.head]
pop(sl) ==
  IF sl.head = NULL THEN sl
  ELSE LET ptr == sl.head
       IN  [sl EXCEPT !.head = sl.next[ptr],
                      !.end = IF sl.next[ptr] = NULL THEN NULL ELSE @,
                      !.next[ptr] = sl.blank,
                      !.blank = ptr,
                      !.length = @ - 1]

push(data, sl) ==
  IF sl.length = sl.capacity THEN sl
  ELSE LET ptr == sl.blank
       IN  [sl EXCEPT !.blank = sl.next[ptr],
                      !.data[ptr] = data,
                      !.next[ptr] = sl.head,
                      !.head = ptr,
                      !.end = IF @ = NULL THEN ptr ELSE @,
                      !.length = @ + 1]

\* The node reached from node start after k links, NULL beyond the last.
NodeAt(sl, start) ==
  LET at[k \in 0 .. sl.capacity] ==
        IF k = 0 THEN start
        ELSE LET p == at[k - 1] IN IF p = NULL THEN NULL ELSE sl.next[p]
  IN  at

\* The nodes of the chain from start.
ChainOf(sl, start) == LET at == NodeAt(sl, start) IN {at[k] : k \in 0 .. sl.capacity} \ {NULL}

\* The data that traverse visits, in order.
Contents(sl) == LET at == NodeAt(sl, sl.head) IN [k \in 1 .. sl.length |-> sl.data[at[k - 1]]]

\* The node cur that holds data, moved from behind node pre to the head.  (Faulty
\* variant: end is left where it is.)
RelinkKeepEnd(sl, pre, cur) == [sl EXCEPT !.next[pre] = sl.next[cur],
                                          !.next[cur] = sl.head,
                                          !.head = cur]
Relink(sl, pre, cur) == [sl EXCEPT !.end = IF cur = @ THEN pre ELSE @,
                                   !.next[pre] = sl.next[cur],
                                   !.next[cur] = sl.head,
                                   !.head = cur]

\* Nothing changes when data is at the head already or is not found.
mv2head(data, sl) ==
  LET behind == {pre \in ChainOf(sl, sl.head) :
                   sl.next[pre] # NULL /\ sl.data[sl.next[pre]] = data}
  IN  IF sl.data[sl.head] = data \/ behind = {} THEN sl
      ELSE LET pre == CHOOSE p \in behind : TRUE IN Relink(sl, pre, sl.next[pre])

\* The list is well formed: length elements in a chain from head to end, every other
\* node on the blank list, and all nodes in the blocks that sl_free gives back.
SListSound(sl) ==
  LET used == ChainOf(sl, sl.head)
      blank == IF sl.length = sl.capacity THEN {} ELSE ChainOf(sl, sl.blank)
  IN  /\ Cardinality(used) = sl.length
      /\ used \cap blank = {}
      /\ used \cup blank = 1 .. sl.capacity
      /\ IF sl.length = 0 THEN sl.head = NULL /\ sl.end = NULL
                          ELSE sl.end \in used /\ sl.next[sl.end] = NULL
      /\ sl_free(sl) = 1 .. sl.capacity
=============================================================================
