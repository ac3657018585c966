-------------------------------- MODULE DcMm --------------------------------
(***************************************************************************)
(* The allocator of dc_mm1.c.  Memory comes in chunks of 2^cap bytes, each *)
(* behind a word that tells its cap.  Classes SMALL .. BIG have a pool of  *)
(* chunks allocated at the start, on an idle and an allocated list; when a *)
(* pool is empty, and for every larger class, chunks come from an extra    *)
(* list that is made when needed, grows when all its chunks are in use,    *)
(* and is given back when none is.  In an extra list the idle chunks come  *)
(* first.                                                                  *)
(*                                                                         *)
(* A class has one mutex for its pool and one for its extra list.  What a  *)
(* thread does under a mutex is one step; what it reads without one is a   *)
(* step of its own: the counters that dc_alloc looks at before it locks,   *)
(* and the search of dc_free through the allocated list, node by node.     *)
(***************************************************************************)
EXTENDS SList, Integers, SequencesExt

CONSTANTS Threads,
          SMALL, BIG,       \* the classes with a pool
          BIGGEST_CAP,      \* the largest class
          chunks_num,       \* chunks of a pool
          DEFAULT_EXTRA,    \* chunks that an extra list starts with and grows by
          HALVINGS,         \* the steps of first_bit: 5 for 32 bits
          COUNT_MOD,        \* where the counts of an extra list wrap: 65536
          Sizes,            \* the sizes that are asked for
          MaxCalls,         \* bound: calls of dc_alloc, dc_free and dc_realloc
          MaxChunks         \* bound: chunks there are at a time

PoolCaps == SMALL .. BIG
Caps == 0 .. BIGGEST_CAP

\* 2 to the power of x.
Pow2(x) == LET pow[k \in 0 .. x] == IF k = 0 THEN 1 ELSE 2 * pow[k - 1] IN pow[x]

ASSUME MmAssumption ==
  /\ {SMALL, BIG, BIGGEST_CAP, chunks_num, DEFAULT_EXTRA, MaxCalls, MaxChunks} \subseteq Nat \ {0}
  /\ SMALL <= BIG /\ BIG <= BIGGEST_CAP
  /\ COUNT_MOD \in Nat /\ chunks_num < COUNT_MOD /\ DEFAULT_EXTRA < COUNT_MOD
  /\ (BIG - SMALL + 1) * chunks_num <= MaxChunks
  /\ HALVINGS \in Nat /\ BIGGEST_CAP <= Pow2(HALVINGS) - 2
  /\ Sizes \subseteq Nat \ {0}

VARIABLES
  pool,      \* chunks_manager_table, by class
  elm_table, \* the extra list of a class, NoElm for NULL
  raw,       \* classes whose elm_table entry is set but not yet filled in
  hdr,       \* hdr[x]: the word before chunk x, for every chunk allocated from the system
  pc,        \* where thread t is
  size,      \* the size that dc_alloc is called with
  cap,       \* the class that dc_alloc or dc_free works on
  ptr,       \* the chunk that dc_free is called with
  node,      \* the node that find has come to
  old,       \* the chunk that dc_realloc is to move, or NULL
  held,      \* held[t]: chunk and size of what t has allocated and not freed
  status,    \* "run", or "fault" after undefined behaviour
  missed,    \* history: whether a find went astray or the count of a list wrapped
  calls      \* calls made so far

memVars == <<pool, elm_table, raw, hdr>>
threadVars == <<pc, size, cap, ptr, node, old, held>>
vars == <<memVars, threadVars, status, missed, calls>>

Chunks == 1 .. MaxChunks
live == DOMAIN hdr
NoElm == [idle_num |-> 0, total_num |-> 0, chunks_list |-> mk_slist(0)]

(***************************************************************************)
(* Size classes                                                            *)
(***************************************************************************)

UINT32_BITS == Pow2(HALVINGS)

\* The macro of dc_mm1.c:16, an int: the highest bit is its sign.
POW2(x) == IF x = UINT32_BITS - 1 THEN -Pow2(x) ELSE Pow2(x)

\* One step of first_bit: if the upper s bits of n are zero, they are shifted out.
HalfStep(cn, s) == IF cn.n < Pow2(UINT32_BITS - s)
                   THEN [c |-> cn.c - s, n |-> cn.n * Pow2(s)]
                   ELSE cn

\* The position of the highest bit, counted from 1; its argument is cut to 32 bits.
first_bit(n) ==
  LET after[k \in 0 .. HALVINGS] ==
        IF k = 0 THEN [c |-> UINT32_BITS, n |-> n % Pow2(UINT32_BITS)]
                 ELSE HalfStep(after[k - 1], Pow2(HALVINGS - k))
  IN  IF n % Pow2(UINT32_BITS) = 0 THEN 0 ELSE after[HALVINGS].c

LOG2(x) == (first_bit(x) - 1) % Pow2(UINT32_BITS)

\* The class of a size.  The comparison makes POW2 a uint64, so that a negative one is
\* larger than any size there can be.  For a size whose lower 32 bits are zero the shift
\* is undefined, but the class is out of every table whether it is raised or not.
Cap(s) == IF LOG2(s) < UINT32_BITS /\ s > POW2(LOG2(s)) % Pow2(2 * UINT32_BITS)
          THEN LOG2(s) + 1 ELSE LOG2(s)

\* The mutex of class 0 is never made, and larger classes have no entry.
BadCap(c) == c = 0 \/ c > BIGGEST_CAP

(***************************************************************************)
(* Chunks from the system                                                  *)
(***************************************************************************)

\* The chunks that n calls of malloc return: any addresses that are free.
Malloc(n) == CHOOSE chunks \in Injection(1 .. n, Chunks \ live) : TRUE

PushAll(sl, chunks) ==
  LET after[k \in 0 .. Len(chunks)] == IF k = 0 THEN sl ELSE push(chunks[k], after[k - 1])
  IN  after[Len(chunks)]

\* mm_pre_alloc: a list with a node for each of the chunks.
mm_pre_alloc(chunks) == PushAll(mk_slist(Len(chunks)), chunks)

\* The chunks of a pool: the loop of mm_init starts with the largest class.
PoolOf(c) == [k \in 1 .. chunks_num |-> (BIG - c) * chunks_num + k]
PoolChunks(c) == {PoolOf(c)[k] : k \in 1 .. chunks_num}
ClassOf(x) == CHOOSE c \in PoolCaps : x \in PoolChunks(c)

\* mm_init.
Init ==
  /\ pool = [c \in PoolCaps |-> [idle_num |-> chunks_num,
                                 idle_chunks |-> mm_pre_alloc(PoolOf(c)),
                                 alloced_chunks |-> mk_slist(chunks_num)]]
  /\ hdr = [x \in UNION {PoolChunks(c) : c \in PoolCaps} |-> ClassOf(x)]
  /\ elm_table = [c \in Caps |-> NoElm]
  /\ raw = {}
  /\ pc = [t \in Threads |-> "idle"]
  /\ size = [t \in Threads |-> 0]
  /\ cap = [t \in Threads |-> 0]
  /\ ptr = [t \in Threads |-> NULL]
  /\ node = [t \in Threads |-> NULL]
  /\ old = [t \in Threads |-> NULL]
  /\ held = [t \in Threads |-> {}]
  /\ status = "run"
  /\ missed = FALSE
  /\ calls = 0

\* Undefined behaviour: nothing is said of what follows.
Fault == status' = "fault" /\ UNCHANGED <<memVars, threadVars, missed>>

Goto(t, at) == pc' = [pc EXCEPT ![t] = at]

\* What a count of an extra list, a uint16, keeps of n (dc_mm_structs.h:41-43).  That of
\* a pool never passes chunks_num.
Uint16(n) == n % COUNT_MOD

(***************************************************************************)
(* dc_alloc                                                                *)
(***************************************************************************)

IsNull(c) == elm_table[c] = NoElm /\ c \notin raw

\* Lines 194-196 and 212: where the first look, without a lock, leads.
Look(c) ==
  IF c \in PoolCaps THEN IF pool[c].idle_num = 0 THEN "refill" ELSE "select_pre_alloced"
  ELSE IF IsNull(c) THEN "mk_el" ELSE "idle_num"

\* A thread calls dc_alloc(s).
Alloc(t, s) ==
  /\ pc[t] = "idle"
  /\ IF BadCap(Cap(s)) THEN Fault
     ELSE /\ size' = [size EXCEPT ![t] = s] /\ cap' = [cap EXCEPT ![t] = Cap(s)]
          /\ Goto(t, Look(Cap(s)))
          /\ UNCHANGED <<memVars, ptr, node, old, held, status, missed>>

\* Lines 93, 115 and 119: dc_alloc is called again.
AllocAgain(t) ==
  /\ pc[t] = "dc_alloc"
  /\ Goto(t, Look(cap[t]))
  /\ UNCHANGED <<memVars, size, cap, ptr, node, old, held, status, missed>>

\* Line 203: elm_table[cap]->idle_num, without a lock.  The list may be gone again;
\* one that is being made shows any number.
LookAgain(t) ==
  LET c == cap[t] IN
  /\ pc[t] = "idle_num"
  /\ IF IsNull(c) THEN Fault
     ELSE /\ \/ elm_table[c].idle_num = 0 /\ Goto(t, "expand_el")
             \/ (elm_table[c].idle_num # 0 \/ c \in raw) /\ Goto(t, "select_extra")
          /\ UNCHANGED <<memVars, size, cap, ptr, node, old, held, status, missed>>

\* The extra list of class c with n more chunks of the system: as mk_el leaves it and
\* as expand_el does.  (Faulty variant: total_num is forgotten.)
NewElm(n) == [idle_num |-> Uint16(n), total_num |-> Uint16(n),
              chunks_list |-> mm_pre_alloc(Malloc(n))]
LargerElmOldTotal(e, n) == [e EXCEPT !.idle_num = Uint16(@ + n),
                                     !.chunks_list = PushAll(sl_expand(@, n), Malloc(n))]
LargerElm(e, n) == [idle_num |-> Uint16(e.idle_num + n), total_num |-> Uint16(e.total_num + n),
                    chunks_list |-> PushAll(sl_expand(e.chunks_list, n), Malloc(n))]

\* The count of chunks of list e wraps when it grows.
Wraps(e) == e.total_num + DEFAULT_EXTRA >= COUNT_MOD

\* The system gives class c n chunks, for the extra list e.
Obtain(c, e, n) == /\ Cardinality(Chunks \ live) >= n
                   /\ elm_table' = [elm_table EXCEPT ![c] = e]
                   /\ hdr' = [x \in live \cup ToSet(Malloc(n)) |->
                              IF x \in live THEN hdr[x] ELSE c]

\* Lines 197-200: mk_el, if there is still no list, first the entry of elm_table ...
MkEl(t) ==
  LET c == cap[t] IN
  /\ pc[t] = "mk_el"
  /\ c \notin raw
  /\ IF elm_table[c] = NoElm THEN raw' = raw \cup {c} /\ Goto(t, "fill")
                             ELSE UNCHANGED raw /\ Goto(t, "select_extra")
  /\ UNCHANGED <<pool, elm_table, hdr, size, cap, ptr, node, old, held, status, missed>>

\* ... then what it points to.
FillEl(t) ==
  LET c == cap[t] IN
  /\ pc[t] = "fill"
  /\ Obtain(c, NewElm(DEFAULT_EXTRA), DEFAULT_EXTRA)
  /\ raw' = raw \ {c}
  /\ Goto(t, "select_extra")
  /\ UNCHANGED <<pool, size, cap, ptr, node, old, held, status, missed>>

\* Lines 204-206: expand_el, without a second look.
ExpandEl(t) ==
  LET c == cap[t] IN
  /\ pc[t] = "expand_el"
  /\ c \notin raw
  /\ IF elm_table[c] = NoElm THEN Fault
     ELSE /\ Obtain(c, LargerElm(elm_table[c], DEFAULT_EXTRA), DEFAULT_EXTRA)
          /\ missed' = (missed \/ Wraps(elm_table[c]))
          /\ Goto(t, "select_extra")
          /\ UNCHANGED <<pool, raw, size, cap, ptr, node, old, held, status>>

\* Lines 214-225: the pool is empty, and the extra list is made or grows.
Refill(t) ==
  LET c == cap[t] IN
  /\ pc[t] = "refill"
  /\ IF elm_table[c] = NoElm
     THEN Obtain(c, NewElm(DEFAULT_EXTRA), DEFAULT_EXTRA) /\ UNCHANGED missed
     ELSE IF elm_table[c].idle_num = 0
     THEN /\ Obtain(c, LargerElm(elm_table[c], DEFAULT_EXTRA), DEFAULT_EXTRA)
          /\ missed' = (missed \/ Wraps(elm_table[c]))
     ELSE UNCHANGED <<elm_table, hdr, missed>>
  /\ Goto(t, "select_extra")
  /\ UNCHANGED <<pool, raw, size, cap, ptr, node, old, held, status>>

\* dc_alloc returns chunk x; inside dc_realloc the contents are moved next.
GiveChunk(t, x) ==
  /\ held' = [held EXCEPT ![t] = @ \cup {[chunk |-> x, size |-> size[t]]}]
  /\ size' = [size EXCEPT ![t] = 0] /\ cap' = [cap EXCEPT ![t] = 0]
  /\ IF old[t] = NULL THEN Goto(t, "idle") /\ UNCHANGED ptr
     ELSE Goto(t, "memcpy") /\ ptr' = [ptr EXCEPT ![t] = x]
  /\ UNCHANGED <<raw, hdr, node, old, status, missed>>

\* select_pre_alloced.
SelectPreAlloced(t) ==
  LET c == cap[t]
      x == Popped(pool[c].idle_chunks)
  IN
  /\ pc[t] = "select_pre_alloced"
  /\ IF pool[c].idle_num = 0
     THEN /\ Goto(t, "dc_alloc")
          /\ UNCHANGED <<memVars, size, cap, ptr, node, old, held, status, missed>>
     ELSE /\ pool' = [pool EXCEPT ![c] =
                [idle_num |-> @.idle_num - 1,
                 idle_chunks |-> pop(@.idle_chunks),
                 alloced_chunks |-> push(x, @.alloced_chunks)]]
          /\ GiveChunk(t, x)
          /\ UNCHANGED elm_table

\* The extra list after its first chunk has been handed out: it goes to the end, behind
\* the idle ones.  (Faulty variant: it stays in front.)
TakenInFront(e) == [e EXCEPT !.idle_num = Uint16(@ - 1)]
Taken(e) == [e EXCEPT !.chunks_list = append(Popped(@), pop(@)), !.idle_num = Uint16(@ - 1)]

\* select_extra.
SelectExtra(t) ==
  LET c == cap[t] IN
  /\ pc[t] = "select_extra"
  /\ c \notin raw
  /\ IF elm_table[c].idle_num = 0
     THEN /\ Goto(t, "dc_alloc")
          /\ UNCHANGED <<memVars, size, cap, ptr, node, old, held, status, missed>>
     ELSE /\ elm_table' = [elm_table EXCEPT ![c] = Taken(@)]
          /\ GiveChunk(t, Popped(elm_table[c].chunks_list))
          /\ UNCHANGED pool

(***************************************************************************)
(* dc_free and dc_realloc                                                  *)
(***************************************************************************)

\* dc_free(x) up to its first lock: where it goes on depends on the class.
FreeStart(t, x) ==
  /\ ptr' = [ptr EXCEPT ![t] = x]
  /\ cap' = [cap EXCEPT ![t] = hdr[x]]
  /\ IF hdr[x] \in PoolCaps
     THEN /\ Goto(t, "find")
          /\ node' = [node EXCEPT ![t] = pool[hdr[x]].alloced_chunks.head]
     ELSE Goto(t, "free_extra") /\ UNCHANGED node

\* A thread calls dc_free.  The word before a chunk that the system has back, or an
\* extra list that is gone, is not there to be read.
Free(t, h) ==
  /\ pc[t] = "idle"
  /\ h \in held[t]
  /\ IF h.chunk \notin live \/ (hdr[h.chunk] \notin PoolCaps /\ IsNull(hdr[h.chunk])) THEN Fault
     ELSE /\ FreeStart(t, h.chunk)
          /\ held' = [held EXCEPT ![t] = @ \ {h}]
          /\ UNCHANGED <<memVars, size, old, status, missed>>

\* Line 271: find, one node at a time and without a lock.  A node that is taken off
\* the list meanwhile leads into the blank list, and the chunk is not found.
Find(t) ==
  LET c == cap[t]
      sl == pool[c].alloced_chunks
  IN
  /\ pc[t] = "find"
  /\ IF node[t] = NULL
     THEN /\ Goto(t, "free_extra")
          /\ missed' = (missed \/ ptr[t] \in ToSet(Contents(sl)))
          /\ UNCHANGED node
     ELSE /\ UNCHANGED missed
          /\ IF sl.data[node[t]] = ptr[t]
             THEN Goto(t, "free_pre_alloced") /\ node' = [node EXCEPT ![t] = NULL]
             ELSE node' = [node EXCEPT ![t] = sl.next[@]] /\ UNCHANGED pc
  /\ UNCHANGED <<memVars, size, cap, ptr, old, held, status>>

\* dc_free returns.
FreeEnd(t) == /\ Goto(t, "idle")
              /\ ptr' = [ptr EXCEPT ![t] = NULL]
              /\ cap' = [cap EXCEPT ![t] = 0]
              /\ UNCHANGED <<raw, size, node, old, held, status, missed>>

\* Lines 273-283: back to the idle list.
FreePreAlloced(t) ==
  LET c == cap[t]
      front == mv2head(ptr[t], pool[c].alloced_chunks)
  IN
  /\ pc[t] = "free_pre_alloced"
  /\ pool' = [pool EXCEPT ![c] = [idle_num |-> @.idle_num + 1,
                                  idle_chunks |-> push(Popped(front), @.idle_chunks),
                                  alloced_chunks |-> pop(front)]]
  /\ FreeEnd(t)
  /\ UNCHANGED <<elm_table, hdr>>

\* Whether all chunks of the extra list are idle once one more is.  (Faulty variant:
\* the comparison comes before the increment.)
AllIdleBefore(e) == e.idle_num = e.total_num
AllIdle(e) == Uint16(e.idle_num + 1) = e.total_num

\* The extra list with chunk x back at the front.
Returned(e, x) == [e EXCEPT !.chunks_list = mv2head(x, @), !.idle_num = Uint16(@ + 1)]

\* The chunk goes back to the front of the extra list, or, when it was the last in use, the
\* list and all its chunks back to the system.
GiveBack(t) ==
  LET c == cap[t]
      e == elm_table[c]
  IN
  /\ IF e = NoElm THEN UNCHANGED <<elm_table, hdr>>
     ELSE IF AllIdle(e)
     THEN /\ hdr' = Restrict(hdr, live \ ToSet(Contents(e.chunks_list)))
          /\ elm_table' = [elm_table EXCEPT ![c] = NoElm]
     ELSE /\ elm_table' = [elm_table EXCEPT ![c] = Returned(@, ptr[t])]
          /\ UNCHANGED hdr
  /\ FreeEnd(t)
  /\ UNCHANGED pool

\* Lines 248-266 and 286-309.  Only for a class with a pool is it asked whether there is a
\* list; for the others the one that line 247 found may be gone.
FreeExtra(t) ==
  LET c == cap[t]
      e == elm_table[c]
  IN
  /\ pc[t] = "free_extra"
  /\ c \notin raw
  /\ IF c \notin PoolCaps /\ (e = NoElm \/ ptr[t] \notin ToSet(Contents(e.chunks_list)))
     THEN Fault
     ELSE GiveBack(t)

\* A thread calls dc_realloc: always a new chunk, even for a size that fits the old one.
Realloc(t, h, s) ==
  /\ pc[t] = "idle"
  /\ h \in held[t]
  /\ IF BadCap(Cap(s)) THEN Fault
     ELSE /\ size' = [size EXCEPT ![t] = s] /\ cap' = [cap EXCEPT ![t] = Cap(s)]
          /\ old' = [old EXCEPT ![t] = h.chunk]
          /\ held' = [held EXCEPT ![t] = @ \ {h}]
          /\ Goto(t, Look(Cap(s)))
          /\ UNCHANGED <<memVars, ptr, node, status, missed>>

\* Lines 332-333: the whole old chunk is copied, past the end of a smaller new one; then
\* the old one is freed.
Memcpy(t) ==
  /\ pc[t] = "memcpy"
  /\ IF \/ ~({old[t], ptr[t]} \subseteq live)
        \/ POW2(hdr[old[t]]) > POW2(hdr[ptr[t]])
        \/ hdr[old[t]] \notin PoolCaps /\ IsNull(hdr[old[t]])
     THEN Fault
     ELSE /\ FreeStart(t, old[t])
          /\ old' = [old EXCEPT ![t] = NULL]
          /\ UNCHANGED <<memVars, size, held, status, missed>>

Step(t) ==
  \/ AllocAgain(t) \/ LookAgain(t) \/ MkEl(t) \/ FillEl(t) \/ ExpandEl(t) \/ Refill(t)
  \/ SelectPreAlloced(t) \/ SelectExtra(t)
  \/ Find(t) \/ FreePreAlloced(t) \/ FreeExtra(t) \/ Memcpy(t)

CallOf(t) ==
  /\ calls < MaxCalls
  /\ calls' = calls + 1
  /\ \/ \E s \in Sizes : Alloc(t, s)
     \/ \E h \in held[t] : Free(t, h) \/ \E s \in Sizes : Realloc(t, h, s)

Next == /\ status = "run"
        /\ \E t \in Threads : CallOf(t) \/ (Step(t) /\ UNCHANGED calls)

Spec == Init /\ [][Next]_vars

(***************************************************************************)
(* Properties                                                              *)
(***************************************************************************)

\* The chunks that are not the allocator's to hand out: held by a thread, or on their
\* way back.
Out(t) == {h.chunk : h \in held[t]} \cup ({old[t], ptr[t]} \ {NULL})
AllOut == UNION {Out(t) : t \in Threads}

Lists == (UNION {{pool[c].idle_chunks, pool[c].alloced_chunks} : c \in PoolCaps})
           \cup {elm_table[c].chunks_list : c \in {d \in Caps : elm_table[d] # NoElm}}

InLists == UNION {ToSet(Contents(sl)) : sl \in Lists}

\* Types of the variables of dc_mm1.c.
MmTypeOK ==
  /\ \A c \in PoolCaps : pool[c].idle_num \in 0 .. chunks_num
  /\ \A c \in Caps : /\ elm_table[c].idle_num \in 0 .. COUNT_MOD - 1
                     /\ elm_table[c].total_num \in 0 .. COUNT_MOD - 1
                     /\ elm_table[c].idle_num <= elm_table[c].total_num \/ missed
  /\ raw \subseteq Caps
  /\ live \subseteq Chunks /\ hdr \in [live -> Caps]
  /\ size \in [Threads -> Sizes \cup {0}] /\ cap \in [Threads -> Caps]
  /\ \A f \in {ptr, old} : f \in [Threads -> Chunks \cup {NULL}]
  /\ \A t \in Threads : node[t] \in 0 .. chunks_num
  /\ \A t \in Threads : \A h \in held[t] : h.chunk \in Chunks /\ h.size \in Sizes
  /\ status \in {"run", "fault"}
  /\ missed \in BOOLEAN
  /\ calls \in 0 .. MaxCalls

\* Every list stays well formed under append, push, pop, mv2head and sl_expand, in
\* whatever order threads come to it (slist.c).
ListsSound == \A sl \in Lists : SListSound(sl)

\* A chunk is handed to one thread at a time, has room for the size asked for if that is
\* held by 32 bits (dc_mm1.c:354 cuts it), and the books agree with that: of a pool the
\* allocated list holds the chunks in use, of an extra list the last total_num - idle_num
\* chunks are in use, and there is no chunk in use without its list (select_extra,
\* dc_mm1.c:121-123; dc_free, 246-309).  All of it until an unlocked search of dc_free goes
\* astray or the count of a list wraps.
UseExact ==
  missed \/
  /\ \A t, u \in Threads : t # u => Out(t) \cap Out(u) = {}
  /\ \A t \in Threads : \A h \in held[t] :
       h.size < Pow2(UINT32_BITS) => h.size <= POW2(hdr[h.chunk])
  /\ \A c \in PoolCaps :
       /\ pool[c].idle_num = pool[c].idle_chunks.length
       /\ ToSet(Contents(pool[c].alloced_chunks)) \subseteq AllOut
       /\ ToSet(Contents(pool[c].idle_chunks)) \cap AllOut = {}
  /\ \A c \in Caps :
       LET e == elm_table[c]
           chunks == Contents(e.chunks_list)
           used == {x \in AllOut : hdr[x] = c}
                     \ (IF c \in PoolCaps THEN ToSet(Contents(pool[c].alloced_chunks)) ELSE {})
       IN  /\ Len(chunks) = e.total_num
           /\ used = ToSet(SubSeq(chunks, e.idle_num + 1, e.total_num))

\* Once every thread has freed what it had, the pools are full and no extra list is
\* left (dc_free, dc_mm1.c:254-263 and 297-307): nothing leaks, unless the search went
\* astray or a count wrapped.
NothingLeaks ==
  (status = "run" /\ ~missed /\ \A t \in Threads : pc[t] = "idle" /\ held[t] = {}) =>
    /\ \A c \in PoolCaps : pool[c].idle_num = chunks_num
    /\ \A c \in Caps : IsNull(c)
    /\ live = InLists
=============================================================================
