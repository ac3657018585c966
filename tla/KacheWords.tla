----------------------------- MODULE KacheWords -----------------------------
(***************************************************************************)
(* The cache of dl_kache.c as its threads really share it: without a lock. *)
(* Kache takes a store or a lookup as one step; here every word of memory  *)
(* that a thread reads or writes is a step of its own, and names may share *)
(* a slot of the hash table.                                               *)
(*                                                                         *)
(* A store copies a data_t, its ip before its timestamp, and then, in a    *)
(* slot, the characters of the key.  A lookup compares the characters; the *)
(* caller of kache_retrieve then reads the timestamp through the pointer   *)
(* it was handed and, if that is young enough, the ip.  Aligned words are  *)
(* read and written whole and in program order.                            *)
(***************************************************************************)
EXTENDS Kache

CONSTANTS Storers,    \* the threads that store (DNS threads)
          Seekers,    \* the threads that look up (TCP workers, UDP server)
          NoName,     \* a thread that is in no call
          Answers     \* Answers[n]: what the lookup of n may yield, its address or DNS_ERROR

ASSUME NoNameAssumption == NoName \notin AllNames
ASSUME EntriesAssumption == HashVals \cap Names = {}
ASSUME AnswersAssumption == \A n \in Names : Answers[n] \subseteq {n, DNS_ERROR}

VARIABLES storing,    \* storing[w]: the key w is storing, or NoName
          data,       \* data[w]: *data of kache_store
          copied,     \* copied[w]: words of the store written so far
          seeking,    \* seeking[r]: the key r is looking up, or NoName
          spot,       \* spot[r]: "part_key", "timestamp" or "ip", what r reads next
          compared,   \* compared[r]: characters found equal so far
          checked,    \* checked[r]: the time at which r found the entry young enough
          got,        \* got[r]: what r's last lookup accepted, as a set of at most one
          put,        \* history: put[l]: when the ip of entry l was written last
          crossed,    \* history: slots in which stores of two names overlapped
          shaken      \* history: seekers whose slot was stored into meanwhile

storeVars == <<storing, data, copied>>
seekVars == <<seeking, spot, compared, checked, got>>
vars == <<kacheVars, storeVars, seekVars, put, crossed, shaken>>

Entries == TrieNames \cup HashVals

\* The entry that trie_retrieve or BKDRHash leads to.
Entry(n) == IF n \in TrieNames THEN n ELSE BKDRHash[n]

EntryData(l) == IF l \in TrieNames THEN main_tr_data[l] ELSE hash_data[l].h_data

Init == /\ KacheInit
        /\ storing = [w \in Storers |-> NoName]
        /\ data = [w \in Storers |-> [ip |-> Zero, timestamp |-> 0]]
        /\ copied = [w \in Storers |-> 0]
        /\ seeking = [r \in Seekers |-> NoName]
        /\ spot = [r \in Seekers |-> "part_key"]
        /\ compared = [r \in Seekers |-> 0]
        /\ checked = [r \in Seekers |-> 0]
        /\ got = [r \in Seekers |-> {}]
        /\ put = [l \in Entries |-> IF l \in TrieNames THEN StartTime ELSE 0]
        /\ crossed = {}
        /\ shaken = {}

(***************************************************************************)
(* Storing                                                                 *)
(***************************************************************************)

\* The words of a data_t in the order memcpy writes them.  (Faulty variant: the
\* timestamp first.)
TimestampFirst == <<"timestamp", "ip">>
DataWords == <<"ip", "timestamp">>

\* memcpy of len characters of the key.  (Faulty variant: the last is left out.)
KeyCharsShort(n) == Len(First4[n]) - 1
KeyChars(n) == Len(First4[n])

\* Words that a store of n writes: a trie entry has no key characters.
StoreLength(n) == 2 + (IF n \in TrieNames THEN 0 ELSE KeyChars(n))

\* The other threads that are storing into entry l.
StoringInto(l) == {w \in Storers : storing[w] # NoName /\ Entry(storing[w]) = l}

\* The lookups that a store into entry l may disturb.
SeekersOf(l) == {r \in Seekers : seeking[r] \in Names \ TrieNames /\ Entry(seeking[r]) = l}

\* A DNS thread has resolved n, or failed to, and calls kache_store.
StoreBegin(w, n, ip) ==
  /\ storing[w] = NoName
  /\ storing' = [storing EXCEPT ![w] = n]
  /\ data' = [data EXCEPT ![w] = [ip |-> ip, timestamp |-> now]]
  /\ copied' = [copied EXCEPT ![w] = 0]
  /\ crossed' = IF StoringInto(Entry(n)) = {} THEN crossed \ {Entry(n)}
                ELSE IF \E v \in StoringInto(Entry(n)) : storing[v] # n
                     THEN crossed \cup {Entry(n)}
                     ELSE crossed
  /\ shaken' = shaken \cup SeekersOf(Entry(n))
  /\ UNCHANGED <<kacheVars, seekVars, put>>

\* One of the first two words: part of *data goes to entry l.
CopyData(l, field, d) ==
  /\ IF l \in TrieNames
     THEN /\ main_tr_data' = [main_tr_data EXCEPT ![l][field] = d[field]]
          /\ UNCHANGED hash_data
     ELSE /\ hash_data' = [hash_data EXCEPT ![l].h_data[field] = d[field]]
          /\ UNCHANGED main_tr_data
  /\ put' = IF field = "ip" THEN [put EXCEPT ![l] = now] ELSE put

\* A later word: character i of the key.
CopyKey(l, i, n) ==
  /\ hash_data' = [hash_data EXCEPT ![l].part_key[i] = First4[n][i]]
  /\ UNCHANGED <<main_tr_data, put>>

\* kache_store writes its next word, and returns after the last.
StoreWord(w) ==
  /\ storing[w] # NoName
  /\ IF copied[w] < 2 THEN CopyData(Entry(storing[w]), DataWords[copied[w] + 1], data[w])
                      ELSE CopyKey(Entry(storing[w]), copied[w] - 1, storing[w])
  /\ IF copied[w] + 1 = StoreLength(storing[w])
     THEN /\ storing' = [storing EXCEPT ![w] = NoName]
          /\ data' = [data EXCEPT ![w] = [ip |-> Zero, timestamp |-> 0]]
          /\ copied' = [copied EXCEPT ![w] = 0]
     ELSE /\ copied' = [copied EXCEPT ![w] = @ + 1]
          /\ UNCHANGED <<storing, data>>
  /\ UNCHANGED <<now, seekVars, crossed, shaken>>

(***************************************************************************)
(* Looking up                                                              *)
(***************************************************************************)

\* What is read next once k characters are known to be equal.
AfterChars(n, k) ==
  IF n \in TrieNames \/ k = Len(First4[n]) THEN "timestamp" ELSE "part_key"

\* do_search calls kache_retrieve for n.
RetrieveBegin(r, n) ==
  /\ seeking[r] = NoName
  /\ seeking' = [seeking EXCEPT ![r] = n]
  /\ spot' = [spot EXCEPT ![r] = AfterChars(n, 0)]
  /\ got' = [got EXCEPT ![r] = {}]
  /\ shaken' = IF n \notin TrieNames /\ (StoringInto(Entry(n)) # {} \/ Entry(n) \in crossed)
               THEN shaken \cup {r} ELSE shaken \ {r}
  /\ UNCHANGED <<kacheVars, storeVars, compared, checked, put, crossed>>

\* The lookup ends, with a miss or an accepted entry.
Return(r, result) ==
  /\ seeking' = [seeking EXCEPT ![r] = NoName]
  /\ spot' = [spot EXCEPT ![r] = "part_key"]
  /\ compared' = [compared EXCEPT ![r] = 0]
  /\ checked' = [checked EXCEPT ![r] = 0]
  /\ got' = [got EXCEPT ![r] = result]

\* One turn of strncmp: is this character of the slot that of the key?  (Faulty
\* variant: the outcome is not looked at.)
AnyChar(r) == TRUE
CharEqual(r) ==
  hash_data[Entry(seeking[r])].part_key[compared[r] + 1] = First4[seeking[r]][compared[r] + 1]

CompareChar(r) ==
  /\ seeking[r] # NoName
  /\ spot[r] = "part_key"
  /\ IF CharEqual(r)
     THEN /\ compared' = [compared EXCEPT ![r] = @ + 1]
          /\ spot' = [spot EXCEPT ![r] = AfterChars(seeking[r], compared[r] + 1)]
          /\ UNCHANGED <<seeking, checked, got>>
     ELSE Return(r, {})
  /\ UNCHANGED <<kacheVars, storeVars, put, crossed, shaken>>

\* The caller of kache_retrieve reads the timestamp through the pointer.
CheckTimestamp(r) ==
  /\ seeking[r] # NoName
  /\ spot[r] = "timestamp"
  /\ IF EntryData(Entry(seeking[r])).timestamp + TIME_OUT < now
     THEN Return(r, {})
     ELSE /\ spot' = [spot EXCEPT ![r] = "ip"]
          /\ checked' = [checked EXCEPT ![r] = now]
          /\ UNCHANGED <<seeking, compared, got>>
  /\ UNCHANGED <<kacheVars, storeVars, put, crossed, shaken>>

\* ... and, later, the ip.
ReadIp(r) ==
  /\ seeking[r] # NoName
  /\ spot[r] = "ip"
  /\ Return(r, {[of |-> seeking[r], ip |-> EntryData(Entry(seeking[r])).ip,
                 put |-> put[Entry(seeking[r])], checked |-> checked[r]]})
  /\ UNCHANGED <<kacheVars, storeVars, put, crossed, shaken>>

SecondPasses == Tick /\ UNCHANGED <<storeVars, seekVars, put, crossed, shaken>>

Next == \/ \E w \in Storers : \/ \E n \in Names : \E ip \in Answers[n] : StoreBegin(w, n, ip)
                              \/ StoreWord(w)
        \/ \E r \in Seekers : \/ \E n \in Names : RetrieveBegin(r, n)
                              \/ CompareChar(r) \/ CheckTimestamp(r) \/ ReadIp(r)
        \/ SecondPasses

Spec == Init /\ [][Next]_vars

(***************************************************************************)
(* Properties                                                              *)
(***************************************************************************)

\* Types of the variables of dl_kache.c and of the threads inside it.
WordsTypeOK ==
  /\ KacheTypeOK
  /\ storing \in [Storers -> Names \cup {NoName}]
  /\ data \in [Storers -> Data]
  /\ copied \in [Storers -> 0 .. 5]
  /\ seeking \in [Seekers -> Names \cup {NoName}]
  /\ spot \in [Seekers -> {"part_key", "timestamp", "ip"}]
  /\ compared \in [Seekers -> 0 .. 4]
  /\ \A r \in Seekers : seeking[r] = NoName => compared[r] = 0
  /\ checked \in [Seekers -> Nat]
  /\ DOMAIN got = Seekers
  /\ \A r \in Seekers : \A g \in got[r] : /\ g.of \in Names /\ g.ip \in Ips
                                          /\ g.put \in Nat /\ g.checked \in Nat
  /\ put \in [Entries -> Nat]
  /\ crossed \subseteq Entries
  /\ shaken \subseteq Seekers

\* An address that do_search accepts was put into the cache no longer than TIME_OUT
\* before its check, although timestamp and ip are read at different moments and
\* threads may be storing in between: the ip is written before the timestamp and
\* read after it (kache_store, dl_kache.c:91 and 97; do_search,
\* serv_thread_make.c:120 and 150).
AcceptedIsRecent ==
  \A r \in Seekers : \A g \in got[r] : g.put + TIME_OUT >= g.checked

\* Names whose key characters agree wherever both have one.
Lookalike(m, n) ==
  \A i \in DOMAIN First4[m] \cap DOMAIN First4[n] : First4[m][i] = First4[n][i]

\* A lookup that accepts the address of another name (kache_retrieve,
\* dl_kache.c:69-75) was for a name outside the trie whose hash value the other one
\* shares, and either their first characters do not tell them apart, or a store
\* into the slot overlapped the lookup or another name's store.
ForeignNeedsCollision ==
  \A r \in Seekers : \A g \in got[r] :
    g.ip \in Names \ {g.of} =>
      /\ {g.of, g.ip} \cap TrieNames = {}
      /\ BKDRHash[g.ip] = BKDRHash[g.of]
      /\ Lookalike(g.ip, g.of) \/ r \in shaken

\* A slot that nobody is storing into holds the key characters of the name whose
\* address it holds, unless the stores of two names overlapped there
\* (kache_store, dl_kache.c:97-98).
SlotKeyMatches ==
  \A h \in HashVals \ crossed :
    StoringInto(h) = {} /\ hash_data[h].h_data.ip \in Names =>
      \A i \in DOMAIN First4[hash_data[h].h_data.ip] :
        hash_data[h].part_key[i] = First4[hash_data[h].h_data.ip][i]
=============================================================================
