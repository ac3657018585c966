------------------------------- MODULE Kache --------------------------------
(***************************************************************************)
(* The cache of the server, dl_kache.c: one data_t (ip and timestamp) per  *)
(* domain of the trie built from the domain list, and for every other      *)
(* domain the slot of a hash table, which keeps the data of the domain     *)
(* stored there last and up to four characters of its name.                *)
(*                                                                         *)
(* A domain is known to the cache by three things: whether the trie holds  *)
(* it, its hash value, and its first four characters (all of them when it  *)
(* is shorter).  Retrieving and storing are one step each here.            *)
(***************************************************************************)
EXTENDS Naturals, Sequences

CONSTANTS Names,      \* the domains
          TrieNames,  \* the domains of the trie
          HashVals,   \* the values of BKDRHash
          BKDRHash,   \* BKDRHash[n]: the hash value of domain n
          First4,     \* First4[n]: the first strlen(n) > 4 ? 4 : strlen(n) characters
          Chars,      \* the characters of names
          TIME_OUT,   \* seconds an entry stays valid
          MaxTime     \* bound: the clock stops here

EmptyName == ""
AllNames == Names \cup {EmptyName}
NUL == "NUL"
PartKeys == [1 .. 4 -> Chars \cup {NUL}]

\* An ip is named after the domain it is the address of.
DNS_ERROR == "DNS_ERROR"
CACHE_MISS == "CACHE_MISS"
Zero == "0.0.0.0"
Ips == Names \cup {DNS_ERROR, CACHE_MISS, Zero}

ASSUME KacheAssumption ==
  /\ EmptyName \notin Names
  /\ TrieNames \subseteq Names
  /\ BKDRHash \in [AllNames -> HashVals]
  /\ First4 \in [AllNames -> UNION {[1 .. k -> Chars] : k \in 0 .. 4}]
  /\ NUL \notin Chars
  /\ TIME_OUT \in Nat
  /\ MaxTime \in Nat

ASSUME MarkerAssumption == {DNS_ERROR, CACHE_MISS, Zero} \cap Names = {}

VARIABLES main_tr_data,  \* data of the trie's domains
          hash_data,     \* the slots of the hash table
          now            \* time(NULL)

kacheVars == <<main_tr_data, hash_data, now>>

Data == [ip : Ips, timestamp : Nat]
HashData == [h_data : Data, part_key : PartKeys]

\* The process starts later than TIME_OUT seconds after the epoch.
StartTime == TIME_OUT + 1

\* kache_init: the trie's domains with the addresses of the list, stamped now;
\* the hash table filled with zero bytes.
KacheInit ==
  /\ now = StartTime
  /\ main_tr_data = [n \in TrieNames |-> [ip |-> n, timestamp |-> StartTime]]
  /\ hash_data = [h \in HashVals |->
                    [h_data |-> [ip |-> Zero, timestamp |-> 0],
                     part_key |-> [i \in 1 .. 4 |-> NUL]]]

\* 0 == strncmp(part_key, key, len)
SamePartKey(h, n) ==
  \A i \in DOMAIN First4[n] : hash_data[h].part_key[i] = First4[n][i]

\* kache_retrieve: NULL is the empty set, a pointer to data d is {d}.
kache_retrieve(n) ==
  IF n \in TrieNames THEN {main_tr_data[n]}
  ELSE IF SamePartKey(BKDRHash[n], n) THEN {hash_data[BKDRHash[n]].h_data}
  ELSE {}

\* kache_store: of a longer key already there, a shorter one replaces the
\* first characters only.
kache_store(n, d) ==
  /\ IF n \in TrieNames
     THEN /\ main_tr_data' = [main_tr_data EXCEPT ![n] = d]
          /\ UNCHANGED hash_data
     ELSE /\ hash_data' = [hash_data EXCEPT ![BKDRHash[n]] =
               [h_data |-> d,
                part_key |-> [i \in 1 .. 4 |->
                   IF i \in DOMAIN First4[n] THEN First4[n][i] ELSE @.part_key[i]]]]
          /\ UNCHANGED main_tr_data
  /\ UNCHANGED now

\* The entries of n that do_search accepts:
\* NULL == result || result->timestamp + TIME_OUT < time(NULL) is a miss.
Fresh(n) == {d \in kache_retrieve(n) : d.timestamp + TIME_OUT >= now}

\* A second passes.
Tick == now < MaxTime /\ now' = now + 1 /\ UNCHANGED <<main_tr_data, hash_data>>

KacheTypeOK == /\ main_tr_data \in [TrieNames -> Data]
               /\ hash_data \in [HashVals -> HashData]
               /\ now \in Nat
=============================================================================
