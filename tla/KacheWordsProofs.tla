-------------------------- MODULE KacheWordsProofs --------------------------
(***************************************************************************)
(* The cache without a lock, for every set of names, slots and threads and *)
(* every time-out: its words keep their types; an address that a lookup    *)
(* accepts is no older than the time-out allows; the key of a slot is that *)
(* of the name whose address it holds, where no two stores overlapped; and *)
(* a lookup accepts another name's address only where names collide.       *)
(***************************************************************************)
EXTENDS KacheWords, SequenceTheorems, TLAPS

\* A thread inside kache_store has words left to write, and one that compares
\* characters has characters left to compare.
CallsShape ==
  /\ \A w \in Storers : storing[w] # NoName => copied[w] < StoreLength(storing[w])
  /\ \A r \in Seekers : seeking[r] # NoName /\ spot[r] = "part_key" =>
       seeking[r] \notin TrieNames /\ compared[r] < Len(First4[seeking[r]])

WordsInv == WordsTypeOK /\ CallsShape

\* The timestamp of an entry is no later than the moment its address was written; a
\* thread that has written the address and not yet the timestamp will keep it so;
\* and a thread that has checked the timestamp will find an address as young.
EntriesInOrder == \A l \in Entries : EntryData(l).timestamp <= put[l] /\ put[l] <= now
StoresInOrder ==
  \A w \in Storers : storing[w] # NoName =>
    /\ data[w].timestamp <= now
    /\ copied[w] > 0 => data[w].timestamp <= put[Entry(storing[w])]
SeeksInOrder ==
  \A r \in Seekers : seeking[r] # NoName /\ spot[r] = "ip" =>
    put[Entry(seeking[r])] + TIME_OUT >= checked[r]

RecentInv == EntriesInOrder /\ StoresInOrder /\ SeeksInOrder /\ AcceptedIsRecent

(***************************************************************************)
(* Entries and keys                                                        *)
(***************************************************************************)

\* A name of the trie leads to its own entry, any other to a slot of the table.
LEMMA EntryOf ==
  ASSUME NEW n \in Names
  PROVE  /\ Entry(n) \in Entries
         /\ n \in TrieNames => Entry(n) = n
         /\ n \notin TrieNames => Entry(n) \in HashVals /\ Entry(n) \notin TrieNames
BY KacheAssumption, EntriesAssumption DEF Entry, Entries, AllNames

\* A key has at most four characters.
LEMMA KeyLength ==
  ASSUME NEW n \in Names
  PROVE  \E k \in 0 .. 4 : Len(First4[n]) = k /\ First4[n] \in [1 .. k -> Chars]
<1>1. PICK k \in 0 .. 4 : First4[n] \in [1 .. k -> Chars]
  BY KacheAssumption DEF AllNames
<1>2. Len(First4[n]) = k
  BY <1>1
<1> QED BY <1>1, <1>2

\* A store writes between two and six words.
LEMMA StoreLengthType ==
  ASSUME NEW n \in Names
  PROVE  /\ StoreLength(n) \in 2 .. 6
         /\ n \in TrieNames => StoreLength(n) = 2
         /\ n \notin TrieNames => StoreLength(n) = 2 + Len(First4[n])
<1>1. Len(First4[n]) \in 0 .. 4
  BY KeyLength
<1>2. CASE n \in TrieNames
  BY <1>2 DEF StoreLength
<1>3. CASE n \notin TrieNames
  <2>1. StoreLength(n) = 2 + Len(First4[n])
    BY <1>3 DEF StoreLength, KeyChars
  <2> DEFINE k == Len(First4[n])
  <2>2. k \in 0 .. 4
    BY <1>1
  <2> HIDE DEF k
  <2>3. 2 + k \in 2 .. 6
    BY <2>2
  <2> QED BY <1>3, <2>1, <2>3 DEF k
<1> QED BY <1>2, <1>3

\* The data of an entry have their type.
LEMMA EntryDataType ==
  ASSUME KacheTypeOK, NEW l \in Entries
  PROVE  EntryData(l) \in Data
BY DEF KacheTypeOK, EntryData, Entries, HashData

(***************************************************************************)
(* Types                                                                   *)
(***************************************************************************)

\* The threads of the initial state are in no call.
LEMMA WordsInit == Init => WordsInv
<1> SUFFICES ASSUME Init PROVE WordsInv
  OBVIOUS
<1>1. KacheTypeOK
  <2>1. StartTime \in Nat /\ 0 \in Nat
    BY KacheAssumption DEF StartTime
  <2>2. \A n \in TrieNames : [ip |-> n, timestamp |-> StartTime] \in Data
    BY <2>1, KacheAssumption DEF Data, Ips
  <2>3. [ip |-> Zero, timestamp |-> 0] \in Data
    BY <2>1 DEF Data, Ips
  <2>4. [i \in 1 .. 4 |-> NUL] \in PartKeys
    BY DEF PartKeys
  <2>5. hash_data \in [HashVals -> HashData]
    BY <2>3, <2>4 DEF Init, KacheInit, HashData
  <2> QED BY <2>1, <2>2, <2>5 DEF Init, KacheInit, KacheTypeOK
<1>2. data \in [Storers -> Data] /\ put \in [Entries -> Nat]
  BY KacheAssumption DEF Init, Data, Ips, StartTime
<1>3. WordsTypeOK
  BY <1>1, <1>2 DEF Init, WordsTypeOK
<1>4. CallsShape
  BY DEF Init, CallsShape
<1> QED BY <1>3, <1>4 DEF WordsInv

\* A call of kache_store begins.
LEMMA StoreBeginTypes ==
  ASSUME WordsInv, NEW w \in Storers, NEW n \in Names, NEW ip \in Answers[n],
         StoreBegin(w, n, ip)
  PROVE  WordsInv'
<1> USE DEF WordsInv, WordsTypeOK
<1>1. [ip |-> ip, timestamp |-> now] \in Data
  BY AnswersAssumption DEF KacheTypeOK, Data, Ips
<1>2. data' \in [Storers -> Data]
  BY <1>1 DEF StoreBegin
<1>3. KacheTypeOK'
  BY DEF StoreBegin, KacheTypeOK, kacheVars
<1>4. crossed' \subseteq Entries
  BY EntryOf DEF StoreBegin
<1>5. shaken' \subseteq Seekers
  BY DEF StoreBegin, SeekersOf
<1>6. WordsTypeOK'
  BY <1>2, <1>3, <1>4, <1>5 DEF StoreBegin, seekVars
<1>7. \A v \in Storers : storing'[v] # NoName => copied'[v] < StoreLength(storing'[v])
  <2> SUFFICES ASSUME NEW v \in Storers, storing'[v] # NoName
               PROVE  copied'[v] < StoreLength(storing'[v])
    OBVIOUS
  <2>1. CASE v = w
    <3>1. storing'[v] = n /\ copied'[v] = 0
      BY <2>1 DEF StoreBegin
    <3> DEFINE len == StoreLength(n)
    <3>2. len \in 2 .. 6
      BY StoreLengthType
    <3> HIDE DEF len
    <3>3. 0 < len
      BY <3>2
    <3> QED BY <3>1, <3>3 DEF len
  <2>2. CASE v # w
    BY <2>2 DEF StoreBegin, CallsShape
  <2> QED BY <2>1, <2>2
<1>8. CallsShape'
  BY <1>7 DEF CallsShape, StoreBegin, seekVars
<1> QED BY <1>6, <1>8

\* The first two words of a store are the address and the timestamp.
LEMMA FirstWords == DataWords[1] = "ip" /\ DataWords[2] = "timestamp"
BY DEF DataWords

\* Copying a word of a data_t keeps the types of the cache, and changes no other field.
LEMMA CopyDataTypes ==
  ASSUME KacheTypeOK, put \in [Entries -> Nat], UNCHANGED now,
         NEW l \in Entries, NEW field \in {"ip", "timestamp"}, NEW d \in Data,
         CopyData(l, field, d)
  PROVE  /\ KacheTypeOK'
         /\ put' \in [Entries -> Nat]
         /\ \A k \in Entries : k # l => EntryData(k)' = EntryData(k)
         /\ field = "ip" => EntryData(l)'.timestamp = EntryData(l).timestamp
         /\ field = "timestamp" => EntryData(l)'.timestamp = d.timestamp
<1> USE DEF KacheTypeOK
<1>1. put' \in [Entries -> Nat]
  BY DEF CopyData
<1>2. CASE l \in TrieNames
  <2>1. main_tr_data' = [main_tr_data EXCEPT ![l][field] = d[field]] /\ hash_data' = hash_data
    BY <1>2 DEF CopyData
  <2>2. main_tr_data[l] \in Data /\ main_tr_data'[l] = [main_tr_data[l] EXCEPT ![field] = d[field]]
    BY <1>2, <2>1
  <2>3. main_tr_data'[l] \in Data
    BY <2>2 DEF Data
  <2>4. \A k \in TrieNames : k # l => main_tr_data'[k] = main_tr_data[k]
    BY <2>1
  <2>5. main_tr_data' \in [TrieNames -> Data]
    BY <2>1, <2>3, <2>4
  <2>6. /\ field = "ip" => main_tr_data'[l].timestamp = main_tr_data[l].timestamp
        /\ field = "timestamp" => main_tr_data'[l].timestamp = d.timestamp
    BY <2>2 DEF Data
  <2> QED BY <1>1, <1>2, <2>1, <2>4, <2>5, <2>6 DEF EntryData
<1>3. CASE l \notin TrieNames
  <2>0. l \in HashVals
    BY <1>3 DEF Entries
  <2>1. /\ hash_data' = [hash_data EXCEPT ![l].h_data[field] = d[field]]
        /\ main_tr_data' = main_tr_data
    BY <1>3 DEF CopyData
  <2>2. hash_data[l] \in HashData
    BY <2>0
  <2>3. hash_data'[l] = [hash_data[l] EXCEPT !.h_data = [@ EXCEPT ![field] = d[field]]]
    BY <2>0, <2>1
  <2>4. [hash_data[l].h_data EXCEPT ![field] = d[field]] \in Data
    BY <2>2 DEF HashData, Data
  <2>5. /\ hash_data'[l].h_data = [hash_data[l].h_data EXCEPT ![field] = d[field]]
        /\ hash_data'[l] \in HashData
    BY <2>2, <2>3, <2>4 DEF HashData
  <2>6. \A k \in HashVals : k # l => hash_data'[k] = hash_data[k]
    BY <2>1
  <2>7. hash_data' \in [HashVals -> HashData]
    BY <2>1, <2>5, <2>6
  <2>8. /\ field = "ip" => hash_data'[l].h_data.timestamp = hash_data[l].h_data.timestamp
        /\ field = "timestamp" => hash_data'[l].h_data.timestamp = d.timestamp
    BY <2>2, <2>5 DEF HashData, Data
  <2> QED BY <1>1, <1>3, <2>1, <2>6, <2>7, <2>8 DEF EntryData, Entries
<1> QED BY <1>2, <1>3

\* Copying a character of the key keeps the types of the cache and all data.
LEMMA CopyKeyTypes ==
  ASSUME KacheTypeOK, UNCHANGED now, NEW n \in Names, n \notin TrieNames,
         NEW i \in 1 .. Len(First4[n]), CopyKey(Entry(n), i, n)
  PROVE  /\ KacheTypeOK'
         /\ put' = put
         /\ \A k \in Entries : EntryData(k)' = EntryData(k)
<1> DEFINE l == Entry(n)
<1>0. l \in HashVals /\ First4[n][i] \in Chars /\ i \in 1 .. 4
  <2>1. PICK k \in 0 .. 4 : Len(First4[n]) = k /\ First4[n] \in [1 .. k -> Chars]
    BY KeyLength
  <2>2. i \in 1 .. k
    BY <2>1
  <2> QED BY <2>1, <2>2, EntryOf
<1>1. /\ hash_data' = [hash_data EXCEPT ![l].part_key[i] = First4[n][i]]
      /\ main_tr_data' = main_tr_data /\ put' = put
  BY DEF CopyKey
<1> HIDE DEF l
<1>2. hash_data[l] \in HashData /\ hash_data \in [HashVals -> HashData]
  BY <1>0 DEF KacheTypeOK
<1>3. hash_data'[l] = [hash_data[l] EXCEPT !.part_key = [@ EXCEPT ![i] = First4[n][i]]]
  BY <1>0, <1>1, <1>2
<1>4. [hash_data[l].part_key EXCEPT ![i] = First4[n][i]] \in PartKeys
  BY <1>0, <1>2 DEF HashData, PartKeys
<1>5. hash_data'[l] \in HashData /\ hash_data'[l].h_data = hash_data[l].h_data
  BY <1>2, <1>3, <1>4 DEF HashData
<1>6. \A k \in HashVals : k # l => hash_data'[k] = hash_data[k]
  BY <1>1, <1>2
<1>7. hash_data' \in [HashVals -> HashData]
  BY <1>1, <1>2, <1>5, <1>6
<1>8. \A k \in HashVals : hash_data'[k].h_data = hash_data[k].h_data
  BY <1>5, <1>6
<1> QED BY <1>1, <1>7, <1>8 DEF KacheTypeOK, EntryData, Entries

\* A store writes one more word, the first two of them data, the others characters
\* of the key.
LEMMA StoreWordCopies ==
  ASSUME WordsInv, NEW w \in Storers, StoreWord(w)
  PROVE  /\ storing[w] \in Names
         /\ copied[w] \in 0 .. 5
         /\ copied[w] = 0 => CopyData(Entry(storing[w]), "ip", data[w])
         /\ copied[w] = 1 => CopyData(Entry(storing[w]), "timestamp", data[w])
         /\ copied[w] > 1 => /\ storing[w] \notin TrieNames
                             /\ copied[w] - 1 \in 1 .. Len(First4[storing[w]])
                             /\ CopyKey(Entry(storing[w]), copied[w] - 1, storing[w])
<1> DEFINE n == storing[w]
           k == copied[w]
<1>1. n \in Names /\ k \in 0 .. 5 /\ k < StoreLength(n)
  BY DEF WordsInv, WordsTypeOK, CallsShape, StoreWord
<1>2. IF k < 2 THEN CopyData(Entry(n), DataWords[k + 1], data[w])
               ELSE CopyKey(Entry(n), k - 1, n)
  BY DEF StoreWord
<1> HIDE DEF n, k
<1>3. k = 0 => CopyData(Entry(n), "ip", data[w])
  BY <1>2, FirstWords
<1>4. k = 1 => CopyData(Entry(n), "timestamp", data[w])
  BY <1>2, FirstWords
<1>5. ASSUME k > 1
      PROVE  n \notin TrieNames /\ k - 1 \in 1 .. Len(First4[n]) /\ CopyKey(Entry(n), k - 1, n)
  <2>1. PICK len \in 0 .. 4 : Len(First4[n]) = len
    BY <1>1, KeyLength
  <2>2. n \notin TrieNames
    <3>1. SUFFICES ASSUME n \in TrieNames PROVE FALSE
      OBVIOUS
    <3>2. StoreLength(n) = 2
      BY <1>1, <3>1, StoreLengthType
    <3> QED BY <1>1, <1>5, <3>2
  <2>3. k < 2 + len
    BY <1>1, <2>1, <2>2, StoreLengthType
  <2>4. k - 1 \in 1 .. len
    BY <1>1, <1>5, <2>3
  <2> QED BY <1>1, <1>2, <1>5, <2>1, <2>2, <2>4
<1> QED BY <1>1, <1>3, <1>4, <1>5 DEF n, k

\* The word written keeps the types of the cache and of the history of addresses.
LEMMA StoreWordKache ==
  ASSUME WordsInv, NEW w \in Storers, StoreWord(w)
  PROVE  KacheTypeOK' /\ put' \in [Entries -> Nat]
<1>1. KacheTypeOK /\ put \in [Entries -> Nat] /\ data[w] \in Data /\ UNCHANGED now
  BY DEF WordsInv, WordsTypeOK, StoreWord
<1>2. storing[w] \in Names /\ copied[w] \in 0 .. 5 /\ Entry(storing[w]) \in Entries
  BY StoreWordCopies, EntryOf
<1>3. CASE copied[w] = 0
  BY <1>1, <1>2, <1>3, StoreWordCopies, CopyDataTypes
<1>4. CASE copied[w] = 1
  BY <1>1, <1>2, <1>4, StoreWordCopies, CopyDataTypes
<1>5. CASE copied[w] > 1
  BY <1>1, <1>2, <1>5, StoreWordCopies, CopyKeyTypes
<1> QED BY <1>2, <1>3, <1>4, <1>5

\* kache_store writes a word.
LEMMA StoreWordTypes ==
  ASSUME WordsInv, NEW w \in Storers, StoreWord(w)
  PROVE  WordsInv'
<1> USE DEF WordsInv, WordsTypeOK
<1>1. KacheTypeOK' /\ put' \in [Entries -> Nat]
  BY StoreWordKache
<1>2. storing[w] \in Names /\ copied[w] \in 0 .. 5
  BY StoreWordCopies
<1>3. [ip |-> Zero, timestamp |-> 0] \in Data
  BY DEF Data, Ips
<1> DEFINE len == StoreLength(storing[w])
<1>4. len \in 2 .. 6 /\ copied[w] < len
  BY <1>2, StoreLengthType DEF CallsShape, StoreWord
<1>5. UNCHANGED <<now, seekVars, crossed, shaken>>
  BY DEF StoreWord
<1>6. CASE copied[w] + 1 = len
  <2>1. /\ storing' = [storing EXCEPT ![w] = NoName]
        /\ data' = [data EXCEPT ![w] = [ip |-> Zero, timestamp |-> 0]]
        /\ copied' = [copied EXCEPT ![w] = 0]
    BY <1>6 DEF StoreWord
  <2>2. WordsTypeOK'
    BY <1>1, <1>3, <1>5, <2>1 DEF seekVars
  <2>3. CallsShape'
    BY <1>5, <2>1 DEF CallsShape, seekVars
  <2> QED BY <2>2, <2>3
<1>7. CASE copied[w] + 1 # len
  <2>1. UNCHANGED <<storing, data>> /\ copied' = [copied EXCEPT ![w] = @ + 1]
    BY <1>7 DEF StoreWord
  <2>2. copied[w] + 1 < len /\ copied[w] + 1 \in 0 .. 5
    <3> HIDE DEF len
    <3> QED BY <1>2, <1>4, <1>7
  <2>3. WordsTypeOK'
    BY <1>1, <1>5, <2>1, <2>2 DEF seekVars
  <2>4. \A v \in Storers : storing'[v] # NoName => copied'[v] < StoreLength(storing'[v])
    BY <2>1, <2>2 DEF CallsShape
  <2>5. CallsShape'
    BY <1>5, <2>1, <2>4 DEF CallsShape, seekVars
  <2> QED BY <2>3, <2>5
<1> QED BY <1>6, <1>7

\* A call of kache_retrieve begins.
LEMMA RetrieveBeginTypes ==
  ASSUME WordsInv, NEW r \in Seekers, NEW n \in Names, RetrieveBegin(r, n)
  PROVE  WordsInv'
<1> USE DEF WordsInv, WordsTypeOK
<1>1. PICK len \in 0 .. 4 : Len(First4[n]) = len
  BY KeyLength
<1>2. /\ AfterChars(n, 0) \in {"part_key", "timestamp"}
      /\ AfterChars(n, 0) = "part_key" => n \notin TrieNames /\ 0 < Len(First4[n])
  BY <1>1 DEF AfterChars
<1>3. compared[r] = 0
  BY DEF RetrieveBegin
<1>4. KacheTypeOK'
  BY DEF RetrieveBegin, KacheTypeOK, kacheVars
<1>5. shaken' \subseteq Seekers
  BY DEF RetrieveBegin
<1>6. spot' \in [Seekers -> {"part_key", "timestamp", "ip"}] /\ seeking' \in [Seekers -> Names \cup {NoName}]
  BY <1>2 DEF RetrieveBegin
<1>7. \A q \in Seekers : seeking'[q] = NoName => compared'[q] = 0
  BY <1>3 DEF RetrieveBegin
<1>8. WordsTypeOK'
  BY <1>4, <1>5, <1>6, <1>7 DEF RetrieveBegin, storeVars
<1>9. \A q \in Seekers : seeking'[q] # NoName /\ spot'[q] = "part_key" =>
        seeking'[q] \notin TrieNames /\ compared'[q] < Len(First4[seeking'[q]])
  BY <1>2, <1>3 DEF RetrieveBegin, CallsShape
<1>10. CallsShape'
  BY <1>9 DEF CallsShape, RetrieveBegin, storeVars
<1> QED BY <1>8, <1>10

\* A lookup ends with nothing or with an address of the cache.
LEMMA ReturnTypes ==
  ASSUME WordsInv, NEW r \in Seekers, NEW result, Return(r, result),
         \A g \in result : /\ g.of \in Names /\ g.ip \in Ips
                           /\ g.put \in Nat /\ g.checked \in Nat,
         UNCHANGED <<kacheVars, storeVars, put, crossed, shaken>>
  PROVE  WordsInv'
<1> USE DEF WordsInv, WordsTypeOK
<1>1. KacheTypeOK'
  BY DEF KacheTypeOK, kacheVars
<1>2. /\ seeking' \in [Seekers -> Names \cup {NoName}]
      /\ spot' \in [Seekers -> {"part_key", "timestamp", "ip"}]
      /\ compared' \in [Seekers -> 0 .. 4]
      /\ checked' \in [Seekers -> Nat]
  BY DEF Return
<1>3. \A q \in Seekers : seeking'[q] = NoName => compared'[q] = 0
  BY DEF Return
<1>4. \A q \in Seekers : \A g \in got'[q] : /\ g.of \in Names /\ g.ip \in Ips
                                             /\ g.put \in Nat /\ g.checked \in Nat
  <2> SUFFICES ASSUME NEW q \in Seekers, NEW g \in got'[q]
               PROVE  g.of \in Names /\ g.ip \in Ips /\ g.put \in Nat /\ g.checked \in Nat
    OBVIOUS
  <2>1. g \in result \/ g \in got[q]
    BY DEF Return
  <2> QED BY <2>1
<1>5. DOMAIN got' = Seekers
  BY DEF Return
<1>6. WordsTypeOK'
  BY <1>1, <1>2, <1>3, <1>4, <1>5 DEF storeVars
<1>7. CallsShape'
  BY DEF CallsShape, Return, storeVars
<1> QED BY <1>6, <1>7

\* A character is compared.
LEMMA CompareCharTypes ==
  ASSUME WordsInv, NEW r \in Seekers, CompareChar(r)
  PROVE  WordsInv'
<1>1. UNCHANGED <<kacheVars, storeVars, put, crossed, shaken>>
  BY DEF CompareChar
<1>2. CASE ~CharEqual(r)
  <2>1. Return(r, {})
    BY <1>2 DEF CompareChar
  <2> QED BY <1>1, <2>1, ReturnTypes
<1>3. CASE CharEqual(r)
  <2> USE DEF WordsInv, WordsTypeOK
  <2> DEFINE n == seeking[r]
             k == compared[r] + 1
  <2>1. n \in Names /\ n \notin TrieNames /\ compared[r] \in 0 .. 4 /\ compared[r] < Len(First4[n])
    BY DEF CompareChar, CallsShape
  <2>2. PICK len \in 0 .. 4 : Len(First4[n]) = len
    BY <2>1, KeyLength
  <2>3. k \in 0 .. 4 /\ k <= len
    BY <2>1, <2>2
  <2>4. /\ compared' = [compared EXCEPT ![r] = k]
        /\ spot' = [spot EXCEPT ![r] = AfterChars(n, k)]
        /\ UNCHANGED <<seeking, checked, got>>
    BY <1>3 DEF CompareChar
  <2> HIDE DEF k
  <2>5. /\ AfterChars(n, k) \in {"part_key", "timestamp"}
        /\ AfterChars(n, k) = "part_key" => k < Len(First4[n])
    BY <2>2, <2>3 DEF AfterChars
  <2>6. KacheTypeOK'
    BY <1>1 DEF KacheTypeOK, kacheVars
  <2>7. /\ compared' \in [Seekers -> 0 .. 4]
        /\ spot' \in [Seekers -> {"part_key", "timestamp", "ip"}]
    BY <2>3, <2>4, <2>5
  <2>8. \A q \in Seekers : seeking'[q] = NoName => compared'[q] = 0
    BY <2>1, <2>4, NoNameAssumption DEF AllNames
  <2>9. WordsTypeOK'
    BY <1>1, <2>4, <2>6, <2>7, <2>8 DEF storeVars
  <2>10. \A q \in Seekers : seeking'[q] # NoName /\ spot'[q] = "part_key" =>
           seeking'[q] \notin TrieNames /\ compared'[q] < Len(First4[seeking'[q]])
    BY <2>1, <2>4, <2>5 DEF CallsShape
  <2>11. CallsShape'
    BY <1>1, <2>10 DEF CallsShape, storeVars
  <2> QED BY <2>9, <2>11
<1> QED BY <1>2, <1>3

\* The caller reads the timestamp.
LEMMA CheckTimestampTypes ==
  ASSUME WordsInv, NEW r \in Seekers, CheckTimestamp(r)
  PROVE  WordsInv'
<1>1. UNCHANGED <<kacheVars, storeVars, put, crossed, shaken>>
  BY DEF CheckTimestamp
<1>2. CASE EntryData(Entry(seeking[r])).timestamp + TIME_OUT < now
  <2>1. Return(r, {})
    BY <1>2 DEF CheckTimestamp
  <2> QED BY <1>1, <2>1, ReturnTypes
<1>3. CASE ~(EntryData(Entry(seeking[r])).timestamp + TIME_OUT < now)
  <2> USE DEF WordsInv, WordsTypeOK
  <2>1. /\ spot' = [spot EXCEPT ![r] = "ip"]
        /\ checked' = [checked EXCEPT ![r] = now]
        /\ UNCHANGED <<seeking, compared, got>>
    BY <1>3 DEF CheckTimestamp
  <2>2. KacheTypeOK' /\ now \in Nat
    BY <1>1 DEF KacheTypeOK, kacheVars
  <2>3. WordsTypeOK'
    BY <1>1, <2>1, <2>2 DEF storeVars
  <2>4. CallsShape'
    BY <1>1, <2>1 DEF CallsShape, storeVars
  <2> QED BY <2>3, <2>4
<1> QED BY <1>2, <1>3

\* What ReadIp accepts has its types.
LEMMA ReadIpTypes ==
  ASSUME WordsInv, NEW r \in Seekers, ReadIp(r)
  PROVE  WordsInv'
<1> DEFINE l == Entry(seeking[r])
           g == [of |-> seeking[r], ip |-> EntryData(l).ip, put |-> put[l], checked |-> checked[r]]
<1>1. UNCHANGED <<kacheVars, storeVars, put, crossed, shaken>> /\ Return(r, {g})
  BY DEF ReadIp
<1>2. seeking[r] \in Names /\ checked[r] \in Nat
  BY DEF ReadIp, WordsInv, WordsTypeOK
<1>3. l \in Entries
  BY <1>2, EntryOf
<1>4. put[l] \in Nat /\ EntryData(l).ip \in Ips
  BY <1>3, EntryDataType DEF WordsInv, WordsTypeOK, Data
<1> HIDE DEF l
<1>5. g.of \in Names /\ g.ip \in Ips /\ g.put \in Nat /\ g.checked \in Nat
  BY <1>2, <1>4
<1> HIDE DEF g
<1> QED BY <1>1, <1>5, ReturnTypes

\* A second passes.
LEMMA SecondPassesTypes == WordsInv /\ SecondPasses => WordsInv'
BY DEF WordsInv, WordsTypeOK, CallsShape, SecondPasses, Tick, KacheTypeOK, storeVars, seekVars

\* Every step keeps the types and the shape of the calls.
LEMMA WordsStep == WordsInv /\ [Next]_vars => WordsInv'
<1> SUFFICES ASSUME WordsInv, [Next]_vars PROVE WordsInv'
  OBVIOUS
<1>1. CASE UNCHANGED vars
  BY <1>1 DEF WordsInv, WordsTypeOK, CallsShape, KacheTypeOK, vars, kacheVars, storeVars, seekVars
<1> QED BY <1>1, StoreBeginTypes, StoreWordTypes, RetrieveBeginTypes, CompareCharTypes,
           CheckTimestampTypes, ReadIpTypes, SecondPassesTypes DEF Next

\* The cache and the threads inside it always have their types: no store writes past
\* the four characters of a slot, and no lookup compares more than there are
\* (kache_store, kache_retrieve).
THEOREM WordsTypes == Spec => []WordsTypeOK
<1>1. WordsInv => WordsTypeOK
  BY DEF WordsInv
<1> QED BY <1>1, WordsInit, WordsStep, PTL DEF Spec

(***************************************************************************)
(* The age of what a lookup accepts                                        *)
(***************************************************************************)

\* The numbers that RecentInv compares are natural numbers.
LEMMA Times ==
  ASSUME WordsInv
  PROVE  /\ now \in Nat /\ TIME_OUT \in Nat
         /\ \A l \in Entries : put[l] \in Nat /\ EntryData(l).timestamp \in Nat
         /\ \A w \in Storers : data[w].timestamp \in Nat
         /\ \A w \in Storers : storing[w] # NoName => Entry(storing[w]) \in Entries
         /\ \A r \in Seekers : checked[r] \in Nat
         /\ \A r \in Seekers : seeking[r] # NoName => Entry(seeking[r]) \in Entries
<1> USE DEF WordsInv, WordsTypeOK
<1>1. now \in Nat /\ TIME_OUT \in Nat
  BY KacheAssumption DEF KacheTypeOK
<1>2. \A l \in Entries : put[l] \in Nat /\ EntryData(l).timestamp \in Nat
  BY EntryDataType DEF Data
<1>3. \A w \in Storers : data[w].timestamp \in Nat
  BY DEF Data
<1>4. /\ \A w \in Storers : storing[w] # NoName => Entry(storing[w]) \in Entries
      /\ \A r \in Seekers : seeking[r] # NoName => Entry(seeking[r]) \in Entries
  BY EntryOf
<1> QED BY <1>1, <1>2, <1>3, <1>4

\* A step that leaves the cache alone leaves the data of its entries alone.
LEMMA EntryDataKept ==
  ASSUME UNCHANGED kacheVars, NEW l PROVE EntryData(l)' = EntryData(l)
BY DEF kacheVars, EntryData

\* kache_init stamps the entries of the trie with the moment it puts them there.
LEMMA RecentInit == Init => RecentInv
<1> SUFFICES ASSUME Init PROVE RecentInv
  OBVIOUS
<1>1. StartTime \in Nat
  BY KacheAssumption DEF StartTime
<1>2. EntriesInOrder
  BY <1>1, EntriesAssumption, KacheAssumption DEF Init, KacheInit, EntriesInOrder, EntryData, Entries
<1> QED BY <1>2 DEF Init, RecentInv, StoresInOrder, SeeksInOrder, AcceptedIsRecent

\* A store begins with the timestamp of this moment.
LEMMA StoreBeginRecent ==
  ASSUME WordsInv, RecentInv, NEW w \in Storers, NEW n \in Names, NEW ip \in Answers[n],
         StoreBegin(w, n, ip)
  PROVE  RecentInv'
<1>1. UNCHANGED kacheVars /\ UNCHANGED <<seekVars, put>> /\ now' = now
  BY DEF StoreBegin, kacheVars
<1>2. EntriesInOrder'
  BY <1>1, EntryDataKept DEF RecentInv, EntriesInOrder
<1>3. StoresInOrder'
  <2> SUFFICES ASSUME NEW v \in Storers, storing'[v] # NoName
               PROVE  /\ data'[v].timestamp <= now
                      /\ copied'[v] > 0 => data'[v].timestamp <= put[Entry(storing'[v])]
    BY <1>1 DEF StoresInOrder, Entry
  <2>1. CASE v = w
    <3>1. data'[v].timestamp = now /\ copied'[v] = 0 /\ now \in Nat
      BY <2>1, Times DEF StoreBegin, WordsInv, WordsTypeOK
    <3> QED BY <3>1
  <2>2. CASE v # w
    <3>1. data'[v] = data[v] /\ copied'[v] = copied[v] /\ storing'[v] = storing[v]
      BY <2>2 DEF StoreBegin, WordsInv, WordsTypeOK
    <3> QED BY <3>1 DEF RecentInv, StoresInOrder
  <2> QED BY <2>1, <2>2
<1>4. SeeksInOrder' /\ AcceptedIsRecent'
  BY <1>1 DEF RecentInv, SeeksInOrder, AcceptedIsRecent, Entry, seekVars
<1> QED BY <1>2, <1>3, <1>4 DEF RecentInv

\* The effect of a word of kache_store on the times: the address of an entry is only
\* ever replaced by a later one, and its timestamp by one no later than the address.
LEMMA StoreWordTimes ==
  ASSUME WordsInv, RecentInv, NEW w \in Storers, StoreWord(w)
  PROVE  /\ EntriesInOrder'
         /\ \A l \in Entries : put[l] <= put'[l]
         /\ data[w].timestamp <= put'[Entry(storing[w])]
<1> DEFINE e == Entry(storing[w])
           t == data[w].timestamp
<1>1. KacheTypeOK /\ put \in [Entries -> Nat] /\ data[w] \in Data /\ now' = now
  BY DEF WordsInv, WordsTypeOK, StoreWord
<1>2. storing[w] \in Names /\ copied[w] \in 0 .. 5 /\ e \in Entries /\ storing[w] # NoName
  BY StoreWordCopies, EntryOf DEF StoreWord
<1>3. now \in Nat /\ t \in Nat /\ t <= now
  BY <1>2, Times DEF RecentInv, StoresInOrder
<1>4. \A l \in Entries : /\ put[l] \in Nat /\ EntryData(l).timestamp \in Nat
                         /\ EntryData(l).timestamp <= put[l] /\ put[l] <= now
  BY Times DEF RecentInv, EntriesInOrder
<1>5. copied[w] > 0 => t <= put[e]
  BY <1>2 DEF RecentInv, StoresInOrder
<1>6. CASE copied[w] = 0
  <2>1. CopyData(e, "ip", data[w])
    BY <1>6, StoreWordCopies
  <2>2. put' = [put EXCEPT ![e] = now]
    BY <2>1 DEF CopyData
  <2>3. \A l \in Entries : EntryData(l)'.timestamp = EntryData(l).timestamp
    BY <1>1, <1>2, <2>1, CopyDataTypes
  <2> HIDE DEF e, t
  <2>4. \A l \in Entries : put[l] <= put'[l] /\ put'[l] <= now
    BY <1>1, <1>2, <1>3, <1>4, <2>2
  <2>5. t <= put'[e]
    BY <1>1, <1>2, <1>3, <2>2
  <2>6. \A l \in Entries : put'[l] \in Nat
    BY <1>1, <1>3, <2>2
  <2>7. EntriesInOrder'
    BY <1>1, <1>4, <2>3, <2>4, <2>6, <1>3 DEF EntriesInOrder
  <2> QED BY <2>4, <2>5, <2>7 DEF e, t
<1>7. CASE copied[w] = 1
  <2>1. CopyData(e, "timestamp", data[w])
    BY <1>7, StoreWordCopies
  <2>2. put' = put
    BY <2>1 DEF CopyData
  <2>3. \A l \in Entries : /\ l # e => EntryData(l)' = EntryData(l)
                           /\ l = e => EntryData(l)'.timestamp = t
    BY <1>1, <1>2, <2>1, CopyDataTypes
  <2>4. t <= put[e]
    BY <1>5, <1>7
  <2> HIDE DEF e, t
  <2>5. EntriesInOrder'
    BY <1>1, <1>4, <2>2, <2>3, <2>4 DEF EntriesInOrder
  <2> QED BY <1>4, <2>2, <2>4, <2>5 DEF e, t
<1>8. CASE copied[w] > 1
  <2>1. put' = put /\ \A l \in Entries : EntryData(l)' = EntryData(l)
    BY <1>1, <1>2, <1>8, StoreWordCopies, CopyKeyTypes
  <2>2. t <= put[e]
    BY <1>2, <1>5, <1>8
  <2> HIDE DEF e, t
  <2>3. EntriesInOrder'
    BY <1>1, <1>4, <2>1 DEF EntriesInOrder
  <2> QED BY <1>4, <2>1, <2>2, <2>3 DEF e, t
<1> QED BY <1>2, <1>6, <1>7, <1>8

\* Replacing an address by a later one harms neither the other stores nor the lookups
\* that have checked the timestamp and have yet to read the address.
LEMMA StoreWordRecent ==
  ASSUME WordsInv, WordsInv', RecentInv, NEW w \in Storers, StoreWord(w)
  PROVE  RecentInv'
<1>1. UNCHANGED <<now, seekVars>>
  BY DEF StoreWord
<1>2. /\ EntriesInOrder'
      /\ \A l \in Entries : put[l] <= put'[l]
      /\ data[w].timestamp <= put'[Entry(storing[w])]
  BY StoreWordTimes
<1>3. \A l \in Entries : put[l] \in Nat /\ put'[l] \in Nat
  BY DEF WordsInv, WordsTypeOK
<1>4. StoresInOrder'
  <2> SUFFICES ASSUME NEW v \in Storers, storing'[v] # NoName
               PROVE  /\ data'[v].timestamp <= now
                      /\ copied'[v] > 0 => data'[v].timestamp <= put'[Entry(storing'[v])]
    BY <1>1 DEF StoresInOrder, Entry
  <2>1. storing'[v] = storing[v] /\ data'[v] = data[v] /\ (v # w => copied'[v] = copied[v])
    BY DEF StoreWord, WordsInv, WordsTypeOK
  <2> DEFINE e == Entry(storing[v])
             t == data[v].timestamp
  <2>2. e \in Entries /\ t \in Nat /\ t <= now /\ (copied[v] > 0 => t <= put[e])
    BY <2>1, Times DEF RecentInv, StoresInOrder
  <2>3. CASE v = w
    BY <1>2, <2>1, <2>2, <2>3
  <2>4. CASE v # w
    <3>1. copied'[v] = copied[v]
      BY <2>1, <2>4
    <3>2. put[e] <= put'[e] /\ put[e] \in Nat /\ put'[e] \in Nat
      BY <1>2, <1>3, <2>2
    <3> HIDE DEF e, t
    <3>3. copied[v] > 0 => t <= put'[e]
      BY <2>2, <3>2
    <3> QED BY <2>1, <2>2, <3>1, <3>3 DEF e, t
  <2> QED BY <2>3, <2>4
<1>5. SeeksInOrder'
  <2> SUFFICES ASSUME NEW r \in Seekers, seeking[r] # NoName, spot[r] = "ip"
               PROVE  put'[Entry(seeking[r])] + TIME_OUT >= checked[r]
    BY <1>1 DEF SeeksInOrder, Entry, seekVars
  <2> DEFINE e == Entry(seeking[r])
  <2>1. e \in Entries /\ checked[r] \in Nat /\ TIME_OUT \in Nat /\ put[e] + TIME_OUT >= checked[r]
    BY Times DEF RecentInv, SeeksInOrder
  <2> HIDE DEF e
  <2>2. put'[e] + TIME_OUT >= checked[r]
    BY <1>2, <1>3, <2>1
  <2> QED BY <2>2 DEF e
<1>6. AcceptedIsRecent'
  BY <1>1 DEF RecentInv, AcceptedIsRecent, seekVars
<1> QED BY <1>2, <1>4, <1>5, <1>6 DEF RecentInv

\* Steps of the lookups leave the entries and the stores alone.
LEMMA SeekKeeps ==
  ASSUME RecentInv, UNCHANGED <<kacheVars, storeVars, put>>
  PROVE  EntriesInOrder' /\ StoresInOrder'
<1>1. EntriesInOrder'
  BY EntryDataKept DEF RecentInv, EntriesInOrder, kacheVars
<1>2. StoresInOrder'
  BY DEF RecentInv, StoresInOrder, Entry, kacheVars, storeVars
<1> QED BY <1>1, <1>2

\* A lookup does not begin with the address.
LEMMA RetrieveBeginRecent ==
  ASSUME WordsInv, RecentInv, NEW r \in Seekers, NEW n \in Names, RetrieveBegin(r, n)
  PROVE  RecentInv'
<1>1. AfterChars(n, 0) # "ip"
  BY DEF AfterChars
<1>2. EntriesInOrder' /\ StoresInOrder'
  BY SeekKeeps DEF RetrieveBegin
<1>3. SeeksInOrder'
  BY <1>1 DEF RetrieveBegin, RecentInv, SeeksInOrder, WordsInv, WordsTypeOK, Entry
<1>4. AcceptedIsRecent'
  BY DEF RetrieveBegin, RecentInv, AcceptedIsRecent, WordsInv, WordsTypeOK
<1> QED BY <1>2, <1>3, <1>4 DEF RecentInv

\* A lookup that ends accepts nothing, or an address as recent as its check asks for.
LEMMA ReturnRecent ==
  ASSUME WordsInv, RecentInv, NEW r \in Seekers, NEW result, Return(r, result),
         \A g \in result : g.put + TIME_OUT >= g.checked,
         UNCHANGED <<kacheVars, storeVars, put>>
  PROVE  RecentInv'
<1>1. EntriesInOrder' /\ StoresInOrder'
  BY SeekKeeps
<1>2. SeeksInOrder'
  BY DEF Return, RecentInv, SeeksInOrder, WordsInv, WordsTypeOK, Entry
<1>3. AcceptedIsRecent'
  <2> SUFFICES ASSUME NEW q \in Seekers, NEW g \in got'[q]
               PROVE  g.put + TIME_OUT >= g.checked
    BY DEF AcceptedIsRecent
  <2>1. g \in result \/ g \in got[q]
    BY DEF Return
  <2> QED BY <2>1 DEF RecentInv, AcceptedIsRecent
<1> QED BY <1>1, <1>2, <1>3 DEF RecentInv

\* After a character comes another or the timestamp.
LEMMA CompareCharRecent ==
  ASSUME WordsInv, RecentInv, NEW r \in Seekers, CompareChar(r)
  PROVE  RecentInv'
<1>1. UNCHANGED <<kacheVars, storeVars, put>>
  BY DEF CompareChar
<1>2. CASE ~CharEqual(r)
  <2>1. Return(r, {})
    BY <1>2 DEF CompareChar
  <2> QED BY <1>1, <2>1, ReturnRecent
<1>3. CASE CharEqual(r)
  <2> DEFINE after == AfterChars(seeking[r], compared[r] + 1)
  <2>1. spot' = [spot EXCEPT ![r] = after] /\ UNCHANGED <<seeking, checked, got>>
    BY <1>3 DEF CompareChar
  <2>2. after # "ip"
    BY DEF AfterChars
  <2> HIDE DEF after
  <2>3. SeeksInOrder' /\ AcceptedIsRecent'
    BY <1>1, <2>1, <2>2
       DEF RecentInv, SeeksInOrder, AcceptedIsRecent, WordsInv, WordsTypeOK, Entry
  <2> QED BY <1>1, <2>3, SeekKeeps DEF RecentInv
<1> QED BY <1>2, <1>3

\* A timestamp that passes the check vouches for the address written before it.
LEMMA CheckTimestampRecent ==
  ASSUME WordsInv, RecentInv, NEW r \in Seekers, CheckTimestamp(r)
  PROVE  RecentInv'
<1> DEFINE e == Entry(seeking[r])
           t == EntryData(e).timestamp
<1>1. UNCHANGED <<kacheVars, storeVars, put>>
  BY DEF CheckTimestamp
<1>2. CASE t + TIME_OUT < now
  <2>1. Return(r, {})
    BY <1>2 DEF CheckTimestamp
  <2> QED BY <1>1, <2>1, ReturnRecent
<1>3. CASE ~(t + TIME_OUT < now)
  <2>1. /\ spot' = [spot EXCEPT ![r] = "ip"]
        /\ checked' = [checked EXCEPT ![r] = now]
        /\ UNCHANGED <<seeking, compared, got>>
    BY <1>3 DEF CheckTimestamp
  <2>2. e \in Entries
    BY Times DEF CheckTimestamp
  <2>3. now \in Nat /\ TIME_OUT \in Nat /\ t \in Nat /\ put[e] \in Nat /\ t <= put[e]
    BY <2>2, Times DEF RecentInv, EntriesInOrder
  <2> HIDE DEF t
  <2>4. put[e] + TIME_OUT >= now
    BY <1>3, <2>3
  <2>5. SeeksInOrder'
    <3> SUFFICES ASSUME NEW q \in Seekers, seeking[q] # NoName, spot'[q] = "ip"
                 PROVE  put[Entry(seeking[q])] + TIME_OUT >= checked'[q]
      BY <1>1, <2>1 DEF SeeksInOrder, Entry
    <3>1. CASE q = r
      BY <2>1, <2>4, <3>1 DEF WordsInv, WordsTypeOK
    <3>2. CASE q # r
      <4>1. spot[q] = "ip" /\ checked'[q] = checked[q]
        BY <2>1, <3>2 DEF WordsInv, WordsTypeOK
      <4> QED BY <4>1 DEF RecentInv, SeeksInOrder
    <3> QED BY <3>1, <3>2
  <2>6. AcceptedIsRecent'
    BY <2>1 DEF RecentInv, AcceptedIsRecent
  <2> QED BY <1>1, <2>5, <2>6, SeekKeeps DEF RecentInv
<1> QED BY <1>2, <1>3

\* The address read is as recent as the check asked for.
LEMMA ReadIpRecent ==
  ASSUME WordsInv, RecentInv, NEW r \in Seekers, ReadIp(r)
  PROVE  RecentInv'
<1> DEFINE e == Entry(seeking[r])
           g == [of |-> seeking[r], ip |-> EntryData(e).ip, put |-> put[e], checked |-> checked[r]]
<1>1. UNCHANGED <<kacheVars, storeVars, put>> /\ Return(r, {g})
  BY DEF ReadIp
<1>2. put[e] + TIME_OUT >= checked[r]
  BY DEF ReadIp, RecentInv, SeeksInOrder
<1>3. g.put = put[e] /\ g.checked = checked[r]
  OBVIOUS
<1> HIDE DEF g, e
<1> QED BY <1>1, <1>2, <1>3, ReturnRecent

\* Time passes and no entry gets younger.
LEMMA SecondPassesRecent ==
  ASSUME WordsInv, RecentInv, SecondPasses
  PROVE  RecentInv'
<1>1. /\ now' = now + 1 /\ UNCHANGED <<main_tr_data, hash_data>>
      /\ UNCHANGED <<storeVars, seekVars, put>>
  BY DEF SecondPasses, Tick
<1>2. \A l : EntryData(l)' = EntryData(l)
  BY <1>1 DEF EntryData
<1>3. EntriesInOrder'
  BY <1>1, <1>2, Times DEF RecentInv, EntriesInOrder
<1>4. StoresInOrder'
  BY <1>1, Times DEF RecentInv, StoresInOrder, Entry, storeVars
<1>5. SeeksInOrder' /\ AcceptedIsRecent'
  BY <1>1 DEF RecentInv, SeeksInOrder, AcceptedIsRecent, Entry, seekVars
<1> QED BY <1>3, <1>4, <1>5 DEF RecentInv

\* Every step keeps RecentInv, in a cache whose words have their types.
LEMMA RecentStep == WordsInv /\ WordsInv' /\ RecentInv /\ [Next]_vars => RecentInv'
<1> SUFFICES ASSUME WordsInv, WordsInv', RecentInv, [Next]_vars PROVE RecentInv'
  OBVIOUS
<1>1. CASE UNCHANGED vars
  <2>1. EntriesInOrder' /\ StoresInOrder'
    BY <1>1, SeekKeeps DEF vars
  <2>2. SeeksInOrder' /\ AcceptedIsRecent'
    BY <1>1 DEF RecentInv, SeeksInOrder, AcceptedIsRecent, Entry, vars, seekVars
  <2> QED BY <2>1, <2>2 DEF RecentInv
<1> QED BY <1>1, StoreBeginRecent, StoreWordRecent, RetrieveBeginRecent, CompareCharRecent,
           CheckTimestampRecent, ReadIpRecent, SecondPassesRecent DEF Next

\* An address that a lookup accepts was put into the cache no longer than TIME_OUT
\* before its check, whatever the number of threads that store and look up without a
\* lock: kache_store writes the address before the timestamp, do_search reads them the
\* other way round.
THEOREM AcceptedAreRecent == Spec => []AcceptedIsRecent
<1>1. RecentInv => AcceptedIsRecent
  BY DEF RecentInv
<1> QED BY <1>1, WordsInit, WordsStep, RecentInit, RecentStep, PTL DEF Spec

(***************************************************************************)
(* The key of a slot and the addresses of other names                      *)
(***************************************************************************)

\* An entry only ever holds addresses of names that lead to it, and a store carries
\* the address of its own name or an error.
AddressesHome == \A l \in Entries : EntryData(l).ip \in Names => Entry(EntryData(l).ip) = l
StoresOwn == \A w \in Storers : storing[w] # NoName => data[w].ip \in {storing[w], DNS_ERROR}

\* In a slot where no two names' stores overlap, all stores under way are of one name;
\* what such a store has written of the address and of the key is still there.
StoresKept ==
  \A w \in Storers : \A n \in Names \ TrieNames :
    storing[w] = n /\ Entry(n) \notin crossed =>
      /\ \A v \in StoringInto(Entry(n)) : storing[v] = n
      /\ copied[w] > 0 => hash_data[Entry(n)].h_data.ip \in {n, DNS_ERROR}
      /\ \A i \in 1 .. copied[w] - 2 : hash_data[Entry(n)].part_key[i] = First4[n][i]

\* A lookup that no store has disturbed looks at a slot that nobody is storing into;
\* the characters it has compared are those of the slot, and it reads the data only
\* after all of them.
SeeksCalm ==
  \A r \in Seekers \ shaken : \A n \in Names \ TrieNames :
    seeking[r] = n =>
      /\ StoringInto(Entry(n)) = {} /\ Entry(n) \notin crossed
      /\ \A i \in 1 .. compared[r] : hash_data[Entry(n)].part_key[i] = First4[n][i]
      /\ spot[r] # "part_key" => compared[r] = Len(First4[n])

SlotInv == AddressesHome /\ StoresOwn /\ StoresKept /\ SlotKeyMatches
CollisionInv == SeeksCalm /\ ForeignNeedsCollision

\* A name outside the trie leads to a slot, whose data are the data of the entry.
LEMMA SlotData ==
  ASSUME NEW h \in HashVals
  PROVE  /\ h \in Entries /\ h \notin TrieNames /\ EntryData(h) = hash_data[h].h_data
         /\ EntryData(h)' = hash_data'[h].h_data
BY KacheAssumption, EntriesAssumption DEF Entries, EntryData

\* The effect of copying a word of a data_t on the addresses and the keys.
LEMMA CopyDataEffect ==
  ASSUME KacheTypeOK, NEW l \in Entries, NEW field \in {"ip", "timestamp"}, NEW d \in Data,
         CopyData(l, field, d)
  PROVE  /\ \A k \in Entries : k # l => EntryData(k)' = EntryData(k)
         /\ field = "ip" => EntryData(l)'.ip = d.ip
         /\ field = "timestamp" => EntryData(l)'.ip = EntryData(l).ip
         /\ \A h \in HashVals : hash_data'[h].part_key = hash_data[h].part_key
<1> USE DEF KacheTypeOK
<1>1. CASE l \in TrieNames
  <2>1. main_tr_data' = [main_tr_data EXCEPT ![l][field] = d[field]] /\ hash_data' = hash_data
    BY <1>1 DEF CopyData
  <2>2. main_tr_data[l] \in Data /\ main_tr_data'[l] = [main_tr_data[l] EXCEPT ![field] = d[field]]
    BY <1>1, <2>1
  <2>3. \A k \in TrieNames : k # l => main_tr_data'[k] = main_tr_data[k]
    BY <2>1
  <2>4. /\ field = "ip" => main_tr_data'[l].ip = d.ip
        /\ field = "timestamp" => main_tr_data'[l].ip = main_tr_data[l].ip
    BY <2>2 DEF Data
  <2> QED BY <1>1, <2>1, <2>3, <2>4 DEF EntryData
<1>2. CASE l \notin TrieNames
  <2>0. l \in HashVals
    BY <1>2 DEF Entries
  <2>1. /\ hash_data' = [hash_data EXCEPT ![l].h_data[field] = d[field]]
        /\ main_tr_data' = main_tr_data
    BY <1>2 DEF CopyData
  <2>2. hash_data[l] \in HashData
    BY <2>0
  <2>3. hash_data'[l] = [hash_data[l] EXCEPT !.h_data = [@ EXCEPT ![field] = d[field]]]
    BY <2>0, <2>1
  <2>4. /\ hash_data'[l].h_data = [hash_data[l].h_data EXCEPT ![field] = d[field]]
        /\ hash_data'[l].part_key = hash_data[l].part_key
    BY <2>2, <2>3 DEF HashData
  <2>5. \A k \in HashVals : k # l => hash_data'[k] = hash_data[k]
    BY <2>1
  <2>6. /\ field = "ip" => hash_data'[l].h_data.ip = d.ip
        /\ field = "timestamp" => hash_data'[l].h_data.ip = hash_data[l].h_data.ip
    BY <2>2, <2>4 DEF HashData, Data
  <2>7. \A h \in HashVals : hash_data'[h].part_key = hash_data[h].part_key
    BY <2>4, <2>5
  <2> QED BY <1>2, <2>1, <2>5, <2>6, <2>7 DEF EntryData, Entries
<1> QED BY <1>1, <1>2

\* The effect of copying a character of the key on the keys.
LEMMA CopyKeyEffect ==
  ASSUME KacheTypeOK, NEW h \in HashVals, NEW i \in 1 .. 4, NEW n, CopyKey(h, i, n)
  PROVE  /\ \A k \in HashVals : k # h => hash_data'[k].part_key = hash_data[k].part_key
         /\ hash_data'[h].part_key[i] = First4[n][i]
         /\ \A j \in 1 .. 4 : j # i => hash_data'[h].part_key[j] = hash_data[h].part_key[j]
<1>1. hash_data' = [hash_data EXCEPT ![h].part_key[i] = First4[n][i]]
  BY DEF CopyKey
<1>2. hash_data[h] \in HashData /\ hash_data \in [HashVals -> HashData]
  BY DEF KacheTypeOK
<1>3. hash_data'[h] = [hash_data[h] EXCEPT !.part_key = [@ EXCEPT ![i] = First4[n][i]]]
  BY <1>1, <1>2
<1>4. hash_data'[h].part_key = [hash_data[h].part_key EXCEPT ![i] = First4[n][i]]
  BY <1>2, <1>3 DEF HashData
<1>5. hash_data[h].part_key \in PartKeys
  BY <1>2 DEF HashData
<1>6. \A k \in HashVals : k # h => hash_data'[k] = hash_data[k]
  BY <1>1, <1>2
<1> QED BY <1>4, <1>5, <1>6 DEF PartKeys

\* The effect of a word of kache_store on the addresses: the first word replaces that
\* of the entry by the one being stored.
LEMMA StoreWordAddress ==
  ASSUME WordsInv, NEW w \in Storers, StoreWord(w), NEW l \in Entries
  PROVE  /\ l # Entry(storing[w]) \/ copied[w] # 0 => EntryData(l)'.ip = EntryData(l).ip
         /\ l = Entry(storing[w]) /\ copied[w] = 0 => EntryData(l)'.ip = data[w].ip
<1>1. KacheTypeOK /\ data[w] \in Data /\ UNCHANGED now
  BY DEF WordsInv, WordsTypeOK, StoreWord
<1>2. storing[w] \in Names /\ copied[w] \in 0 .. 5
  BY StoreWordCopies
<1>3. PICK e \in Entries : e = Entry(storing[w])
  BY <1>2, EntryOf
<1>4. ASSUME copied[w] = 0
      PROVE  IF l = e THEN EntryData(l)'.ip = data[w].ip ELSE EntryData(l)'.ip = EntryData(l).ip
  <2>1. CopyData(e, "ip", data[w])
    BY <1>3, <1>4, StoreWordCopies
  <2> QED BY <1>1, <2>1, CopyDataEffect
<1>5. ASSUME copied[w] = 1 PROVE EntryData(l)'.ip = EntryData(l).ip
  <2>1. CopyData(e, "timestamp", data[w])
    BY <1>3, <1>5, StoreWordCopies
  <2> QED BY <1>1, <2>1, CopyDataEffect
<1>6. ASSUME copied[w] > 1 PROVE EntryData(l)'.ip = EntryData(l).ip
  BY <1>1, <1>2, <1>6, StoreWordCopies, CopyKeyTypes
<1>7. copied[w] = 0 \/ copied[w] = 1 \/ copied[w] > 1
  BY <1>2
<1> QED BY <1>3, <1>4, <1>5, <1>6, <1>7

\* Its effect on the keys: from the third word on, one character is that of the name.
LEMMA StoreWordKeys ==
  ASSUME WordsInv, NEW w \in Storers, StoreWord(w)
  PROVE  LET e == Entry(storing[w]) IN
         /\ \A h \in HashVals : h # e => hash_data'[h].part_key = hash_data[h].part_key
         /\ copied[w] < 2 =>
              \A h \in HashVals : hash_data'[h].part_key = hash_data[h].part_key
         /\ copied[w] >= 2 =>
              /\ hash_data'[e].part_key[copied[w] - 1] = First4[storing[w]][copied[w] - 1]
              /\ \A j \in 1 .. 4 : j # copied[w] - 1 =>
                   hash_data'[e].part_key[j] = hash_data[e].part_key[j]
<1> DEFINE e == Entry(storing[w])
           i == copied[w] - 1
<1>1. KacheTypeOK /\ data[w] \in Data
  BY DEF WordsInv, WordsTypeOK
<1>2. storing[w] \in Names /\ copied[w] \in 0 .. 5 /\ e \in Entries
  BY StoreWordCopies, EntryOf
<1>3. CASE copied[w] < 2
  <2>1. CopyData(e, "ip", data[w]) \/ CopyData(e, "timestamp", data[w])
    BY <1>2, <1>3, StoreWordCopies
  <2> HIDE DEF e
  <2>2. \A h \in HashVals : hash_data'[h].part_key = hash_data[h].part_key
    BY <1>1, <1>2, <2>1, CopyDataEffect
  <2> QED BY <1>2, <1>3, <2>2 DEF e
<1>4. CASE copied[w] >= 2
  <2>1. copied[w] > 1
    BY <1>2, <1>4
  <2>2. /\ storing[w] \notin TrieNames /\ i \in 1 .. Len(First4[storing[w]])
        /\ CopyKey(e, i, storing[w])
    BY <2>1, StoreWordCopies
  <2>3. e \in HashVals
    BY <1>2, <2>2, EntryOf
  <2>4. i \in 1 .. 4
    <3> DEFINE len == Len(First4[storing[w]])
    <3>1. len \in 0 .. 4
      BY <1>2, KeyLength
    <3>2. i \in 1 .. len
      BY <2>2
    <3> HIDE DEF i, len
    <3> QED BY <3>1, <3>2
  <2>5. ~(copied[w] < 2)
    BY <1>2, <1>4
  <2> HIDE DEF e, i
  <2>6. /\ \A k \in HashVals : k # e => hash_data'[k].part_key = hash_data[k].part_key
        /\ hash_data'[e].part_key[i] = First4[storing[w]][i]
        /\ \A j \in 1 .. 4 : j # i => hash_data'[e].part_key[j] = hash_data[e].part_key[j]
    BY <1>1, <2>2, <2>3, <2>4, CopyKeyEffect
  <2> QED BY <2>5, <2>6 DEF e, i
<1> QED BY <1>2, <1>3, <1>4

\* Words stored into a slot that no two names' stores overlap in: the address is the
\* name's or an error, and the characters written so far are the name's.
LEMMA StoreWordSlot ==
  ASSUME WordsInv, SlotInv, NEW w \in Storers, NEW n \in Names \ TrieNames, storing[w] = n,
         Entry(n) \notin crossed, StoreWord(w)
  PROVE  /\ hash_data'[Entry(n)].h_data.ip \in {n, DNS_ERROR}
         /\ \A i \in 1 .. copied[w] - 1 : hash_data'[Entry(n)].part_key[i] = First4[n][i]
<1>1. PICK e \in HashVals : e = Entry(n)
  BY EntryOf
<1>2. e \in Entries /\ EntryData(e) = hash_data[e].h_data /\ EntryData(e)' = hash_data'[e].h_data
  BY SlotData
<1>3. copied[w] \in 0 .. 5 /\ storing[w] # NoName
  BY StoreWordCopies DEF StoreWord
<1>4. hash_data'[e].h_data.ip \in {n, DNS_ERROR}
  <2>1. CASE copied[w] = 0
    <3>1. EntryData(e)'.ip = data[w].ip
      BY <1>1, <1>2, <2>1, StoreWordAddress
    <3>2. data[w].ip \in {n, DNS_ERROR}
      BY <1>3 DEF SlotInv, StoresOwn
    <3> QED BY <1>2, <3>1, <3>2
  <2>2. CASE copied[w] # 0
    <3>1. EntryData(e)'.ip = EntryData(e).ip
      BY <1>2, <2>2, StoreWordAddress
    <3>2. hash_data[e].h_data.ip \in {n, DNS_ERROR}
      BY <1>1, <1>3, <2>2 DEF SlotInv, StoresKept
    <3> QED BY <1>2, <3>1, <3>2
  <2> QED BY <2>1, <2>2
<1>5. \A i \in 1 .. copied[w] - 1 : hash_data'[e].part_key[i] = First4[n][i]
  <2> SUFFICES ASSUME NEW i \in 1 .. copied[w] - 1
               PROVE  hash_data'[e].part_key[i] = First4[n][i]
    OBVIOUS
  <2>1. copied[w] >= 2 /\ i \in 1 .. 4 /\ (i # copied[w] - 1 => i \in 1 .. copied[w] - 2)
    BY <1>3
  <2>2. i \in 1 .. copied[w] - 2 => hash_data[e].part_key[i] = First4[n][i]
    BY <1>1 DEF SlotInv, StoresKept
  <2> DEFINE k == copied[w] - 1
  <2>3. /\ hash_data'[e].part_key[k] = First4[n][k]
        /\ \A j \in 1 .. 4 : j # k => hash_data'[e].part_key[j] = hash_data[e].part_key[j]
    BY <1>1, <2>1, StoreWordKeys
  <2>4. i # k => i \in 1 .. copied[w] - 2
    BY <2>1
  <2> HIDE DEF k
  <2> QED BY <2>1, <2>2, <2>3, <2>4
<1> QED BY <1>1, <1>4, <1>5

\* What is under way after a word has been written.
LEMMA StoreWordThreads ==
  ASSUME WordsInv, NEW w \in Storers, StoreWord(w)
  PROVE  /\ \A l : StoringInto(l)' \subseteq StoringInto(l)
         /\ \A l : l # Entry(storing[w]) => StoringInto(l)' = StoringInto(l)
         /\ \A v \in Storers : storing'[v] # NoName =>
              /\ storing'[v] = storing[v] /\ data'[v] = data[v]
              /\ copied'[v] = IF v = w THEN copied[v] + 1 ELSE copied[v]
         /\ storing'[w] = NoName => copied[w] + 1 = StoreLength(storing[w])
<1>1. storing \in [Storers -> Names \cup {NoName}] /\ storing[w] # NoName
  BY DEF WordsInv, WordsTypeOK, StoreWord
<1>2. storing' = storing \/ storing' = [storing EXCEPT ![w] = NoName]
  BY DEF StoreWord
<1>3. \A l : StoringInto(l)' \subseteq StoringInto(l)
  BY <1>1, <1>2 DEF StoringInto, Entry
<1>4. \A l : l # Entry(storing[w]) => StoringInto(l)' = StoringInto(l)
  BY <1>1, <1>2 DEF StoringInto, Entry
<1>5. \A v \in Storers : storing'[v] # NoName =>
        /\ storing'[v] = storing[v] /\ data'[v] = data[v]
        /\ copied'[v] = IF v = w THEN copied[v] + 1 ELSE copied[v]
  BY DEF StoreWord, WordsInv, WordsTypeOK
<1>6. storing'[w] = NoName => copied[w] + 1 = StoreLength(storing[w])
  BY <1>1 DEF StoreWord
<1> QED BY <1>3, <1>4, <1>5, <1>6

\* kache_store writes a word: the slot keeps the shape it has or, with the last word,
\* gets the whole key of the name whose address it holds.
LEMMA StoreWordSlots ==
  ASSUME WordsInv, SlotInv, NEW w \in Storers, StoreWord(w)
  PROVE  SlotInv'
<1>1. PICK n \in Names : n = storing[w]
  BY StoreWordCopies
<1>2. PICK e \in Entries : e = Entry(n)
  BY EntryOf
<1>3. crossed' = crossed /\ copied[w] \in 0 .. 5 /\ storing[w] # NoName
  BY StoreWordCopies DEF StoreWord
<1>4. \A l \in Entries : IF l = e /\ copied[w] = 0 THEN EntryData(l)'.ip = data[w].ip
                                                   ELSE EntryData(l)'.ip = EntryData(l).ip
  BY <1>1, <1>2, StoreWordAddress
<1>5. \A h \in HashVals : h # e => /\ hash_data'[h].part_key = hash_data[h].part_key
                                   /\ hash_data'[h].h_data.ip = hash_data[h].h_data.ip
  BY <1>1, <1>2, <1>4, SlotData, StoreWordKeys
<1>6. AddressesHome'
  <2> SUFFICES ASSUME NEW l \in Entries, EntryData(l)'.ip \in Names
               PROVE  Entry(EntryData(l)'.ip) = l
    BY DEF AddressesHome, Entry
  <2>1. CASE l = e /\ copied[w] = 0
    <3>1. EntryData(l)'.ip \in {n, DNS_ERROR}
      BY <1>1, <1>3, <1>4, <2>1 DEF SlotInv, StoresOwn
    <3>2. EntryData(l)'.ip = n
      BY <3>1, MarkerAssumption
    <3> QED BY <1>2, <2>1, <3>2
  <2>2. CASE ~(l = e /\ copied[w] = 0)
    BY <1>4, <2>2 DEF SlotInv, AddressesHome
  <2> QED BY <2>1, <2>2
<1>7. StoresOwn'
  BY StoreWordThreads DEF SlotInv, StoresOwn
<1>8. e \notin crossed /\ n \notin TrieNames =>
        /\ hash_data'[e].h_data.ip \in {n, DNS_ERROR}
        /\ \A i \in 1 .. copied[w] - 1 : hash_data'[e].part_key[i] = First4[n][i]
  BY <1>1, <1>2, StoreWordSlot
<1>9. StoresKept'
  <2> SUFFICES ASSUME NEW v \in Storers, NEW m \in Names \ TrieNames,
                      storing'[v] = m, Entry(m) \notin crossed
               PROVE  /\ \A u \in StoringInto(Entry(m))' : storing'[u] = m
                      /\ copied'[v] > 0 => hash_data'[Entry(m)].h_data.ip \in {m, DNS_ERROR}
                      /\ \A i \in 1 .. copied'[v] - 2 :
                           hash_data'[Entry(m)].part_key[i] = First4[m][i]
    BY <1>3 DEF StoresKept, Entry, StoringInto
  <2>1. m # NoName
    BY NoNameAssumption DEF AllNames
  <2>2. storing[v] = m /\ copied'[v] = IF v = w THEN copied[v] + 1 ELSE copied[v]
    BY <2>1, StoreWordThreads
  <2>3. PICK h \in HashVals : h = Entry(m)
    BY EntryOf
  <2>4. /\ \A u \in StoringInto(h) : storing[u] = m
        /\ copied[v] > 0 => hash_data[h].h_data.ip \in {m, DNS_ERROR}
        /\ \A i \in 1 .. copied[v] - 2 : hash_data[h].part_key[i] = First4[m][i]
    BY <2>2, <2>3 DEF SlotInv, StoresKept
  <2>5. \A u \in StoringInto(h)' : storing'[u] = m
    <3> SUFFICES ASSUME NEW u \in StoringInto(h)' PROVE storing'[u] = m
      OBVIOUS
    <3>1. u \in StoringInto(h) /\ u \in Storers /\ storing'[u] # NoName
      BY StoreWordThreads DEF StoringInto
    <3> QED BY <2>4, <3>1, StoreWordThreads
  <2>6. CASE h # e
    <3>1. v # w
      BY <1>1, <1>2, <2>2, <2>3, <2>6
    <3>2. copied'[v] = copied[v]
      BY <2>2, <3>1
    <3> QED BY <1>5, <2>3, <2>4, <2>5, <2>6, <3>2
  <2>7. CASE h = e
    <3>1. w \in StoringInto(h)
      BY <1>1, <1>2, <1>3, <2>7 DEF StoringInto
    <3>2. n = m
      BY <1>1, <2>4, <3>1
    <3>3. /\ hash_data'[h].h_data.ip \in {m, DNS_ERROR}
          /\ \A i \in 1 .. copied[w] - 1 : hash_data'[h].part_key[i] = First4[m][i]
      BY <1>8, <2>3, <2>7, <3>2
    <3>4. ASSUME NEW i \in 1 .. copied'[v] - 2 PROVE hash_data'[h].part_key[i] = First4[m][i]
      <4>1. CASE v = w
        <5>1. i \in 1 .. copied[w] - 1
          BY <1>3, <2>2, <4>1
        <5> QED BY <3>3, <5>1
      <4>2. CASE v # w
        <5>1. i \in 1 .. copied[v] - 2 /\ copied[v] \in 0 .. 5
          BY <2>2, <4>2 DEF WordsInv, WordsTypeOK
        <5>2. i \in 1 .. 4 /\ hash_data[h].part_key[i] = First4[m][i]
          BY <2>4, <5>1
        <5>3. CASE copied[w] < 2
          BY <1>1, <1>2, <2>7, <5>2, <5>3, StoreWordKeys
        <5>4. CASE copied[w] >= 2 /\ i = copied[w] - 1
          <6>1. i \in 1 .. copied[w] - 1
            BY <1>3, <5>4
          <6> QED BY <3>3, <6>1
        <5>5. CASE copied[w] >= 2 /\ i # copied[w] - 1
          <6>1. hash_data'[h].part_key[i] = hash_data[h].part_key[i]
            BY <1>1, <1>2, <2>7, <5>2, <5>5, StoreWordKeys
          <6> QED BY <5>2, <6>1
        <5> QED BY <1>3, <5>3, <5>4, <5>5
      <4> QED BY <4>1, <4>2
    <3> QED BY <2>3, <2>5, <3>3, <3>4
  <2> QED BY <2>6, <2>7
<1>10. SlotKeyMatches'
  <2> SUFFICES ASSUME NEW h \in HashVals \ crossed, StoringInto(h)' = {},
                      hash_data'[h].h_data.ip \in Names,
                      NEW i \in DOMAIN First4[hash_data'[h].h_data.ip]
               PROVE  hash_data'[h].part_key[i] = First4[hash_data'[h].h_data.ip][i]
    BY <1>3 DEF SlotKeyMatches
  <2>1. CASE h # e
    <3>1. StoringInto(h) = {}
      BY <1>1, <1>2, <2>1, StoreWordThreads
    <3> QED BY <1>5, <2>1, <3>1 DEF SlotInv, SlotKeyMatches
  <2>2. CASE h = e
    <3>1. n \notin TrieNames
      BY <1>2, <2>2, EntryOf, SlotData
    <3>2. hash_data'[h].h_data.ip = n
      BY <1>8, <2>2, <3>1, MarkerAssumption
    <3>3. storing'[w] = NoName
      <4>1. SUFFICES ASSUME storing'[w] # NoName PROVE FALSE
        OBVIOUS
      <4>2. storing'[w] = n
        BY <1>1, <4>1, StoreWordThreads
      <4>3. w \in StoringInto(h)'
        BY <1>2, <2>2, <4>1, <4>2 DEF StoringInto, Entry
      <4> QED BY <4>3
    <3>4. copied[w] + 1 = 2 + Len(First4[n])
      BY <1>1, <3>1, <3>3, StoreWordThreads, StoreLengthType
    <3> DEFINE len == Len(First4[n])
    <3>5. len \in 0 .. 4 /\ i \in 1 .. len
      BY <3>2, KeyLength
    <3>6. i \in 1 .. copied[w] - 1
      <4> HIDE DEF len
      <4>1. copied[w] + 1 = 2 + len
        BY <3>4 DEF len
      <4> QED BY <1>3, <3>5, <4>1
    <3> QED BY <1>8, <2>2, <3>1, <3>2, <3>6
  <2> QED BY <2>1, <2>2
<1> QED BY <1>6, <1>7, <1>9, <1>10 DEF SlotInv

\* What is under way after a store has begun, and where stores are now known to overlap.
LEMMA StoreBeginThreads ==
  ASSUME WordsInv, NEW w \in Storers, NEW n \in Names, NEW ip, StoreBegin(w, n, ip)
  PROVE  /\ \A l : l # Entry(n) => /\ StoringInto(l)' = StoringInto(l)
                                   /\ l \in crossed' <=> l \in crossed
         /\ StoringInto(Entry(n))' = StoringInto(Entry(n)) \cup {w}
         /\ w \notin StoringInto(Entry(n))
         /\ Entry(n) \notin crossed' =>
              /\ \A v \in StoringInto(Entry(n)) : storing[v] = n
              /\ StoringInto(Entry(n)) # {} => Entry(n) \notin crossed
<1> DEFINE e == Entry(n)
<1>1. n # NoName /\ storing[w] = NoName /\ storing \in [Storers -> Names \cup {NoName}]
  BY NoNameAssumption DEF AllNames, StoreBegin, WordsInv, WordsTypeOK
<1>2. storing' = [storing EXCEPT ![w] = n]
  BY DEF StoreBegin
<1>3. \A l : l # e => StoringInto(l)' = StoringInto(l)
  BY <1>1, <1>2 DEF StoringInto, Entry
<1>4. w \notin StoringInto(e)
  BY <1>1 DEF StoringInto
<1>5. StoringInto(e)' = StoringInto(e) \cup {w}
  BY <1>1, <1>2 DEF StoringInto, Entry
<1>6. crossed' = IF StoringInto(e) = {} THEN crossed \ {e}
                 ELSE IF \E v \in StoringInto(e) : storing[v] # n THEN crossed \cup {e}
                 ELSE crossed
  BY DEF StoreBegin
<1>7. \A l : l # e => (l \in crossed' <=> l \in crossed)
  BY <1>6
<1>8. e \notin crossed' => /\ \A v \in StoringInto(e) : storing[v] = n
                           /\ StoringInto(e) # {} => e \notin crossed
  BY <1>6
<1> QED BY <1>3, <1>4, <1>5, <1>7, <1>8

\* kache_store is called: of the stores into one slot all are of one name, or the slot
\* is marked.
LEMMA StoreBeginSlots ==
  ASSUME WordsInv, SlotInv, NEW w \in Storers, NEW n \in Names, NEW ip \in Answers[n],
         StoreBegin(w, n, ip)
  PROVE  SlotInv'
<1> DEFINE e == Entry(n)
<1>1. UNCHANGED kacheVars /\ storing' = [storing EXCEPT ![w] = n]
  BY DEF StoreBegin
<1>2. hash_data' = hash_data /\ \A l \in Entries : EntryData(l)' = EntryData(l)
  BY <1>1, EntryDataKept DEF kacheVars
<1>3. storing \in [Storers -> Names \cup {NoName}]
  BY DEF WordsInv, WordsTypeOK
<1>4. AddressesHome'
  BY <1>2 DEF SlotInv, AddressesHome, Entry
<1>5. StoresOwn'
  <2> SUFFICES ASSUME NEW v \in Storers, storing'[v] # NoName
               PROVE  data'[v].ip \in {storing'[v], DNS_ERROR}
    BY DEF StoresOwn
  <2>1. CASE v = w
    BY <1>1, <1>3, <2>1, AnswersAssumption DEF StoreBegin, WordsInv, WordsTypeOK
  <2>2. CASE v # w
    BY <1>3, <2>2 DEF StoreBegin, WordsInv, WordsTypeOK, SlotInv, StoresOwn
  <2> QED BY <2>1, <2>2
<1>6. StoresKept'
  <2> SUFFICES ASSUME NEW v \in Storers, NEW m \in Names \ TrieNames,
                      storing'[v] = m, Entry(m) \notin crossed'
               PROVE  /\ \A u \in StoringInto(Entry(m))' : storing'[u] = m
                      /\ copied'[v] > 0 => hash_data[Entry(m)].h_data.ip \in {m, DNS_ERROR}
                      /\ \A i \in 1 .. copied'[v] - 2 :
                           hash_data[Entry(m)].part_key[i] = First4[m][i]
    BY <1>2 DEF StoresKept, Entry, StoringInto
  <2>1. m # NoName
    BY NoNameAssumption DEF AllNames
  <2>2. PICK h \in HashVals : h = Entry(m)
    BY EntryOf
  <2>3. \A u \in StoringInto(h) : u # w /\ storing'[u] = storing[u]
    BY <1>1, <1>3 DEF StoringInto, StoreBegin
  <2>4. CASE v = w
    <3>1. m = n /\ copied'[v] = 0
      BY <1>1, <1>3, <2>4 DEF StoreBegin, WordsInv, WordsTypeOK
    <3>2. \A u \in StoringInto(h) : storing[u] = m
      BY <2>2, <3>1, StoreBeginThreads
    <3>3. StoringInto(h)' = StoringInto(h) \cup {w}
      BY <2>2, <3>1, StoreBeginThreads
    <3>4. \A u \in StoringInto(h)' : storing'[u] = m
      BY <1>1, <1>3, <2>3, <3>1, <3>2, <3>3
    <3>5. ~(copied'[v] > 0) /\ 1 .. copied'[v] - 2 = {}
      BY <3>1
    <3> QED BY <2>2, <3>4, <3>5
  <2>5. CASE v # w
    <3>1. storing[v] = m /\ copied'[v] = copied[v]
      BY <1>1, <1>3, <2>5 DEF StoreBegin, WordsInv, WordsTypeOK
    <3>2. v \in StoringInto(h)
      BY <2>1, <2>2, <3>1 DEF StoringInto
    <3>3. Entry(m) \notin crossed /\ (h = e => m = n)
      BY <2>2, <3>1, <3>2, StoreBeginThreads
    <3>4. /\ \A u \in StoringInto(h) : storing[u] = m
          /\ copied[v] > 0 => hash_data[h].h_data.ip \in {m, DNS_ERROR}
          /\ \A i \in 1 .. copied[v] - 2 : hash_data[h].part_key[i] = First4[m][i]
      BY <2>2, <3>1, <3>3 DEF SlotInv, StoresKept
    <3>5. \A u \in StoringInto(h)' : (u = w /\ h = e) \/ u \in StoringInto(h)
      BY StoreBeginThreads
    <3>6. \A u \in StoringInto(h)' : storing'[u] = m
      BY <1>1, <1>3, <2>3, <3>3, <3>4, <3>5
    <3> QED BY <2>2, <3>1, <3>4, <3>6
  <2> QED BY <2>4, <2>5
<1>7. SlotKeyMatches'
  <2> SUFFICES ASSUME NEW h \in HashVals \ crossed', StoringInto(h)' = {}
               PROVE  h \in HashVals \ crossed /\ StoringInto(h) = {}
    BY <1>2 DEF SlotInv, SlotKeyMatches
  <2> QED BY StoreBeginThreads
<1> QED BY <1>4, <1>5, <1>6, <1>7 DEF SlotInv

\* Steps of the lookups and of the clock leave the slots and the stores alone.
LEMMA SlotsKept ==
  ASSUME SlotInv, UNCHANGED <<main_tr_data, hash_data, storeVars, crossed>>
  PROVE  SlotInv'
<1>1. \A l \in Entries : EntryData(l)' = EntryData(l)
  BY DEF EntryData
<1>2. \A l : StoringInto(l)' = StoringInto(l)
  BY DEF StoringInto, Entry, storeVars
<1>3. AddressesHome' /\ StoresOwn'
  BY <1>1 DEF SlotInv, AddressesHome, StoresOwn, Entry, storeVars
<1>4. StoresKept'
  BY <1>2 DEF SlotInv, StoresKept, Entry, storeVars
<1>5. SlotKeyMatches'
  BY <1>2 DEF SlotInv, SlotKeyMatches
<1> QED BY <1>3, <1>4, <1>5 DEF SlotInv

\* Every step keeps SlotInv.
LEMMA SlotStep == WordsInv /\ SlotInv /\ [Next]_vars => SlotInv'
<1> SUFFICES ASSUME WordsInv, SlotInv, [Next]_vars PROVE SlotInv'
  OBVIOUS
<1>1. CASE UNCHANGED vars
  BY <1>1, SlotsKept DEF vars, kacheVars
<1>2. ASSUME NEW r \in Seekers, NEW n \in Names, RetrieveBegin(r, n) PROVE SlotInv'
  BY <1>2, SlotsKept DEF RetrieveBegin, kacheVars
<1>3. ASSUME NEW r \in Seekers, CompareChar(r) \/ CheckTimestamp(r) \/ ReadIp(r) PROVE SlotInv'
  BY <1>3, SlotsKept DEF CompareChar, CheckTimestamp, ReadIp, kacheVars
<1>4. CASE SecondPasses
  BY <1>4, SlotsKept DEF SecondPasses, Tick
<1> QED BY <1>1, <1>2, <1>3, <1>4, StoreBeginSlots, StoreWordSlots DEF Next

\* At first the trie holds the addresses of its names and the slots hold none.
LEMMA SlotInit == Init => SlotInv
<1> SUFFICES ASSUME Init PROVE SlotInv
  OBVIOUS
<1>1. \A n \in TrieNames : EntryData(n).ip = n
  BY DEF Init, KacheInit, EntryData
<1>2. \A h \in HashVals : hash_data[h].h_data.ip = Zero
  BY DEF Init, KacheInit
<1>3. \A h \in HashVals : hash_data[h].h_data.ip \notin Names
  BY <1>2, MarkerAssumption
<1>4. AddressesHome
  <2> SUFFICES ASSUME NEW l \in Entries, EntryData(l).ip \in Names PROVE Entry(EntryData(l).ip) = l
    BY DEF AddressesHome
  <2>1. l \in TrieNames
    BY <1>3, SlotData DEF Entries
  <2> QED BY <1>1, <2>1 DEF Entry
<1>5. StoresOwn /\ StoresKept
  BY NoNameAssumption DEF Init, StoresOwn, StoresKept, AllNames
<1>6. SlotKeyMatches
  BY <1>3 DEF SlotKeyMatches
<1> QED BY <1>4, <1>5, <1>6 DEF SlotInv

\* A slot that nobody is storing into holds the key characters of the name whose
\* address it holds, however many threads have stored into it before and however short
\* or long their names, unless the stores of two names overlapped there: kache_store
\* copies the address and the key one after the other, without a lock.
THEOREM KeysMatch == Spec => []SlotKeyMatches
<1>1. SlotInv => SlotKeyMatches
  BY DEF SlotInv
<1> QED BY <1>1, WordsInit, WordsStep, SlotInit, SlotStep, PTL DEF Spec

\* What a lookup has of an address of another name: it was not disturbed only if the
\* two begin alike.
LEMMA ReadIpForeign ==
  ASSUME WordsInv, SlotInv, SeeksCalm, NEW r \in Seekers, ReadIp(r),
         NEW n \in Names, n = seeking[r], NEW m \in Names \ {n}, m = EntryData(Entry(n)).ip
  PROVE  /\ {n, m} \cap TrieNames = {}
         /\ BKDRHash[m] = BKDRHash[n]
         /\ Lookalike(m, n) \/ r \in shaken
<1>1. Entry(n) \in Entries /\ Entry(m) = Entry(n)
  BY EntryOf DEF SlotInv, AddressesHome
<1>2. n \notin TrieNames /\ m \notin TrieNames
  BY <1>1, EntryOf, SlotData
<1>3. PICK h \in HashVals : h = Entry(n)
  BY <1>2, EntryOf
<1>4. BKDRHash[m] = BKDRHash[n]
  BY <1>1, <1>2 DEF Entry
<1>5. ASSUME r \notin shaken PROVE Lookalike(m, n)
  <2>1. /\ StoringInto(h) = {} /\ h \notin crossed
        /\ \A i \in 1 .. compared[r] : hash_data[h].part_key[i] = First4[n][i]
        /\ compared[r] = Len(First4[n])
    BY <1>2, <1>3, <1>5 DEF SeeksCalm, ReadIp
  <2>2. hash_data[h].h_data.ip = m
    BY <1>3, SlotData
  <2>3. \A i \in DOMAIN First4[m] : hash_data[h].part_key[i] = First4[m][i]
    BY <2>1, <2>2 DEF SlotInv, SlotKeyMatches
  <2>4. DOMAIN First4[n] = 1 .. compared[r]
    BY <2>1, KeyLength
  <2> QED BY <2>1, <2>3, <2>4 DEF Lookalike
<1> QED BY <1>2, <1>4, <1>5

\* A lookup that returns is no longer undisturbed or disturbed; the others are as they
\* were.
LEMMA ReturnCalm ==
  ASSUME WordsInv, SeeksCalm, NEW r \in Seekers, NEW result, Return(r, result),
         UNCHANGED <<kacheVars, storeVars, put, crossed, shaken>>
  PROVE  SeeksCalm'
<1>1. \A l : StoringInto(l)' = StoringInto(l)
  BY DEF StoringInto, Entry, storeVars
<1>2. hash_data' = hash_data
  BY DEF kacheVars
<1> SUFFICES ASSUME NEW q \in Seekers \ shaken, NEW n \in Names \ TrieNames, seeking'[q] = n
             PROVE  /\ StoringInto(Entry(n)) = {} /\ Entry(n) \notin crossed
                    /\ \A i \in 1 .. compared'[q] :
                         hash_data[Entry(n)].part_key[i] = First4[n][i]
                    /\ spot'[q] # "part_key" => compared'[q] = Len(First4[n])
  BY <1>1, <1>2 DEF SeeksCalm, Entry
<1>3. n # NoName
  BY NoNameAssumption DEF AllNames
<1>4. q # r /\ seeking[q] = n /\ compared'[q] = compared[q] /\ spot'[q] = spot[q]
  BY <1>3 DEF Return, WordsInv, WordsTypeOK
<1> QED BY <1>4 DEF SeeksCalm

\* A lookup that returns nothing accepts no address of another name.
LEMMA ReturnForeign ==
  ASSUME ForeignNeedsCollision, NEW r \in Seekers, NEW result, Return(r, result),
         \A g \in result : g.ip \in Names \ {g.of} =>
           /\ {g.of, g.ip} \cap TrieNames = {}
           /\ BKDRHash[g.ip] = BKDRHash[g.of]
           /\ Lookalike(g.ip, g.of) \/ r \in shaken,
         UNCHANGED shaken
  PROVE  ForeignNeedsCollision'
<1> SUFFICES ASSUME NEW q \in Seekers, NEW g \in got'[q], g.ip \in Names \ {g.of}
             PROVE  /\ {g.of, g.ip} \cap TrieNames = {}
                    /\ BKDRHash[g.ip] = BKDRHash[g.of]
                    /\ Lookalike(g.ip, g.of) \/ q \in shaken
  BY DEF ForeignNeedsCollision, Lookalike
<1>1. (q = r /\ g \in result) \/ g \in got[q]
  BY DEF Return
<1> QED BY <1>1 DEF ForeignNeedsCollision

\* A step that leaves the results of the lookups alone and disturbs some of them.
LEMMA ForeignKept ==
  ASSUME ForeignNeedsCollision, UNCHANGED got, shaken \subseteq shaken'
  PROVE  ForeignNeedsCollision'
BY DEF ForeignNeedsCollision, Lookalike

\* A store that begins disturbs the lookups of its slot.
LEMMA StoreBeginCalm ==
  ASSUME WordsInv, CollisionInv, NEW w \in Storers, NEW n \in Names, NEW ip \in Answers[n],
         StoreBegin(w, n, ip)
  PROVE  CollisionInv'
<1>1. UNCHANGED <<hash_data, seeking, spot, compared, got>>
      /\ shaken' = shaken \cup SeekersOf(Entry(n))
  BY DEF StoreBegin, kacheVars, seekVars
<1>2. SeeksCalm'
  <2> SUFFICES ASSUME NEW r \in Seekers \ shaken', NEW m \in Names \ TrieNames, seeking[r] = m
               PROVE  /\ StoringInto(Entry(m))' = {} /\ Entry(m) \notin crossed'
                      /\ \A i \in 1 .. compared[r] :
                           hash_data[Entry(m)].part_key[i] = First4[m][i]
                      /\ spot[r] # "part_key" => compared[r] = Len(First4[m])
    BY <1>1 DEF SeeksCalm, Entry, StoringInto
  <2>1. r \notin shaken /\ Entry(m) # Entry(n)
    BY <1>1 DEF SeekersOf
  <2> QED BY <2>1, StoreBeginThreads DEF CollisionInv, SeeksCalm
<1>3. ForeignNeedsCollision'
  BY <1>1, ForeignKept DEF CollisionInv
<1> QED BY <1>2, <1>3 DEF CollisionInv

\* A word is not written into a slot that an undisturbed lookup looks at.
LEMMA StoreWordCalm ==
  ASSUME WordsInv, CollisionInv, NEW w \in Storers, StoreWord(w)
  PROVE  CollisionInv'
<1>1. UNCHANGED <<seeking, spot, compared, got, crossed, shaken>>
  BY DEF StoreWord, seekVars
<1>2. SeeksCalm'
  <2> SUFFICES ASSUME NEW r \in Seekers \ shaken, NEW m \in Names \ TrieNames, seeking[r] = m
               PROVE  /\ StoringInto(Entry(m))' = {} /\ Entry(m) \notin crossed
                      /\ \A i \in 1 .. compared[r] :
                           hash_data'[Entry(m)].part_key[i] = First4[m][i]
                      /\ spot[r] # "part_key" => compared[r] = Len(First4[m])
    BY <1>1 DEF SeeksCalm, Entry, StoringInto
  <2>1. PICK h \in HashVals : h = Entry(m)
    BY EntryOf
  <2>2. /\ StoringInto(h) = {} /\ h \notin crossed
        /\ \A i \in 1 .. compared[r] : hash_data[h].part_key[i] = First4[m][i]
        /\ spot[r] # "part_key" => compared[r] = Len(First4[m])
    BY <2>1 DEF CollisionInv, SeeksCalm
  <2>3. h # Entry(storing[w])
    BY <2>2 DEF StoringInto, StoreWord
  <2>4. hash_data'[h].part_key = hash_data[h].part_key /\ StoringInto(h)' = {}
    BY <2>2, <2>3, StoreWordKeys, StoreWordThreads
  <2> QED BY <2>1, <2>2, <2>4
<1>3. ForeignNeedsCollision'
  BY <1>1, ForeignKept DEF CollisionInv
<1> QED BY <1>2, <1>3 DEF CollisionInv

\* A lookup begins undisturbed only in a slot that nobody is storing into.
LEMMA RetrieveBeginCalm ==
  ASSUME WordsInv, CollisionInv, NEW r \in Seekers, NEW n \in Names, RetrieveBegin(r, n)
  PROVE  CollisionInv'
<1>1. /\ hash_data' = hash_data /\ crossed' = crossed /\ compared' = compared
      /\ \A l : StoringInto(l)' = StoringInto(l)
  BY DEF RetrieveBegin, kacheVars, storeVars, StoringInto, Entry
<1>2. compared[r] = 0
  BY DEF RetrieveBegin, WordsInv, WordsTypeOK
<1>3. SeeksCalm'
  <2> SUFFICES ASSUME NEW q \in Seekers \ shaken', NEW m \in Names \ TrieNames, seeking'[q] = m
               PROVE  /\ StoringInto(Entry(m)) = {} /\ Entry(m) \notin crossed
                      /\ \A i \in 1 .. compared[q] :
                           hash_data[Entry(m)].part_key[i] = First4[m][i]
                      /\ spot'[q] # "part_key" => compared[q] = Len(First4[m])
    BY <1>1, SMTT(60) DEF SeeksCalm, Entry
  <2>1. CASE q = r
    <3>1. m = n /\ spot'[q] = AfterChars(n, 0)
      BY <2>1 DEF RetrieveBegin, WordsInv, WordsTypeOK
    <3>2. StoringInto(Entry(n)) = {} /\ Entry(n) \notin crossed
      BY <2>1, <3>1 DEF RetrieveBegin
    <3>3. spot'[q] # "part_key" => Len(First4[m]) = 0
      BY <3>1 DEF AfterChars
    <3>4. 1 .. compared[q] = {}
      BY <1>2, <2>1
    <3> QED BY <1>2, <2>1, <3>1, <3>2, <3>3, <3>4
  <2>2. CASE q # r
    <3>1. q \notin shaken /\ seeking[q] = m /\ spot'[q] = spot[q]
      BY <2>2 DEF RetrieveBegin, WordsInv, WordsTypeOK
    <3> QED BY <3>1 DEF CollisionInv, SeeksCalm
  <2> QED BY <2>1, <2>2
<1>4. ForeignNeedsCollision'
  <2> SUFFICES ASSUME NEW q \in Seekers, NEW g \in got'[q], g.ip \in Names \ {g.of}
               PROVE  /\ {g.of, g.ip} \cap TrieNames = {}
                      /\ BKDRHash[g.ip] = BKDRHash[g.of]
                      /\ Lookalike(g.ip, g.of) \/ q \in shaken'
    BY DEF ForeignNeedsCollision, Lookalike
  <2>1. q # r /\ g \in got[q] /\ (q \in shaken => q \in shaken')
    BY DEF RetrieveBegin, WordsInv, WordsTypeOK
  <2> QED BY <2>1 DEF CollisionInv, ForeignNeedsCollision
<1> QED BY <1>3, <1>4 DEF CollisionInv

\* Another character of the slot is that of the key.
LEMMA CompareCharCalm ==
  ASSUME WordsInv, CollisionInv, NEW r \in Seekers, CompareChar(r)
  PROVE  CollisionInv'
<1>1. UNCHANGED <<kacheVars, storeVars, put, crossed, shaken>>
  BY DEF CompareChar
<1>2. CASE ~CharEqual(r)
  <2>1. Return(r, {})
    BY <1>2 DEF CompareChar
  <2> QED BY <1>1, <2>1, ReturnCalm, ReturnForeign DEF CollisionInv
<1>3. CASE CharEqual(r)
  <2> DEFINE k == compared[r] + 1
             after == AfterChars(seeking[r], k)
  <2>1. /\ compared' = [compared EXCEPT ![r] = k]
        /\ spot' = [spot EXCEPT ![r] = after]
        /\ UNCHANGED <<seeking, got>>
    BY <1>3 DEF CompareChar
  <2>2. \A l : StoringInto(l)' = StoringInto(l)
    BY <1>1 DEF StoringInto, Entry, storeVars
  <2>3. hash_data' = hash_data
    BY <1>1 DEF kacheVars
  <2>4. SeeksCalm'
    <3> SUFFICES ASSUME NEW q \in Seekers \ shaken, NEW m \in Names \ TrieNames, seeking[q] = m
                 PROVE  /\ StoringInto(Entry(m)) = {} /\ Entry(m) \notin crossed
                        /\ \A i \in 1 .. compared'[q] :
                             hash_data[Entry(m)].part_key[i] = First4[m][i]
                        /\ spot'[q] # "part_key" => compared'[q] = Len(First4[m])
      BY <1>1, <2>1, <2>2, <2>3 DEF SeeksCalm, Entry
    <3>1. /\ StoringInto(Entry(m)) = {} /\ Entry(m) \notin crossed
          /\ \A i \in 1 .. compared[q] : hash_data[Entry(m)].part_key[i] = First4[m][i]
          /\ spot[q] # "part_key" => compared[q] = Len(First4[m])
      BY DEF CollisionInv, SeeksCalm
    <3>2. CASE q # r
      <4>1. compared'[q] = compared[q] /\ spot'[q] = spot[q]
        BY <2>1, <3>2 DEF WordsInv, WordsTypeOK
      <4> QED BY <3>1, <4>1
    <3>3. CASE q = r
      <4>1. compared'[q] = k /\ spot'[q] = after /\ compared[q] \in 0 .. 4
        BY <2>1, <3>3 DEF WordsInv, WordsTypeOK
      <4>2. hash_data[Entry(m)].part_key[k] = First4[m][k]
        BY <1>3, <3>3 DEF CharEqual
      <4>3. after # "part_key" => k = Len(First4[m])
        BY <3>3 DEF AfterChars
      <4>4. \A i \in 1 .. k : i = k \/ i \in 1 .. compared[q]
        BY <3>3, <4>1
      <4> QED BY <3>1, <4>1, <4>2, <4>3, <4>4
    <3> QED BY <3>2, <3>3
  <2>5. ForeignNeedsCollision'
    BY <1>1, <2>1, ForeignKept DEF CollisionInv
  <2> QED BY <2>4, <2>5 DEF CollisionInv
<1> QED BY <1>2, <1>3

\* The timestamp is read after all characters, as the address will be.
LEMMA CheckTimestampCalm ==
  ASSUME WordsInv, CollisionInv, NEW r \in Seekers, CheckTimestamp(r)
  PROVE  CollisionInv'
<1>1. UNCHANGED <<kacheVars, storeVars, put, crossed, shaken>>
  BY DEF CheckTimestamp
<1>2. CASE EntryData(Entry(seeking[r])).timestamp + TIME_OUT < now
  <2>1. Return(r, {})
    BY <1>2 DEF CheckTimestamp
  <2> QED BY <1>1, <2>1, ReturnCalm, ReturnForeign DEF CollisionInv
<1>3. CASE ~(EntryData(Entry(seeking[r])).timestamp + TIME_OUT < now)
  <2>1. spot[r] = "timestamp" /\ spot' = [spot EXCEPT ![r] = "ip"]
        /\ UNCHANGED <<seeking, compared, got>>
    BY <1>3 DEF CheckTimestamp
  <2>2. \A l : StoringInto(l)' = StoringInto(l)
    BY <1>1 DEF StoringInto, Entry, storeVars
  <2>3. hash_data' = hash_data
    BY <1>1 DEF kacheVars
  <2>4. \A q \in Seekers : spot'[q] # "part_key" => spot[q] # "part_key"
    BY <2>1 DEF WordsInv, WordsTypeOK
  <2>5. SeeksCalm'
    BY <1>1, <2>1, <2>2, <2>3, <2>4 DEF CollisionInv, SeeksCalm, Entry
  <2>6. ForeignNeedsCollision'
    BY <1>1, <2>1, ForeignKept DEF CollisionInv
  <2> QED BY <2>5, <2>6 DEF CollisionInv
<1> QED BY <1>2, <1>3

\* The address read is the name's own, or that of a name that shares the slot.
LEMMA ReadIpCalm ==
  ASSUME WordsInv, SlotInv, CollisionInv, NEW r \in Seekers, ReadIp(r)
  PROVE  CollisionInv'
<1> DEFINE e == Entry(seeking[r])
           g == [of |-> seeking[r], ip |-> EntryData(e).ip, put |-> put[e], checked |-> checked[r]]
<1>1. UNCHANGED <<kacheVars, storeVars, put, crossed, shaken>> /\ Return(r, {g})
  BY DEF ReadIp
<1>2. seeking[r] \in Names
  BY DEF ReadIp, WordsInv, WordsTypeOK
<1>3. g.ip \in Names \ {g.of} =>
        /\ {g.of, g.ip} \cap TrieNames = {}
        /\ BKDRHash[g.ip] = BKDRHash[g.of]
        /\ Lookalike(g.ip, g.of) \/ r \in shaken
  BY <1>2, ReadIpForeign DEF CollisionInv
<1> HIDE DEF g
<1>4. SeeksCalm'
  BY <1>1, ReturnCalm DEF CollisionInv
<1>5. ForeignNeedsCollision'
  BY <1>1, <1>3, ReturnForeign DEF CollisionInv
<1> QED BY <1>4, <1>5 DEF CollisionInv

\* Every step keeps CollisionInv.
LEMMA CollisionStep == WordsInv /\ SlotInv /\ CollisionInv /\ [Next]_vars => CollisionInv'
<1> SUFFICES ASSUME WordsInv, SlotInv, CollisionInv, [Next]_vars PROVE CollisionInv'
  OBVIOUS
<1>1. ASSUME UNCHANGED <<hash_data, storeVars, seekVars, crossed, shaken>> PROVE CollisionInv'
  <2>1. \A l : StoringInto(l)' = StoringInto(l)
    BY <1>1 DEF StoringInto, Entry, storeVars
  <2>2. SeeksCalm'
    BY <1>1, <2>1 DEF CollisionInv, SeeksCalm, Entry, seekVars
  <2>3. ForeignNeedsCollision'
    BY <1>1, ForeignKept DEF CollisionInv, seekVars
  <2> QED BY <2>2, <2>3 DEF CollisionInv
<1>2. CASE UNCHANGED vars
  BY <1>1, <1>2 DEF vars, kacheVars
<1>3. CASE SecondPasses
  BY <1>1, <1>3 DEF SecondPasses, Tick
<1> QED BY <1>2, <1>3, StoreBeginCalm, StoreWordCalm, RetrieveBeginCalm, CompareCharCalm,
           CheckTimestampCalm, ReadIpCalm DEF Next

\* A lookup accepts the address of another name only if neither is in the trie, the two
\* have one hash value, and either their first characters do not tell them apart or a
\* store into the slot overlapped the lookup or another name's store: with at most four
\* characters of the key kept beside the data (kache_retrieve), nothing else goes wrong.
THEOREM ForeignCollides == Spec => []ForeignNeedsCollision
<1>1. Init => CollisionInv
  <2>1. Init => SeeksCalm
    BY NoNameAssumption DEF Init, SeeksCalm, AllNames
  <2>2. Init => ForeignNeedsCollision
    BY DEF Init, ForeignNeedsCollision
  <2> QED BY <2>1, <2>2 DEF CollisionInv
<1>2. CollisionInv => ForeignNeedsCollision
  BY DEF CollisionInv
<1> QED BY <1>1, <1>2, WordsInit, WordsStep, SlotInit, SlotStep, CollisionStep, PTL DEF Spec
=============================================================================
