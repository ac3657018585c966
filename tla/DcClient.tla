------------------------------ MODULE DcClient ------------------------------
(***************************************************************************)
(* The client library, client/dc_client.c: one call of dns_search with a   *)
(* batch of domains, over UDP for a small batch and over TCP for a larger  *)
(* one, together with the server it talks to and the network between them. *)
(*                                                                         *)
(* The server is taken by what DnsServer shows of it: a first reply with   *)
(* an address or CACHE_MISS for every domain and, over TCP, if there were  *)
(* misses, a second reply with index and address of each, after which it   *)
(* closes.  A TCP connection is a stream of bytes that read() takes in     *)
(* pieces of any size and that may break; a datagram may be lost.          *)
(***************************************************************************)
EXTENDS Integers, Sequences, SequencesExt, FiniteSets

CONSTANTS Domains,       \* the domains, each named by its address
          Length,        \* Length[d]: strlen of domain d
          Batches,       \* the contents of buf a caller may pass
          TCP_OR_UDP,    \* larger batches go over TCP
          HEAD_LENGTH,   \* bytes of a message's head, the last of which is its kind
          WORD,          \* sizeof(uint32)
          Wild           \* an offset read from outside the index table

DNS_ERROR == "DNS_ERROR"
CACHE_MISS == "CACHE_MISS"
Zero == "0.0.0.0"
Garbled == "garbled"     \* a word that was neither sent whole nor cleared
Answers == Domains \cup {DNS_ERROR, CACHE_MISS}

\* A domain in the caller's buffer: written in lower case, with capitals, or with a
\* character outside the set.
Spellings == {"lower", "upper", "bad"}

ASSUME ClientAssumption ==
  /\ {HEAD_LENGTH, WORD} \subseteq Nat \ {0}
  /\ TCP_OR_UDP \in Nat
  /\ Length \in [Domains -> Nat]
  /\ Batches \subseteq Seq([domain : Domains, spelling : Spellings])
  /\ <<>> \notin Batches
  /\ Wild \notin Nat

\* What stands for an answer that is no address is not the name of a domain.
ASSUME AnswerAssumption == {DNS_ERROR, CACHE_MISS, Zero, Garbled} \cap Domains = {}

VARIABLES
  pc,            \* where the call is
  buf,           \* the caller's buffer
  index,         \* index[i]: the offset of domain i in buf
  retbuf,        \* the reply buffer
  count,         \* bytes read by the loop under way
  misscount,     \* misses in the first reply
  calls,         \* the calls of f: offset of the domain and address, in order
  result,        \* what dns_search returned
  held,          \* the socket and the blocks the call has not released
  asked,         \* whether the request has reached the server
  first, second, \* the answers of the server, once it has given them
  stream, eof,   \* unread bytes of the connection; whether its end follows them
  datagram,      \* the UDP reply on its way, as a set of at most one
  swallowed,     \* history: bytes of the second reply that the first loop has read
  cut,           \* history: the connection broke
  lost,          \* history: a datagram was lost
  guessed        \* history: the calls of f whose address is a garbled word

callVars == <<buf, index, retbuf, count, misscount, calls, result, held>>
serverVars == <<asked, first, second>>
netVars == <<stream, eof, datagram>>
histVars == <<swallowed, cut, lost, guessed>>
vars == <<pc, callVars, serverVars, netVars, histVars>>

nbuf == Len(buf)
Positions == 0 .. nbuf - 1

Init == /\ pc = "call"
        /\ buf \in Batches
        /\ index = <<>>
        /\ retbuf = <<>>
        /\ count = 0
        /\ misscount = 0
        /\ calls = <<>>
        /\ result = "none"
        /\ held = {}
        /\ asked = FALSE
        /\ first = <<>> /\ second = <<>>
        /\ stream = <<>> /\ eof = FALSE /\ datagram = {}
        /\ swallowed = 0 /\ cut = FALSE /\ lost = FALSE /\ guessed = {}

(***************************************************************************)
(* Messages as bytes                                                       *)
(***************************************************************************)

HeadBytes(kind) == [k \in 1 .. HEAD_LENGTH |-> IF k = HEAD_LENGTH THEN <<kind>> ELSE <<"head">>]
IpBytes(ip) == [k \in 1 .. WORD |-> <<"ip", ip, k>>]

\* A small number, lowest byte first.
ZeroByte == <<"zero">>
NumberBytes(i) == [k \in 1 .. WORD |-> IF k = 1 /\ i # 0 THEN <<"number", i>> ELSE ZeroByte]

\* The positions below n that are in set S, in order: what a loop from 0 to n - 1
\* that skips the others comes to.
InOrder(n, S) ==
  LET upto[k \in 0 .. n] == IF k = 0 THEN <<>>
                            ELSE IF k - 1 \in S THEN Append(upto[k - 1], k - 1)
                            ELSE upto[k - 1]
  IN  upto[n]

\* The positions of the misses.
MissSet(answers) == {i \in 0 .. Len(answers) - 1 : answers[i + 1] = CACHE_MISS}
Misses(answers) == InOrder(Len(answers), MissSet(answers))

FirstReply(answers) ==
  HeadBytes(IF Misses(answers) = <<>> THEN "FIRST_WITHOUT_ERROR" ELSE "FIRST_WITH_ERROR")
    \o FlattenSeq([i \in 1 .. Len(answers) |-> IpBytes(answers[i])])

SecondReply(answers, late) ==
  HeadBytes("SECOND")
    \o FlattenSeq([k \in 1 .. Len(late) |-> NumberBytes(Misses(answers)[k]) \o IpBytes(late[k])])

\* A byte of the reply buffer; nothing is known of those behind its end, nor of those
\* that nothing was read to since malloc.
ByteAt(o) == IF o \in DOMAIN retbuf THEN retbuf[o] ELSE <<"junk">>

\* *(uint32 *)(retbuf + o): an address that was sent, or zero, or a garbled word.
IpAt(o) ==
  IF \E ip \in Answers : \A k \in 1 .. WORD : ByteAt(o + k - 1) = <<"ip", ip, k>>
  THEN CHOOSE ip \in Answers : \A k \in 1 .. WORD : ByteAt(o + k - 1) = <<"ip", ip, k>>
  ELSE IF \A k \in 1 .. WORD : ByteAt(o + k - 1) = ZeroByte THEN Zero
  ELSE Garbled

\* The words as they may be seen: a garbled one may be any number, as that of the same
\* place in an earlier reply, whose block malloc has given out again.
Numbers == Domains \cup {CACHE_MISS, Garbled}
AsSeen(words) ==
  LET unknown == {i \in DOMAIN words : words[i] = Garbled}
  IN  {[i \in DOMAIN words |-> IF i \in unknown THEN g[i] ELSE words[i]] : g \in [unknown -> Numbers]}

\* The words of a first reply.
FirstWord(i) == HEAD_LENGTH + i * WORD
Seen == AsSeen([i \in Positions |-> IpAt(FirstWord(i))])

\* The same as a number of a position.
NumbersAt(o) == {i \in Positions : \A k \in 1 .. WORD : ByteAt(o + k - 1) = NumberBytes(i)[k]}

(***************************************************************************)
(* The call up to its request                                              *)
(***************************************************************************)

\* Where domain i of a buffer starts.
Offset(b, i) ==
  LET start[k \in 0 .. i] == IF k = 0 THEN 0 ELSE start[k - 1] + Length[b[k].domain] + 1
  IN  start[i]

\* The loop of pre_do over buf: capitals become small letters, up to the first
\* character outside the set.
Lowered(b) ==
  [i \in 1 .. Len(b) |->
     IF b[i].spelling = "upper" /\ \A j \in 1 .. i : b[j].spelling # "bad"
     THEN [b[i] EXCEPT !.spelling = "lower"] ELSE b[i]]

AllInSet(b) == \A i \in 1 .. Len(b) : b[i].spelling # "bad"

\* The index table of pre_do.
Index(b) == [i \in 0 .. Len(b) - 1 |-> Offset(b, i)]

Give(r) == pc' = "done" /\ result' = r

\* dns_search takes TCP for a large batch: tcp_dns_search up to its socket, which is
\* opened when pre_do has accepted the names.
TcpDnsSearch ==
  /\ pc = "call" /\ nbuf > TCP_OR_UDP
  /\ buf' = Lowered(buf)
  /\ IF AllInSet(buf) THEN /\ pc' = "connect" /\ UNCHANGED result
                           /\ index' = Index(buf)
                           /\ held' = {"sockfd"}
     ELSE Give("NOT_IN_SET") /\ UNCHANGED <<index, held>>
  /\ UNCHANGED <<retbuf, count, misscount, calls, serverVars, netVars, histVars>>

\* ... and UDP for a small one: the socket is opened before the names are looked at.
UdpDnsSearch ==
  /\ pc = "call" /\ nbuf <= TCP_OR_UDP
  /\ buf' = Lowered(buf)
  /\ held' = {"sockfd"}
  /\ IF AllInSet(buf) THEN pc' = "sendmsg" /\ UNCHANGED result /\ index' = Index(buf)
                      ELSE Give("NOT_IN_SET") /\ UNCHANGED index
  /\ UNCHANGED <<retbuf, count, misscount, calls, serverVars, netVars, histVars>>

ConnectFails ==
  /\ pc = "connect"
  /\ Give("CONNECT_WRONG")
  /\ UNCHANGED <<buf, index, retbuf, count, misscount, calls, held, serverVars, netVars, histVars>>

Connect ==
  /\ pc = "connect"
  /\ pc' = "writev"
  /\ held' = held \cup {"headbuf"}
  /\ UNCHANGED <<buf, index, retbuf, count, misscount, calls, result, serverVars, netVars, histVars>>

\* The bytes of the reply buffer.  (Faulty variant: room for one word per domain.)
RetSizeOne == HEAD_LENGTH + nbuf * WORD
RetSize == HEAD_LENGTH + nbuf * 2 * WORD

\* malloc(RetSize): contents unknown.
NewRetbuf == [o \in 0 .. RetSize - 1 |-> <<"junk">>]

SendFails ==
  /\ pc \in {"writev", "sendmsg"}
  /\ Give("OTHER_WRONG")
  /\ held' = held \cup {"headbuf"}
  /\ UNCHANGED <<buf, index, retbuf, count, misscount, calls, serverVars, netVars, histVars>>

\* writev or sendmsg takes the request, and retbuf is allocated.
Send ==
  /\ pc \in {"writev", "sendmsg"}
  /\ pc' = IF pc = "writev" THEN "read1" ELSE "recvfrom"
  /\ asked' = TRUE
  /\ retbuf' = NewRetbuf
  /\ held' = held \cup {"headbuf", "retbuf"}
  /\ UNCHANGED <<buf, index, count, misscount, calls, result, first, second, netVars, histVars>>

(***************************************************************************)
(* TCP: the two replies                                                    *)
(***************************************************************************)

\* retbuf after n bytes of the stream have been read to retbuf + count; what does
\* not fit is written past its end.
Filled(n) == [o \in DOMAIN retbuf |->
                IF o \in count .. count + n - 1 THEN stream[o - count + 1] ELSE retbuf[o]]

\* read(sockfd, retbuf + count, want) returns n > 0.
Read(want, n) == /\ n \in 1 .. Len(stream)
                 /\ n <= want
                 /\ retbuf' = Filled(n)
                 /\ count' = count + n
                 /\ stream' = SubSeq(stream, n + 1, Len(stream))

FirstLength == HEAD_LENGTH + nbuf * WORD
SecondLength == HEAD_LENGTH + misscount * 2 * WORD

\* Lines 93-99, one turn of the loop: every read asks for the whole length again.
ReadFirst ==
  /\ pc = "read1"
  /\ \E n \in 1 .. FirstLength :
       /\ Read(FirstLength, n)
       /\ swallowed' = IF count + n > FirstLength THEN count + n - FirstLength ELSE 0
       /\ pc' = IF FirstLength <= count + n THEN "first" ELSE "read1"
  /\ UNCHANGED <<buf, index, misscount, calls, result, held, serverVars, eof, datagram, cut, lost,
                 guessed>>

\* read returns 0 or -1: the loop is left all the same.  (Faulty variant: it is not.)
StayAtEnd(at, next) == /\ pc = at
                       /\ stream = <<>> /\ eof
                       /\ pc' = at
                       /\ UNCHANGED <<callVars, serverVars, netVars, histVars>>
LeaveAtEnd(at, next) == /\ pc = at
                        /\ stream = <<>> /\ eof
                        /\ pc' = next
                        /\ UNCHANGED <<callVars, serverVars, netVars, histVars>>

\* A heap block was written past its end: the process may die of it.
HeapFault ==
  /\ FirstLength + swallowed > RetSize
  /\ pc \in {"first", "read2", "second"}
  /\ pc' = "dead"
  /\ UNCHANGED <<callVars, serverVars, netVars, histVars>>

IsFirstWithoutError == retbuf[HEAD_LENGTH - 1] \in {<<"FIRST_WITHOUT_ERROR">>, <<"junk">>}

\* The calls of f for the domains at the positions in S, with the words seen in the
\* first reply.
FirstCalls(S, seen) ==
  LET ps == InOrder(nbuf, S)
  IN  [k \in 1 .. Len(ps) |-> <<Offset(buf, ps[k]), seen[ps[k]]>>]
Guesses(S) ==
  LET ps == InOrder(nbuf, S)
  IN  {k \in 1 .. Len(ps) : IpAt(FirstWord(ps[k])) = Garbled}

\* Lines 101-111: no miss, one call for each domain, close; headbuf and retbuf stay.
DealFirstWithoutError ==
  /\ pc = "first"
  /\ IsFirstWithoutError
  /\ \E seen \in Seen : calls' = FirstCalls(Positions, seen)
  /\ guessed' = Guesses(Positions)
  /\ held' = held \ {"sockfd"}
  /\ Give("SUCCESS")
  /\ UNCHANGED <<buf, index, retbuf, count, misscount, serverVars, netVars, swallowed, cut, lost>>

\* bzero(retbuf).  (Faulty variant: forgotten.)
NotCleared == retbuf
Cleared == [o \in DOMAIN retbuf |-> ZeroByte]

\* Lines 113-127: the misses are counted, f is called for the others, and retbuf is
\* cleared.
DealFirstWithError ==
  /\ pc = "first"
  /\ ~ IsFirstWithoutError \/ retbuf[HEAD_LENGTH - 1] = <<"junk">>
  /\ \E seen \in Seen :
       LET missed == {i \in Positions : seen[i] = CACHE_MISS}
       IN  /\ misscount' = Cardinality(missed)
           /\ calls' = FirstCalls(Positions \ missed, seen)
           /\ guessed' = Guesses(Positions \ missed)
  /\ retbuf' = Cleared
  /\ count' = 0
  /\ pc' = "read2"
  /\ UNCHANGED <<buf, index, result, held, serverVars, netVars, swallowed, cut, lost>>

\* Lines 128-134, one turn of the loop.
ReadSecond ==
  /\ pc = "read2"
  /\ \E n \in 1 .. SecondLength : /\ Read(SecondLength, n)
                                  /\ pc' = IF SecondLength <= count + n THEN "second" ELSE "read2"
  /\ UNCHANGED <<buf, index, misscount, calls, result, held, serverVars, eof, datagram, histVars>>

\* The offset that f is given for pair k of the second reply: that of the position
\* the pair names, or whatever lies outside the table.  (Faulty variant: the k-th
\* entry of the table.)
OffsetByOrder(k) == {index[k]}
OffsetOfPair(k) ==
  IF NumbersAt(HEAD_LENGTH + 2 * k * WORD) = {} THEN {Wild}
  ELSE {index[i] : i \in NumbersAt(HEAD_LENGTH + 2 * k * WORD)}

\* The word with the address of pair k.
SecondWord(k) == HEAD_LENGTH + (2 * k - 1) * WORD
SeenSecond == AsSeen([k \in 1 .. misscount |-> IpAt(SecondWord(k))])

SecondCalls(late) ==
  [k \in 1 .. misscount |-> <<CHOOSE o \in OffsetOfPair(k - 1) : TRUE, late[k]>>]
SecondGuesses == {k \in 1 .. misscount : IpAt(SecondWord(k)) = Garbled}

\* Lines 137-147: one call for each pair, everything released.
DealSecond ==
  /\ pc = "second"
  /\ \E late \in SeenSecond : calls' = calls \o SecondCalls(late)
  /\ guessed' = guessed \cup {Len(calls) + k : k \in SecondGuesses}
  /\ held' = {}
  /\ Give("SUCCESS")
  /\ UNCHANGED <<buf, index, retbuf, count, misscount, serverVars, netVars, swallowed, cut, lost>>

\* The same, when reading outside the index table is fatal.
WildIndexFault ==
  /\ pc = "second"
  /\ \E k \in 1 .. misscount : Wild \in OffsetOfPair(k - 1)
  /\ pc' = "dead"
  /\ UNCHANGED <<callVars, serverVars, netVars, histVars>>

(***************************************************************************)
(* UDP: one datagram                                                       *)
(***************************************************************************)

\* Line 203: recvfrom fills retbuf with bytes and returns n.
Received(bytes, n) ==
  /\ pc = "recvfrom"
  /\ retbuf' = [o \in DOMAIN retbuf |-> IF o < Len(bytes) THEN bytes[o + 1] ELSE retbuf[o]]
  /\ count' = n
  /\ pc' = "reply"
  /\ UNCHANGED <<buf, index, misscount, calls, result, held, serverVars, stream, eof, histVars>>

Recvfrom == \E bytes \in datagram : Received(bytes, Len(bytes)) /\ datagram' = {}

\* recvfrom fails, which nobody notices.
RecvfromFails == Received(<<>>, -1) /\ UNCHANGED datagram

\* Lines 206-211, the first n turns of the loop: one call for each domain, misses included.
UdpCalls(n) ==
  /\ pc = "reply"
  /\ \E seen \in Seen : calls' = [k \in 1 .. n |-> <<index[k - 1], seen[k - 1]>>]
  /\ guessed' = {k \in 1 .. n : IpAt(FirstWord(k - 1)) = Garbled}
  /\ UNCHANGED <<buf, index, retbuf, count, misscount, serverVars, netVars, swallowed, cut, lost>>

\* Lines 206-216; the socket stays open.
DealUdp ==
  /\ UdpCalls(nbuf)
  /\ held' = {"sockfd"}
  /\ Give("SUCCESS")

\* Line 210 goes over buf from the number of bytes received, name by name.  It leaves buf,
\* unless that number lies in the first name, and reading there may be fatal.
WalkFault ==
  /\ count \notin 0 .. Length[buf[1].domain]
  /\ \E n \in 1 .. nbuf : UdpCalls(n)
  /\ pc' = "dead"
  /\ UNCHANGED <<result, held>>

(***************************************************************************)
(* Server and network                                                      *)
(***************************************************************************)

IsTcp == nbuf > TCP_OR_UDP

\* The first reply: from the cache, so an address, a failure remembered or a miss for
\* each domain.
ServerFirst ==
  /\ asked /\ first = <<>> /\ ~cut /\ ~lost
  /\ \E answers \in [1 .. nbuf -> Answers] :
       /\ \A i \in 1 .. nbuf : answers[i] \in {buf[i].domain, DNS_ERROR, CACHE_MISS}
       /\ first' = answers
       /\ IF IsTcp
          THEN /\ stream' = FirstReply(answers)
               /\ eof' = (Misses(answers) = <<>>)
               /\ UNCHANGED datagram
          ELSE /\ datagram' = {FirstReply(answers)}
               /\ UNCHANGED <<stream, eof>>
  /\ UNCHANGED <<pc, callVars, asked, second, histVars>>

\* The second reply, over TCP only, and the server closes.
ServerSecond ==
  /\ IsTcp /\ Misses(first) # <<>> /\ second = <<>> /\ ~cut
  /\ \E failing \in SUBSET (1 .. Len(Misses(first))) :
       LET late == [k \in 1 .. Len(Misses(first)) |->
                      IF k \in failing THEN DNS_ERROR ELSE buf[Misses(first)[k] + 1].domain]
       IN  /\ second' = late
           /\ stream' = stream \o SecondReply(first, late)
  /\ eof' = TRUE
  /\ UNCHANGED <<pc, callVars, asked, first, datagram, histVars>>

\* The server dies or the connection breaks, and with it any part of what has not
\* been read.
ConnectionBreaks ==
  /\ IsTcp /\ asked /\ ~cut
  /\ ~eof \/ stream # <<>>
  /\ \E n \in 0 .. Len(stream) : stream' = SubSeq(stream, 1, n)
  /\ eof' = TRUE
  /\ cut' = TRUE
  /\ UNCHANGED <<pc, callVars, serverVars, datagram, swallowed, lost, guessed>>

\* The request or its reply is lost.
DatagramLost ==
  /\ ~IsTcp /\ pc = "recvfrom" /\ ~lost
  /\ datagram' = {}
  /\ lost' = TRUE
  /\ UNCHANGED <<pc, callVars, serverVars, stream, eof, swallowed, cut, guessed>>

ClientStep ==
  \/ TcpDnsSearch \/ UdpDnsSearch \/ Connect \/ ConnectFails \/ Send \/ SendFails
  \/ ReadFirst \/ LeaveAtEnd("read1", "first") \/ DealFirstWithoutError \/ DealFirstWithError
  \/ ReadSecond \/ LeaveAtEnd("read2", "second") \/ DealSecond
  \/ Recvfrom \/ DealUdp

ServerStep == ServerFirst \/ ServerSecond

Faults == HeapFault \/ WildIndexFault \/ WalkFault \/ RecvfromFails \/ ConnectionBreaks \/ DatagramLost

Next == ClientStep \/ ServerStep \/ Faults

\* The caller's thread runs, and a server that has a request replies.
Spec == Init /\ [][Next]_vars /\ WF_vars(ClientStep) /\ WF_vars(ServerStep)

(***************************************************************************)
(* Properties                                                              *)
(***************************************************************************)

\* Types; and the replies stay inside retbuf (dc_client.c:89-90) as long as the
\* first loop reads nothing but the first reply.
ClientTypeOK ==
  /\ pc \in {"call", "connect", "writev", "sendmsg", "read1", "first", "read2", "second",
             "recvfrom", "reply", "done", "dead"}
  /\ index = <<>> \/ index \in [Positions -> Nat]
  /\ misscount \in 0 .. nbuf
  /\ result \in {"none", "SUCCESS", "NOT_IN_SET", "CONNECT_WRONG", "OTHER_WRONG"}
  /\ held \subseteq {"sockfd", "headbuf", "retbuf"}
  /\ first \in {<<>>} \cup [1 .. nbuf -> Answers]
  /\ {asked, eof, cut, lost} \subseteq BOOLEAN
  /\ swallowed \in 0 .. FirstLength
  /\ count <= RetSize \/ swallowed > 0

\* The answer that the server gives for domain i, in its second reply if it is a
\* miss over TCP.
FinalAnswer(i) ==
  IF first[i] = CACHE_MISS /\ IsTcp
  THEN second[CHOOSE k \in 1 .. Len(second) : Misses(first)[k] = i - 1]
  ELSE first[i]

\* A call that returns SUCCESS has called f once for each domain, with what the
\* server answered for it, and over TCP has closed its socket (tcp_dns_search,
\* dc_client.c:101-147; udp_dns_search, 203-216): provided nothing of the reply was
\* lost and the first loop has not read into the second reply.
AnsweredRight ==
  result = "SUCCESS" =>
    /\ IsTcp => "sockfd" \notin held
    /\ first # <<>> /\ swallowed = 0 /\ ~cut /\ ~lost /\ (IsTcp \/ datagram = {}) =>
         /\ Len(calls) = nbuf
         /\ \A i \in 1 .. nbuf :
              \E k \in 1 .. nbuf : calls[k] = <<Offset(buf, i - 1), FinalAnswer(i)>>

\* However a connection breaks, f is never given a domain from outside buf, nor the
\* address of one domain for another - except in a garbled word, one that did not arrive
\* or did so in part, with which it may be given any - unless the first loop has read into
\* the second reply (dc_client.c:113-142: unread pairs of the second reply are zero).
NoMixup ==
  swallowed = 0 =>
    \A k \in 1 .. Len(calls) :
      \E i \in 1 .. nbuf :
        /\ calls[k][1] = Offset(buf, i - 1)
        /\ calls[k][2] \in Domains /\ k \notin guessed => calls[k][2] = buf[i].domain

\* A call over TCP is killed by a wild index or a damaged heap only after its first loop
\* has read bytes of the second reply (dc_client.c:93-99, 139).
DeathNeedsSwallowing == pc = "dead" /\ IsTcp => swallowed > 0

\* Every call returns, however its connection is cut and whatever the first loop has
\* read; only a lost datagram lets the UDP client wait for ever (dc_client.c:93-99,
\* 128-134, 203).
CallReturns == <>(pc \in {"done", "dead"} \/ lost)
=============================================================================
