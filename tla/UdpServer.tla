----------------------------- MODULE UdpServer ------------------------------
(***************************************************************************)
(* The UDP server, udp_server.c, which is the main thread of the process.  *)
(* It answers one datagram at a time with the addresses it finds in the    *)
(* cache and CACHE_MISS for the others, and puts a job without a request   *)
(* into the ring for every miss, so that the client finds the address in   *)
(* the cache when it asks again.  There is no second reply.                *)
(***************************************************************************)
EXTENDS DnsThread

CONSTANTS Datagrams,     \* the datagrams clients send
          NoDatagram,
          DatagramNames, \* DatagramNames[m]: the names in datagram m
          DatagramKinds  \* subset of {"ok", "badmagic", "zero"}

ASSUME DatagramAssumption ==
  /\ NoDatagram \notin Datagrams
  /\ \A m \in Datagrams : DatagramNames[m] \in Seq(Names) \ {<<>>}

VARIABLES inbox,   \* datagrams that may still arrive; the others have, or were lost
          upc,     \* where the UDP server is
          umsg,    \* the datagram in readbuf
          uips,    \* the addresses written over it so far
          umiss,   \* domains of the dm_node list, in order
          ureply   \* ureply[m]: the reply sent to datagram m, <<>> if none

udpVars == <<inbox, upc, umsg, uips, umiss, ureply>>

UdpInit == /\ inbox = Datagrams
           /\ upc = "recv"
           /\ umsg = NoDatagram
           /\ uips = <<>>
           /\ umiss = <<>>
           /\ ureply = [m \in Datagrams |-> <<>>]

\* Lines 60-71 and 82-84: a datagram arrives; one with a wrong magic number or
\* a zero length is dropped.
UdpRecv(m) == /\ status = "run"
              /\ upc = "recv"
              /\ m \in inbox
              /\ inbox' = inbox \ {m}
              /\ \E k \in DatagramKinds :
                   IF k = "ok" THEN upc' = "search" /\ umsg' = m
                               ELSE UNCHANGED <<upc, umsg>>
              /\ UNCHANGED <<sharedVars, uips, umiss, ureply>>

\* Lines 63-66: exit(0) when recvfrom fails.
UdpRecvFails == /\ upc = "recv"
                /\ Halt
                /\ UNCHANGED <<offRingVars, udpVars>>

\* Lines 97-137, one turn of the loop.  An entry whose ip is CACHE_MISS counts
\* as a miss here.
UdpSearch ==
  /\ status = "run"
  /\ upc = "search"
  /\ LET n == DatagramNames[umsg][Len(uips) + 1]
         hits == {d \in Fresh(n) : d.ip # CACHE_MISS}
     IN  \/ \E d \in hits : uips' = Append(uips, d.ip) /\ UNCHANGED umiss
         \/ hits = {} /\ uips' = Append(uips, CACHE_MISS) /\ umiss' = Append(umiss, n)
  /\ upc' = IF Len(uips) + 1 = Len(DatagramNames[umsg]) THEN "send" ELSE "search"
  /\ UNCHANGED <<sharedVars, inbox, umsg, ureply>>

UdpIdle == upc' = "recv" /\ umsg' = NoDatagram /\ uips' = <<>> /\ umiss' = <<>>

\* Line 154: if(0 != misscount).  (Faulty variant: a single miss is ignored.)
SeveralMissed == Len(umiss) > 1
SomeMissed == umiss # <<>>

\* Lines 139-156: send the reply; the jobs follow if there was a miss.
UdpSend ==
  /\ status = "run"
  /\ upc = "send"
  /\ ureply' = [ureply EXCEPT ![umsg] = uips]
  /\ IF SomeMissed THEN upc' = "put" /\ UNCHANGED <<umsg, uips, umiss>> ELSE UdpIdle
  /\ UNCHANGED <<sharedVars, inbox>>

\* Lines 146-149: when sendto fails the misses are not looked up.
UdpSendFails == /\ status = "run"
                /\ upc = "send"
                /\ UdpIdle
                /\ UNCHANGED <<sharedVars, inbox, ureply>>

\* Lines 167-190, one turn of the loop.
UdpPut ==
  /\ upc = "put"
  /\ Put([tcp_or_udp |-> "udp", domain |-> Head(umiss)])
  /\ IF Len(umiss) = 1 THEN UdpIdle
     ELSE umiss' = Tail(umiss) /\ UNCHANGED <<upc, umsg, uips>>
  /\ UNCHANGED <<offRingVars, inbox, ureply>>

UdpWork == UdpSearch \/ UdpSend \/ UdpSendFails \/ UdpPut

UdpStep == (\E m \in Datagrams : UdpRecv(m)) \/ UdpRecvFails \/ UdpWork

UdpTypeOK == /\ inbox \subseteq Datagrams
             /\ upc \in {"recv", "search", "send", "put"}
             /\ umsg \in Datagrams \cup {NoDatagram}
             /\ uips \in Seq(Ips)
             /\ umiss \in Seq(AllNames)
             /\ ureply \in [Datagrams -> Seq(Ips)]
=============================================================================
