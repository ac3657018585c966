---------------------------- MODULE MCDnsServer -----------------------------
(* Values for the constants of DnsServer.                                   *)
EXTENDS DnsServer, TLC

CONSTANTS x, y, z, c1, c2, m1, t1, t2, w1, w2

MCNames == {x, y, z}
MCTrieNames == {z}
MCHashVals == {0, 1, 2, 3}
MCHash == (EmptyName :> 0) @@ (x :> 1) @@ (y :> 2) @@ (z :> 3)
MCFirst4 == (EmptyName :> <<>>) @@ (x :> <<"a", "b", "c">>) @@
            (y :> <<"a", "b", "c", "d">>) @@ (z :> <<"b", "b", "c", "d">>)
MCRequest == (c1 :> <<x, y>>) @@ (c2 :> <<z, y>>)
MCDatagramNames == m1 :> <<z, x>>
FaultRequest == (c1 :> <<x>>) @@ (c2 :> <<z>>)
UdpHash == [MCHash EXCEPT ![y] = MCHash[x]]
MCSymmetry == Permutations({t1, t2}) \cup Permutations({w1, w2})
MCJobs == TcpJobs \cup UdpJobs
\* Liveness: the client sends any kind of request, and the datagram comes beside a full one.
Apart == inbox' = Datagrams \/ \A c \in Conns : sent'[c] \in {"none", "full"}
LiveNext == Next /\ Apart
LiveSpec == Init /\ [][LiveNext]_vars /\ Fairness
=============================================================================
