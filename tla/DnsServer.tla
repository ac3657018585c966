----------------------------- MODULE DnsServer ------------------------------
(***************************************************************************)
(* The whole server process, mainserver.c: the TCP workers, the UDP server *)
(* and the DNS threads over the cache, the ring of jobs and the            *)
(* descriptors they share, with clients that connect, send whole or broken *)
(* requests and go away at any time, and a clock.                          *)
(***************************************************************************)
EXTENDS TcpServer, UdpServer

ASSUME JobsAssumption == Jobs = TcpJobs \cup UdpJobs

vars == <<sharedVars, workerVars, udpVars>>

Init == /\ RingInit
        /\ SockInit
        /\ KacheInit
        /\ DnsThreadInit
        /\ TcpInit
        /\ UdpInit

Client(c) == /\ ClientConnect(c) \/ ClientSend(c) \/ ClientGone(c)
             /\ UNCHANGED <<ringVars, kacheVars, threadVars, reqVars, astray,
                            workerVars, udpVars>>

Clock == /\ Tick
         /\ UNCHANGED <<ringVars, sockVars, threadVars, reqVars, astray, workerVars, udpVars>>

Next == \/ \E t \in DnsThreads : DnsStep(t) /\ UNCHANGED <<workerVars, udpVars>>
        \/ \E w \in Workers : WorkerStep(w) /\ UNCHANGED udpVars
        \/ UdpStep /\ UNCHANGED workerVars
        \/ status = "run" /\ ((\E c \in Conns : Client(c)) \/ Clock)

Spec == Init /\ [][Next]_vars

(***************************************************************************)
(* Fairness.  Threads are preemptively scheduled and none of them blocks   *)
(* for ever once it has work: the two mutexes are held for a bounded time, *)
(* getaddrinfo gives up after its own time limit, and a reply is short     *)
(* enough for the buffer of its socket, so that writing it does not wait.  *)
(* Reading a request may wait for ever; the steps after it are enabled     *)
(* only once the client has sent what it announced or has gone (Waits).  A *)
(* mutex is not fair to a single thread, so taking a job and accepting are *)
(* fair only for the threads as a group.  Clients, the network and the     *)
(* clock promise nothing.                                                  *)
(***************************************************************************)
Fairness ==
  /\ WF_vars(\E t \in DnsThreads : TakeJob(t) /\ UNCHANGED <<workerVars, udpVars>>)
  /\ \A t \in DnsThreads : WF_vars(WorkOnJob(t) /\ UNCHANGED <<workerVars, udpVars>>)
  /\ WF_vars(\E w \in Workers : Accept(w) /\ UNCHANGED udpVars)
  /\ \A w \in Workers : WF_vars(ServeConn(w) /\ UNCHANGED udpVars)
  /\ WF_vars(UdpWork /\ UNCHANGED workerVars)

FairSpec == Spec /\ Fairness

(***************************************************************************)
(* Properties                                                              *)
(***************************************************************************)

TypeOK == /\ RingTypeOK
          /\ SockTypeOK(Replies)
          /\ KacheTypeOK
          /\ DnsThreadTypeOK
          /\ TcpTypeOK
          /\ UdpTypeOK

\* The jobs of request c that nobody has finished: not yet put by the worker, in
\* the ring, or with a thread that has not decremented the count.
Unput(c) == {u \in Workers \X Counts : /\ wpc[u[1]] = "put"
                                       /\ wreq[u[1]] = c
                                       /\ u[2] \in wput[u[1]] .. Len(wmiss[u[1]]) - 1}
InRing(c) == {i \in 1 .. Queued : IsTcp(Contents[i]) /\ Contents[i].req = c}
InThread(c) == {t \in DnsThreads : /\ dpc[t] \in {"dnsrequest", "finish"}
                                   /\ IsTcp(job[t])
                                   /\ job[t].req = c}
Outstanding(c) ==
  Cardinality(Unput(c)) + Cardinality(InRing(c)) + Cardinality(InThread(c))

\* *number always equals the number of jobs of the request still to be finished,
\* counting those its worker has yet to put into the ring: no DNS thread can see
\* zero while a job of the request is anywhere (do_dns_search, thread_main_dns).
NumberCounts == \A c \in Conns : blk[c] = "live" => number[c] = Outstanding(c)

\* Whoever has a job of a request to put, to take or to finish finds the block of
\* the request (number, miss, ipptr, mutex, headptr) allocated: it is freed only
\* after the last decrement.
BlockOutlivesJobs == \A c \in Conns : Outstanding(c) > 0 => blk[c] = "live"

\* The connection a descriptor in use by a worker or by a DNS thread refers to is
\* the one it was accepted for, until someone goes astray: close and accept of
\* other threads never pull it away.
DescriptorOwned ==
  ~astray =>
    /\ \A w \in Workers : wpc[w] # "accept" => fdTab[wfd[w]] = wreq[w]
    /\ \A t \in DnsThreads :
         IsTcp(job[t]) /\ (dpc[t] \in {"dnsrequest", "finish", "send", "close"})
           => fdTab[job[t].sockfd] = job[t].req

\* No descriptor leaks: each open one is held by a worker that is serving it, or
\* by a job or DNS thread that has not closed it yet, whatever broken requests
\* and departing clients the server meets (serv, do_search, thread_main_dns).
DescriptorHeld ==
  \A f \in Fds : fdTab[f] # NoConn =>
    \/ \E w \in Workers : wpc[w] # "accept" /\ wfd[w] = f
    \/ \E i \in 1 .. Queued : IsTcp(Contents[i]) /\ Contents[i].sockfd = f
    \/ \E t \in DnsThreads : IsTcp(job[t]) /\ job[t].sockfd = f /\ dpc[t] # "free"

\* Second replies client c has been sent for its own request.
SecondsOf(c) == {i \in DOMAIN wire[c] : wire[c][i].serial = "second" /\ wire[c][i].of = c}

\* Until someone goes astray, a client that sent a whole request receives only
\* replies to that request, the first reply first and at most one second reply;
\* each name is answered by its own address, DNS_ERROR or CACHE_MISS in the
\* first reply, whose last head byte tells whether a second one will come, and the
\* second reply answers each name that missed exactly once and no other, by its own
\* address or DNS_ERROR.
RepliesRight ==
  ~astray => \A c \in Conns : LET w == wire[c] q == Request[c] IN
    /\ Len(w) <= 2
    /\ \A i \in DOMAIN w : w[i].of = c /\ w[i].serial = IF i = 1 THEN "first" ELSE "second"
    /\ sent[c] = "full" /\ Len(w) > 0 =>
         /\ Len(w[1].ips) = Len(q)
         /\ \A p \in DOMAIN q : w[1].ips[p] \in {q[p], DNS_ERROR, CACHE_MISS}
         /\ w[1].error <=> \E p \in DOMAIN q : w[1].ips[p] = CACHE_MISS
    /\ sent[c] = "full" /\ Len(w) = 2 =>
         LET missed == {p \in DOMAIN q : w[1].ips[p] = CACHE_MISS}
             a == w[2].answers
         IN  /\ w[2].total = Cardinality(missed)
             /\ \A p \in missed : \E k \in 0 .. w[2].total - 1 :
                  /\ a[k] # NoAnswer
                  /\ a[k].index = p - 1
                  /\ a[k].ip \in {q[p], DNS_ERROR}

\* Until someone goes astray, a second reply with a failed name in it says so:
\* no failure of any DNS thread is lost on the way to the head byte.
ErrorReported ==
  ~astray => \A c \in Conns : \A i \in SecondsOf(c) : LET m == wire[c][i] IN
    (\E k \in 0 .. m.total - 1 : m.answers[k] # NoAnswer /\ m.answers[k].ip = DNS_ERROR)
      => m.error

\* The documented meaning of *miss (server.h): HAVE_ERROR if there is a DNS error
\* in the second message, NO_ERROR if all is right.
ErrorByteExact ==
  ~astray => \A c \in Conns : \A i \in SecondsOf(c) : LET m == wire[c][i] IN
    m.error <=> \E k \in 0 .. m.total - 1 : m.answers[k].ip = DNS_ERROR

\* The documented role of the DNS thread that finishes last: it, and it alone,
\* sends the second reply to the client and closes the connection.
SecondReplyOnce == \A c \in Conns : Cardinality(SecondsOf(c)) <= 1

\* Every request that went to the DNS threads is completed and its block freed,
\* or the process ends.
RequestsComplete == \A c \in Conns :
  (blk[c] = "live") ~> (blk[c] = "freed" \/ status # "run")

\* Every connection the server has accepted is closed once its client has sent what it
\* announced, whether that is a request or not, or has gone, or the process ends.  A
\* client that does neither keeps its connection and a worker: read has no time-out
\* (serv_thread_make.c:62, 90).
ConnectionsClose == \A c \in Conns :
  ((\E f \in Fds : fdTab[f] = c) /\ ~Waits(c))
    ~> ((\A f \in Fds : fdTab[f] # c) \/ status # "run")

\* For a name that is about to be reported as missing to a UDP client the cache gets an
\* entry that is not out of date and holds the address of the name or DNS_ERROR, whatever
\* old entry or entry of another name was there, unless the reply cannot be sent or the
\* process ends: a client that asks again at that time finds it (udp_server.c:139-190).
UdpMissesCached == \A m \in Datagrams : \A p \in DOMAIN DatagramNames[m] :
  LET n == DatagramNames[m][p] IN
  (upc = "send" /\ umsg = m /\ uips[p] = CACHE_MISS)
    ~> \/ \E d \in Fresh(n) : d.ip \in {n, DNS_ERROR}
       \/ upc # "send" /\ ureply[m] = <<>>
       \/ status # "run"
=============================================================================
