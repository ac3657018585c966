----------------------------- MODULE TcpServer ------------------------------
(***************************************************************************)
(* The TCP worker threads, serv_thread_make.c.  A worker accepts a         *)
(* connection, reads the request, looks every name up in the cache and     *)
(* sends the first reply: an address for every hit, CACHE_MISS for every   *)
(* miss.  Without a miss it closes the connection; otherwise it allocates  *)
(* the request's block, puts one job per miss into the ring, and leaves    *)
(* the connection to the DNS threads.                                      *)
(*                                                                         *)
(* Names have three characters or more, so that the addresses do_search    *)
(* writes over the request never reach a name it has not read yet.         *)
(***************************************************************************)
EXTENDS DnsThread

CONSTANTS Workers,   \* the TCP worker threads
          NoReq,     \* a worker without request
          Request    \* Request[c]: the names client c asks for

ASSUME RequestAssumption ==
  /\ NoReq \notin Conns
  /\ \A c \in Conns : Request[c] \in Seq(Names) /\ Len(Request[c]) \in 1 .. MAXNAMES

VARIABLES wpc,       \* where worker w is
          wreq,      \* the connection w serves
          wfd,       \* connfd
          wnames,    \* the names in the request buffer
          wips,      \* the addresses written over it so far
          wmiss,     \* the dm_node list: [domain, index], in order
          wput       \* nodes of the list put into the ring so far

workerVars == <<wpc, wreq, wfd, wnames, wips, wmiss, wput>>

Nodes == [domain : AllNames, index : Counts]

TcpInit == /\ wpc = [w \in Workers |-> "accept"]
           /\ wreq = [w \in Workers |-> NoReq]
           /\ wfd = [w \in Workers |-> 0]
           /\ wnames = [w \in Workers |-> <<>>]
           /\ wips = [w \in Workers |-> <<>>]
           /\ wmiss = [w \in Workers |-> <<>>]
           /\ wput = [w \in Workers |-> 0]

\* Lines 44-46: accept, one worker at a time.
Accept(w) == /\ status = "run"
             /\ wpc[w] = "accept"
             /\ \E f \in Fds, c \in Conns :
                  /\ AcceptFd(f, c)
                  /\ wreq' = [wreq EXCEPT ![w] = c]
                  /\ wfd' = [wfd EXCEPT ![w] = f]
             /\ wpc' = [wpc EXCEPT ![w] = "serv"]
             /\ UNCHANGED <<ringVars, sent, silent, gone, wire, kacheVars, threadVars, reqVars,
                            astray, wnames, wips, wmiss, wput>>

\* The worker is back in its loop, its locals no longer used.
Idle(w) == /\ wpc' = [wpc EXCEPT ![w] = "accept"]
           /\ wreq' = [wreq EXCEPT ![w] = NoReq]
           /\ wfd' = [wfd EXCEPT ![w] = 0]
           /\ wnames' = [wnames EXCEPT ![w] = <<>>]
           /\ wips' = [wips EXCEPT ![w] = <<>>]
           /\ wmiss' = [wmiss EXCEPT ![w] = <<>>]
           /\ wput' = [wput EXCEPT ![w] = 0]

\* close(connfd).  (Faulty variant: the connection is left open.)
LeaveConnfd(w) == UNCHANGED fdTab
CloseConnfd(w) == fdTab' = Closed(wfd[w])

\* From here on the read of the head, or of the body, has returned (Waits).

\* Lines 62-65 and 74-78: a short head or a wrong magic number.  (Faulty variant:
\* the return after the close is missing.)
RejectNoReturn(w) == /\ status = "run"
                     /\ wpc[w] = "serv"
                     /\ ~Waits(wreq[w])
                     /\ Found(wreq[w]) \in {"short", "badmagic"}
                     /\ CloseConnfd(w)
                     /\ wnames' = [wnames EXCEPT ![w] = Request[wreq[w]]]
                     /\ wpc' = [wpc EXCEPT ![w] = "search"]
                     /\ UNCHANGED <<ringVars, backlog, sent, silent, gone, wire, kacheVars,
                                    threadVars, reqVars, astray, wreq, wfd, wips, wmiss, wput>>
Reject(w) == /\ status = "run"
             /\ wpc[w] = "serv"
             /\ ~Waits(wreq[w])
             /\ Found(wreq[w]) \in {"short", "badmagic"}
             /\ CloseConnfd(w)
             /\ Idle(w)
             /\ UNCHANGED <<ringVars, backlog, sent, silent, gone, wire, kacheVars, threadVars,
                            reqVars, astray>>

\* The names do_search finds in the request buffer.  A client that goes away in
\* the middle of the body leaves the rest of the malloc'ed buffer as it was, and
\* the buffer is searched all the same (lines 90-98); of a request without a body,
\* all of the buffer is.
Bodies(c) ==
  IF sent[c] \in {"full", "overlong"} THEN {Request[c]}
  ELSE IF sent[c] = "empty" THEN {<<n>> : n \in AllNames}
  ELSE UNION {{SubSeq(Request[c], 1, k) \o rest :
                 rest \in UNION {[1 .. n -> AllNames] : n \in 1 .. Len(Request[c]) - k}} :
              k \in 0 .. Len(Request[c]) - 1}

\* Lines 86-98: read the body.
ReadBody(w) == /\ status = "run"
               /\ wpc[w] = "serv"
               /\ ~Waits(wreq[w])
               /\ Found(wreq[w]) \in {"full", "overlong", "truncated", "empty"}
               /\ \E b \in Bodies(wreq[w]) : wnames' = [wnames EXCEPT ![w] = b]
               /\ wpc' = [wpc EXCEPT ![w] = "search"]
               /\ UNCHANGED <<sharedVars, wreq, wfd, wips, wmiss, wput>>

\* The names in the buffer when line 94 or read() has written outside of it.
\* A length below that of the head wraps, so that any bytes are enough and the '\0' goes
\* before the buffer, and do_search sees one name; a body in several pieces that is
\* longer than announced is read beyond the end of the buffer (line 90).
Overwritten(c) ==
  IF sent[c] = "tiny" THEN {<<n>> : n \in AllNames} ELSE {Request[c]}

Overwrite(w) == /\ status = "run"
                /\ wpc[w] = "serv"
                /\ ~Waits(wreq[w])
                /\ Found(wreq[w]) \in {"tiny", "overlong"}
                /\ \E b \in Overwritten(wreq[w]) : wnames' = [wnames EXCEPT ![w] = b]
                /\ wpc' = [wpc EXCEPT ![w] = "search"]
                /\ astray' = TRUE
                /\ UNCHANGED <<ringVars, sockVars, kacheVars, threadVars, reqVars,
                               wreq, wfd, wips, wmiss, wput>>

\* The damage to the heap may end the process, when the buffer is freed or earlier.
OverwriteCrash(w) == /\ wpc[w] \in {"search", "reply"}
                     /\ sent[wreq[w]] \in {"tiny", "overlong"}
                     /\ astray
                     /\ Halt
                     /\ UNCHANGED <<offRingVars, workerVars>>

\* Lines 83-84: a total length of zero closes the connection and goes on: the
\* body buffer gets a length of -13, nothing is read into it, and do_search
\* sees one empty name.
ZeroLength(w) == /\ status = "run"
                 /\ wpc[w] = "serv"
                 /\ ~Waits(wreq[w])
                 /\ Found(wreq[w]) = "zero"
                 /\ CloseConnfd(w)
                 /\ wnames' = [wnames EXCEPT ![w] = <<EmptyName>>]
                 /\ wpc' = [wpc EXCEPT ![w] = "search"]
                 /\ astray' = TRUE
                 /\ UNCHANGED <<ringVars, backlog, sent, silent, gone, wire, kacheVars,
                                threadVars, reqVars, wreq, wfd, wips, wmiss, wput>>

\* A length below that of the head, zero or not, when malloc refuses the four
\* gigabytes: do_search reads through the null pointer.
NullBuffer(w) == /\ wpc[w] = "serv"
                 /\ ~Waits(wreq[w])
                 /\ Found(wreq[w]) \in {"zero", "tiny"}
                 /\ Halt
                 /\ UNCHANGED <<offRingVars, workerVars>>

\* Lines 124-140: the list node for a miss of name n.  (Faulty variant: the index
\* counts the misses, not the names.)
NodeMissIndex(w, n) == [domain |-> n, index |-> Len(wmiss[w])]
Node(w, n) == [domain |-> n, index |-> Len(wips[w])]

\* Lines 117-158, one turn of the loop: look the next name up.
Search(w) ==
  /\ status = "run"
  /\ wpc[w] = "search"
  /\ LET n == wnames[w][Len(wips[w]) + 1] IN
       \/ \E d \in Fresh(n) : /\ wips' = [wips EXCEPT ![w] = Append(@, d.ip)]
                              /\ UNCHANGED wmiss
       \/ /\ Fresh(n) = {}
          /\ wips' = [wips EXCEPT ![w] = Append(@, CACHE_MISS)]
          /\ wmiss' = [wmiss EXCEPT ![w] = Append(@, Node(w, n))]
  /\ wpc' = [wpc EXCEPT ![w] = IF Len(wips[w]) + 1 = Len(wnames[w]) THEN "reply" ELSE "search"]
  /\ UNCHANGED <<sharedVars, wreq, wfd, wnames, wput>>

FirstReply(w) == [of |-> wreq[w], serial |-> "first",
                  error |-> wmiss[w] # <<>>, ips |-> wips[w]]

\* Lines 162-183 without a miss: the first reply, and the connection is closed.
\* A failing writev is only reported.
ReplyHit(w) == /\ status = "run"
               /\ wpc[w] = "reply"
               /\ wmiss[w] = <<>>
               /\ wire' = Written(wfd[w], FirstReply(w))
               /\ CloseConnfd(w)
               /\ Idle(w)
               /\ UNCHANGED <<ringVars, backlog, sent, silent, gone, kacheVars, threadVars,
                              reqVars, astray>>

\* Line 204: the count starts at the number of misses.  (Faulty variant: at the
\* number of names.)
TotalNames(w) == Len(wips[w])
Total(w) == Len(wmiss[w])

\* Lines 162-176 with a miss, and lines 196-209: the first reply, and the block
\* that the jobs of the request share.
ReplyMiss(w) == /\ status = "run"
                /\ wpc[w] = "reply"
                /\ wmiss[w] # <<>>
                /\ wire' = Written(wfd[w], FirstReply(w))
                /\ blk' = [blk EXCEPT ![wreq[w]] = "live"]
                /\ number' = [number EXCEPT ![wreq[w]] = Total(w)]
                /\ miss' = [miss EXCEPT ![wreq[w]] = FALSE]
                /\ ipptr' = [ipptr EXCEPT ![wreq[w]] = [k \in Counts |-> NoAnswer]]
                /\ wpc' = [wpc EXCEPT ![w] = "put"]
                /\ UNCHANGED <<ringVars, backlog, sent, silent, gone, fdTab, kacheVars, threadVars,
                               astray, wreq, wfd, wnames, wips, wmiss, wput>>

\* SIGPIPE has no handler: writing to a client that has gone may end the process.
ReplyKilled(w) == /\ wpc[w] = "reply"
                  /\ fdTab[wfd[w]] \in gone
                  /\ Halt
                  /\ UNCHANGED <<offRingVars, workerVars>>

\* Lines 209, 216, 231: the position of a job's answer in the block.  (Faulty
\* variant: positions start at one.)
CountFromOne(w) == wput[w] + 1
Count(w) == wput[w]

\* Lines 211-234, one turn of the loop: the job of the next node of the list.
MissJob(w) == [tcp_or_udp |-> "tcp",
               domain |-> wmiss[w][wput[w] + 1].domain,
               sockfd |-> wfd[w],
               index |-> wmiss[w][wput[w] + 1].index,
               count |-> Count(w),
               total |-> Total(w),
               req |-> wreq[w]]

PutJob(w) ==
  /\ wpc[w] = "put"
  /\ Put(MissJob(w))
  /\ IF wput[w] + 1 = Len(wmiss[w])
     THEN Idle(w)
     ELSE /\ wput' = [wput EXCEPT ![w] = @ + 1]
          /\ UNCHANGED <<wpc, wreq, wfd, wnames, wips, wmiss>>
  /\ UNCHANGED offRingVars

\* Everything a worker does with a connection it has accepted.
ServeConn(w) == \/ Reject(w) \/ ReadBody(w) \/ Overwrite(w) \/ OverwriteCrash(w)
                \/ ZeroLength(w) \/ NullBuffer(w)
                \/ Search(w) \/ ReplyHit(w) \/ ReplyMiss(w) \/ ReplyKilled(w)
                \/ PutJob(w)

WorkerStep(w) == Accept(w) \/ ServeConn(w)

TcpTypeOK == /\ wpc \in [Workers -> {"accept", "serv", "search", "reply", "put"}]
             /\ wreq \in [Workers -> Conns \cup {NoReq}]
             /\ wfd \in [Workers -> Fds]
             /\ wnames \in [Workers -> Seq(AllNames)]
             /\ wips \in [Workers -> Seq(Ips)]
             /\ wmiss \in [Workers -> Seq(Nodes)]
             /\ wput \in [Workers -> 0 .. MAXNAMES]
=============================================================================
