----------------------------- MODULE DnsThread ------------------------------
(***************************************************************************)
(* The DNS threads, dns_thread_make.c: each takes a job from the ring,     *)
(* asks the resolver for the address of its domain, stores the answer in   *)
(* the cache and, for a job of a TCP request, writes it into the result    *)
(* block of that request and counts the request's outstanding jobs down.   *)
(* The thread that reads the count as zero sends the second reply, closes  *)
(* the connection and frees the block.                                     *)
(*                                                                         *)
(* The count is decremented under the request's mutex but read again after *)
(* the mutex has been released; Finish and Check are therefore two steps.  *)
(* The five allocations of a request (number, miss, ipptr, mutex, headptr) *)
(* are made together and freed together and are one block here, named by   *)
(* the connection the request came on.                                     *)
(***************************************************************************)
EXTENDS Integers, DnsArray, Sockets, Kache

CONSTANTS MAXNAMES,    \* bound: names in one request
          NoAnswer     \* an answer not written yet

ASSUME MaxNamesAssumption == MAXNAMES \in Nat \ {0}

VARIABLES dpc,         \* where DNS thread t is in thread_main_dns
          missindex,   \* missindex[t] = HAVE_ERROR
          blk,         \* state of the block of request c
          number,      \* *number: jobs of c not finished yet
          miss,        \* *miss = HAVE_ERROR
          ipptr,       \* the answers of c, as <<index, ip>> pairs
          astray       \* see below

reqVars == <<blk, number, miss, ipptr>>
threadVars == <<dpc, missindex>>
\* All that the threads of the server share.
sharedVars == <<ringVars, sockVars, kacheVars, threadVars, reqVars, astray>>
\* The same without the ring.
offRingVars == <<sockVars, kacheVars, threadVars, reqVars, astray>>

(***************************************************************************)
(* astray is not a variable of the program.  It records that some thread   *)
(* went on with a request it no longer owned: a DNS thread found the count *)
(* zero although another thread had found it zero before (CheckZero), or a *)
(* worker kept serving a connection it had closed (ZeroLength), or wrote   *)
(* outside its buffer (Overwrite).  From there on the thread uses a        *)
(* descriptor or memory that may belong to another request.  The model     *)
(* follows the program beyond that point, but does not let freed memory be *)
(* allocated again and, of memory overwritten, only lets the process end.  *)
(***************************************************************************)

Counts == 0 .. MAXNAMES - 1
Answers == [index : Counts, ip : Ips]

ASSUME NoAnswerAssumption == NoAnswer \notin Answers

\* The reply messages.  error is the bit of the last byte of the head
\* (FIRST_WITH_ERROR, SECOND_WITH_ERROR); of is the request it was built for.
FirstReplies == [of : Conns, serial : {"first"}, error : BOOLEAN, ips : Seq(Ips)]
SecondReplies == [of : Conns, serial : {"second"}, error : BOOLEAN,
                  answers : [Counts -> Answers \cup {NoAnswer}], total : 0 .. MAXNAMES]
Replies == FirstReplies \cup SecondReplies

TcpJobs == [tcp_or_udp : {"tcp"}, domain : AllNames, sockfd : Fds,
            index : Counts, count : Counts, total : 0 .. MAXNAMES, req : Conns]
UdpJobs == [tcp_or_udp : {"udp"}, domain : AllNames]

IsTcp(j) == j # NoJob /\ j.tcp_or_udp = "tcp"

DnsThreadInit == /\ dpc = [t \in DnsThreads |-> "loop"]
                 /\ missindex = [t \in DnsThreads |-> FALSE]
                 /\ blk = [c \in Conns |-> "none"]
                 /\ number = [c \in Conns |-> 0]
                 /\ miss = [c \in Conns |-> FALSE]
                 /\ ipptr = [c \in Conns |-> [k \in Counts |-> NoAnswer]]
                 /\ astray = FALSE

Goto(t, l) == dpc' = [dpc EXCEPT ![t] = l]

\* Lines 39-60: the critical section on the ring.
TakeJob(t) == /\ Take(t)
              /\ Goto(t, "dnsrequest")
              /\ UNCHANGED <<sockVars, kacheVars, missindex, reqVars, astray>>

WaitForJob(t) == /\ Wait(t) \/ SpuriousWakeup(t)
                 /\ UNCHANGED offRingVars

\* What dnsrequest may answer for domain n: its address, or a failure, which
\* the thread turns into DNS_ERROR.
dnsrequest(n) == {DNS_ERROR} \cup ({n} \cap Names)

\* Lines 63-75: a UDP job ends with the store.
UdpDnsRequest(t) ==
  /\ dpc[t] = "dnsrequest"
  /\ job[t].tcp_or_udp = "udp"
  /\ \E ip \in dnsrequest(job[t].domain) :
       kache_store(job[t].domain, [ip |-> ip, timestamp |-> now])
  /\ JobDone(t)
  /\ Goto(t, "loop")
  /\ UNCHANGED <<sockVars, missindex, reqVars, astray>>

\* Lines 79-93.  missindex is a local of the thread, not of the job: it is
\* set here and set back nowhere.
TcpDnsRequest(t) ==
  /\ status = "run"
  /\ dpc[t] = "dnsrequest"
  /\ job[t].tcp_or_udp = "tcp"
  /\ \E ip \in dnsrequest(job[t].domain) :
       /\ ipptr' = [ipptr EXCEPT ![job[t].req][job[t].count] =
                                   [index |-> job[t].index, ip |-> ip]]
       /\ missindex' = [missindex EXCEPT ![t] = @ \/ ip = DNS_ERROR]
       /\ kache_store(job[t].domain, [ip |-> ip, timestamp |-> now])
  /\ Goto(t, "finish")
  /\ UNCHANGED <<ringVars, sockVars, blk, number, miss, astray>>

\* Lines 95-96: what *miss becomes.  (Faulty variant: the thread's own result
\* replaces those of the others.)
MissReplaced(c, t) == missindex[t]
MissAfter(c, t) == miss[c] \/ missindex[t]

\* Lines 94-98: the critical section on the request.
Finish(t) ==
  /\ status = "run"
  /\ dpc[t] = "finish"
  /\ LET c == job[t].req IN
       /\ miss' = [miss EXCEPT ![c] = MissAfter(c, t)]
       /\ number' = [number EXCEPT ![c] = @ - 1]
  /\ Goto(t, "check")
  /\ UNCHANGED <<ringVars, sockVars, kacheVars, missindex, blk, ipptr, astray>>

\* Threads that have found the count of c zero and are not done with it yet.
Enders(c) == {u \in DnsThreads : /\ dpc[u] \in {"send", "close", "free"}
                                 /\ job[u].req = c}

\* Line 99: the count is read without the mutex.  Reading it from a freed
\* block may give any value.  (Faulty variant: one outstanding job is ignored.)
SeesAtMostOne(c) == blk[c] = "freed" \/ number[c] <= 1
SeesZero(c) == blk[c] = "freed" \/ number[c] = 0
SeesNonZero(c) == blk[c] = "freed" \/ number[c] # 0

CheckZero(t) == /\ status = "run"
                /\ dpc[t] = "check"
                /\ SeesZero(job[t].req)
                /\ Goto(t, "send")
                /\ astray' = (astray \/ blk[job[t].req] = "freed"
                                     \/ Enders(job[t].req) # {})
                /\ UNCHANGED <<ringVars, sockVars, kacheVars, missindex, reqVars>>

CheckNonZero(t) == /\ dpc[t] = "check"
                   /\ SeesNonZero(job[t].req)
                   /\ JobDone(t)
                   /\ Goto(t, "loop")
                   /\ UNCHANGED <<sockVars, kacheVars, missindex, reqVars, astray>>

SecondReply(c, total, err) ==
  [of |-> c, serial |-> "second", error |-> err, answers |-> ipptr[c], total |-> total]

\* Lines 100-116: the head byte and the writev.  A head or block that was freed
\* meanwhile may hold anything.
Send(t) ==
  /\ status = "run"
  /\ dpc[t] = "send"
  /\ fdTab[job[t].sockfd] # NoConn
  /\ \E err \in IF blk[job[t].req] = "freed" THEN BOOLEAN ELSE {miss[job[t].req]} :
       wire' = Written(job[t].sockfd, SecondReply(job[t].req, job[t].total, err))
  /\ Goto(t, "close")
  /\ UNCHANGED <<ringVars, backlog, sent, silent, gone, fdTab, kacheVars, missindex, reqVars, astray>>

\* Lines 114-115: exit(0) when the second reply cannot be written, because the
\* descriptor is closed or the client has gone (SIGPIPE has no handler and
\* ends the process as well).
SendFails(t) ==
  /\ dpc[t] = "send"
  /\ Reaches(job[t].sockfd) = {}
  /\ Halt
  /\ UNCHANGED offRingVars

\* Line 120.  (Faulty variant: the connection is left open.)
LeaveSockfd(t) == UNCHANGED fdTab
CloseSockfd(t) == fdTab' = Closed(job[t].sockfd)

CloseConn(t) == /\ status = "run"
                /\ dpc[t] = "close"
                /\ CloseSockfd(t)
                /\ Goto(t, "free")
                /\ UNCHANGED <<ringVars, backlog, sent, silent, gone, wire, kacheVars,
                               missindex, reqVars, astray>>

\* Lines 121-125.
Free(t) == /\ dpc[t] = "free"
           /\ blk' = [blk EXCEPT ![job[t].req] = "freed"]
           /\ JobDone(t)
           /\ Goto(t, "loop")
           /\ UNCHANGED <<sockVars, kacheVars, missindex, number, miss, ipptr, astray>>

\* Freeing what is free already may also end the process.
FreeAborts(t) == /\ dpc[t] = "free"
                 /\ blk[job[t].req] = "freed"
                 /\ Halt
                 /\ UNCHANGED offRingVars

\* Everything a DNS thread does after it has taken a job.
WorkOnJob(t) == \/ UdpDnsRequest(t) \/ TcpDnsRequest(t) \/ Finish(t)
                \/ CheckZero(t) \/ CheckNonZero(t)
                \/ Send(t) \/ SendFails(t) \/ CloseConn(t) \/ Free(t) \/ FreeAborts(t)

DnsStep(t) == TakeJob(t) \/ WaitForJob(t) \/ WorkOnJob(t)

DnsThreadTypeOK ==
  /\ dpc \in [DnsThreads -> {"loop", "dnsrequest", "finish", "check",
                             "send", "close", "free"}]
  /\ missindex \in [DnsThreads -> BOOLEAN]
  /\ blk \in [Conns -> {"none", "live", "freed"}]
  /\ number \in [Conns -> Int]
  /\ miss \in [Conns -> BOOLEAN]
  /\ ipptr \in [Conns -> [Counts -> Answers \cup {NoAnswer}]]
  /\ astray \in BOOLEAN
=============================================================================
