------------------------------ MODULE DnsArray ------------------------------
(***************************************************************************)
(* The DNS work queue of the server: the ring dns_array with its indices   *)
(* iget and iput, the mutex dns_array_mutex and the condition variable     *)
(* dns_array_cond.  TCP worker threads and the UDP server put jobs; the    *)
(* DNS threads take them.                                                  *)
(*                                                                         *)
(* Every access to the ring and to both indices is made with               *)
(* dns_array_mutex held, so one critical section is one action.            *)
(* pthread_cond_wait releases the mutex and blocks in one step; the thread *)
(* that is woken takes the mutex again and re-evaluates the loop condition *)
(* iget == iput, which is why a woken thread is simply no longer a waiter. *)
(***************************************************************************)
EXTENDS Naturals, Sequences, FiniteSets

CONSTANTS ARRAYSIZE,   \* slots of the ring
          DnsThreads,  \* the DNS threads
          Jobs,        \* what a slot can describe
          NoJob        \* contents of a slot never written; a thread without job

ASSUME SizeAssumption == ARRAYSIZE \in Nat \ {0, 1}
ASSUME JobAssumption == NoJob \notin Jobs
ASSUME ThreadAssumption == IsFiniteSet(DnsThreads)

VARIABLES dns_array,  \* the ring
          iget,       \* next slot to take from
          iput,       \* next slot to put into
          waiters,    \* threads blocked in pthread_cond_wait(&dns_array_cond)
          job,        \* job[t]: the job in the locals of DNS thread t
          status      \* "run", or why the process has ended

ringVars == <<dns_array, iget, iput, waiters, job, status>>

Slots == 0 .. ARRAYSIZE - 1

\* if(++i == ARRAYSIZE) i = 0;  (Faulty variant: the wrap is forgotten.)
NextSlotNoWrap(i) == i + 1
NextSlot(i) == IF i + 1 = ARRAYSIZE THEN 0 ELSE i + 1

RingInit == /\ dns_array = [s \in Slots |-> NoJob]
            /\ iget = 0
            /\ iput = 0
            /\ waiters = {}
            /\ job = [t \in DnsThreads |-> NoJob]
            /\ status = "run"

\* Threads at the head of their loop, about to look at the ring.
Ready == {t \in DnsThreads \ waiters : job[t] = NoJob}

(***************************************************************************)
(* The operations                                                          *)
(***************************************************************************)

\* pthread_cond_signal: wakes a waiter if there is one.  (Faulty variant: the
\* signal is forgotten.)
SignalForgotten == UNCHANGED waiters
Signal == IF waiters = {} THEN UNCHANGED waiters
                          ELSE \E t \in waiters : waiters' = waiters \ {t}

\* if( iget == iput ), evaluated after iput has been advanced.  (Faulty variant:
\* never found full.)
NeverFull == FALSE
FullAfterPut == iget = NextSlot(iput)

\* The critical section of do_dns_search: fill the slot at iput, advance iput,
\* and either find the ring full and exit(0), or signal.
Put(j) == /\ status = "run"
          /\ dns_array' = [dns_array EXCEPT ![iput] = j]
          /\ iput' = NextSlot(iput)
          /\ IF FullAfterPut
             THEN status' = "full" /\ UNCHANGED waiters
             ELSE Signal /\ UNCHANGED status
          /\ UNCHANGED <<iget, job>>

\* The critical section of thread_main_dns when the ring is not empty.
Take(t) == /\ status = "run"
           /\ t \in Ready
           /\ iget # iput
           /\ job' = [job EXCEPT ![t] = dns_array[iget]]
           /\ iget' = NextSlot(iget)
           /\ UNCHANGED <<dns_array, iput, waiters, status>>

\* ... and when it is empty: while(iget == iput) pthread_cond_wait.
Wait(t) == /\ status = "run"
           /\ t \in Ready
           /\ iget = iput
           /\ waiters' = waiters \cup {t}
           /\ UNCHANGED <<dns_array, iget, iput, job, status>>

\* POSIX allows pthread_cond_wait to return without a signal.
SpuriousWakeup(t) == /\ status = "run"
                     /\ t \in waiters
                     /\ waiters' = waiters \ {t}
                     /\ UNCHANGED <<dns_array, iget, iput, job, status>>

\* Thread t has dealt with its job and is back at the head of its loop.
JobDone(t) == /\ status = "run"
              /\ job[t] # NoJob
              /\ job' = [job EXCEPT ![t] = NoJob]
              /\ UNCHANGED <<dns_array, iget, iput, waiters, status>>

\* The process ends for a reason other than a full ring: exit(0) when the
\* second reply cannot be written, or a fatal signal.
Halt == /\ status = "run"
        /\ status' = "halt"
        /\ UNCHANGED <<dns_array, iget, iput, waiters, job>>

RingNext == \/ \E j \in Jobs : Put(j)
            \/ \E t \in DnsThreads : Take(t)
            \/ \E t \in DnsThreads : Wait(t)
            \/ \E t \in DnsThreads : SpuriousWakeup(t)
            \/ \E t \in DnsThreads : JobDone(t)
            \/ Halt

(***************************************************************************)
(* A DNS thread that can run does run: the threads are scheduled by the    *)
(* operating system, hold dns_array_mutex only for a bounded number of     *)
(* instructions, and getaddrinfo gives up after its own time limit.  The   *)
(* mutex is not FIFO, so a single thread may be passed over for ever by    *)
(* the others; what is fair is the group of threads that are ready.        *)
(***************************************************************************)
RingFairness == /\ WF_ringVars(\E t \in DnsThreads : Take(t))
                /\ \A t \in DnsThreads : WF_ringVars(JobDone(t))

RingSpec == RingInit /\ [][RingNext]_ringVars

FairRingSpec == RingSpec /\ RingFairness

(***************************************************************************)
(* Properties                                                              *)
(***************************************************************************)

RingTypeOK == /\ dns_array \in [Slots -> Jobs \cup {NoJob}]
              /\ iget \in Slots
              /\ iput \in Slots
              /\ waiters \subseteq DnsThreads
              /\ job \in [DnsThreads -> Jobs \cup {NoJob}]
              /\ status \in {"run", "full", "halt"}

\* Number of jobs put and not yet taken.  The put that fills the ring leaves
\* iget = iput behind, exactly as an empty ring does.
Queued == IF status = "full" THEN ARRAYSIZE
          ELSE IF iput >= iget THEN iput - iget ELSE ARRAYSIZE - iget + iput

\* The slot of the i-th oldest job, i counted from 1.
SlotOf(i) == IF iget + i - 1 < ARRAYSIZE THEN iget + i - 1
                                         ELSE iget + i - 1 - ARRAYSIZE

Contents == [i \in 1 .. Queued |-> dns_array[SlotOf(i)]]

\* No wake-up is lost: while some DNS thread sleeps, there are at least as many
\* awake threads on their way to the ring as there are jobs in it, although
\* every put signals once only and a thread that was not signalled may take the
\* job first (do_dns_search, thread_main_dns).
NoLostWakeup == status = "run" /\ waiters # {} => Queued <= Cardinality(Ready)

\* A thread that waits holds no job: it was put to sleep at the head of its loop.
WaitersIdle == \A t \in waiters : job[t] = NoJob

\* Every slot between iget and iput describes a job: no thread ever takes a slot
\* that was not filled since it was last taken.
QueuedAreJobs == \A i \in 1 .. Queued : dns_array[SlotOf(i)] \in Jobs

\* The ring implements the FIFO queue: each job put is taken by one thread, in
\* order, and never overwritten before it is taken, across every wrap of both
\* indices (do_dns_search, thread_main_dns).
JQ == INSTANCE JobQueue WITH Capacity <- ARRAYSIZE, Threads <- DnsThreads,
                             queue <- Contents, taken <- job, state <- status
IsFifo == JQ!QSpec

\* The requirement on overload: requests beyond what the server can carry are
\* refused so that normal service goes on; the process does not end.
SurvivesOverload == status # "full"

\* A queued job does not stay queued for ever while the process lives: the
\* slot at iget is taken, so iget moves on (or the process ends).
QueueAdvances == \A s \in Slots :
                   (iget = s /\ iput # s) ~> (iget # s \/ status # "run")
=============================================================================
