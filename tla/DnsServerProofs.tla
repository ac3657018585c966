-------------------------- MODULE DnsServerProofs ---------------------------
(***************************************************************************)
(* The ring of jobs and the whole server, for every size of the ring,      *)
(* every finite set of DNS threads and every number of workers,            *)
(* connections and datagrams, in three parts.  Part 1 is the ring and the  *)
(* server on it, part 2 the life of a TCP request, part 3 what a client is *)
(* answered; each builds on the invariants of the one before.              *)
(***************************************************************************)
EXTENDS DnsServer, FiniteSetTheorems, SequenceTheorems, TLAPS

(***************************************************************************)
(* Part 1.  First the ring alone: it keeps its types, loses no wake-up,    *)
(* and implements the FIFO queue of module JobQueue.  Then the server: it  *)
(* keeps its types, and whatever its threads do to the ring is what module *)
(* DnsArray allows, so that the theorems about the ring hold in the        *)
(* server.                                                                 *)
(***************************************************************************)

(***************************************************************************)
(* The ring of jobs                                                        *)
(***************************************************************************)

\* What the ring keeps at every step.  A full ring and an empty ring both have
\* iget = iput; the status tells them apart.
RingInv == /\ RingTypeOK
           /\ WaitersIdle
           /\ QueuedAreJobs
           /\ status = "full" => iget = iput

(***************************************************************************)
(* Types                                                                   *)
(***************************************************************************)

\* NextSlot stays inside the ring: the wrap of iget and iput.
LEMMA NextSlotType == \A i \in Slots : NextSlot(i) \in Slots
BY SizeAssumption DEF Slots, NextSlot

\* One step of the ring preserves its types.
LEMMA RingTypeStep == RingTypeOK /\ [RingNext]_ringVars => RingTypeOK'
<1> SUFFICES ASSUME RingTypeOK, [RingNext]_ringVars
             PROVE  RingTypeOK'
  OBVIOUS
<1> USE DEF RingTypeOK
<1>1. ASSUME NEW j \in Jobs, Put(j) PROVE RingTypeOK'
  <2>1. waiters' \subseteq DnsThreads
    BY <1>1 DEF Put, Signal
  <2>2. iput' \in Slots
    BY <1>1, NextSlotType DEF Put
  <2>3. dns_array' \in [Slots -> Jobs \cup {NoJob}]
    BY <1>1 DEF Put
  <2> QED BY <1>1, <2>1, <2>2, <2>3 DEF Put
<1>2. ASSUME NEW t \in DnsThreads, Take(t) PROVE RingTypeOK'
  BY <1>2, NextSlotType DEF Take
<1>3. ASSUME NEW t \in DnsThreads, Wait(t) PROVE RingTypeOK'
  BY <1>3 DEF Wait
<1>4. ASSUME NEW t \in DnsThreads, SpuriousWakeup(t) PROVE RingTypeOK'
  BY <1>4 DEF SpuriousWakeup
<1>5. ASSUME NEW t \in DnsThreads, JobDone(t) PROVE RingTypeOK'
  BY <1>5 DEF JobDone
<1>6. CASE Halt
  BY <1>6 DEF Halt
<1>7. CASE UNCHANGED ringVars
  BY <1>7 DEF ringVars
<1> QED BY <1>1, <1>2, <1>3, <1>4, <1>5, <1>6, <1>7 DEF RingNext

\* The initial ring has its types.
LEMMA RingTypeInit == RingInit => RingTypeOK
BY SizeAssumption DEF RingInit, RingTypeOK, Slots

\* The ring, its indices and the threads' jobs always have their types.
THEOREM RingTypes == RingSpec => []RingTypeOK
BY RingTypeInit, RingTypeStep, PTL DEF RingSpec

(***************************************************************************)
(* How the operations move the window between iget and iput                *)
(***************************************************************************)

\* A live ring always has a free slot.
LEMMA QueuedType ==
  ASSUME RingTypeOK
  PROVE  /\ Queued \in 0 .. ARRAYSIZE
         /\ status # "full" => Queued \in 0 .. ARRAYSIZE - 1
         /\ status # "full" => (Queued = 0 <=> iget = iput)
         /\ \A i \in 1 .. Queued : SlotOf(i) \in Slots
BY SizeAssumption DEF RingTypeOK, Queued, Slots, SlotOf

\* Put adds one entry, at iput, and moves no other.
LEMMA PutWindow ==
  ASSUME RingTypeOK, NEW j \in Jobs, Put(j)
  PROVE  /\ Queued' = Queued + 1
         /\ SlotOf(Queued + 1) = iput
         /\ \A i \in 1 .. Queued : SlotOf(i) # iput
         /\ \A i \in 1 .. Queued + 1 : SlotOf(i)' = SlotOf(i)
<1> USE SizeAssumption DEF RingTypeOK, Put, Slots
<1>1. Queued' = Queued + 1
  <2>1. CASE FullAfterPut
    BY <2>1 DEF Queued, NextSlot, FullAfterPut
  <2>2. CASE ~FullAfterPut
    BY <2>2 DEF Queued, NextSlot, FullAfterPut
  <2> QED BY <2>1, <2>2
<1>2. SlotOf(Queued + 1) = iput /\ \A i \in 1 .. Queued : SlotOf(i) # iput
  BY DEF Queued, SlotOf
<1>3. \A i \in 1 .. Queued + 1 : SlotOf(i)' = SlotOf(i)
  BY DEF SlotOf
<1> QED BY <1>1, <1>2, <1>3

\* Take removes the oldest entry, at iget, and moves no other.
LEMMA TakeWindow ==
  ASSUME RingTypeOK, NEW t \in DnsThreads, Take(t)
  PROVE  /\ Queued \in Nat \ {0}
         /\ Queued' = Queued - 1
         /\ SlotOf(1) = iget
         /\ \A i \in 1 .. Queued - 1 : SlotOf(i)' = SlotOf(i + 1)
BY SizeAssumption DEF RingTypeOK, Take, Slots, Queued, SlotOf, NextSlot

\* The other operations leave the window alone.
LEMMA SameWindow ==
  ASSUME iget' = iget, iput' = iput, dns_array' = dns_array,
         status = "full" <=> status' = "full"
  PROVE  /\ Queued' = Queued
         /\ Contents' = Contents
         /\ \A i \in 1 .. Queued : SlotOf(i)' = SlotOf(i)
BY DEF Queued, Contents, SlotOf

(***************************************************************************)
(* The inductive invariant                                                 *)
(***************************************************************************)

\* One step of the ring preserves its invariant.
LEMMA RingInvStep == RingInv /\ [RingNext]_ringVars => RingInv'
<1> SUFFICES ASSUME RingInv, [RingNext]_ringVars
             PROVE  RingInv'
  OBVIOUS
<1>0. RingTypeOK /\ RingTypeOK'
  BY RingTypeStep DEF RingInv
<1>a. Queued \in 0 .. ARRAYSIZE
  BY <1>0, QueuedType
<1>1. ASSUME NEW j \in Jobs, Put(j) PROVE RingInv'
  <2>1. WaitersIdle'
    BY <1>1 DEF RingInv, WaitersIdle, Put, Signal
  <2>2. QueuedAreJobs'
    <3> SUFFICES ASSUME NEW i \in 1 .. Queued' PROVE dns_array'[SlotOf(i)'] \in Jobs
      BY DEF QueuedAreJobs
    <3>1. CASE i = Queued + 1
      BY <1>0, <1>1, <1>a, <3>1, PutWindow, ZenonT(60) DEF Put, RingTypeOK
    <3>2. CASE i \in 1 .. Queued
      <4>1. SlotOf(i)' = SlotOf(i) /\ SlotOf(i) # iput /\ SlotOf(i) \in Slots
        BY <1>0, <1>1, <1>a, <3>2, PutWindow, QueuedType
      <4> QED BY <1>0, <1>1, <3>2, <4>1 DEF Put, RingInv, RingTypeOK, QueuedAreJobs
    <3> QED BY <1>0, <1>1, <1>a, <3>1, <3>2, PutWindow
  <2>3. status' = "full" => iget' = iput'
    BY <1>1 DEF Put, FullAfterPut
  <2> QED BY <1>0, <2>1, <2>2, <2>3 DEF RingInv
<1>2. ASSUME NEW t \in DnsThreads, Take(t) PROVE RingInv'
  <2>1. WaitersIdle'
    BY <1>2, <1>0 DEF RingInv, WaitersIdle, Take, Ready, RingTypeOK
  <2>2. QueuedAreJobs'
    <3> SUFFICES ASSUME NEW i \in 1 .. Queued' PROVE dns_array'[SlotOf(i)'] \in Jobs
      BY DEF QueuedAreJobs
    <3>1. i + 1 \in 1 .. Queued /\ SlotOf(i)' = SlotOf(i + 1)
      BY <1>0, <1>2, <1>a, TakeWindow
    <3> QED BY <1>2, <3>1 DEF Take, RingInv, QueuedAreJobs
  <2> QED BY <1>0, <1>2, <2>1, <2>2 DEF RingInv, Take
<1>3. ASSUME iget' = iget, iput' = iput, dns_array' = dns_array,
             status = "full" <=> status' = "full", WaitersIdle'
      PROVE  RingInv'
  <2>1. QueuedAreJobs'
    BY <1>3, SameWindow DEF RingInv, QueuedAreJobs
  <2> QED BY <1>0, <1>3, <2>1 DEF RingInv
<1>4. ASSUME NEW t \in DnsThreads, Wait(t) PROVE RingInv'
  BY <1>4, <1>3 DEF Wait, Ready, RingInv, WaitersIdle
<1>5. ASSUME NEW t \in DnsThreads, SpuriousWakeup(t) PROVE RingInv'
  BY <1>5, <1>3 DEF SpuriousWakeup, RingInv, WaitersIdle
<1>6. ASSUME NEW t \in DnsThreads, JobDone(t) PROVE RingInv'
  BY <1>6, <1>3, <1>0 DEF JobDone, RingInv, WaitersIdle, RingTypeOK
<1>7. CASE Halt
  BY <1>7, <1>3 DEF Halt, RingInv, WaitersIdle
<1>8. CASE UNCHANGED ringVars
  BY <1>8, <1>3 DEF ringVars, RingInv, WaitersIdle
<1> QED BY <1>1, <1>2, <1>4, <1>5, <1>6, <1>7, <1>8 DEF RingNext

\* The initial ring satisfies it.
LEMMA RingInvInit == RingInit => RingInv
<1> SUFFICES ASSUME RingInit PROVE RingInv
  OBVIOUS
<1>1. RingTypeOK
  BY RingTypeInit
<1>2. Queued = 0
  BY SizeAssumption DEF RingInit, Queued
<1> QED BY <1>1, <1>2 DEF RingInv, RingInit, WaitersIdle, QueuedAreJobs

\* So it always holds.
LEMMA RingInvariant == RingSpec => []RingInv
BY RingInvInit, RingInvStep, PTL DEF RingSpec

(***************************************************************************)
(* No wake-up is lost                                                      *)
(***************************************************************************)

\* The threads on their way to the ring can be counted.
LEMMA ReadyFinite == IsFiniteSet(Ready) /\ Cardinality(Ready) \in Nat
BY ThreadAssumption, FS_Subset, FS_CardinalityType DEF Ready

\* When thread t joins the threads on their way to the ring there is one more.
LEMMA ReadyGrows ==
  ASSUME NEW t, t \notin Ready, Ready' = Ready \cup {t}
  PROVE  Cardinality(Ready') = Cardinality(Ready) + 1
BY ReadyFinite, FS_AddElement

\* One step of the ring loses no wake-up.
LEMMA NoLostWakeupStep ==
  RingInv /\ NoLostWakeup /\ [RingNext]_ringVars => NoLostWakeup'
<1> SUFFICES ASSUME RingInv, NoLostWakeup, [RingNext]_ringVars,
                    status' = "run", waiters' # {}
             PROVE  Queued' <= Cardinality(Ready')
  BY DEF NoLostWakeup
<1>0. RingTypeOK /\ RingTypeOK' /\ WaitersIdle
  BY RingTypeStep DEF RingInv
<1>a. Queued \in 0 .. ARRAYSIZE
  BY <1>0, QueuedType
<1>b. Cardinality(Ready) \in Nat
  BY ReadyFinite
<1>1. ASSUME NEW j \in Jobs, Put(j) PROVE Queued' <= Cardinality(Ready')
  <2>1. PICK t \in waiters : waiters' = waiters \ {t}
    BY <1>1 DEF Put, Signal
  <2>2. t \notin Ready /\ Ready' = Ready \cup {t}
    BY <1>0, <1>1, <2>1 DEF Ready, WaitersIdle, RingTypeOK, Put
  <2>3. Queued <= Cardinality(Ready)
    BY <1>1, <2>1 DEF NoLostWakeup, Put
  <2>4. Queued' = Queued + 1
    BY <1>0, <1>1, PutWindow
  <2> QED BY <1>a, <1>b, <2>2, <2>3, <2>4, ReadyGrows
<1>2. ASSUME NEW t \in DnsThreads, Take(t) PROVE Queued' <= Cardinality(Ready')
  <2>1. dns_array[iget] \in Jobs
    BY <1>0, <1>2, TakeWindow DEF RingInv, QueuedAreJobs
  <2>2. t \in Ready /\ Ready' = Ready \ {t}
    BY <1>0, <1>2, <2>1, JobAssumption DEF Take, Ready, RingTypeOK
  <2>3. Cardinality(Ready') = Cardinality(Ready) - 1
    BY <2>2, ReadyFinite, FS_RemoveElement
  <2>4. Queued <= Cardinality(Ready)
    BY <1>2 DEF NoLostWakeup, Take
  <2>5. Queued' = Queued - 1
    BY <1>0, <1>2, TakeWindow
  <2> QED BY <1>a, <1>b, <2>3, <2>4, <2>5
<1>3. ASSUME NEW t \in DnsThreads, Wait(t) PROVE Queued' <= Cardinality(Ready')
  <2>1. Queued' = 0
    BY <1>0, <1>3, SizeAssumption DEF Wait, Queued, RingTypeOK, Slots
  <2>2. Ready' = Ready \ {t}
    BY <1>3 DEF Wait, Ready
  <2>3. Cardinality(Ready') \in Nat
    BY <2>2, ReadyFinite, FS_RemoveElement, FS_CardinalityType
  <2> QED BY <2>1, <2>3
<1>4. ASSUME Queued' = Queued, waiters # {}, status = "run",
             NEW t, t \notin Ready, Ready' = Ready \cup {t}
      PROVE  Queued' <= Cardinality(Ready')
  <2>1. Queued <= Cardinality(Ready)
    BY <1>4 DEF NoLostWakeup
  <2>2. Cardinality(Ready') = Cardinality(Ready) + 1
    BY <1>4, ReadyGrows
  <2> QED BY <1>4, <1>a, <1>b, <2>1, <2>2
<1>5. ASSUME NEW t \in DnsThreads, SpuriousWakeup(t) PROVE Queued' <= Cardinality(Ready')
  <2>1. t \notin Ready /\ Ready' = Ready \cup {t}
    BY <1>0, <1>5 DEF SpuriousWakeup, Ready, WaitersIdle, RingTypeOK
  <2>2. Queued' = Queued /\ waiters # {} /\ status = "run"
    BY <1>5, SameWindow DEF SpuriousWakeup
  <2> QED BY <1>4, <2>1, <2>2
<1>6. ASSUME NEW t \in DnsThreads, JobDone(t) PROVE Queued' <= Cardinality(Ready')
  <2>1. t \notin Ready /\ Ready' = Ready \cup {t}
    BY <1>0, <1>6 DEF JobDone, Ready, WaitersIdle, RingTypeOK
  <2>2. Queued' = Queued /\ waiters # {} /\ status = "run"
    BY <1>6, SameWindow DEF JobDone
  <2> QED BY <1>4, <2>1, <2>2
<1>7. CASE Halt
  BY <1>7 DEF Halt
<1>8. CASE UNCHANGED ringVars
  <2>1. Queued' = Queued /\ Ready' = Ready /\ waiters # {} /\ status = "run"
    BY <1>8, SameWindow DEF ringVars, Ready
  <2> QED BY <2>1 DEF NoLostWakeup
<1> QED BY <1>1, <1>2, <1>3, <1>5, <1>6, <1>7, <1>8 DEF RingNext

\* In every behaviour of the ring, while a DNS thread sleeps in
\* pthread_cond_wait there are as many awake threads heading for the ring as
\* jobs in it: one pthread_cond_signal per put is enough.
THEOREM NoWakeupIsLost == RingSpec => []NoLostWakeup
<1>1. RingInit => NoLostWakeup
  BY DEF RingInit, NoLostWakeup
<1> QED BY <1>1, RingInvariant, NoLostWakeupStep, PTL DEF RingSpec

(***************************************************************************)
(* The ring implements the FIFO queue                                      *)
(***************************************************************************)

\* The entries between iget and iput form a sequence of jobs.
LEMMA ContentsType ==
  ASSUME RingInv
  PROVE  Contents \in Seq(Jobs) /\ Len(Contents) = Queued
<1>1. Queued \in Nat
  BY QueuedType, SizeAssumption DEF RingInv
<1>2. Contents \in [1 .. Queued -> Jobs]
  BY DEF Contents, RingInv, QueuedAreJobs
<1> QED BY <1>1, <1>2

\* Put appends to it.
LEMMA PutAppends ==
  ASSUME RingInv, RingInv', NEW j \in Jobs, Put(j)
  PROVE  Contents' = Append(Contents, j)
<1>1. /\ Contents \in Seq(Jobs)
      /\ Len(Contents) = Queued
      /\ Queued \in Nat
  BY ContentsType, QueuedType, SizeAssumption DEF RingInv
<1>2. RingTypeOK
  BY DEF RingInv
<1>3. Contents' = [i \in 1 .. Queued + 1 |-> dns_array'[SlotOf(i)]]
  BY <1>2, PutWindow DEF Contents
<1>4. \A i \in 1 .. Queued : dns_array'[SlotOf(i)] = Contents[i]
  BY <1>1, <1>2, PutWindow, QueuedType DEF Put, RingTypeOK, Contents
<1>5. dns_array'[SlotOf(Queued + 1)] = j
  BY <1>2, PutWindow DEF Put, RingTypeOK
<1>6. Contents' \in Seq(Jobs) /\ Len(Contents') = Queued + 1
  <2>1. \A i \in 1 .. Queued + 1 : dns_array'[SlotOf(i)] \in Jobs
    BY <1>1, <1>4, <1>5
  <2> QED BY <1>1, <1>3, <2>1
<1>7. \A i \in 1 .. Queued + 1 : Contents'[i] = Append(Contents, j)[i]
  BY <1>1, <1>3, <1>4, <1>5, AppendProperties
<1> QED BY <1>1, <1>6, <1>7, AppendProperties, SeqEqual

\* Take removes its head.
LEMMA TakeRemovesHead ==
  ASSUME RingInv, NEW t \in DnsThreads, Take(t)
  PROVE  /\ Contents # <<>>
         /\ Head(Contents) = dns_array[iget]
         /\ Contents' = Tail(Contents)
<1>1. /\ Contents \in Seq(Jobs)
      /\ Len(Contents) = Queued
      /\ Queued \in Nat \ {0}
  BY ContentsType, TakeWindow DEF RingInv
<1>2. RingTypeOK
  BY DEF RingInv
<1>3. Contents' = [i \in 1 .. Queued - 1 |-> dns_array[SlotOf(i + 1)]]
  BY <1>1, <1>2, TakeWindow DEF Contents, Take
<1>4. \A i \in 1 .. Queued - 1 : Contents[i + 1] = dns_array[SlotOf(i + 1)]
  BY <1>1 DEF Contents
<1>5. Contents' \in Seq(Jobs) /\ Len(Contents') = Queued - 1
  <2>1. \A i \in 1 .. Queued - 1 : dns_array[SlotOf(i + 1)] \in Jobs
    BY <1>1, <1>4
  <2> QED BY <1>1, <1>3, <2>1
<1>6. Contents' = Tail(Contents)
  <2>1. /\ Tail(Contents) \in Seq(Jobs)
        /\ Len(Tail(Contents)) = Queued - 1
        /\ \A i \in 1 .. Queued - 1 : Tail(Contents)[i] = Contents[i + 1]
    BY <1>1, HeadTailProperties
  <2>2. \A i \in 1 .. Queued - 1 : Contents'[i] = Tail(Contents)[i]
    BY <1>3, <1>4, <2>1
  <2> QED BY <1>5, <2>1, <2>2, SeqEqual
<1>7. Contents # <<>> /\ Head(Contents) = Contents[1]
  BY <1>1
<1>8. Contents[1] = dns_array[iget]
  BY <1>1, <1>2, TakeWindow DEF Contents
<1> QED BY <1>6, <1>7, <1>8

\* One step of the ring is one step of the queue, or leaves the queue as it is.
LEMMA FifoStep ==
  RingInv /\ RingInv' /\ [RingNext]_ringVars => [JQ!QNext]_(JQ!qvars)
<1> SUFFICES ASSUME RingInv, RingInv', [RingNext]_ringVars
             PROVE  [JQ!QNext]_(JQ!qvars)
  OBVIOUS
<1>0. RingTypeOK
  BY DEF RingInv
<1>1. ASSUME NEW j \in Jobs, Put(j) PROVE JQ!QPut(j)
  <2>1. Contents' = Append(Contents, j)
    BY <1>1, PutAppends
  <2>2. Len(Contents) = Queued
    BY ContentsType
  <2>3. FullAfterPut <=> Queued + 1 = ARRAYSIZE
    BY <1>0, <1>1, SizeAssumption DEF FullAfterPut, NextSlot, Queued, Put, RingTypeOK, Slots
  <2> QED BY <1>1, <2>1, <2>2, <2>3 DEF Put, JQ!QPut
<1>2. ASSUME NEW t \in DnsThreads, Take(t) PROVE JQ!QTake(t)
  <2>1. job[t] = NoJob /\ status = "run" /\ status' = status
        /\ job' = [job EXCEPT ![t] = dns_array[iget]]
    BY <1>2 DEF Take, Ready
  <2> QED BY <1>2, <2>1, TakeRemovesHead DEF JQ!QTake
<1>3. ASSUME NEW t \in DnsThreads, JobDone(t) PROVE JQ!QDone(t)
  BY <1>3, SameWindow DEF JobDone, JQ!QDone
<1>4. CASE Halt
  BY <1>4, SameWindow DEF Halt, JQ!QHalt, JQ!QNext
<1>5. ASSUME NEW t \in DnsThreads, Wait(t) \/ SpuriousWakeup(t)
      PROVE  UNCHANGED JQ!qvars
  BY <1>5, SameWindow DEF Wait, SpuriousWakeup, JQ!qvars
<1>6. CASE UNCHANGED ringVars
  BY <1>6, SameWindow DEF ringVars, JQ!qvars
<1> QED BY <1>1, <1>2, <1>3, <1>4, <1>5, <1>6 DEF RingNext, JQ!QNext

\* The ring of dns_array, iget and iput is a FIFO queue: every job put is taken
\* by exactly one DNS thread, in order, and none is overwritten, for every size.
THEOREM RingIsFifo == RingSpec => IsFifo
<1>1. RingInit => JQ!QInit
  <2> SUFFICES ASSUME RingInit PROVE JQ!QInit
    OBVIOUS
  <2>1. Queued = 0
    BY SizeAssumption DEF RingInit, Queued
  <2>2. Contents = <<>>
    BY <2>1 DEF Contents
  <2> QED BY <2>2 DEF RingInit, JQ!QInit
<1> QED BY <1>1, RingInvariant, FifoStep, PTL DEF RingSpec, IsFifo, JQ!QSpec

(***************************************************************************)
(* The server                                                              *)
(***************************************************************************)

\* A DNS thread is away from the head of its loop exactly while it has a job,
\* and only a job of a TCP request takes it beyond the store.
ThreadShape == \A t \in DnsThreads :
  /\ dpc[t] = "loop" <=> job[t] = NoJob
  /\ dpc[t] \in {"finish", "check", "send", "close", "free"} => job[t] \in TcpJobs

\* What a worker's locals are at each point of serv and do_search.
WorkerShape == \A w \in Workers :
  /\ wpc[w] # "accept" => wreq[w] \in Conns
  /\ wpc[w] \in {"accept", "serv"} => wips[w] = <<>> /\ wmiss[w] = <<>>
  /\ wpc[w] = "search" => Len(wips[w]) < Len(wnames[w])
  /\ wpc[w] # "put" => wput[w] = 0
  /\ wpc[w] = "put" => wput[w] < Len(wmiss[w])
  /\ Len(wnames[w]) <= MAXNAMES
  /\ Len(wips[w]) <= Len(wnames[w])
  /\ Len(wmiss[w]) <= Len(wips[w])

\* The same for the UDP server.
UdpShape == /\ upc = "recv" => uips = <<>> /\ umiss = <<>>
            /\ upc # "recv" => umsg \in Datagrams
            /\ upc = "search" => Len(uips) < Len(DatagramNames[umsg])
            /\ upc = "put" => umiss # <<>>

ServerInv == TypeOK /\ RingInv /\ ThreadShape /\ WorkerShape /\ UdpShape

(***************************************************************************)
(* Parts of the state that a step leaves alone                             *)
(***************************************************************************)

\* A step that leaves the sockets alone keeps their types ...
LEMMA SameSock == SockTypeOK(Replies) /\ UNCHANGED sockVars => SockTypeOK(Replies)'
BY DEF SockTypeOK, sockVars

\* ... the cache alone, its types ...
LEMMA SameKache == KacheTypeOK /\ UNCHANGED kacheVars => KacheTypeOK'
BY DEF KacheTypeOK, kacheVars

\* ... the DNS threads and the requests alone, their types ...
LEMMA SameThread ==
  DnsThreadTypeOK /\ UNCHANGED <<threadVars, reqVars, astray>> => DnsThreadTypeOK'
BY DEF DnsThreadTypeOK, threadVars, reqVars

\* ... where the threads are and their jobs alone, their shape ...
LEMMA SameThreadShape == ThreadShape /\ UNCHANGED <<dpc, job>> => ThreadShape'
BY DEF ThreadShape

\* ... the workers alone, their types and shape ...
LEMMA SameWorker == TcpTypeOK /\ WorkerShape /\ UNCHANGED workerVars
                      => TcpTypeOK' /\ WorkerShape'
BY DEF TcpTypeOK, WorkerShape, workerVars

\* ... the UDP server alone, its types and shape.
LEMMA SameUdp == UdpTypeOK /\ UdpShape /\ UNCHANGED udpVars => UdpTypeOK' /\ UdpShape'
BY DEF UdpTypeOK, UdpShape, udpVars

(***************************************************************************)
(* Operators                                                               *)
(***************************************************************************)

\* A write appends a reply to the streams it reaches and leaves the others.
LEMMA WrittenType ==
  ASSUME SockTypeOK(Replies), NEW f, NEW m \in Replies
  PROVE  Written(f, m) \in [Conns -> Seq(Replies)]
BY DEF SockTypeOK, Written

\* close() leaves a descriptor table.
LEMMA ClosedType ==
  ASSUME SockTypeOK(Replies), NEW f
  PROVE  Closed(f) \in [Fds -> Conns \cup {NoConn}]
BY DEF SockTypeOK, Closed

\* kache_retrieve gives nothing or an entry.
LEMMA RetrieveType ==
  ASSUME KacheTypeOK, NEW n \in AllNames, NEW d \in kache_retrieve(n)
  PROVE  d \in Data
BY KacheAssumption DEF KacheTypeOK, kache_retrieve, HashData

\* kache_store keeps the types of the cache.
LEMMA StoreType ==
  ASSUME KacheTypeOK, NEW n \in AllNames, NEW d \in Data, kache_store(n, d)
  PROVE  KacheTypeOK'
<1>1. CASE n \in TrieNames
  BY <1>1 DEF KacheTypeOK, kache_store
<1>2. CASE n \notin TrieNames
  <2> DEFINE h == BKDRHash[n]
             pk == [i \in 1 .. 4 |-> IF i \in DOMAIN First4[n] THEN First4[n][i]
                                     ELSE hash_data[h].part_key[i]]
  <2>1. h \in HashVals
    BY KacheAssumption
  <2>2. hash_data[h].part_key \in PartKeys
    BY <2>1 DEF KacheTypeOK, HashData
  <2>3. PICK k \in 0 .. 4 : First4[n] \in [1 .. k -> Chars]
    BY KacheAssumption
  <2>4. pk \in PartKeys
    BY <2>2, <2>3 DEF PartKeys
  <2>5. hash_data' = [hash_data EXCEPT ![h] = [h_data |-> d, part_key |-> pk]]
    BY <1>2 DEF kache_store
  <2>6. [h_data |-> d, part_key |-> pk] \in HashData
    BY <2>4 DEF HashData
  <2> HIDE DEF pk, h
  <2>7. hash_data' \in [HashVals -> HashData]
    BY <2>1, <2>5, <2>6 DEF KacheTypeOK
  <2> QED BY <1>2, <2>7 DEF KacheTypeOK, kache_store
<1> QED BY <1>1, <1>2

\* An answer of the resolver is an address.
LEMMA DnsRequestType ==
  ASSUME NEW n \in AllNames, NEW ip \in dnsrequest(n)
  PROVE  ip \in Ips
BY DEF dnsrequest, Ips

(***************************************************************************)
(* The DNS threads                                                         *)
(***************************************************************************)

\* Taking a job and waiting for one.
LEMMA TakeOrWaitKeeps ==
  ASSUME ServerInv, NEW t \in DnsThreads, TakeJob(t) \/ WaitForJob(t)
  PROVE  SockTypeOK(Replies)' /\ KacheTypeOK' /\ DnsThreadTypeOK' /\ ThreadShape'
<1> USE DEF ServerInv, TypeOK
<1>1. UNCHANGED <<sockVars, kacheVars, reqVars, astray>>
  <2>1. CASE TakeJob(t)
    BY <2>1 DEF TakeJob
  <2>2. CASE WaitForJob(t)
    BY <2>2 DEF WaitForJob, offRingVars
  <2> QED BY <2>1, <2>2
<1>2. SockTypeOK(Replies)' /\ KacheTypeOK'
  BY <1>1, SameSock, SameKache
<1>3. CASE TakeJob(t)
  <2>1. dns_array[iget] \in Jobs
    BY <1>3, TakeWindow DEF TakeJob, RingInv, QueuedAreJobs
  <2>2. dns_array[iget] # NoJob
    BY <2>1, JobAssumption
  <2>3. job' = [job EXCEPT ![t] = dns_array[iget]] /\ dpc' = [dpc EXCEPT ![t] = "dnsrequest"]
        /\ missindex' = missindex
    BY <1>3 DEF TakeJob, Take, Goto
  <2>4. DnsThreadTypeOK'
    BY <1>1, <2>3 DEF DnsThreadTypeOK, reqVars
  <2>5. ThreadShape'
    BY <2>2, <2>3 DEF ThreadShape, RingTypeOK, DnsThreadTypeOK
  <2> QED BY <1>2, <2>4, <2>5
<1>4. CASE WaitForJob(t)
  <2>1. UNCHANGED <<threadVars, job>>
    <3>1. CASE Wait(t)
      BY <1>4, <3>1 DEF WaitForJob, Wait, offRingVars
    <3>2. CASE SpuriousWakeup(t)
      BY <1>4, <3>2 DEF WaitForJob, SpuriousWakeup, offRingVars
    <3> QED BY <1>4, <3>1, <3>2 DEF WaitForJob
  <2>2. ThreadShape'
    BY <2>1, SameThreadShape DEF threadVars
  <2> QED BY <1>1, <1>2, <2>1, <2>2, SameThread
<1> QED BY <1>3, <1>4

\* Resolving a name and storing the answer.
LEMMA DnsRequestKeeps ==
  ASSUME ServerInv, NEW t \in DnsThreads, UdpDnsRequest(t) \/ TcpDnsRequest(t)
  PROVE  SockTypeOK(Replies)' /\ KacheTypeOK' /\ DnsThreadTypeOK' /\ ThreadShape'
<1> USE DEF ServerInv, TypeOK
<1>1. dpc[t] = "dnsrequest" /\ UNCHANGED <<sockVars, blk, number, miss, astray>>
  BY DEF UdpDnsRequest, TcpDnsRequest, reqVars
<1>2. SockTypeOK(Replies)'
  BY <1>1, SameSock
<1>3. job[t] \in TcpJobs \cup UdpJobs
  BY <1>1, JobsAssumption DEF ThreadShape, RingTypeOK
<1>4. job[t].domain \in AllNames
  BY <1>3 DEF TcpJobs, UdpJobs
<1>5. PICK ip \in dnsrequest(job[t].domain) :
         /\ kache_store(job[t].domain, [ip |-> ip, timestamp |-> now])
         /\ \/ UdpDnsRequest(t)
            \/ /\ TcpDnsRequest(t)
               /\ ipptr' = [ipptr EXCEPT ![job[t].req][job[t].count] =
                                           [index |-> job[t].index, ip |-> ip]]
               /\ missindex' = [missindex EXCEPT ![t] = @ \/ ip = DNS_ERROR]
  BY DEF UdpDnsRequest, TcpDnsRequest
<1>6. ip \in Ips
  BY <1>4, DnsRequestType
<1>7. KacheTypeOK'
  <2>1. [ip |-> ip, timestamp |-> now] \in Data
    BY <1>6 DEF Data, KacheTypeOK
  <2> QED BY <1>4, <1>5, <2>1, StoreType
<1>8. CASE UdpDnsRequest(t)
  <2>1. UNCHANGED <<missindex, reqVars>> /\ dpc' = [dpc EXCEPT ![t] = "loop"]
        /\ job' = [job EXCEPT ![t] = NoJob]
    BY <1>8 DEF UdpDnsRequest, Goto, JobDone
  <2>2. DnsThreadTypeOK'
    BY <1>1, <2>1 DEF DnsThreadTypeOK, reqVars
  <2>3. ThreadShape'
    BY <2>1 DEF ThreadShape, RingTypeOK, DnsThreadTypeOK
  <2> QED BY <1>2, <1>7, <2>2, <2>3
<1>9. CASE ~UdpDnsRequest(t)
  <2>1. /\ ipptr' = [ipptr EXCEPT ![job[t].req][job[t].count] =
                                   [index |-> job[t].index, ip |-> ip]]
        /\ missindex' = [missindex EXCEPT ![t] = @ \/ ip = DNS_ERROR]
        /\ dpc' = [dpc EXCEPT ![t] = "finish"]
        /\ job' = job
        /\ job[t].tcp_or_udp = "tcp"
    BY <1>5, <1>9 DEF TcpDnsRequest, Goto, ringVars
  <2>2. job[t] \in TcpJobs
    BY <1>3, <2>1 DEF UdpJobs
  <2>3. [index |-> job[t].index, ip |-> ip] \in Answers
    BY <1>6, <2>2 DEF TcpJobs, Answers
  <2>4. ipptr' \in [Conns -> [Counts -> Answers \cup {NoAnswer}]]
    BY <2>1, <2>2, <2>3 DEF DnsThreadTypeOK, TcpJobs
  <2>5. DnsThreadTypeOK'
    BY <1>1, <2>1, <2>4 DEF DnsThreadTypeOK
  <2>6. ThreadShape'
    <3>1. job[t] # NoJob
      BY <2>2, JobAssumption, JobsAssumption
    <3> QED BY <2>1, <2>2, <3>1 DEF ThreadShape, DnsThreadTypeOK
  <2> QED BY <1>2, <1>7, <2>5, <2>6
<1> QED BY <1>8, <1>9

\* Counting down, reading the count, and the end of the request.
LEMMA FinishKeeps ==
  ASSUME ServerInv, NEW t \in DnsThreads, Finish(t)
  PROVE  SockTypeOK(Replies)' /\ KacheTypeOK' /\ DnsThreadTypeOK' /\ ThreadShape'
<1> USE DEF ServerInv, TypeOK
<1>1. job[t].req \in Conns /\ job[t] \in TcpJobs
  BY DEF Finish, ThreadShape, TcpJobs
<1>2. DnsThreadTypeOK'
  BY <1>1 DEF Finish, Goto, MissAfter, DnsThreadTypeOK
<1>3. ThreadShape'
  BY <1>1 DEF Finish, Goto, ThreadShape, DnsThreadTypeOK, ringVars
<1> QED BY <1>2, <1>3, SameSock, SameKache DEF Finish

\* Reading the count, line 99 of thread_main_dns.
LEMMA CheckKeeps ==
  ASSUME ServerInv, NEW t \in DnsThreads, CheckZero(t) \/ CheckNonZero(t)
  PROVE  SockTypeOK(Replies)' /\ KacheTypeOK' /\ DnsThreadTypeOK' /\ ThreadShape'
<1> USE DEF ServerInv, TypeOK
<1>1. job[t] \in TcpJobs
  BY DEF CheckZero, CheckNonZero, ThreadShape
<1>2. DnsThreadTypeOK'
  BY DEF CheckZero, CheckNonZero, Goto, DnsThreadTypeOK, reqVars
<1>3. ThreadShape'
  BY <1>1 DEF CheckZero, CheckNonZero, Goto, JobDone, ThreadShape, DnsThreadTypeOK,
              RingTypeOK, ringVars
<1> QED BY <1>2, <1>3, SameSock, SameKache DEF CheckZero, CheckNonZero

\* The second reply and the close, lines 100-120.
LEMMA SendKeeps ==
  ASSUME ServerInv, NEW t \in DnsThreads, Send(t) \/ CloseConn(t)
  PROVE  SockTypeOK(Replies)' /\ KacheTypeOK' /\ DnsThreadTypeOK' /\ ThreadShape'
<1> USE DEF ServerInv, TypeOK
<1>1. job[t] \in TcpJobs
  BY DEF Send, CloseConn, ThreadShape
<1>2. DnsThreadTypeOK'
  BY DEF Send, CloseConn, Goto, DnsThreadTypeOK, reqVars
<1>3. ThreadShape'
  BY <1>1 DEF Send, CloseConn, Goto, ThreadShape, DnsThreadTypeOK, ringVars
<1>4. KacheTypeOK'
  BY SameKache DEF Send, CloseConn
<1>5. CASE Send(t)
  <2>1. PICK err \in BOOLEAN :
           wire' = Written(job[t].sockfd, SecondReply(job[t].req, job[t].total, err))
    <3>1. miss[job[t].req] \in BOOLEAN
      BY <1>1 DEF DnsThreadTypeOK, TcpJobs
    <3> QED BY <1>5, <3>1 DEF Send
  <2>2. SecondReply(job[t].req, job[t].total, err) \in SecondReplies
    BY <1>1 DEF SecondReply, SecondReplies, TcpJobs, DnsThreadTypeOK
  <2>3. wire' \in [Conns -> Seq(Replies)]
    BY <2>1, <2>2, WrittenType DEF Replies
  <2>4. SockTypeOK(Replies)'
    BY <1>5, <2>3 DEF Send, SockTypeOK
  <2> QED BY <1>2, <1>3, <1>4, <2>4
<1>6. CASE CloseConn(t)
  <2>1. SockTypeOK(Replies)'
    BY <1>6, ClosedType DEF CloseConn, CloseSockfd, SockTypeOK
  <2> QED BY <1>2, <1>3, <1>4, <2>1
<1> QED BY <1>5, <1>6

\* Freeing the block, lines 121-125.
LEMMA FreeKeeps ==
  ASSUME ServerInv, NEW t \in DnsThreads, Free(t)
  PROVE  SockTypeOK(Replies)' /\ KacheTypeOK' /\ DnsThreadTypeOK' /\ ThreadShape'
<1> USE DEF ServerInv, TypeOK
<1>1. job[t] \in TcpJobs /\ job[t].req \in Conns
  BY DEF Free, ThreadShape, TcpJobs
<1>2. DnsThreadTypeOK'
  BY <1>1 DEF Free, Goto, DnsThreadTypeOK
<1>3. ThreadShape'
  BY <1>1 DEF Free, Goto, JobDone, ThreadShape, DnsThreadTypeOK, RingTypeOK
<1> QED BY <1>2, <1>3, SameSock, SameKache DEF Free

\* The process ends: nothing but the status changes.
LEMMA HaltKeeps ==
  ASSUME ServerInv, Halt, UNCHANGED offRingVars
  PROVE  SockTypeOK(Replies)' /\ KacheTypeOK' /\ DnsThreadTypeOK' /\ ThreadShape'
BY SameSock, SameKache, SameThread, SameThreadShape
   DEF ServerInv, TypeOK, Halt, offRingVars, threadVars

\* Every step of a DNS thread.
LEMMA DnsStepKeeps ==
  ASSUME ServerInv, NEW t \in DnsThreads, DnsStep(t)
  PROVE  SockTypeOK(Replies)' /\ KacheTypeOK' /\ DnsThreadTypeOK' /\ ThreadShape'
BY TakeOrWaitKeeps, DnsRequestKeeps, FinishKeeps, CheckKeeps, SendKeeps, FreeKeeps,
   HaltKeeps DEF DnsStep, WorkOnJob, SendFails, FreeAborts

(***************************************************************************)
(* The TCP workers                                                         *)
(***************************************************************************)

\* A worker back in its loop.
LEMMA IdleKeeps ==
  ASSUME ServerInv, NEW w \in Workers, Idle(w)
  PROVE  TcpTypeOK' /\ WorkerShape'
<1> USE DEF ServerInv, TypeOK
<1>1. 0 \in Fds /\ 0 \in 0 .. MAXNAMES /\ Len(<<>>) = 0
  BY FdAssumption, MaxNamesAssumption DEF Fds
<1>2. TcpTypeOK'
  BY <1>1 DEF Idle, TcpTypeOK
<1>3. WorkerShape'
  BY <1>1, MaxNamesAssumption DEF Idle, TcpTypeOK, WorkerShape
<1> QED BY <1>2, <1>3

\* The names found in a request: at least one and at most MAXNAMES.
LEMMA BodiesType ==
  ASSUME NEW c \in Conns, NEW b \in Bodies(c)
  PROVE  b \in Seq(AllNames) /\ Len(b) \in 1 .. MAXNAMES
<1> DEFINE q == Request[c]
<1>1. q \in Seq(AllNames) /\ Len(q) \in 1 .. MAXNAMES
  BY RequestAssumption DEF AllNames
<1> HIDE DEF q
<1>2. CASE sent[c] \in {"full", "overlong"}
  BY <1>1, <1>2 DEF Bodies, q
<1>4. CASE sent[c] = "empty"
  <2>1. PICK n \in AllNames : b = <<n>>
    BY <1>4 DEF Bodies
  <2> QED BY <2>1, MaxNamesAssumption
<1>3. CASE sent[c] \notin {"full", "overlong", "empty"}
  <2>1. PICK k \in 0 .. Len(q) - 1 :
          \E rest \in UNION {[1 .. n -> AllNames] : n \in 1 .. Len(q) - k} :
             b = SubSeq(q, 1, k) \o rest
    BY <1>3 DEF Bodies, q
  <2>2. PICK n \in 1 .. Len(q) - k :
          \E rest \in [1 .. n -> AllNames] : b = SubSeq(q, 1, k) \o rest
    BY <2>1
  <2>3. PICK rest \in [1 .. n -> AllNames] : b = SubSeq(q, 1, k) \o rest
    BY <2>2
  <2>4. n \in Nat /\ k \in Nat /\ Len(q) \in Nat
    BY <1>1, MaxNamesAssumption
  <2>5. rest \in Seq(AllNames) /\ Len(rest) = n
    BY <2>3, <2>4
  <2>6. SubSeq(q, 1, k) \in Seq(AllNames) /\ Len(SubSeq(q, 1, k)) = k
    BY <1>1, <2>4
  <2>7. b \in Seq(AllNames) /\ Len(b) = k + n
    BY <2>3, <2>5, <2>6, ConcatProperties
  <2> QED BY <1>1, <2>1, <2>2, <2>4, <2>7, MaxNamesAssumption
<1> QED BY <1>2, <1>3, <1>4

\* A worker accepts.
LEMMA AcceptKeeps ==
  ASSUME ServerInv, NEW w \in Workers, Accept(w)
  PROVE  TcpTypeOK' /\ WorkerShape' /\ SockTypeOK(Replies)'
<1> USE DEF ServerInv, TypeOK
<1>1. PICK f \in Fds, c \in Conns :
        /\ AcceptFd(f, c)
        /\ wreq' = [wreq EXCEPT ![w] = c]
        /\ wfd' = [wfd EXCEPT ![w] = f]
  BY DEF Accept
<1>2. TcpTypeOK'
  BY <1>1 DEF Accept, TcpTypeOK
<1>3. WorkerShape'
  BY <1>1 DEF Accept, TcpTypeOK, WorkerShape
<1>4. SockTypeOK(Replies)'
  BY <1>1 DEF Accept, AcceptFd, SockTypeOK
<1> QED BY <1>2, <1>3, <1>4

\* A worker refuses a short head or a wrong magic number.
LEMMA RejectKeeps ==
  ASSUME ServerInv, NEW w \in Workers, Reject(w)
  PROVE  TcpTypeOK' /\ WorkerShape' /\ SockTypeOK(Replies)'
<1> USE DEF ServerInv, TypeOK
<1>1. SockTypeOK(Replies)'
  BY ClosedType DEF Reject, CloseConnfd, SockTypeOK
<1> QED BY <1>1, IdleKeeps DEF Reject

\* A worker reads the body of a request.
LEMMA ReadBodyKeeps ==
  ASSUME ServerInv, NEW w \in Workers, ReadBody(w)
  PROVE  TcpTypeOK' /\ WorkerShape' /\ SockTypeOK(Replies)'
<1> USE DEF ServerInv, TypeOK
<1>1. wreq[w] \in Conns /\ wips[w] = <<>> /\ wmiss[w] = <<>> /\ Len(<<>>) = 0
  BY DEF ReadBody, WorkerShape
<1>2. PICK b \in Bodies(wreq[w]) : wnames' = [wnames EXCEPT ![w] = b]
  BY DEF ReadBody
<1>3. b \in Seq(AllNames) /\ Len(b) \in 1 .. MAXNAMES
  BY <1>1, BodiesType
<1>4. TcpTypeOK'
  BY <1>2, <1>3 DEF ReadBody, TcpTypeOK
<1>5. WorkerShape'
  BY <1>1, <1>2, <1>3, MaxNamesAssumption DEF ReadBody, TcpTypeOK, WorkerShape
<1> QED BY <1>4, <1>5, SameSock DEF ReadBody, sharedVars

\* A worker writes outside of its buffer.
LEMMA OverwriteKeeps ==
  ASSUME ServerInv, NEW w \in Workers, Overwrite(w)
  PROVE  TcpTypeOK' /\ WorkerShape' /\ SockTypeOK(Replies)'
<1> USE DEF ServerInv, TypeOK
<1>1. wreq[w] \in Conns /\ wips[w] = <<>> /\ wmiss[w] = <<>> /\ Len(<<>>) = 0
  BY DEF Overwrite, WorkerShape
<1>2. PICK b \in Overwritten(wreq[w]) : wnames' = [wnames EXCEPT ![w] = b]
  BY DEF Overwrite
<1>3. b \in Seq(AllNames) /\ Len(b) \in 1 .. MAXNAMES
  <2>1. Request[wreq[w]] \in Seq(AllNames) /\ Len(Request[wreq[w]]) \in 1 .. MAXNAMES
    BY <1>1, RequestAssumption DEF AllNames
  <2>2. ASSUME NEW n \in AllNames PROVE <<n>> \in Seq(AllNames) /\ Len(<<n>>) \in 1 .. MAXNAMES
    BY MaxNamesAssumption
  <2> QED BY <2>1, <2>2 DEF Overwritten
<1>4. TcpTypeOK'
  BY <1>2, <1>3 DEF Overwrite, TcpTypeOK
<1>5. WorkerShape'
  BY <1>1, <1>2, <1>3, MaxNamesAssumption DEF Overwrite, TcpTypeOK, WorkerShape
<1> QED BY <1>4, <1>5, SameSock DEF Overwrite

\* A worker goes on after closing a request of length zero.
LEMMA ZeroLengthKeeps ==
  ASSUME ServerInv, NEW w \in Workers, ZeroLength(w)
  PROVE  TcpTypeOK' /\ WorkerShape' /\ SockTypeOK(Replies)'
<1> USE DEF ServerInv, TypeOK
<1>1. wreq[w] \in Conns /\ wips[w] = <<>> /\ wmiss[w] = <<>> /\ Len(<<>>) = 0
  BY DEF ZeroLength, WorkerShape
<1>2. <<EmptyName>> \in Seq(AllNames) /\ Len(<<EmptyName>>) = 1
  BY DEF AllNames
<1>3. TcpTypeOK'
  BY <1>2 DEF ZeroLength, TcpTypeOK
<1>4. WorkerShape'
  BY <1>1, <1>2, MaxNamesAssumption DEF ZeroLength, TcpTypeOK, WorkerShape
<1>5. SockTypeOK(Replies)'
  BY ClosedType DEF ZeroLength, CloseConnfd, SockTypeOK
<1> QED BY <1>3, <1>4, <1>5

\* A worker looks one name up, which is a hit or a miss.
LEMMA SearchKeeps ==
  ASSUME ServerInv, NEW w \in Workers, Search(w)
  PROVE  TcpTypeOK' /\ WorkerShape' /\ SockTypeOK(Replies)'
<1> USE DEF ServerInv, TypeOK
<1> DEFINE n == wnames[w][Len(wips[w]) + 1]
<1>1. /\ wnames[w] \in Seq(AllNames)
      /\ wips[w] \in Seq(Ips)
      /\ wmiss[w] \in Seq(Nodes)
      /\ Len(wips[w]) < Len(wnames[w])
      /\ Len(wnames[w]) <= MAXNAMES
      /\ Len(wmiss[w]) <= Len(wips[w])
      /\ wreq[w] \in Conns
  BY DEF Search, TcpTypeOK, WorkerShape
<1>2. Len(wips[w]) \in Nat /\ Len(wnames[w]) \in Nat /\ Len(wmiss[w]) \in Nat
  BY <1>1
<1>3. n \in AllNames
  BY <1>1, <1>2, ElementOfSeq
<1>4. Node(w, n) \in Nodes
  BY <1>1, <1>2, <1>3, MaxNamesAssumption DEF Node, Nodes, Counts
<1>5. /\ wpc' = [wpc EXCEPT ![w] = IF Len(wips[w]) + 1 = Len(wnames[w])
                                   THEN "reply" ELSE "search"]
      /\ UNCHANGED <<wreq, wfd, wnames, wput>>
  BY DEF Search
<1>6. PICK ip \in Ips :
        /\ wips' = [wips EXCEPT ![w] = Append(wips[w], ip)]
        /\ \/ wmiss' = wmiss
           \/ wmiss' = [wmiss EXCEPT ![w] = Append(wmiss[w], Node(w, n))]
  <2>1. CASE \E d \in Fresh(n) : /\ wips' = [wips EXCEPT ![w] = Append(@, d.ip)]
                                 /\ UNCHANGED wmiss
    <3>1. PICK d \in Fresh(n) : /\ wips' = [wips EXCEPT ![w] = Append(@, d.ip)]
                                /\ UNCHANGED wmiss
      BY <2>1
    <3>2. d \in Data
      BY <1>3, RetrieveType DEF Fresh
    <3> QED BY <3>1, <3>2 DEF Data
  <2>2. CASE /\ wips' = [wips EXCEPT ![w] = Append(@, CACHE_MISS)]
             /\ wmiss' = [wmiss EXCEPT ![w] = Append(@, Node(w, n))]
    BY <2>2 DEF Ips
  <2> QED BY <2>1, <2>2 DEF Search
<1> HIDE DEF n
<1>7. /\ Append(wips[w], ip) \in Seq(Ips)
      /\ Len(Append(wips[w], ip)) = Len(wips[w]) + 1
      /\ Append(wmiss[w], Node(w, n)) \in Seq(Nodes)
      /\ Len(Append(wmiss[w], Node(w, n))) = Len(wmiss[w]) + 1
  BY <1>1, <1>4, AppendProperties
<1>8. TcpTypeOK'
  BY <1>5, <1>6, <1>7 DEF TcpTypeOK
<1>9. WorkerShape'
  <2> SUFFICES ASSUME NEW v \in Workers
               PROVE  /\ wpc'[v] # "accept" => wreq'[v] \in Conns
                      /\ wpc'[v] \in {"accept", "serv"} => wips'[v] = <<>> /\ wmiss'[v] = <<>>
                      /\ wpc'[v] = "search" => Len(wips'[v]) < Len(wnames'[v])
                      /\ wpc'[v] # "put" => wput'[v] = 0
                      /\ wpc'[v] = "put" => wput'[v] < Len(wmiss'[v])
                      /\ Len(wnames'[v]) <= MAXNAMES
                      /\ Len(wips'[v]) <= Len(wnames'[v])
                      /\ Len(wmiss'[v]) <= Len(wips'[v])
    BY DEF WorkerShape
  <2>1. CASE v = w
    <3>1. wips'[w] = Append(wips[w], ip) /\ wnames'[w] = wnames[w] /\ wreq'[w] = wreq[w]
          /\ wput'[w] = wput[w]
          /\ wpc'[w] = IF Len(wips[w]) + 1 = Len(wnames[w]) THEN "reply" ELSE "search"
      BY <1>5, <1>6 DEF TcpTypeOK
    <3>2. wmiss'[w] = wmiss[w] \/ wmiss'[w] = Append(wmiss[w], Node(w, n))
      BY <1>6 DEF TcpTypeOK
    <3>3. wput[w] = 0
      BY DEF WorkerShape, Search
    <3>4. Len(wips'[w]) = Len(wips[w]) + 1 /\ Len(wmiss'[w]) <= Len(wips[w]) + 1
      BY <1>1, <1>2, <1>7, <3>1, <3>2
    <3> QED BY <1>1, <1>2, <2>1, <3>1, <3>3, <3>4
  <2>2. CASE v # w
    <3>1. wips'[v] = wips[v] /\ wmiss'[v] = wmiss[v] /\ wpc'[v] = wpc[v]
          /\ wreq'[v] = wreq[v] /\ wnames'[v] = wnames[v] /\ wput'[v] = wput[v]
      BY <1>5, <1>6, <2>2 DEF TcpTypeOK
    <3> QED BY <3>1 DEF WorkerShape
  <2> QED BY <2>1, <2>2
<1> QED BY <1>8, <1>9, SameSock DEF Search, sharedVars

\* A worker sends the first reply.
LEMMA ReplyKeeps ==
  ASSUME ServerInv, NEW w \in Workers, ReplyHit(w) \/ ReplyMiss(w)
  PROVE  /\ TcpTypeOK' /\ WorkerShape' /\ SockTypeOK(Replies)'
         /\ DnsThreadTypeOK' /\ ThreadShape'
<1> USE DEF ServerInv, TypeOK
<1>1. wreq[w] \in Conns /\ wips[w] \in Seq(Ips) /\ wmiss[w] \in Seq(Nodes)
  BY DEF ReplyHit, ReplyMiss, WorkerShape, TcpTypeOK
<1>2. FirstReply(w) \in Replies
  BY <1>1 DEF FirstReply, Replies, FirstReplies
<1>3. Written(wfd[w], FirstReply(w)) \in [Conns -> Seq(Replies)]
  BY <1>2, WrittenType
<1>4. CASE ReplyHit(w)
  <2>1. SockTypeOK(Replies)'
    BY <1>3, <1>4, ClosedType DEF ReplyHit, CloseConnfd, SockTypeOK
  <2>2. TcpTypeOK' /\ WorkerShape'
    BY <1>4, IdleKeeps DEF ReplyHit
  <2>3. DnsThreadTypeOK' /\ ThreadShape'
    BY <1>4, SameThread, SameThreadShape DEF ReplyHit, ringVars, threadVars
  <2> QED BY <2>1, <2>2, <2>3
<1>5. CASE ReplyMiss(w)
  <2>1. SockTypeOK(Replies)'
    BY <1>3, <1>5 DEF ReplyMiss, SockTypeOK
  <2>2. TcpTypeOK'
    BY <1>5 DEF ReplyMiss, TcpTypeOK
  <2>3. wmiss[w] # <<>> /\ wput[w] = 0
    BY <1>5 DEF ReplyMiss, WorkerShape
  <2>4. Len(wmiss[w]) \in Nat \ {0}
    BY <1>1, <2>3, EmptySeq
  <2>5. WorkerShape'
    BY <1>1, <1>5, <2>3, <2>4 DEF ReplyMiss, WorkerShape, TcpTypeOK
  <2>6. number' \in [Conns -> Int]
    BY <1>1, <1>5, <2>4 DEF ReplyMiss, Total, DnsThreadTypeOK
  <2>7. ipptr' \in [Conns -> [Counts -> Answers \cup {NoAnswer}]]
    BY <1>1, <1>5 DEF ReplyMiss, DnsThreadTypeOK
  <2>8. DnsThreadTypeOK'
    BY <1>5, <2>6, <2>7 DEF ReplyMiss, DnsThreadTypeOK, threadVars
  <2>9. ThreadShape'
    BY <1>5, SameThreadShape DEF ReplyMiss, ringVars, threadVars
  <2> QED BY <2>1, <2>2, <2>5, <2>8, <2>9
<1> QED BY <1>4, <1>5

\* The job a worker puts into the ring is well formed.
LEMMA MissJobType ==
  ASSUME ServerInv, NEW w \in Workers, wpc[w] = "put"
  PROVE  MissJob(w) \in Jobs
<1> USE DEF ServerInv, TypeOK
<1>1. /\ wmiss[w] \in Seq(Nodes) /\ wput[w] \in 0 .. MAXNAMES
      /\ wput[w] < Len(wmiss[w]) /\ Len(wmiss[w]) <= Len(wips[w])
      /\ Len(wips[w]) <= Len(wnames[w]) /\ Len(wnames[w]) <= MAXNAMES
      /\ wfd[w] \in Fds /\ wreq[w] \in Conns
      /\ wips[w] \in Seq(Ips) /\ wnames[w] \in Seq(AllNames)
  BY DEF TcpTypeOK, WorkerShape
<1>2. Len(wmiss[w]) \in Nat /\ Len(wips[w]) \in Nat /\ Len(wnames[w]) \in Nat
  BY <1>1
<1>3. wmiss[w][wput[w] + 1] \in Nodes
  BY <1>1, <1>2, MaxNamesAssumption, ElementOfSeq
<1>4. wput[w] \in Counts /\ Len(wmiss[w]) \in 0 .. MAXNAMES
  BY <1>1, <1>2, MaxNamesAssumption DEF Counts
<1>5. MissJob(w) \in TcpJobs
  BY <1>1, <1>3, <1>4 DEF MissJob, TcpJobs, Nodes, Count, Total
<1> QED BY <1>5, JobsAssumption

\* A worker puts one job into the ring.
LEMMA PutJobKeeps ==
  ASSUME ServerInv, NEW w \in Workers, PutJob(w)
  PROVE  TcpTypeOK' /\ WorkerShape'
<1> USE DEF ServerInv, TypeOK
<1>1. CASE Idle(w)
  BY <1>1, IdleKeeps
<1>2. CASE /\ wput[w] + 1 # Len(wmiss[w])
           /\ wput' = [wput EXCEPT ![w] = @ + 1]
           /\ UNCHANGED <<wpc, wreq, wfd, wnames, wips, wmiss>>
  <2>1. /\ wput[w] \in Nat /\ Len(wmiss[w]) \in Nat /\ wput[w] < Len(wmiss[w])
        /\ Len(wmiss[w]) <= MAXNAMES
    <3>1. wmiss[w] \in Seq(Nodes) /\ wips[w] \in Seq(Ips) /\ wnames[w] \in Seq(AllNames)
          /\ wput[w] \in 0 .. MAXNAMES
      BY DEF TcpTypeOK
    <3>2. Len(wmiss[w]) \in Nat /\ Len(wips[w]) \in Nat /\ Len(wnames[w]) \in Nat
      BY <3>1
    <3> QED BY <3>1, <3>2, MaxNamesAssumption DEF WorkerShape, PutJob
  <2>2. wput[w] + 1 \in 0 .. MAXNAMES /\ wput[w] + 1 < Len(wmiss[w])
    BY <1>2, <2>1, MaxNamesAssumption
  <2>3. TcpTypeOK'
    BY <1>2, <2>2 DEF TcpTypeOK
  <2>4. WorkerShape'
    BY <1>2, <2>2 DEF WorkerShape, TcpTypeOK, PutJob
  <2> QED BY <2>3, <2>4
<1> QED BY <1>1, <1>2 DEF PutJob

\* Every step of a worker.
LEMMA WorkerStepKeeps ==
  ASSUME ServerInv, NEW w \in Workers, WorkerStep(w)
  PROVE  /\ SockTypeOK(Replies)' /\ KacheTypeOK' /\ DnsThreadTypeOK' /\ ThreadShape'
         /\ TcpTypeOK' /\ WorkerShape'
<1> USE DEF ServerInv, TypeOK
<1>1. ASSUME UNCHANGED <<kacheVars, threadVars, reqVars, ringVars>>, astray' \in BOOLEAN
      PROVE  KacheTypeOK' /\ DnsThreadTypeOK' /\ ThreadShape'
  <2>1. DnsThreadTypeOK'
    BY <1>1 DEF DnsThreadTypeOK, threadVars, reqVars
  <2> QED BY <1>1, <2>1, SameKache, SameThreadShape DEF threadVars, ringVars
<1>2. astray \in BOOLEAN
  BY DEF DnsThreadTypeOK
<1>3. CASE Accept(w)
  BY <1>1, <1>2, <1>3, AcceptKeeps DEF Accept
<1>4. CASE Reject(w)
  BY <1>1, <1>2, <1>4, RejectKeeps DEF Reject
<1>5. CASE ReadBody(w)
  BY <1>1, <1>2, <1>5, ReadBodyKeeps DEF ReadBody, sharedVars
<1>6. CASE ZeroLength(w) \/ Overwrite(w)
  BY <1>1, <1>6, ZeroLengthKeeps, OverwriteKeeps DEF ZeroLength, Overwrite
<1>7. CASE Search(w)
  BY <1>1, <1>2, <1>7, SearchKeeps DEF Search, sharedVars
<1>8. CASE ReplyHit(w) \/ ReplyMiss(w)
  <2>1. UNCHANGED kacheVars
    BY <1>8 DEF ReplyHit, ReplyMiss
  <2> QED BY <1>8, <2>1, ReplyKeeps, SameKache
<1>9. CASE ReplyKilled(w) \/ NullBuffer(w) \/ OverwriteCrash(w)
  <2>1. Halt /\ UNCHANGED <<offRingVars, workerVars>>
    BY <1>9 DEF ReplyKilled, NullBuffer, OverwriteCrash
  <2> QED BY <2>1, HaltKeeps, SameWorker
<1>10. CASE PutJob(w)
  <2>1. UNCHANGED <<sockVars, kacheVars, threadVars, reqVars, astray>>
    BY <1>10 DEF PutJob, offRingVars
  <2>2. UNCHANGED job
    BY <1>10 DEF PutJob, Put
  <2> QED BY <1>10, <2>1, <2>2, PutJobKeeps, SameSock, SameKache, SameThread,
             SameThreadShape DEF threadVars
<1> QED BY <1>3, <1>4, <1>5, <1>6, <1>7, <1>8, <1>9, <1>10 DEF WorkerStep, ServeConn

(***************************************************************************)
(* The UDP server                                                          *)
(***************************************************************************)

\* The UDP server looks one name up.
LEMMA UdpSearchKeeps ==
  ASSUME ServerInv, UdpSearch
  PROVE  UdpTypeOK' /\ UdpShape'
<1> USE DEF ServerInv, TypeOK
<1> DEFINE q == DatagramNames[umsg]
           n == q[Len(uips) + 1]
<1>1. /\ umsg \in Datagrams /\ q \in Seq(Names) /\ uips \in Seq(Ips)
      /\ umiss \in Seq(AllNames) /\ Len(uips) < Len(q)
  BY DatagramAssumption DEF UdpSearch, UdpShape, UdpTypeOK
<1>2. Len(uips) \in Nat /\ Len(q) \in Nat
  BY <1>1
<1>3. n \in AllNames
  BY <1>1, <1>2, ElementOfSeq DEF AllNames
<1>4. /\ upc' = IF Len(uips) + 1 = Len(q) THEN "send" ELSE "search"
      /\ UNCHANGED <<inbox, umsg, ureply>>
  BY DEF UdpSearch
<1>5. PICK ip \in Ips : /\ uips' = Append(uips, ip)
                        /\ umiss' = umiss \/ umiss' = Append(umiss, n)
  <2>1. CASE \E d \in Fresh(n) : uips' = Append(uips, d.ip) /\ UNCHANGED umiss
    <3>1. PICK d \in Fresh(n) : uips' = Append(uips, d.ip) /\ UNCHANGED umiss
      BY <2>1
    <3>2. d \in Data
      BY <1>3, RetrieveType DEF Fresh
    <3> QED BY <3>1, <3>2 DEF Data
  <2>2. CASE uips' = Append(uips, CACHE_MISS) /\ umiss' = Append(umiss, n)
    BY <2>2 DEF Ips
  <2> QED BY <2>1, <2>2 DEF UdpSearch
<1> HIDE DEF n, q
<1>6. uips' \in Seq(Ips) /\ Len(uips') = Len(uips) + 1 /\ umiss' \in Seq(AllNames)
  BY <1>1, <1>3, <1>5, AppendProperties
<1>7. UdpTypeOK'
  BY <1>4, <1>6 DEF UdpTypeOK
<1>8. UdpShape'
  BY <1>1, <1>2, <1>4, <1>6 DEF UdpShape, q
<1> QED BY <1>7, <1>8

\* The job the UDP server puts into the ring is well formed.
LEMMA UdpJobType ==
  ASSUME ServerInv, upc = "put"
  PROVE  [tcp_or_udp |-> "udp", domain |-> Head(umiss)] \in Jobs
<1>1. umiss \in Seq(AllNames) /\ umiss # <<>>
  BY DEF ServerInv, TypeOK, UdpTypeOK, UdpShape
<1>2. Head(umiss) \in AllNames
  BY <1>1, HeadTailProperties
<1> QED BY <1>2, JobsAssumption DEF UdpJobs

\* The UDP server is back in its loop.
LEMMA UdpIdleKeeps ==
  ASSUME ServerInv, UdpIdle, UNCHANGED inbox, ureply' \in [Datagrams -> Seq(Ips)]
  PROVE  UdpTypeOK' /\ UdpShape'
BY DEF ServerInv, TypeOK, UdpIdle, UdpTypeOK, UdpShape

\* The UDP server receives a datagram.
LEMMA UdpRecvKeeps ==
  ASSUME ServerInv, NEW m \in Datagrams, UdpRecv(m)
  PROVE  UdpTypeOK' /\ UdpShape'
<1> USE DEF ServerInv, TypeOK
<1>1. DatagramNames[m] \in Seq(Names) /\ DatagramNames[m] # <<>>
  BY DatagramAssumption
<1>2. Len(DatagramNames[m]) \in Nat \ {0}
  BY <1>1, EmptySeq
<1>3. Len(<<>>) = 0
  OBVIOUS
<1>4. UdpTypeOK'
  BY DEF UdpRecv, UdpTypeOK
<1>5. UdpShape'
  BY <1>2, <1>3 DEF UdpRecv, UdpShape
<1> QED BY <1>4, <1>5

\* The UDP server sends its reply, or fails to.
LEMMA UdpSendKeeps ==
  ASSUME ServerInv, UdpSend
  PROVE  UdpTypeOK' /\ UdpShape'
<1> USE DEF ServerInv, TypeOK
<1>1. ureply' \in [Datagrams -> Seq(Ips)] /\ UNCHANGED inbox
  BY DEF UdpSend, UdpTypeOK, UdpShape
<1>2. CASE UdpIdle
  BY <1>1, <1>2, UdpIdleKeeps
<1>3. CASE SomeMissed /\ upc' = "put" /\ UNCHANGED <<umsg, uips, umiss>>
  BY <1>1, <1>3 DEF SomeMissed, UdpSend, UdpTypeOK, UdpShape
<1> QED BY <1>2, <1>3 DEF UdpSend

\* The UDP server puts one job into the ring.
LEMMA UdpPutKeeps ==
  ASSUME ServerInv, UdpPut
  PROVE  UdpTypeOK' /\ UdpShape'
<1> USE DEF ServerInv, TypeOK
<1>1. umiss \in Seq(AllNames) /\ umiss # <<>> /\ upc = "put"
  BY DEF UdpPut, UdpTypeOK, UdpShape
<1>2. CASE UdpIdle
  BY <1>2, UdpIdleKeeps DEF UdpPut, UdpTypeOK
<1>3. CASE Len(umiss) # 1 /\ umiss' = Tail(umiss) /\ UNCHANGED <<upc, umsg, uips>>
  <2>1. Tail(umiss) \in Seq(AllNames) /\ Len(Tail(umiss)) = Len(umiss) - 1
    BY <1>1, HeadTailProperties
  <2>2. Len(umiss) \in Nat \ {0}
    BY <1>1, EmptySeq
  <2>3. Tail(umiss) # <<>>
    <3>1. Len(Tail(umiss)) # 0
      BY <1>3, <2>1, <2>2
    <3>2. Len(<<>>) = 0
      OBVIOUS
    <3> QED BY <3>1, <3>2
  <2>4. UdpTypeOK'
    BY <1>3, <2>1 DEF UdpPut, UdpTypeOK
  <2>5. UdpShape'
    BY <1>1, <1>3, <2>3 DEF UdpPut, UdpShape
  <2> QED BY <2>4, <2>5
<1> QED BY <1>2, <1>3 DEF UdpPut

\* Every step of the UDP server.
LEMMA UdpStepKeeps ==
  ASSUME ServerInv, UdpStep
  PROVE  /\ SockTypeOK(Replies)' /\ KacheTypeOK' /\ DnsThreadTypeOK' /\ ThreadShape'
         /\ UdpTypeOK' /\ UdpShape'
<1> USE DEF ServerInv, TypeOK
<1>1. UNCHANGED offRingVars /\ UNCHANGED job
  <2>1. ASSUME UNCHANGED sharedVars PROVE UNCHANGED offRingVars /\ UNCHANGED job
    BY <2>1 DEF sharedVars, offRingVars, ringVars
  <2> QED BY <2>1 DEF UdpStep, UdpWork, UdpRecv, UdpRecvFails, UdpSearch, UdpSend,
                      UdpSendFails, UdpPut, Put, Halt
<1>2. SockTypeOK(Replies)' /\ KacheTypeOK' /\ DnsThreadTypeOK' /\ ThreadShape'
  BY <1>1, SameSock, SameKache, SameThread, SameThreadShape DEF offRingVars, threadVars
<1>3. CASE UdpRecvFails
  BY <1>2, <1>3, SameUdp DEF UdpRecvFails
<1>4. CASE UdpSendFails
  BY <1>2, <1>4, UdpIdleKeeps DEF UdpSendFails, UdpTypeOK
<1> QED BY <1>2, <1>3, <1>4, UdpRecvKeeps, UdpSearchKeeps, UdpSendKeeps, UdpPutKeeps
           DEF UdpStep, UdpWork

(***************************************************************************)
(* The server and the ring                                                 *)
(***************************************************************************)

\* Every step of the server is a step of the ring, or leaves the ring alone.
LEMMA ServerStepOnRing ==
  ASSUME ServerInv, [Next]_vars
  PROVE  [RingNext]_ringVars
<1>1. ASSUME NEW t \in DnsThreads, DnsStep(t) PROVE [RingNext]_ringVars
  BY <1>1 DEF DnsStep, WorkOnJob, TakeJob, WaitForJob, UdpDnsRequest, TcpDnsRequest, Finish,
              CheckZero, CheckNonZero, Send, SendFails, CloseConn, Free, FreeAborts, RingNext
<1>2. ASSUME NEW w \in Workers, WorkerStep(w) PROVE [RingNext]_ringVars
  <2>1. ASSUME PutJob(w) PROVE RingNext
    BY <2>1, MissJobType DEF PutJob, RingNext
  <2>2. ASSUME UNCHANGED sharedVars PROVE UNCHANGED ringVars
    BY <2>2 DEF sharedVars
  <2> QED BY <1>2, <2>1, <2>2 DEF WorkerStep, ServeConn, Accept, Reject, ReadBody, ZeroLength,
             NullBuffer, Overwrite, OverwriteCrash, Search, ReplyHit, ReplyMiss, ReplyKilled, RingNext
<1>3. ASSUME UdpStep PROVE [RingNext]_ringVars
  <2>1. ASSUME UdpPut PROVE RingNext
    BY <2>1, UdpJobType DEF UdpPut, RingNext
  <2>2. ASSUME UNCHANGED sharedVars PROVE UNCHANGED ringVars
    BY <2>2 DEF sharedVars
  <2> QED BY <1>3, <2>1, <2>2 DEF UdpStep, UdpWork, UdpRecv, UdpRecvFails, UdpSearch,
             UdpSend, UdpSendFails, RingNext
<1>4. ASSUME NEW c \in Conns, Client(c) PROVE [RingNext]_ringVars
  BY <1>4 DEF Client
<1>5. ASSUME Clock PROVE [RingNext]_ringVars
  BY <1>5 DEF Clock
<1>6. ASSUME UNCHANGED vars PROVE [RingNext]_ringVars
  BY <1>6 DEF vars, sharedVars
<1> QED BY <1>1, <1>2, <1>3, <1>4, <1>5, <1>6 DEF Next

\* One step of the server preserves its invariant.
LEMMA ServerInvStep == ServerInv /\ [Next]_vars => ServerInv'
<1> SUFFICES ASSUME ServerInv, [Next]_vars PROVE ServerInv'
  OBVIOUS
<1> USE DEF ServerInv, TypeOK
<1>1. RingInv'
  BY ServerStepOnRing, RingInvStep
<1>2. RingTypeOK'
  BY <1>1 DEF RingInv
<1>3. ASSUME NEW t \in DnsThreads, DnsStep(t), UNCHANGED <<workerVars, udpVars>>
      PROVE  ServerInv'
  BY <1>1, <1>2, <1>3, DnsStepKeeps, SameWorker, SameUdp
<1>4. ASSUME NEW w \in Workers, WorkerStep(w), UNCHANGED udpVars PROVE ServerInv'
  BY <1>1, <1>2, <1>4, WorkerStepKeeps, SameUdp
<1>5. ASSUME UdpStep, UNCHANGED workerVars PROVE ServerInv'
  BY <1>1, <1>2, <1>5, UdpStepKeeps, SameWorker
<1>6. ASSUME UNCHANGED <<ringVars, threadVars, reqVars, astray, workerVars, udpVars>>,
             SockTypeOK(Replies)', KacheTypeOK'
      PROVE  ServerInv'
  BY <1>1, <1>2, <1>6, SameThread, SameThreadShape, SameWorker, SameUdp
     DEF ringVars, threadVars
<1>7. ASSUME NEW c \in Conns, Client(c) PROVE ServerInv'
  <2>1. SockTypeOK(Replies)'
    BY <1>7 DEF Client, ClientConnect, ClientSend, ClientGone, SockTypeOK
  <2> QED BY <1>6, <1>7, <2>1, SameKache DEF Client
<1>8. ASSUME Clock PROVE ServerInv'
  <2>1. KacheTypeOK'
    BY <1>8 DEF Clock, Tick, KacheTypeOK
  <2> QED BY <1>6, <1>8, <2>1, SameSock DEF Clock
<1>9. ASSUME UNCHANGED vars PROVE ServerInv'
  BY <1>6, <1>9, SameSock, SameKache DEF vars, sharedVars
<1> QED BY <1>3, <1>4, <1>5, <1>7, <1>8, <1>9 DEF Next

\* The initial state satisfies it.
LEMMA ServerInvInit == Init => ServerInv
<1> SUFFICES ASSUME Init PROVE ServerInv
  OBVIOUS
<1> USE DEF Init
<1>1. RingInv /\ RingTypeOK
  BY RingInvInit DEF RingInv
<1>2. SockTypeOK(Replies)
  BY DEF SockInit, SockTypeOK
<1>3. KacheTypeOK
  <2>1. StartTime \in Nat /\ 0 \in Nat
    BY KacheAssumption DEF StartTime
  <2>2. [i \in 1 .. 4 |-> NUL] \in PartKeys
    BY DEF PartKeys
  <2>3. [ip |-> Zero, timestamp |-> 0] \in Data
    BY DEF Data, Ips
  <2>4. \A n \in TrieNames : [ip |-> n, timestamp |-> StartTime] \in Data
    BY <2>1, KacheAssumption DEF Data, Ips
  <2> QED BY <2>1, <2>2, <2>3, <2>4 DEF KacheInit, KacheTypeOK, HashData
<1>4. DnsThreadTypeOK
  <2>1. [k \in Counts |-> NoAnswer] \in [Counts -> Answers \cup {NoAnswer}]
    OBVIOUS
  <2>2. ipptr \in [Conns -> [Counts -> Answers \cup {NoAnswer}]]
    BY <2>1 DEF DnsThreadInit
  <2>3. number \in [Conns -> Int]
    BY DEF DnsThreadInit
  <2>4. missindex \in [DnsThreads -> BOOLEAN] /\ miss \in [Conns -> BOOLEAN]
    BY DEF DnsThreadInit
  <2>5. blk \in [Conns -> {"none", "live", "freed"}] /\ astray \in BOOLEAN
    BY DEF DnsThreadInit
  <2>6. dpc \in [DnsThreads -> {"loop", "dnsrequest", "finish", "check",
                                "send", "close", "free"}]
    BY DEF DnsThreadInit
  <2> QED BY <2>2, <2>3, <2>4, <2>5, <2>6 DEF DnsThreadTypeOK
<1>5. ThreadShape
  BY DEF DnsThreadInit, RingInit, ThreadShape
<1>6. TcpTypeOK /\ WorkerShape
  <2>1. 0 \in Fds /\ 0 \in 0 .. MAXNAMES /\ Len(<<>>) = 0 /\ 0 <= MAXNAMES
    BY FdAssumption, MaxNamesAssumption DEF Fds
  <2> QED BY <2>1 DEF TcpInit, TcpTypeOK, WorkerShape
<1>7. UdpTypeOK /\ UdpShape
  BY DEF UdpInit, UdpTypeOK, UdpShape
<1> QED BY <1>1, <1>2, <1>3, <1>4, <1>5, <1>6, <1>7 DEF ServerInv, TypeOK

\* So it always holds.
LEMMA ServerInvariant == Spec => []ServerInv
BY ServerInvInit, ServerInvStep, PTL DEF Spec

\* Every variable of the server keeps its type, whatever the clients send and
\* whatever the threads interleave; in particular every job put into the ring
\* is well formed and every index into a result block is inside it.
THEOREM ServerTypes == Spec => []TypeOK
<1>1. ServerInv => TypeOK
  BY DEF ServerInv
<1> QED BY <1>1, ServerInvariant, PTL

\* The server implements the ring of DnsArray: workers, UDP server and DNS
\* threads touch dns_array, iget and iput only as DnsArray says.
THEOREM ServerImplementsRing == Spec => RingSpec
<1>1. Init => RingInit
  BY DEF Init
<1>2. ServerInv /\ [Next]_vars => [RingNext]_ringVars
  BY ServerStepOnRing
<1> QED BY <1>1, <1>2, ServerInvariant, PTL DEF Spec, RingSpec

\* In the whole server no wake-up of a DNS thread is lost.
THEOREM ServerLosesNoWakeup == Spec => []NoLostWakeup
BY ServerImplementsRing, NoWakeupIsLost, PTL

\* In the whole server the DNS work queue is FIFO: no job is lost, overwritten
\* or taken twice.
THEOREM ServerQueueIsFifo == Spec => IsFifo
BY ServerImplementsRing, RingIsFifo, PTL

-----------------------------------------------------------------------------
(***************************************************************************)
(* Part 2.  The life of a TCP request, for every number of threads,        *)
(* workers, connections, names and descriptors: a connection is served by  *)
(* one worker, its count of outstanding jobs is exact while its block is   *)
(* allocated, and the block outlives the jobs; no descriptor leaks, and    *)
(* until a thread goes astray nobody uses a descriptor that has become     *)
(* another client's.                                                       *)
(***************************************************************************)

(***************************************************************************)
(* Connections, blocks and their jobs                                      *)
(***************************************************************************)

\* No worker has accepted c yet.
Unserved(c) == sent[c] = "none" \/ c \in backlog

Serving(w, c) == wpc[w] # "accept" /\ wreq[w] = c

\* A connection is accepted once, by one worker, which serves it alone; the block
\* of its request is allocated by that worker when it has sent the first reply.
ServedOnce ==
  /\ \A c \in backlog : sent[c] # "none"
  /\ \A c \in Conns : Unserved(c) => blk[c] = "none" /\ \A w \in Workers : ~Serving(w, c)
  /\ \A c \in Conns : \A v, w \in Workers : Serving(v, c) /\ Serving(w, c) => v = w
  /\ \A w \in Workers : wpc[w] \in {"serv", "search", "reply"} => blk[wreq[w]] = "none"

\* A thread that has counted its job down got it from an allocated block, and one
\* that has read the count as zero was not mistaken: no job is outstanding, and
\* none will be.
EndsLast ==
  \A t \in DnsThreads : \A c \in Conns : job[t] # NoJob /\ job[t].req = c =>
    /\ dpc[t] \in {"check", "send", "close", "free"} => blk[c] # "none"
    /\ dpc[t] \in {"send", "close", "free"} => Outstanding(c) = 0

CountInv == NumberCounts /\ BlockOutlivesJobs /\ EndsLast

RequestInv == ServerInv /\ ServedOnce /\ CountInv

(***************************************************************************)
(* A connection is served once                                             *)
(***************************************************************************)

\* A step that leaves the workers, the blocks and the listening socket alone.
LEMMA SameServed ==
  ASSUME ServedOnce, UNCHANGED <<backlog, sent, blk, wpc, wreq>>
  PROVE  ServedOnce'
BY DEF ServedOnce, Unserved, Serving

\* A worker that goes on with its request, or leaves it, keeps it to itself.
LEMMA ServedOn ==
  ASSUME ServerInv, ServedOnce, NEW w \in Workers, NEW l \in {"accept", "search", "reply"},
         wpc[w] \in {"serv", "search", "reply"} \/ l = "accept",
         wpc' = [wpc EXCEPT ![w] = l],
         wreq' = wreq \/ (l = "accept" /\ wreq' = [wreq EXCEPT ![w] = NoReq]),
         UNCHANGED <<backlog, sent, blk>>
  PROVE  ServedOnce'
<1>1. /\ \A v \in Workers : v # w => wpc'[v] = wpc[v] /\ wreq'[v] = wreq[v]
      /\ wpc'[w] = l
      /\ l # "accept" => wreq'[w] = wreq[w] /\ wpc[w] \in {"serv", "search", "reply"}
  BY DEF ServerInv, TypeOK, TcpTypeOK
<1>2. \A v \in Workers : \A c : Serving(v, c)' => Serving(v, c)
  BY <1>1 DEF Serving
<1>3. \A c : Unserved(c)' <=> Unserved(c)
  BY DEF Unserved
<1> QED BY <1>1, <1>2, <1>3 DEF ServedOnce

\* The only step of a DNS thread that matters is the free of a block, which was
\* allocated: its request has been served.
LEMMA FreeServed ==
  ASSUME ServerInv, ServedOnce, EndsLast, NEW t \in DnsThreads, Free(t), UNCHANGED workerVars
  PROVE  ServedOnce'
<1>1. /\ job[t].req \in Conns /\ blk[job[t].req] # "none"
      /\ blk' = [blk EXCEPT ![job[t].req] = "freed"]
  BY JobAssumption, JobsAssumption DEF Free, EndsLast, ServerInv, ThreadShape, TcpJobs
<1>2. \A c \in Conns : blk[c] = "none" => blk'[c] = "none"
  BY <1>1 DEF ServerInv, TypeOK, DnsThreadTypeOK
<1>3. UNCHANGED <<backlog, sent, wpc, wreq>>
  BY DEF Free, sockVars, workerVars
<1>4. \A w \in Workers : wpc[w] # "accept" => wreq[w] \in Conns
  BY DEF ServerInv, WorkerShape
<1> QED BY <1>2, <1>3, <1>4 DEF ServedOnce, Unserved, Serving

\* Every step of a DNS thread.
LEMMA DnsStepServed ==
  ASSUME ServerInv, ServedOnce, EndsLast, NEW t \in DnsThreads, DnsStep(t),
         UNCHANGED workerVars
  PROVE  ServedOnce'
<1>1. CASE Free(t)
  BY <1>1, FreeServed
<1>2. CASE ~Free(t)
  <2>1. UNCHANGED <<backlog, sent, blk>>
    BY <1>2 DEF DnsStep, WorkOnJob, TakeJob, WaitForJob, UdpDnsRequest, TcpDnsRequest,
       Finish, CheckZero, CheckNonZero, Send, SendFails, CloseConn, FreeAborts,
       offRingVars, sockVars, reqVars
  <2> QED BY <2>1, SameServed DEF workerVars
<1> QED BY <1>1, <1>2

\* A worker accepts a connection that nobody serves.
LEMMA AcceptServed ==
  ASSUME ServerInv, ServedOnce, NEW w \in Workers, Accept(w)
  PROVE  ServedOnce'
<1>1. PICK f \in Fds, c \in Conns : AcceptFd(f, c) /\ wreq' = [wreq EXCEPT ![w] = c]
  BY DEF Accept
<1>2. /\ c \in backlog /\ backlog' = backlog \ {c} /\ sent[c] # "none"
      /\ UNCHANGED <<sent, blk>> /\ wpc' = [wpc EXCEPT ![w] = "serv"]
  BY <1>1 DEF Accept, AcceptFd, reqVars, ServedOnce
<1>3. /\ \A v \in Workers : v # w => wpc'[v] = wpc[v] /\ wreq'[v] = wreq[v]
      /\ wpc'[w] = "serv" /\ wreq'[w] = c
  BY <1>1, <1>2 DEF ServerInv, TypeOK, TcpTypeOK
<1>4. blk[c] = "none" /\ \A v \in Workers : ~Serving(v, c)
  BY <1>2 DEF ServedOnce, Unserved
<1>5. \A d \in Conns : Unserved(d)' => Unserved(d) /\ d # c
  BY <1>2 DEF Unserved
<1>6. \A v \in Workers : v # w => \A d : Serving(v, d)' <=> Serving(v, d)
  BY <1>3 DEF Serving
<1>7. \A d : Serving(w, d)' <=> d = c
  BY <1>3 DEF Serving
<1> QED BY <1>2, <1>3, <1>4, <1>5, <1>6, <1>7 DEF ServedOnce

\* A worker allocates the block of its own request only.
LEMMA ReplyMissServed ==
  ASSUME ServerInv, ServedOnce, NEW w \in Workers, ReplyMiss(w)
  PROVE  ServedOnce'
<1>1. /\ wpc[w] = "reply" /\ wreq[w] \in Conns /\ wpc' = [wpc EXCEPT ![w] = "put"]
      /\ blk' = [blk EXCEPT ![wreq[w]] = "live"] /\ UNCHANGED <<backlog, sent, wreq>>
  BY DEF ReplyMiss, ServerInv, WorkerShape
<1>2. /\ \A v \in Workers : v # w => wpc'[v] = wpc[v]
      /\ wpc'[w] = "put"
      /\ \A c \in Conns : c # wreq[w] => blk'[c] = blk[c]
  BY <1>1 DEF ServerInv, TypeOK, TcpTypeOK, DnsThreadTypeOK
<1>3. \A v \in Workers : \A c : Serving(v, c)' <=> Serving(v, c)
  BY <1>1, <1>2 DEF Serving
<1>4. \A c : Unserved(c)' <=> Unserved(c)
  BY <1>1 DEF Unserved
<1>5. Serving(w, wreq[w])
  BY <1>1 DEF Serving
<1>6. \A v \in Workers : v # w /\ wpc[v] # "accept" => wreq[v] \in Conns /\ wreq[v] # wreq[w]
  BY <1>1, <1>5 DEF ServedOnce, Serving, ServerInv, WorkerShape
<1> QED BY <1>1, <1>2, <1>3, <1>4, <1>5, <1>6 DEF ServedOnce

\* Every step of a worker.
LEMMA WorkerStepServed ==
  ASSUME ServerInv, ServedOnce, NEW w \in Workers, WorkerStep(w)
  PROVE  ServedOnce'
<1>1. CASE Reject(w) \/ ReplyHit(w)
  BY <1>1, ServedOn DEF Reject, ReplyHit, Idle, reqVars
<1>2. CASE ReadBody(w) \/ Overwrite(w) \/ ZeroLength(w) \/ Search(w)
  <2>1. PICK l \in {"search", "reply"} : wpc' = [wpc EXCEPT ![w] = l]
    BY <1>2 DEF ReadBody, Overwrite, ZeroLength, Search
  <2>2. wpc[w] \in {"serv", "search", "reply"} /\ UNCHANGED <<wreq, backlog, sent, blk>>
    BY <1>2 DEF ReadBody, Overwrite, ZeroLength, Search, sharedVars, sockVars, reqVars
  <2> QED BY <2>1, <2>2, ServedOn
<1>3. CASE NullBuffer(w) \/ OverwriteCrash(w) \/ ReplyKilled(w)
  BY <1>3, SameServed DEF NullBuffer, OverwriteCrash, ReplyKilled, offRingVars, sockVars, reqVars, workerVars
<1>4. CASE PutJob(w)
  <2>1. UNCHANGED <<backlog, sent, blk>>
    BY <1>4 DEF PutJob, offRingVars, sockVars, reqVars
  <2>2. CASE Idle(w)
    BY <2>1, <2>2, ServedOn DEF Idle
  <2>3. CASE UNCHANGED <<wpc, wreq>>
    BY <2>1, <2>3, SameServed
  <2> QED BY <1>4, <2>2, <2>3 DEF PutJob
<1> QED BY <1>1, <1>2, <1>3, <1>4, AcceptServed, ReplyMissServed DEF WorkerStep, ServeConn

\* A client that connects joins the listening socket's queue.
LEMMA ConnectServed ==
  ASSUME ServerInv, ServedOnce, NEW c \in Conns, ClientConnect(c), UNCHANGED <<blk, workerVars>>
  PROVE  ServedOnce'
<1>1. PICK k \in SentKinds : sent' = [sent EXCEPT ![c] = k]
  BY DEF ClientConnect
<1>2. k # "none"
  BY KindAssumption
<1>3. /\ backlog' = backlog \cup {c} /\ UNCHANGED <<blk, wpc, wreq>>
      /\ sent[c] = "none" /\ sent'[c] # "none"
      /\ \A d \in Conns : d # c => sent'[d] = sent[d]
  BY <1>1, <1>2 DEF ClientConnect, workerVars, ServerInv, TypeOK, SockTypeOK
<1>4. \A d \in Conns : Unserved(d)' => Unserved(d)
  BY <1>3 DEF Unserved
<1>5. backlog \subseteq Conns
  BY DEF ServerInv, TypeOK, SockTypeOK
<1> QED BY <1>3, <1>4, <1>5 DEF ServedOnce, Serving

(***************************************************************************)
(* Counting the outstanding jobs                                           *)
(***************************************************************************)

\* The jobs of a request can be counted, and the count is zero exactly when there
\* are none: only one worker has any to put, and the ring and the threads are
\* finite.
LEMMA OutstandingType ==
  ASSUME ServerInv, ServedOnce, NEW c \in Conns
  PROVE  /\ IsFiniteSet(Unput(c)) /\ Cardinality(Unput(c)) \in Nat
         /\ IsFiniteSet(InRing(c)) /\ Cardinality(InRing(c)) \in Nat
         /\ IsFiniteSet(InThread(c)) /\ Cardinality(InThread(c)) \in Nat
         /\ Outstanding(c) \in Nat
         /\ Outstanding(c) = 0 <=> Unput(c) = {} /\ InRing(c) = {} /\ InThread(c) = {}
<1>1. IsFiniteSet(InThread(c))
  BY ThreadAssumption, FS_Subset DEF InThread
<1>2. IsFiniteSet(InRing(c))
  <2>1. Queued \in Nat
    BY QueuedType, SizeAssumption DEF ServerInv, RingInv
  <2>2. IsFiniteSet(1 .. Queued)
    BY <2>1, FS_Interval
  <2> QED BY <2>2, FS_Subset DEF InRing
<1>3. IsFiniteSet(Unput(c))
  <2>1. CASE Unput(c) = {}
    BY <2>1, FS_EmptySet
  <2>2. CASE Unput(c) # {}
    <3>1. PICK u \in Unput(c) : TRUE
      BY <2>2
    <3>2. \A x \in Unput(c) : x \in {u[1]} \X Counts
      <4> SUFFICES ASSUME NEW x \in Unput(c) PROVE x \in {u[1]} \X Counts
        OBVIOUS
      <4>1. u[1] \in Workers /\ Serving(u[1], c) /\ x[1] \in Workers /\ Serving(x[1], c)
        BY DEF Unput, Serving
      <4>2. x[1] = u[1]
        BY <4>1 DEF ServedOnce
      <4> QED BY <4>2 DEF Unput
    <3>3. IsFiniteSet(Counts)
      BY MaxNamesAssumption, FS_Interval DEF Counts
    <3>4. IsFiniteSet({u[1]} \X Counts)
      BY <3>3, FS_Singleton, FS_Product
    <3> QED BY <3>2, <3>4, FS_Subset
  <2> QED BY <2>1, <2>2
<1> DEFINE a == Cardinality(Unput(c))
           b == Cardinality(InRing(c))
           d == Cardinality(InThread(c))
<1>4. a \in Nat /\ b \in Nat /\ d \in Nat
  BY <1>1, <1>2, <1>3, FS_CardinalityType
<1>5. /\ a = 0 <=> Unput(c) = {}
      /\ b = 0 <=> InRing(c) = {}
      /\ d = 0 <=> InThread(c) = {}
  BY <1>1, <1>2, <1>3, FS_EmptySet
<1>6. Outstanding(c) = a + b + d
  BY DEF Outstanding
<1> HIDE DEF a, b, d
<1>7. Outstanding(c) \in Nat /\ (Outstanding(c) = 0 <=> a = 0 /\ b = 0 /\ d = 0)
  BY <1>4, <1>6
<1> QED BY <1>1, <1>2, <1>3, <1>4, <1>5, <1>7 DEF a, b, d

\* A step that leaves the window of the ring alone leaves its jobs.
LEMMA SameInRing ==
  ASSUME Queued' = Queued, Contents' = Contents, NEW c
  PROVE  InRing(c)' = InRing(c)
BY DEF InRing

\* A job put is one more job of its request in the ring.
LEMMA PutInRing ==
  ASSUME ServerInv, RingInv', NEW j \in Jobs, Put(j), NEW c \in Conns
  PROVE  /\ Queued + 1 \notin InRing(c)
         /\ InRing(c)' = IF IsTcp(j) /\ j.req = c THEN InRing(c) \cup {Queued + 1}
                                                  ELSE InRing(c)
<1>1. RingInv /\ RingTypeOK
  BY DEF ServerInv, RingInv
<1>2. Queued \in Nat /\ Queued' = Queued + 1
  BY <1>1, QueuedType, PutWindow, SizeAssumption
<1>3. Contents' = Append(Contents, j) /\ Contents \in Seq(Jobs) /\ Len(Contents) = Queued
  BY <1>1, PutAppends, ContentsType
<1>4. /\ \A i \in 1 .. Queued : Contents'[i] = Contents[i]
      /\ Contents'[Queued + 1] = j
  BY <1>2, <1>3, AppendProperties
<1>5. Queued + 1 \notin InRing(c)
  BY <1>2 DEF InRing
<1>6. \A i : i \in InRing(c)' <=> \/ i \in InRing(c)
                                  \/ i = Queued + 1 /\ IsTcp(j) /\ j.req = c
  BY <1>2, <1>4 DEF InRing, IsTcp
<1> QED BY <1>5, <1>6

\* A job taken is one job less of its request in the ring; the others move up.
LEMMA TakeInRing ==
  ASSUME ServerInv, ServedOnce, NEW t \in DnsThreads, Take(t), NEW c \in Conns
  PROVE  /\ dns_array[iget] \in Jobs
         /\ Cardinality(InRing(c)') =
              IF IsTcp(dns_array[iget]) /\ dns_array[iget].req = c
              THEN Cardinality(InRing(c)) - 1 ELSE Cardinality(InRing(c))
<1> DEFINE j == dns_array[iget]
<1>1. RingInv /\ RingTypeOK
  BY DEF ServerInv, RingInv
<1>2. Queued \in Nat \ {0} /\ Queued' = Queued - 1
  BY <1>1, TakeWindow
<1>3. Contents' = Tail(Contents) /\ Contents \in Seq(Jobs) /\ Len(Contents) = Queued
      /\ Contents # <<>> /\ Head(Contents) = j
  BY <1>1, TakeRemovesHead, ContentsType
<1>4. Contents[1] = j /\ \A i \in 1 .. Queued - 1 : Contents'[i] = Contents[i + 1]
  BY <1>2, <1>3, HeadTailProperties
<1>5. j \in Jobs
  BY <1>2, <1>3, <1>4, ElementOfSeq
<1> DEFINE S == InRing(c) \ {1}
           T == InRing(c)'
           f == [i \in S |-> i - 1]
<1>6. 1 \in InRing(c) <=> IsTcp(j) /\ j.req = c
  BY <1>2, <1>4 DEF InRing
<1>7. \A i \in Int : i \in T <=> i + 1 \in S
  <2> SUFFICES ASSUME NEW i \in Int PROVE i \in T <=> i + 1 \in S
    OBVIOUS
  <2>1. i \in 1 .. Queued' <=> i + 1 \in 1 .. Queued /\ i + 1 # 1
    BY <1>2
  <2>2. i \in 1 .. Queued' => Contents'[i] = Contents[i + 1]
    BY <1>2, <1>4
  <2> QED BY <2>1, <2>2 DEF InRing, IsTcp
<1>8. S \subseteq Int /\ T \subseteq Int
  BY <1>2 DEF InRing
<1>9. IsFiniteSet(S) /\ Cardinality(S) = IF 1 \in InRing(c) THEN Cardinality(InRing(c)) - 1
                                                           ELSE Cardinality(InRing(c))
  BY OutstandingType, FS_RemoveElement
<1> HIDE DEF S, T, j
<1>10. ExistsBijection(S, T)
  <2>1. f \in [S -> T]
    BY <1>7, <1>8
  <2>2. \A a, b \in S : f[a] = f[b] => a = b
    BY <1>8
  <2>3. \A i \in T : \E a \in S : f[a] = i
    <3> SUFFICES ASSUME NEW i \in T PROVE \E a \in S : f[a] = i
      OBVIOUS
    <3>1. i + 1 \in S /\ f[i + 1] = i
      BY <1>7, <1>8
    <3> QED BY <3>1
  <2> QED BY <2>1, <2>2, <2>3
          DEF ExistsBijection, Bijection, Injection, Surjection, IsInjective
<1>11. Cardinality(T) = Cardinality(S)
  BY <1>9, <1>10, FS_Bijection
<1> QED BY <1>5, <1>6, <1>9, <1>11 DEF T, j

\* The count of a request stays when its jobs stay where they are ...
LEMMA SameOutstanding ==
  ASSUME NEW c, Unput(c)' = Unput(c), InRing(c)' = InRing(c), InThread(c)' = InThread(c)
  PROVE  Outstanding(c)' = Outstanding(c)
BY DEF Outstanding

\* ... a step that leaves the workers alone leaves the jobs they have to put ...
LEMMA SameUnput ==
  ASSUME UNCHANGED workerVars, NEW c
  PROVE  Unput(c)' = Unput(c)
BY DEF Unput, workerVars

\* ... and so does one of a worker that has none, before and after the step.
LEMMA NoneUnput ==
  ASSUME NEW w \in Workers, wpc[w] # "put", wpc'[w] # "put",
         \A v \in Workers : v # w => wpc'[v] = wpc[v] /\ wreq'[v] = wreq[v]
                                     /\ wmiss'[v] = wmiss[v] /\ wput'[v] = wput[v],
         NEW c
  PROVE  Unput(c)' = Unput(c)
<1>1. \A u : u \in Unput(c)' <=> u \in Unput(c)
  BY DEF Unput
<1> QED BY <1>1

\* A step of a thread that keeps its job, or ends one that is not counted.
LEMMA SameInThread ==
  ASSUME ServerInv, NEW t \in DnsThreads, NEW l, NEW j,
         dpc' = [dpc EXCEPT ![t] = l], job' = [job EXCEPT ![t] = j],
         \/ j = job[t] /\ (dpc[t] \in {"dnsrequest", "finish"} <=> l \in {"dnsrequest", "finish"})
         \/ j = NoJob /\ (IsTcp(job[t]) => dpc[t] \notin {"dnsrequest", "finish"}),
         NEW c
  PROVE  InThread(c)' = InThread(c)
<1>1. \A u \in DnsThreads : IF u = t THEN dpc'[u] = l /\ job'[u] = j
                                     ELSE dpc'[u] = dpc[u] /\ job'[u] = job[u]
  BY DEF ServerInv, TypeOK, DnsThreadTypeOK, RingTypeOK
<1>2. \A u : u \in InThread(c)' <=> u \in InThread(c)
  BY <1>1 DEF InThread, IsTcp
<1> QED BY <1>2

\* The thread whose job has been counted down holds a TCP job of a connection.
LEMMA ThreadReq ==
  ASSUME ServerInv, NEW t \in DnsThreads,
         dpc[t] \in {"finish", "check", "send", "close", "free"}
  PROVE  job[t] \in TcpJobs /\ job[t] # NoJob /\ IsTcp(job[t]) /\ job[t].req \in Conns
BY JobAssumption, JobsAssumption DEF ServerInv, ThreadShape, TcpJobs, IsTcp

\* When no count changes, no block is allocated or freed, and no thread comes to
\* the end of a request but by reading its count as zero, the counts are right.
LEMMA SameCounts ==
  ASSUME CountInv, UNCHANGED <<blk, number>>,
         \A c \in Conns : Outstanding(c)' = Outstanding(c),
         \A t \in DnsThreads : \A c \in Conns :
           job'[t] # NoJob /\ job'[t].req = c
             /\ dpc'[t] \in {"check", "send", "close", "free"} =>
           /\ blk[c] # "none"
           /\ dpc'[t] # "check" => Outstanding(c) = 0
  PROVE  CountInv'
<1>1. NumberCounts' /\ BlockOutlivesJobs'
  BY DEF CountInv, NumberCounts, BlockOutlivesJobs
<1>2. EndsLast'
  BY DEF EndsLast
<1> QED BY <1>1, <1>2 DEF CountInv

\* When no thread comes to the end of a request, least of all.
LEMMA SameCountsThreads ==
  ASSUME CountInv, UNCHANGED <<blk, number, dpc, job>>,
         \A c \in Conns : Outstanding(c)' = Outstanding(c)
  PROVE  CountInv'
BY SameCounts DEF CountInv, EndsLast

(***************************************************************************)
(* The DNS threads count                                                   *)
(***************************************************************************)

\* Taking a job moves it from the ring to the thread.
LEMMA TakeCounts ==
  ASSUME RequestInv, NEW t \in DnsThreads, TakeJob(t), UNCHANGED workerVars
  PROVE  CountInv'
<1> USE DEF RequestInv
<1> DEFINE j == dns_array[iget]
<1>1. /\ Take(t) /\ UNCHANGED <<blk, number>> /\ job[t] = NoJob
      /\ job' = [job EXCEPT ![t] = j] /\ dpc' = [dpc EXCEPT ![t] = "dnsrequest"]
  BY DEF TakeJob, Take, Ready, Goto, reqVars
<1>2. \A u \in DnsThreads : IF u = t THEN dpc'[u] = "dnsrequest" /\ job'[u] = j
                                     ELSE dpc'[u] = dpc[u] /\ job'[u] = job[u]
  BY <1>1 DEF ServerInv, TypeOK, DnsThreadTypeOK, RingTypeOK
<1> HIDE DEF j
<1>3. ASSUME NEW c \in Conns PROVE Outstanding(c)' = Outstanding(c)
  <2> DEFINE mine == IsTcp(j) /\ j.req = c
             a == Cardinality(Unput(c))
             b == Cardinality(InRing(c))
             d == Cardinality(InThread(c))
  <2>1. t \notin InThread(c)
    BY <1>1 DEF InThread, IsTcp
  <2>2. \A u : u \in InThread(c)' <=> u \in InThread(c) \/ (u = t /\ mine)
    BY <1>2, <2>1 DEF InThread, IsTcp
  <2>3. InThread(c)' = IF mine THEN InThread(c) \cup {t} ELSE InThread(c)
    BY <2>2
  <2>4. a \in Nat /\ b \in Nat /\ d \in Nat /\ IsFiniteSet(InThread(c))
    BY OutstandingType
  <2>5. Cardinality(InThread(c)') = IF mine THEN d + 1 ELSE d
    BY <2>1, <2>3, <2>4, FS_AddElement
  <2>6. Cardinality(InRing(c)') = IF mine THEN b - 1 ELSE b
    BY <1>1, TakeInRing DEF j
  <2>7. Unput(c)' = Unput(c)
    BY SameUnput
  <2>8. Outstanding(c) = a + b + d
        /\ Outstanding(c)' = a + Cardinality(InRing(c)') + Cardinality(InThread(c)')
    BY <2>7 DEF Outstanding
  <2> HIDE DEF a, b, d, mine
  <2> QED BY <2>4, <2>5, <2>6, <2>8
<1> QED BY <1>1, <1>2, <1>3, SameCounts DEF CountInv, EndsLast

\* Counting down takes one job off the count and off the outstanding ones.
LEMMA FinishCounts ==
  ASSUME RequestInv, NEW t \in DnsThreads, Finish(t), UNCHANGED workerVars
  PROVE  CountInv'
<1> USE DEF RequestInv
<1>1. /\ dpc[t] = "finish" /\ UNCHANGED <<blk, job>> /\ UNCHANGED ringVars
      /\ number' = [number EXCEPT ![job[t].req] = @ - 1] /\ dpc' = [dpc EXCEPT ![t] = "check"]
  BY DEF Finish, Goto, ringVars
<1>2. PICK r \in Conns : r = job[t].req /\ job[t] # NoJob /\ IsTcp(job[t])
  BY <1>1, ThreadReq
<1>3. \A u \in DnsThreads : dpc'[u] = IF u = t THEN "check" ELSE dpc[u]
  BY <1>1 DEF ServerInv, TypeOK, DnsThreadTypeOK
<1>4. Queued' = Queued /\ Contents' = Contents
  BY <1>1, SameWindow DEF ringVars
<1>5. t \in InThread(r)
  BY <1>1, <1>2 DEF InThread
<1>6. \A c \in Conns : InThread(c)' = IF c = r THEN InThread(c) \ {t} ELSE InThread(c)
  <2> SUFFICES ASSUME NEW c \in Conns
               PROVE  InThread(c)' = IF c = r THEN InThread(c) \ {t} ELSE InThread(c)
    OBVIOUS
  <2>1. \A u : u \in InThread(c)' <=> u \in InThread(c) /\ ~(u = t /\ c = r)
    BY <1>1, <1>2, <1>3 DEF InThread
  <2> QED BY <2>1
<1>7. ASSUME NEW c \in Conns
      PROVE  Outstanding(c)' = IF c = r THEN Outstanding(c) - 1 ELSE Outstanding(c)
  <2>1. Unput(c)' = Unput(c) /\ InRing(c)' = InRing(c)
    BY <1>4, SameUnput, SameInRing
  <2>2. CASE c = r
    <3> DEFINE a == Cardinality(Unput(c))
               b == Cardinality(InRing(c))
               d == Cardinality(InThread(c))
    <3>1. Cardinality(InThread(c)') = d - 1
      BY <1>5, <1>6, <2>2, OutstandingType, FS_RemoveElement
    <3>2. a \in Nat /\ b \in Nat /\ d \in Nat
      BY OutstandingType
    <3>3. Outstanding(c) = a + b + d /\ Outstanding(c)' = a + b + Cardinality(InThread(c)')
      BY <2>1 DEF Outstanding
    <3> HIDE DEF a, b, d
    <3> QED BY <2>2, <3>1, <3>2, <3>3
  <2>3. CASE c # r
    BY <1>6, <2>1, <2>3, SameOutstanding
  <2> QED BY <2>2, <2>3
<1>8. Outstanding(r) \in Nat \ {0}
  BY <1>5, OutstandingType
<1>9. blk[r] = "live" /\ number[r] = Outstanding(r)
  BY <1>8 DEF CountInv, BlockOutlivesJobs, NumberCounts
<1>10. NumberCounts'
  BY <1>1, <1>2, <1>7, <1>9 DEF CountInv, NumberCounts, ServerInv, TypeOK, DnsThreadTypeOK
<1>11. BlockOutlivesJobs'
  BY <1>1, <1>7, <1>9 DEF CountInv, BlockOutlivesJobs
<1>12. EndsLast'
  <2> SUFFICES ASSUME NEW u \in DnsThreads, NEW c \in Conns, job'[u] # NoJob, job'[u].req = c
               PROVE  /\ dpc'[u] \in {"check", "send", "close", "free"} => blk'[c] # "none"
                      /\ dpc'[u] \in {"send", "close", "free"} => Outstanding(c)' = 0
    BY DEF EndsLast
  <2>1. CASE u = t
    BY <1>1, <1>2, <1>3, <1>9, <2>1
  <2>2. CASE u # t
    BY <1>1, <1>3, <1>7, <1>8, <2>2 DEF CountInv, EndsLast
  <2> QED BY <2>1, <2>2
<1> QED BY <1>10, <1>11, <1>12 DEF CountInv

\* A step of thread t leaves the other threads alone.
LEMMA OtherThreads ==
  ASSUME ServerInv, NEW t \in DnsThreads, DnsStep(t), NEW u \in DnsThreads, u # t
  PROVE  dpc'[u] = dpc[u] /\ job'[u] = job[u] /\ missindex'[u] = missindex[u]
<1> USE DEF ServerInv, TypeOK, DnsThreadTypeOK, RingTypeOK
<1>1. CASE TakeJob(t) \/ UdpDnsRequest(t) \/ CheckNonZero(t) \/ Free(t)
  BY <1>1 DEF TakeJob, Take, UdpDnsRequest, CheckNonZero, Free, JobDone, Goto
<1>2. CASE TcpDnsRequest(t) \/ Finish(t) \/ CheckZero(t) \/ Send(t) \/ CloseConn(t)
  BY <1>2 DEF TcpDnsRequest, Finish, CheckZero, Send, CloseConn, Goto, ringVars
<1>3. CASE WaitForJob(t) \/ SendFails(t) \/ FreeAborts(t)
  BY <1>3 DEF WaitForJob, SendFails, FreeAborts, Wait, SpuriousWakeup, Halt, offRingVars,
              threadVars
<1> QED BY <1>1, <1>2, <1>3 DEF DnsStep, WorkOnJob

\* Only taking a job moves the window of the ring.
LEMMA DnsStepWindow ==
  ASSUME NEW t \in DnsThreads, DnsStep(t), ~TakeJob(t)
  PROVE  Queued' = Queued /\ Contents' = Contents
<1>1. CASE JobDone(t)
  BY <1>1, SameWindow DEF JobDone
<1>2. CASE Wait(t) \/ SpuriousWakeup(t) \/ Halt
  BY <1>2, SameWindow DEF Wait, SpuriousWakeup, Halt
<1>3. CASE UNCHANGED ringVars
  BY <1>3, SameWindow DEF ringVars
<1> QED BY <1>1, <1>2, <1>3 DEF DnsStep, WorkOnJob, WaitForJob, UdpDnsRequest, Finish,
     TcpDnsRequest, CheckZero, CheckNonZero, Send, SendFails, CloseConn, Free, FreeAborts

\* Every other step of a DNS thread leaves the outstanding jobs alone: it ends a
\* job that is not counted, or one that has been counted down.
LEMMA DnsStepOutstanding ==
  ASSUME RequestInv, NEW t \in DnsThreads, DnsStep(t), ~TakeJob(t), ~Finish(t),
         UNCHANGED workerVars
  PROVE  \A c \in Conns : Outstanding(c)' = Outstanding(c)
<1> USE DEF RequestInv
<1>1. Queued' = Queued /\ Contents' = Contents
  BY DnsStepWindow
<1>2. \A c \in Conns : InThread(c)' = InThread(c)
  <2>1. CASE UNCHANGED <<dpc, job>>
    BY <2>1 DEF InThread
  <2>2. CASE UdpDnsRequest(t)
    <3>1. ~IsTcp(job[t])
      BY <2>2 DEF UdpDnsRequest, IsTcp
    <3> QED BY <2>2, <3>1, SameInThread DEF UdpDnsRequest, JobDone, Goto
  <2>3. ASSUME NEW l, dpc' = [dpc EXCEPT ![t] = l], job' = job,
               dpc[t] \in {"dnsrequest", "finish"} <=> l \in {"dnsrequest", "finish"}
        PROVE  \A c \in Conns : InThread(c)' = InThread(c)
    <3>1. job' = [job EXCEPT ![t] = job[t]]
      BY <2>3 DEF ServerInv, TypeOK, RingTypeOK
    <3> QED BY <2>3, <3>1, SameInThread
  <2>4. CASE TcpDnsRequest(t)
    BY <2>3, <2>4 DEF TcpDnsRequest, Goto, ringVars
  <2>5. CASE CheckZero(t) \/ Send(t) \/ CloseConn(t)
    BY <2>3, <2>5 DEF CheckZero, Send, CloseConn, Goto, ringVars
  <2>6. CASE CheckNonZero(t) \/ Free(t)
    BY <2>6, SameInThread DEF CheckNonZero, Free, JobDone, Goto
  <2>7. CASE WaitForJob(t) \/ SendFails(t) \/ FreeAborts(t)
    <3>1. UNCHANGED <<dpc, job>>
      BY <2>7 DEF WaitForJob, SendFails, FreeAborts, Wait, SpuriousWakeup, Halt,
                  offRingVars, threadVars
    <3> QED BY <2>1, <3>1
  <2> QED BY <2>2, <2>4, <2>5, <2>6, <2>7 DEF DnsStep, WorkOnJob
<1> QED BY <1>1, <1>2, SameInRing, SameUnput, SameOutstanding

\* A thread that reads its count as zero is right: with the block freed there can
\* be no job left, and otherwise the count is exact.
LEMMA SeesZeroIsZero ==
  ASSUME RequestInv, NEW t \in DnsThreads, CheckZero(t), NEW c \in Conns, job[t].req = c
  PROVE  Outstanding(c) = 0 /\ blk[c] # "none"
<1> USE DEF RequestInv
<1>1. job[t] # NoJob /\ dpc[t] = "check" /\ SeesZero(c)
  BY ThreadReq DEF CheckZero
<1>2. blk[c] # "none"
  BY <1>1 DEF CountInv, EndsLast
<1>3. Outstanding(c) \in Nat
  BY OutstandingType
<1>4. blk[c] = "freed" \/ blk[c] = "live"
  BY <1>2 DEF ServerInv, TypeOK, DnsThreadTypeOK
<1>5. CASE blk[c] = "freed"
  BY <1>2, <1>3, <1>5 DEF CountInv, BlockOutlivesJobs
<1>6. CASE blk[c] = "live"
  BY <1>1, <1>2, <1>6 DEF CountInv, NumberCounts, SeesZero
<1> QED BY <1>4, <1>5, <1>6

\* Freeing the block: no job is outstanding.
LEMMA FreeCounts ==
  ASSUME RequestInv, NEW t \in DnsThreads, Free(t), UNCHANGED workerVars
  PROVE  CountInv'
<1> USE DEF RequestInv
<1>1. \A c \in Conns : Outstanding(c)' = Outstanding(c)
  <2>1. ~TakeJob(t) /\ ~Finish(t)
    BY ThreadReq DEF Free, TakeJob, Take, Ready, Finish
  <2> QED BY <2>1, DnsStepOutstanding DEF DnsStep, WorkOnJob
<1>2. PICK r \in Conns : r = job[t].req /\ job[t] # NoJob
  BY ThreadReq DEF Free
<1>3. Outstanding(r) = 0
  BY <1>2 DEF Free, CountInv, EndsLast
<1>4. /\ blk' = [blk EXCEPT ![r] = "freed"] /\ number' = number
      /\ dpc' = [dpc EXCEPT ![t] = "loop"] /\ job' = [job EXCEPT ![t] = NoJob]
  BY <1>2 DEF Free, JobDone, Goto
<1>5. \A c \in Conns : blk'[c] = IF c = r THEN "freed" ELSE blk[c]
  BY <1>4 DEF ServerInv, TypeOK, DnsThreadTypeOK
<1>6. \A u \in DnsThreads : IF u = t THEN job'[u] = NoJob
                                     ELSE job'[u] = job[u] /\ dpc'[u] = dpc[u]
  BY <1>4 DEF ServerInv, TypeOK, DnsThreadTypeOK, RingTypeOK
<1>7. NumberCounts'
  BY <1>1, <1>4, <1>5 DEF CountInv, NumberCounts
<1>8. BlockOutlivesJobs'
  BY <1>1, <1>3, <1>5 DEF CountInv, BlockOutlivesJobs
<1>9. EndsLast'
  BY <1>1, <1>5, <1>6 DEF CountInv, EndsLast
<1> QED BY <1>7, <1>8, <1>9 DEF CountInv

\* Every step of a DNS thread.
LEMMA DnsStepCounts ==
  ASSUME RequestInv, NEW t \in DnsThreads, DnsStep(t), UNCHANGED workerVars
  PROVE  CountInv'
<1> USE DEF RequestInv
<1>1. CASE TakeJob(t) \/ Finish(t) \/ Free(t)
  BY <1>1, TakeCounts, FinishCounts, FreeCounts
<1>2. CASE ~(TakeJob(t) \/ Finish(t) \/ Free(t))
  <2>1. \A c \in Conns : Outstanding(c)' = Outstanding(c)
    BY <1>2, DnsStepOutstanding
  <2>2. UNCHANGED <<blk, number>>
    BY <1>2 DEF DnsStep, WorkOnJob, WaitForJob, UdpDnsRequest, TcpDnsRequest, CheckZero,
       CheckNonZero, Send, SendFails, CloseConn, FreeAborts, offRingVars, reqVars
  <2>3. \/ job'[t] = NoJob
        \/ job'[t] = job[t] /\ dpc'[t] = dpc[t]
        \/ job'[t] = job[t] /\ dpc'[t] = "finish"
        \/ job'[t] = job[t] /\ CheckZero(t)
        \/ job'[t] = job[t] /\ dpc[t] \in {"send", "close"} /\ dpc'[t] \in {"close", "free"}
    <3>1. CASE UdpDnsRequest(t) \/ CheckNonZero(t)
      BY <3>1 DEF UdpDnsRequest, CheckNonZero, JobDone, Goto, ServerInv, TypeOK,
                  DnsThreadTypeOK, RingTypeOK
    <3>2. CASE WaitForJob(t) \/ SendFails(t) \/ FreeAborts(t)
      BY <3>2 DEF WaitForJob, SendFails, FreeAborts, Wait, SpuriousWakeup, Halt,
                  offRingVars, threadVars
    <3>3. CASE TcpDnsRequest(t) \/ CheckZero(t) \/ Send(t) \/ CloseConn(t)
      BY <3>3 DEF TcpDnsRequest, CheckZero, Send, CloseConn, Goto, ringVars, ServerInv,
                  TypeOK, DnsThreadTypeOK
    <3> QED BY <1>2, <3>1, <3>2, <3>3 DEF DnsStep, WorkOnJob
  <2>4. ASSUME NEW u \in DnsThreads, NEW c \in Conns, job'[u] # NoJob, job'[u].req = c,
               dpc'[u] \in {"check", "send", "close", "free"}
        PROVE  blk[c] # "none" /\ (dpc'[u] # "check" => Outstanding(c) = 0)
    BY <2>3, <2>4, OtherThreads, SeesZeroIsZero DEF CountInv, EndsLast
  <2> QED BY <2>1, <2>2, <2>4, SameCounts
<1> QED BY <1>1, <1>2

(***************************************************************************)
(* The workers count                                                       *)
(***************************************************************************)

\* The locals of the other workers, when worker w goes to l.
LEMMA OthersIdle ==
  ASSUME ServerInv, NEW w \in Workers, Idle(w), NEW v \in Workers, v # w
  PROVE  wpc'[v] = wpc[v] /\ wreq'[v] = wreq[v] /\ wmiss'[v] = wmiss[v] /\ wput'[v] = wput[v]
         /\ wfd'[v] = wfd[v] /\ wnames'[v] = wnames[v] /\ wips'[v] = wips[v]
BY DEF Idle, ServerInv, TypeOK, TcpTypeOK

\* Allocating the block: the count starts at the number of jobs to put, and no job
\* of the request is anywhere else.
LEMMA ReplyMissCounts ==
  ASSUME RequestInv, ServerInv', NEW w \in Workers, ReplyMiss(w)
  PROVE  CountInv'
<1> USE DEF RequestInv
<1>1. /\ wpc[w] = "reply" /\ wmiss[w] # <<>> /\ wput[w] = 0
      /\ wpc' = [wpc EXCEPT ![w] = "put"]
      /\ UNCHANGED <<ringVars, threadVars, wreq, wmiss, wput>>
      /\ blk' = [blk EXCEPT ![wreq[w]] = "live"]
      /\ number' = [number EXCEPT ![wreq[w]] = Len(wmiss[w])]
  BY DEF ReplyMiss, Total, ServerInv, WorkerShape
<1>2. PICK r \in Conns : wreq[w] = r /\ blk[r] = "none"
  BY <1>1 DEF ServerInv, WorkerShape, ServedOnce
<1>3. \A v \in Workers : wpc'[v] = IF v = w THEN "put" ELSE wpc[v]
  BY <1>1 DEF ServerInv, TypeOK, TcpTypeOK
<1>4. PICK n \in Nat \ {0} : n = Len(wmiss[w]) /\ n <= MAXNAMES
  <2>1. wmiss[w] \in Seq(Nodes) /\ wips[w] \in Seq(Ips) /\ wnames[w] \in Seq(AllNames)
    BY DEF ServerInv, TypeOK, TcpTypeOK
  <2>2. Len(wmiss[w]) \in Nat \ {0} /\ Len(wips[w]) \in Nat /\ Len(wnames[w]) \in Nat
    BY <1>1, <2>1, EmptySeq
  <2>3. /\ Len(wnames[w]) <= MAXNAMES /\ Len(wips[w]) <= Len(wnames[w])
        /\ Len(wmiss[w]) <= Len(wips[w])
    BY DEF ServerInv, WorkerShape
  <2> QED BY <2>2, <2>3, MaxNamesAssumption
<1>5. Outstanding(r) = 0 /\ Unput(r) = {} /\ InRing(r) = {} /\ InThread(r) = {}
  <2>1. ~(Outstanding(r) > 0) /\ Outstanding(r) \in Nat
    BY <1>2, OutstandingType DEF CountInv, BlockOutlivesJobs
  <2>2. Outstanding(r) = 0
    BY <2>1
  <2> QED BY <2>2, OutstandingType
<1>6. \A c \in Conns : InRing(c)' = InRing(c) /\ InThread(c)' = InThread(c)
  BY <1>1, SameWindow, SameInRing DEF ringVars, threadVars, InThread
<1>7. \A c \in Conns : c # r => Unput(c)' = Unput(c)
  <2> SUFFICES ASSUME NEW c \in Conns, c # r PROVE Unput(c)' = Unput(c)
    OBVIOUS
  <2>1. \A u : u \in Unput(c)' <=> u \in Unput(c)
    BY <1>1, <1>2, <1>3 DEF Unput
  <2> QED BY <2>1
<1>8. Cardinality(Unput(r)') = n
  <2> DEFINE S == 0 .. n - 1
             T == Unput(r)'
             f == [k \in S |-> <<w, k>>]
  <2>1. S \subseteq Counts
    BY <1>4, MaxNamesAssumption DEF Counts
  <2>2. \A v \in Workers : v # w => ~(wpc[v] = "put" /\ wreq[v] = r)
    BY <1>1, <1>2 DEF ServedOnce, Serving
  <2>3. \A v \in Workers : \A k \in Counts : <<v, k>> \in T <=> v = w /\ k \in S
    BY <1>1, <1>2, <1>3, <1>4, <2>2 DEF Unput
  <2>4. \A u \in T : u = <<u[1], u[2]>> /\ u[1] \in Workers /\ u[2] \in Counts
    BY DEF Unput
  <2>5. \A u \in T : u[2] \in S /\ u = <<w, u[2]>>
    BY <2>3, <2>4
  <2> HIDE DEF S, T
  <2>6. f \in [S -> T]
    BY <2>1, <2>3
  <2>7. \A a, b \in S : f[a] = f[b] => a = b
    OBVIOUS
  <2>8. \A u \in T : \E k \in S : f[k] = u
    BY <2>5
  <2>9. ExistsBijection(S, T)
    BY <2>6, <2>7, <2>8 DEF ExistsBijection, Bijection, Injection, Surjection, IsInjective
  <2>10. IsFiniteSet(S) /\ Cardinality(S) = n
    <3>1. 0 \in Int /\ n - 1 \in Int /\ ~(0 > n - 1) /\ (n - 1) - 0 + 1 = n
      OBVIOUS
    <3> QED BY <3>1, FS_Interval DEF S
  <2> QED BY <2>9, <2>10, FS_Bijection DEF T
<1>9. Outstanding(r)' = n
  <2>1. Outstanding(r)' =
          Cardinality(Unput(r)') + Cardinality(InRing(r)) + Cardinality(InThread(r))
    BY <1>6 DEF Outstanding
  <2>2. Cardinality(InRing(r)) = 0 /\ Cardinality(InThread(r)) = 0
    BY <1>5, FS_EmptySet
  <2> QED BY <1>4, <1>8, <2>1, <2>2
<1>10. \A c \in Conns : c # r => Outstanding(c)' = Outstanding(c)
  BY <1>6, <1>7, SameOutstanding
<1>11. \A c \in Conns : /\ blk'[c] = IF c = r THEN "live" ELSE blk[c]
                        /\ number'[c] = IF c = r THEN n ELSE number[c]
  BY <1>1, <1>2, <1>4 DEF ServerInv, TypeOK, DnsThreadTypeOK
<1>12. NumberCounts' /\ BlockOutlivesJobs'
  BY <1>9, <1>10, <1>11 DEF CountInv, NumberCounts, BlockOutlivesJobs
<1>13. EndsLast'
  BY <1>1, <1>2, <1>10, <1>11 DEF CountInv, EndsLast, ringVars, threadVars
<1> QED BY <1>12, <1>13 DEF CountInv

\* Putting a job moves it from the worker's list to the ring.
LEMMA PutJobCounts ==
  ASSUME RequestInv, ServerInv', NEW w \in Workers, PutJob(w)
  PROVE  CountInv'
<1> USE DEF RequestInv
<1>1. /\ wpc[w] = "put" /\ Put(MissJob(w)) /\ UNCHANGED <<threadVars, reqVars, job>>
      /\ MissJob(w) \in Jobs
  BY MissJobType DEF PutJob, Put, offRingVars
<1>2. PICK r \in Conns : wreq[w] = r
  BY <1>1 DEF ServerInv, WorkerShape
<1>3. IsTcp(MissJob(w)) /\ MissJob(w).req = r
  BY <1>1, <1>2, JobAssumption DEF IsTcp, MissJob
<1>4. PICK k \in Counts : k = wput[w] /\ k < Len(wmiss[w]) /\ Len(wmiss[w]) \in Nat
  <2>1. MissJob(w) \in TcpJobs
    BY <1>1, <1>3, JobsAssumption DEF UdpJobs, IsTcp
  <2>2. wput[w] \in Counts
    BY <2>1 DEF TcpJobs, MissJob, Count
  <2>3. wmiss[w] \in Seq(Nodes)
    BY DEF ServerInv, TypeOK, TcpTypeOK
  <2>4. wput[w] < Len(wmiss[w]) /\ Len(wmiss[w]) \in Nat
    BY <1>1, <2>3 DEF ServerInv, WorkerShape
  <2> QED BY <2>2, <2>4
<1>5. <<w, k>> \in Unput(r)
  BY <1>1, <1>2, <1>4 DEF Unput, Counts
<1>6. \A v \in Workers : v # w => wpc'[v] = wpc[v] /\ wreq'[v] = wreq[v]
                                  /\ wmiss'[v] = wmiss[v] /\ wput'[v] = wput[v]
  BY OthersIdle DEF PutJob, ServerInv, TypeOK, TcpTypeOK
<1>7. \/ wpc'[w] = "accept" /\ k + 1 = Len(wmiss[w])
      \/ /\ wpc'[w] = "put" /\ wreq'[w] = r /\ wmiss'[w] = wmiss[w] /\ wput'[w] = k + 1
  BY <1>1, <1>2, <1>4 DEF PutJob, Idle, ServerInv, TypeOK, TcpTypeOK
<1>8. \A c \in Conns : Unput(c)' = IF c = r THEN Unput(c) \ {<<w, k>>} ELSE Unput(c)
  <2> SUFFICES ASSUME NEW c \in Conns
               PROVE  Unput(c)' = IF c = r THEN Unput(c) \ {<<w, k>>} ELSE Unput(c)
    OBVIOUS
  <2>1. ASSUME NEW v \in Workers, NEW i \in Counts
        PROVE  <<v, i>> \in Unput(c)' <=> <<v, i>> \in Unput(c) /\ ~(<<v, i>> = <<w, k>> /\ c = r)
    <3>1. CASE v # w
      BY <1>6, <3>1 DEF Unput
    <3>2. CASE v = w
      BY <1>1, <1>2, <1>4, <1>7, <3>2 DEF Unput, Counts
    <3> QED BY <3>1, <3>2
  <2>2. Unput(c) \subseteq Workers \X Counts /\ Unput(c)' \subseteq Workers \X Counts
    BY DEF Unput
  <2>3. \A u : u \in Unput(c)' <=> u \in Unput(c) /\ ~(u = <<w, k>> /\ c = r)
    BY <2>1, <2>2
  <2> QED BY <2>3
<1>9. \A c \in Conns : Outstanding(c)' = Outstanding(c)
  <2> SUFFICES ASSUME NEW c \in Conns PROVE Outstanding(c)' = Outstanding(c)
    OBVIOUS
  <2>1. InThread(c)' = InThread(c)
    BY <1>1 DEF InThread, threadVars
  <2>2. /\ Queued + 1 \notin InRing(c)
        /\ InRing(c)' = IF c = r THEN InRing(c) \cup {Queued + 1} ELSE InRing(c)
    BY <1>1, <1>3, PutInRing DEF ServerInv
  <2>3. CASE c # r
    BY <1>8, <2>1, <2>2, <2>3, SameOutstanding
  <2>4. CASE c = r
    <3> DEFINE a == Cardinality(Unput(c))
               b == Cardinality(InRing(c))
               d == Cardinality(InThread(c))
    <3>1. Cardinality(Unput(c)') = a - 1
      BY <1>5, <1>8, <2>4, OutstandingType, FS_RemoveElement
    <3>2. Cardinality(InRing(c)') = b + 1
      BY <2>2, <2>4, OutstandingType, FS_AddElement
    <3>3. a \in Nat /\ b \in Nat /\ d \in Nat
      BY OutstandingType
    <3>4. Outstanding(c) = a + b + d
          /\ Outstanding(c)' = Cardinality(Unput(c)') + Cardinality(InRing(c)') + d
      BY <2>1 DEF Outstanding
    <3> HIDE DEF a, b, d
    <3> QED BY <3>1, <3>2, <3>3, <3>4
  <2> QED BY <2>3, <2>4
<1> QED BY <1>1, <1>9, SameCountsThreads DEF threadVars, reqVars

\* Every step of a worker.
LEMMA WorkerStepCounts ==
  ASSUME RequestInv, ServerInv', NEW w \in Workers, WorkerStep(w)
  PROVE  CountInv'
<1> USE DEF RequestInv
<1>1. ASSUME UNCHANGED <<blk, number, dpc, job, iget, iput, dns_array>>,
             status = "full" <=> status' = "full",
             \A c \in Conns : Unput(c)' = Unput(c)
      PROVE  CountInv'
  <2>1. \A c \in Conns : Outstanding(c)' = Outstanding(c)
    BY <1>1, SameWindow, SameInRing, SameOutstanding DEF InThread
  <2> QED BY <1>1, <2>1, SameCountsThreads
<1>2. CASE NullBuffer(w) \/ OverwriteCrash(w) \/ ReplyKilled(w)
  BY <1>1, <1>2, SameUnput DEF NullBuffer, OverwriteCrash, ReplyKilled, Halt, offRingVars, threadVars,
                               reqVars
<1>3. ASSUME UNCHANGED <<ringVars, threadVars, reqVars>>, wpc[w] # "put", wpc'[w] # "put",
             \A v \in Workers : v # w => wpc'[v] = wpc[v] /\ wreq'[v] = wreq[v]
                                         /\ wmiss'[v] = wmiss[v] /\ wput'[v] = wput[v]
      PROVE  CountInv'
  BY <1>1, <1>3, NoneUnput DEF ringVars, threadVars, reqVars
<1>4. CASE Reject(w) \/ ReplyHit(w)
  <2>1. wpc[w] # "put" /\ wpc'[w] # "put"
    BY <1>4 DEF Reject, ReplyHit, Idle, ServerInv, TypeOK, TcpTypeOK
  <2> QED BY <1>3, <1>4, <2>1, OthersIdle DEF Reject, ReplyHit
<1>5. CASE Accept(w) \/ ReadBody(w) \/ Overwrite(w) \/ ZeroLength(w)
  BY <1>3, <1>5 DEF Accept, ReadBody, Overwrite, ZeroLength, sharedVars, ServerInv, TypeOK, TcpTypeOK
<1>6. CASE Search(w)
  <2>1. /\ UNCHANGED <<wreq, wput, ringVars, threadVars, reqVars>>
        /\ wmiss' = wmiss \/ \E m : wmiss' = [wmiss EXCEPT ![w] = m]
        /\ \E l \in {"reply", "search"} : wpc' = [wpc EXCEPT ![w] = l]
        /\ wpc[w] = "search"
    BY <1>6 DEF Search, sharedVars
  <2> QED BY <1>3, <2>1 DEF ServerInv, TypeOK, TcpTypeOK
<1> QED BY <1>2, <1>4, <1>5, <1>6, ReplyMissCounts, PutJobCounts DEF WorkerStep, ServeConn

(***************************************************************************)
(* The invariant, and what it shows                                        *)
(***************************************************************************)

\* A step that leaves the workers, the threads and the blocks alone, and puts at
\* most a job without a request into the ring.
LEMMA UdpStepCounts ==
  ASSUME RequestInv, ServerInv', UNCHANGED <<workerVars, threadVars, reqVars, job>>,
         UdpStep \/ UNCHANGED ringVars
  PROVE  CountInv'
<1> USE DEF RequestInv
<1>1. \A c \in Conns : InRing(c)' = InRing(c)
  <2>1. CASE UNCHANGED ringVars
    BY <2>1, SameWindow, SameInRing DEF ringVars
  <2>2. CASE UdpPut
    <3> DEFINE j == [tcp_or_udp |-> "udp", domain |-> Head(umiss)]
    <3>1. j \in Jobs /\ ~IsTcp(j) /\ Put(j)
      BY <2>2, UdpJobType DEF UdpPut, IsTcp
    <3> HIDE DEF j
    <3> QED BY <3>1, PutInRing DEF ServerInv
  <2>3. CASE UdpRecvFails
    BY <2>3, SameWindow, SameInRing DEF UdpRecvFails, Halt
  <2>4. CASE UdpStep /\ ~UdpPut /\ ~UdpRecvFails
    BY <2>1, <2>4 DEF UdpStep, UdpWork, UdpRecv, UdpSearch, UdpSend, UdpSendFails, sharedVars
  <2> QED BY <2>1, <2>2, <2>3, <2>4
<1>2. \A c \in Conns : InThread(c)' = InThread(c)
  BY DEF InThread, threadVars
<1>3. \A c \in Conns : Outstanding(c)' = Outstanding(c)
  BY <1>1, <1>2, SameUnput, SameOutstanding
<1> QED BY <1>3, SameCountsThreads DEF threadVars, reqVars

\* One step of the server keeps the counts and the blocks right.
LEMMA RequestInvStep == RequestInv /\ [Next]_vars => RequestInv'
<1> SUFFICES ASSUME RequestInv, [Next]_vars PROVE RequestInv'
  OBVIOUS
<1>1. ServerInv /\ ServedOnce /\ CountInv /\ EndsLast
  BY DEF RequestInv, CountInv
<1>2. ServerInv'
  BY <1>1, ServerInvStep
<1>3. ASSUME NEW t \in DnsThreads, DnsStep(t), UNCHANGED workerVars PROVE RequestInv'
  BY <1>1, <1>2, <1>3, DnsStepServed, DnsStepCounts DEF RequestInv
<1>4. ASSUME NEW w \in Workers, WorkerStep(w) PROVE RequestInv'
  BY <1>1, <1>2, <1>4, WorkerStepServed, WorkerStepCounts DEF RequestInv
<1>5. ASSUME UdpStep, UNCHANGED workerVars PROVE RequestInv'
  <2>1. UNCHANGED offRingVars /\ UNCHANGED job
    <3>1. ASSUME UNCHANGED sharedVars PROVE UNCHANGED offRingVars /\ UNCHANGED job
      BY <3>1 DEF sharedVars, offRingVars, ringVars
    <3> QED BY <1>5, <3>1 DEF UdpStep, UdpWork, UdpRecv, UdpRecvFails, UdpSearch, UdpSend,
                        UdpSendFails, UdpPut, Put, Halt
  <2>2. ServedOnce'
    BY <1>1, <1>5, <2>1, SameServed DEF offRingVars, sockVars, reqVars, workerVars
  <2> QED BY <1>1, <1>2, <1>5, <2>1, <2>2, UdpStepCounts DEF RequestInv, offRingVars
<1>6. ASSUME NEW c \in Conns, Client(c) PROVE RequestInv'
  <2>1. ServedOnce'
    <3>1. CASE ClientConnect(c)
      BY <1>1, <1>6, <3>1, ConnectServed DEF Client, reqVars
    <3>2. CASE ClientGone(c)
      BY <1>1, <1>6, <3>2, SameServed DEF Client, ClientGone, reqVars, workerVars
    <3>3. CASE ClientSend(c)
      BY <1>1, <1>6, <3>3, SameServed DEF Client, ClientSend, reqVars, workerVars
    <3> QED BY <1>6, <3>1, <3>2, <3>3 DEF Client
  <2> QED BY <1>1, <1>2, <1>6, <2>1, UdpStepCounts DEF RequestInv, Client, ringVars
<1>7. ASSUME Clock \/ UNCHANGED vars PROVE RequestInv'
  <2>1. UNCHANGED <<ringVars, sockVars, threadVars, reqVars, workerVars>>
    BY <1>7 DEF Clock, vars, sharedVars
  <2>2. ServedOnce'
    BY <1>1, <2>1, SameServed DEF sockVars, reqVars, workerVars
  <2> QED BY <1>1, <1>2, <2>1, <2>2, UdpStepCounts DEF RequestInv, ringVars
<1> QED BY <1>3, <1>4, <1>5, <1>6, <1>7 DEF Next

\* At the start nobody is served and no job is outstanding.
LEMMA RequestInvInit == Init => RequestInv
<1> SUFFICES ASSUME Init PROVE RequestInv
  OBVIOUS
<1>1. ServerInv
  BY ServerInvInit
<1>2. ServedOnce
  BY DEF Init, SockInit, DnsThreadInit, TcpInit, ServedOnce, Unserved, Serving
<1>3. \A c \in Conns : Outstanding(c) = 0
  <2> SUFFICES ASSUME NEW c \in Conns PROVE Outstanding(c) = 0
    OBVIOUS
  <2>1. Unput(c) = {} /\ InThread(c) = {}
    BY DEF Init, TcpInit, RingInit, Unput, InThread, IsTcp
  <2>2. InRing(c) = {}
    BY SizeAssumption DEF Init, RingInit, InRing, Queued
  <2> QED BY <1>1, <1>2, <2>1, <2>2, OutstandingType
<1>4. CountInv
  BY <1>3 DEF Init, RingInit, DnsThreadInit, CountInv, NumberCounts, BlockOutlivesJobs, EndsLast
<1> QED BY <1>1, <1>2, <1>4 DEF RequestInv

\* So it always holds.
LEMMA RequestInvariant == Spec => []RequestInv
BY RequestInvInit, RequestInvStep, PTL DEF Spec

\* While the block of a request is allocated, *number is exactly the number of
\* its jobs that are still to be put, in the ring, or with a DNS thread that has
\* not counted down: do_dns_search, thread_main_dns, lines 94-98.
THEOREM NumberIsExact == Spec => []NumberCounts
<1>1. RequestInv => NumberCounts
  BY DEF RequestInv, CountInv
<1> QED BY <1>1, RequestInvariant, PTL

\* The block of a request is never freed while one of its jobs is outstanding:
\* whoever puts, takes or finishes a job finds number, miss, ipptr and mutex
\* allocated.
THEOREM BlockOutlives == Spec => []BlockOutlivesJobs
<1>1. RequestInv => BlockOutlivesJobs
  BY DEF RequestInv, CountInv
<1> QED BY <1>1, RequestInvariant, PTL

(***************************************************************************)
(* Descriptors                                                             *)
(***************************************************************************)

\* The jobs in the ring.
RingJobs == {Contents[i] : i \in 1 .. Queued}

\* Job j belongs to connection c.
JobOf(j, c) == IsTcp(j) /\ j.req = c

\* A connection is behind at most one descriptor, and behind none before it is
\* accepted and after the thread that ends its request has closed it.
OneFd ==
  /\ \A f, g \in Fds : fdTab[f] # NoConn /\ fdTab[f] = fdTab[g] => f = g
  /\ \A f \in Fds : \A c \in Conns : fdTab[f] = c =>
       /\ ~Unserved(c)
       /\ blk[c] # "freed"
       /\ \A t \in DnsThreads : JobOf(job[t], c) => dpc[t] # "free"

\* Whoever works for a connection that is open knows it by its descriptor.
FdAgrees ==
  \A f \in Fds : \A c \in Conns : fdTab[f] = c =>
    /\ \A w \in Workers : Serving(w, c) => wfd[w] = f
    /\ \A j \in RingJobs : JobOf(j, c) => j.sockfd = f
    /\ \A t \in DnsThreads : JobOf(job[t], c) => job[t].sockfd = f

\* Someone works for every connection that is open.
FdHeld ==
  \A f \in Fds : \A c \in Conns : fdTab[f] = c =>
    \/ \E w \in Workers : Serving(w, c)
    \/ \E j \in RingJobs : JobOf(j, c)
    \/ \E t \in DnsThreads : JobOf(job[t], c)

FdInv == OneFd /\ FdAgrees /\ FdHeld

\* Thread t still has a right to the descriptor in its job.  A thread that has
\* counted down keeps it until the request's last thread has closed it.
Keeps(t) ==
  \/ dpc[t] \in {"dnsrequest", "finish", "send", "close"}
  \/ /\ dpc[t] = "check"
     /\ blk[job[t].req] = "live"
     /\ \A u \in Enders(job[t].req) : dpc[u] # "free"

\* Until someone goes astray, those with a right to a descriptor find their own
\* connection behind it, and one thread ends each request, before the block is
\* freed.
FdOwned ==
  ~astray =>
    /\ \A w \in Workers : wpc[w] # "accept" => fdTab[wfd[w]] = wreq[w]
    /\ \A j \in RingJobs : IsTcp(j) => fdTab[j.sockfd] = j.req
    /\ \A t \in DnsThreads : IsTcp(job[t]) /\ Keeps(t) => fdTab[job[t].sockfd] = job[t].req
    /\ \A c \in Conns : \A t \in Enders(c) : blk[c] = "live" /\ Enders(c) = {t}

(***************************************************************************)
(* The jobs in the ring                                                    *)
(***************************************************************************)

\* A step that leaves the window of the ring alone leaves its jobs.
LEMMA SameRingJobs ==
  ASSUME Queued' = Queued, Contents' = Contents
  PROVE  RingJobs' = RingJobs
BY DEF RingJobs

\* Every entry of the ring is a job.
LEMMA RingJobsType ==
  ASSUME ServerInv
  PROVE  RingJobs \subseteq Jobs
<1>1. Contents \in Seq(Jobs) /\ Len(Contents) = Queued
  BY ContentsType DEF ServerInv
<1> QED BY <1>1, ElementOfSeq DEF RingJobs

\* A put adds one job.
LEMMA PutRingJobs ==
  ASSUME ServerInv, RingInv', NEW j \in Jobs, Put(j)
  PROVE  RingJobs' = RingJobs \cup {j}
<1>1. RingInv /\ RingTypeOK
  BY DEF ServerInv, RingInv
<1>2. Queued \in Nat /\ Queued' = Queued + 1
  BY <1>1, QueuedType, PutWindow, SizeAssumption
<1>3. Contents' = Append(Contents, j) /\ Contents \in Seq(Jobs) /\ Len(Contents) = Queued
  BY <1>1, PutAppends, ContentsType
<1>4. /\ \A i \in 1 .. Queued : Contents'[i] = Contents[i]
      /\ Contents'[Queued + 1] = j
  BY <1>2, <1>3, AppendProperties
<1>5. \A x : x \in RingJobs' <=> x \in RingJobs \/ x = j
  BY <1>2, <1>4 DEF RingJobs
<1> QED BY <1>5

\* A take hands a job of the ring to the thread and loses no other.
LEMMA TakeRingJobs ==
  ASSUME ServerInv, NEW t \in DnsThreads, Take(t)
  PROVE  /\ dns_array[iget] \in RingJobs
         /\ RingJobs' \subseteq RingJobs
         /\ RingJobs \subseteq RingJobs' \cup {dns_array[iget]}
<1>1. RingInv /\ RingTypeOK
  BY DEF ServerInv, RingInv
<1>2. Queued \in Nat \ {0} /\ Queued' = Queued - 1
  BY <1>1, TakeWindow
<1>3. Contents' = Tail(Contents) /\ Contents \in Seq(Jobs) /\ Len(Contents) = Queued
      /\ Contents # <<>> /\ Head(Contents) = dns_array[iget]
  BY <1>1, TakeRemovesHead, ContentsType
<1>4. Contents[1] = dns_array[iget] /\ \A i \in 1 .. Queued - 1 : Contents'[i] = Contents[i + 1]
  BY <1>2, <1>3, HeadTailProperties
<1>5. dns_array[iget] \in RingJobs
  BY <1>2, <1>4 DEF RingJobs
<1>6. ASSUME NEW x \in RingJobs' PROVE x \in RingJobs
  <2>1. PICK i \in 1 .. Queued - 1 : x = Contents'[i]
    BY <1>2 DEF RingJobs
  <2>2. i + 1 \in 1 .. Queued /\ x = Contents[i + 1]
    BY <1>2, <1>4, <2>1
  <2> QED BY <2>2 DEF RingJobs
<1>7. ASSUME NEW x \in RingJobs, x # dns_array[iget] PROVE x \in RingJobs'
  <2>1. PICK i \in 1 .. Queued : x = Contents[i]
    BY DEF RingJobs
  <2>2. i - 1 \in 1 .. Queued - 1 /\ x = Contents[(i - 1) + 1]
    BY <1>2, <1>4, <1>7, <2>1
  <2>3. x = Contents'[i - 1]
    BY <1>4, <2>2
  <2> QED BY <1>2, <2>2, <2>3 DEF RingJobs
<1> QED BY <1>5, <1>6, <1>7

\* The UDP server puts at most jobs that belong to no connection.
LEMMA UdpRingJobs ==
  ASSUME ServerInv, ServerInv', UdpStep
  PROVE  /\ RingJobs \subseteq RingJobs'
         /\ \A j \in RingJobs' : IsTcp(j) => j \in RingJobs
         /\ UNCHANGED offRingVars /\ UNCHANGED job
<1>1. CASE UdpPut
  <2> DEFINE j == [tcp_or_udp |-> "udp", domain |-> Head(umiss)]
  <2>1. j \in Jobs /\ ~IsTcp(j) /\ Put(j)
    BY <1>1, UdpJobType DEF UdpPut, IsTcp
  <2> HIDE DEF j
  <2>2. RingJobs' = RingJobs \cup {j}
    BY <2>1, PutRingJobs DEF ServerInv
  <2> QED BY <1>1, <2>1, <2>2 DEF UdpPut, Put, IsTcp
<1>2. CASE UdpRecvFails
  BY <1>2, SameWindow, SameRingJobs DEF UdpRecvFails, Halt
<1>3. CASE ~UdpPut /\ ~UdpRecvFails
  <2>1. UNCHANGED sharedVars
    BY <1>3 DEF UdpStep, UdpWork, UdpRecv, UdpSearch, UdpSend, UdpSendFails
  <2> QED BY <2>1, SameWindow, SameRingJobs DEF sharedVars, offRingVars, ringVars
<1> QED BY <1>1, <1>2, <1>3

(***************************************************************************)
(* No descriptor leaks                                                     *)
(***************************************************************************)

\* The general step: descriptors are at most closed, workers and threads work for
\* the connections they did or took over from a worker or from the ring, and
\* someone goes on working for every connection that stays open.
LEMMA FdFlow ==
  ASSUME ServerInv, FdInv,
         \A f \in Fds : fdTab'[f] = fdTab[f] \/ fdTab'[f] = NoConn,
         \A f \in Fds : \A c \in Conns : fdTab'[f] = c =>
           /\ ~Unserved(c)'
           /\ blk'[c] # "freed"
           /\ \A t \in DnsThreads : JobOf(job'[t], c) =>
                dpc'[t] # "free" /\ (job'[t] = job[t] \/ job'[t] \in RingJobs)
           /\ \A w \in Workers : Serving(w, c)' => Serving(w, c) /\ wfd'[w] = wfd[w]
           /\ \A j \in RingJobs' : JobOf(j, c) =>
                j \in RingJobs \/ \E w \in Workers : Serving(w, c) /\ j.sockfd = wfd[w]
           /\ \/ \E w \in Workers : Serving(w, c)'
              \/ \E j \in RingJobs' : JobOf(j, c)
              \/ \E t \in DnsThreads : JobOf(job'[t], c)
  PROVE  FdInv'
<1>1. \A f \in Fds : \A c \in Conns : fdTab'[f] = c => fdTab[f] = c
  BY ConnAssumption
<1>2. OneFd'
  BY <1>1 DEF FdInv, OneFd, JobOf, IsTcp
<1>3. FdAgrees'
  <2> SUFFICES ASSUME NEW f \in Fds, NEW c \in Conns, fdTab'[f] = c
               PROVE  /\ \A w \in Workers : Serving(w, c)' => wfd'[w] = f
                      /\ \A j \in RingJobs' : JobOf(j, c) => j.sockfd = f
                      /\ \A t \in DnsThreads : JobOf(job'[t], c) => job'[t].sockfd = f
    BY DEF FdAgrees, JobOf, IsTcp
  <2>1. fdTab[f] = c
    BY <1>1
  <2> QED BY <2>1 DEF FdInv, FdAgrees
<1>4. FdHeld'
  BY DEF FdHeld, JobOf, IsTcp
<1> QED BY <1>2, <1>3, <1>4 DEF FdInv

\* The same when only the jobs move: the descriptors, the workers and the queue
\* of the listening socket stay as they are.
LEMMA FdFlowJobs ==
  ASSUME ServerInv, FdInv, UNCHANGED <<fdTab, backlog, sent, wpc, wreq, wfd>>,
         \A f \in Fds : \A c \in Conns : fdTab[f] = c =>
           /\ blk'[c] # "freed"
           /\ \A t \in DnsThreads : JobOf(job'[t], c) =>
                dpc'[t] # "free" /\ (job'[t] = job[t] \/ job'[t] \in RingJobs)
           /\ \A j \in RingJobs' : JobOf(j, c) => j \in RingJobs
           /\ (\E w \in Workers : Serving(w, c))
              \/ (\E j \in RingJobs : JobOf(j, c)) \/ (\E t \in DnsThreads : JobOf(job[t], c))
              => (\E w \in Workers : Serving(w, c))
                 \/ (\E j \in RingJobs' : JobOf(j, c)) \/ (\E t \in DnsThreads : JobOf(job'[t], c))
  PROVE  FdInv'
<1>1. \A c : (Unserved(c)' <=> Unserved(c)) /\ \A w : Serving(w, c)' <=> Serving(w, c)
  BY DEF Unserved, Serving
<1> QED BY <1>1, FdFlow DEF FdInv, OneFd, FdHeld

\* A thread takes a job.
LEMMA TakeFd ==
  ASSUME RequestInv, FdInv, NEW t \in DnsThreads, TakeJob(t), UNCHANGED workerVars
  PROVE  FdInv'
<1> USE DEF RequestInv
<1> DEFINE h == dns_array[iget]
<1>1. Take(t) /\ job[t] = NoJob /\ DnsStep(t)
  BY DEF TakeJob, Take, Ready, DnsStep
<1>2. /\ UNCHANGED <<fdTab, backlog, sent, wpc, wreq, wfd, blk>>
      /\ job'[t] = h /\ dpc'[t] = "dnsrequest"
      /\ \A u \in DnsThreads : u # t => dpc'[u] = dpc[u] /\ job'[u] = job[u]
  BY <1>1, OtherThreads
     DEF TakeJob, Take, Goto, sockVars, workerVars, reqVars, ServerInv, TypeOK, DnsThreadTypeOK, RingTypeOK
<1>3. h \in RingJobs /\ RingJobs' \subseteq RingJobs /\ RingJobs \subseteq RingJobs' \cup {h}
  BY <1>1, TakeRingJobs
<1> HIDE DEF h
<1>4. ASSUME NEW f \in Fds, NEW c \in Conns, fdTab[f] = c
      PROVE  /\ blk'[c] # "freed"
             /\ \A u \in DnsThreads : JobOf(job'[u], c) =>
                  dpc'[u] # "free" /\ (job'[u] = job[u] \/ job'[u] \in RingJobs)
    BY <1>2, <1>3, <1>4 DEF FdInv, OneFd
<1>5. ASSUME NEW c, (\E j \in RingJobs : JobOf(j, c)) \/ \E u \in DnsThreads : JobOf(job[u], c)
      PROVE  (\E j \in RingJobs' : JobOf(j, c)) \/ \E u \in DnsThreads : JobOf(job'[u], c)
  BY <1>1, <1>2, <1>3, <1>5 DEF JobOf, IsTcp
<1> QED BY <1>2, <1>3, <1>4, <1>5, FdFlowJobs

\* A thread reads the count as not zero and leaves the request: someone else is
\* still to finish one of its jobs.
LEMMA CheckNonZeroFd ==
  ASSUME RequestInv, FdInv, NEW t \in DnsThreads, CheckNonZero(t), UNCHANGED workerVars
  PROVE  FdInv'
<1> USE DEF RequestInv
<1>1. PICK r \in Conns : r = job[t].req /\ job[t] # NoJob /\ IsTcp(job[t])
  BY ThreadReq DEF CheckNonZero
<1>2. /\ UNCHANGED <<fdTab, backlog, sent, wpc, wreq, wfd, blk>> /\ dpc[t] = "check"
      /\ job'[t] = NoJob /\ SeesNonZero(r)
      /\ \A u \in DnsThreads : u # t => dpc'[u] = dpc[u] /\ job'[u] = job[u]
  BY <1>1, OtherThreads DEF CheckNonZero, JobDone, DnsStep, WorkOnJob, sockVars, workerVars,
                  reqVars, ServerInv, TypeOK, RingTypeOK
<1>3. RingJobs' = RingJobs
  BY <1>2, ThreadReq, DnsStepWindow, SameRingJobs
     DEF CheckNonZero, DnsStep, WorkOnJob, TakeJob, Take, Ready
<1>4. ASSUME NEW f \in Fds, fdTab[f] = r
      PROVE  \/ \E w \in Workers : Serving(w, r)
             \/ \E j \in RingJobs : JobOf(j, r)
             \/ \E u \in DnsThreads : u # t /\ JobOf(job[u], r)
  <2>1. blk[r] = "live"
    BY <1>1, <1>2, <1>4 DEF FdInv, OneFd, CountInv, EndsLast, ServerInv, TypeOK, DnsThreadTypeOK
  <2>2. Outstanding(r) # 0
    BY <1>2, <2>1 DEF SeesNonZero, CountInv, NumberCounts
  <2>3. Unput(r) # {} \/ InRing(r) # {} \/ InThread(r) # {}
    BY <2>2, OutstandingType
  <2>4. CASE Unput(r) # {}
    BY <2>4 DEF Unput, Serving
  <2>5. CASE InRing(r) # {}
    BY <2>5 DEF InRing, RingJobs, JobOf
  <2>6. CASE InThread(r) # {}
    BY <1>2, <2>6 DEF InThread, JobOf
  <2> QED BY <2>3, <2>4, <2>5, <2>6
<1>5. \A c \in Conns : c # r => ~JobOf(job[t], c)
  BY <1>1 DEF JobOf
<1>6. \A c : ~JobOf(job'[t], c)
  BY <1>2 DEF JobOf, IsTcp
<1>7. ASSUME NEW f \in Fds, NEW c \in Conns, fdTab[f] = c
      PROVE  /\ blk'[c] # "freed"
             /\ \A u \in DnsThreads : JobOf(job'[u], c) => dpc'[u] # "free" /\ job'[u] = job[u]
             /\ (\E w \in Workers : Serving(w, c))
                \/ (\E j \in RingJobs : JobOf(j, c)) \/ (\E u \in DnsThreads : JobOf(job[u], c))
                => (\E w \in Workers : Serving(w, c))
                   \/ (\E j \in RingJobs' : JobOf(j, c)) \/ (\E u \in DnsThreads : JobOf(job'[u], c))
  <2>1. /\ blk'[c] # "freed"
        /\ \A u \in DnsThreads : JobOf(job'[u], c) => dpc'[u] # "free" /\ job'[u] = job[u]
    BY <1>2, <1>6, <1>7 DEF FdInv, OneFd
  <2>2. CASE c = r
    BY <1>2, <1>3, <1>4, <1>7, <2>1, <2>2
  <2>3. CASE c # r
    BY <1>2, <1>3, <1>5, <2>1, <2>3
  <2> QED BY <2>2, <2>3
<1> QED BY <1>2, <1>3, <1>7, FdFlowJobs

\* The last thread closes the connection of its request.
LEMMA CloseConnFd ==
  ASSUME RequestInv, FdInv, NEW t \in DnsThreads, CloseConn(t), UNCHANGED workerVars
  PROVE  FdInv'
<1> USE DEF RequestInv
<1>1. PICK r \in Conns : r = job[t].req /\ JobOf(job[t], r) /\ job[t].sockfd \in Fds
  BY ThreadReq DEF CloseConn, JobOf, TcpJobs
<1>2. /\ UNCHANGED <<backlog, sent, wpc, wreq, wfd, blk, job>> /\ dpc'[t] = "free"
      /\ \A f \in Fds : fdTab'[f] = IF f = job[t].sockfd THEN NoConn ELSE fdTab[f]
      /\ \A u \in DnsThreads : u # t => dpc'[u] = dpc[u]
  BY <1>1, OtherThreads DEF CloseConn, CloseSockfd, Closed, Goto, DnsStep, WorkOnJob, ringVars,
                  workerVars, reqVars, ServerInv, TypeOK, SockTypeOK, DnsThreadTypeOK
<1>3. RingJobs' = RingJobs
  BY SameWindow, SameRingJobs DEF CloseConn, ringVars
<1>4. \A c : (Unserved(c)' <=> Unserved(c)) /\ \A w : Serving(w, c)' <=> Serving(w, c)
  BY <1>2 DEF Unserved, Serving
<1>5. ASSUME NEW f \in Fds, NEW c \in Conns, fdTab'[f] = c
      PROVE  c # r /\ fdTab[f] = c
  BY <1>1, <1>2, <1>5, ConnAssumption DEF FdInv, FdAgrees
<1>6. ASSUME NEW f \in Fds, NEW c \in Conns, fdTab'[f] = c, NEW u \in DnsThreads,
             JobOf(job'[u], c)
      PROVE  dpc'[u] # "free"
  BY <1>1, <1>2, <1>5, <1>6 DEF FdInv, OneFd, JobOf
<1> QED BY <1>2, <1>3, <1>4, <1>5, <1>6, FdFlow DEF FdInv, OneFd, FdHeld

\* Freeing the block: the connection has been closed.
LEMMA FreeFd ==
  ASSUME RequestInv, FdInv, NEW t \in DnsThreads, Free(t), UNCHANGED workerVars
  PROVE  FdInv'
<1> USE DEF RequestInv
<1>1. PICK r \in Conns : r = job[t].req /\ JobOf(job[t], r) /\ dpc[t] = "free"
  BY ThreadReq DEF Free, JobOf
<1>2. /\ UNCHANGED <<fdTab, backlog, sent, wpc, wreq, wfd>> /\ job'[t] = NoJob
      /\ \A u \in DnsThreads : u # t => dpc'[u] = dpc[u] /\ job'[u] = job[u]
      /\ \A c \in Conns : c # r => blk'[c] = blk[c]
  BY <1>1, OtherThreads DEF Free, JobDone, DnsStep, WorkOnJob, sockVars, workerVars, ServerInv,
                  TypeOK, RingTypeOK, DnsThreadTypeOK
<1>3. RingJobs' = RingJobs
  BY SameWindow, SameRingJobs DEF Free, JobDone
<1>4. \A f \in Fds : fdTab[f] # r
  BY <1>1 DEF FdInv, OneFd
<1>5. \A c : ~JobOf(job'[t], c)
  BY <1>2 DEF JobOf, IsTcp
<1>6. \A c : JobOf(job[t], c) => c = r
  BY <1>1 DEF JobOf
<1>7. ASSUME NEW f \in Fds, NEW c \in Conns, fdTab[f] = c
      PROVE  /\ blk'[c] # "freed"
             /\ \A u \in DnsThreads : JobOf(job'[u], c) => dpc'[u] # "free" /\ job'[u] = job[u]
             /\ (\E u \in DnsThreads : JobOf(job[u], c)) => \E u \in DnsThreads : JobOf(job'[u], c)
  BY <1>2, <1>4, <1>5, <1>6, <1>7 DEF FdInv, OneFd
<1> QED BY <1>2, <1>3, <1>7, FdFlowJobs

\* Every step of a DNS thread.
LEMMA DnsStepFd ==
  ASSUME RequestInv, FdInv, NEW t \in DnsThreads, DnsStep(t), UNCHANGED workerVars
  PROVE  FdInv'
<1> USE DEF RequestInv
<1>1. CASE TakeJob(t) \/ CheckNonZero(t) \/ CloseConn(t) \/ Free(t)
  BY <1>1, TakeFd, CheckNonZeroFd, CloseConnFd, FreeFd
<1>2. CASE ~(TakeJob(t) \/ CheckNonZero(t) \/ CloseConn(t) \/ Free(t))
  <2>1. UNCHANGED <<fdTab, backlog, sent, wpc, wreq, wfd, blk>>
    BY <1>2 DEF DnsStep, WorkOnJob, WaitForJob, UdpDnsRequest, TcpDnsRequest, Finish, CheckZero,
       Send, SendFails, FreeAborts, offRingVars, sockVars, reqVars, workerVars
  <2>2. RingJobs' = RingJobs
    BY <1>2, DnsStepWindow, SameRingJobs
  <2>3. /\ \A u \in DnsThreads : u # t => dpc'[u] = dpc[u] /\ job'[u] = job[u]
        /\ \/ job'[t] = job[t] /\ (dpc'[t] = dpc[t] \/ dpc'[t] # "free")
           \/ job'[t] = NoJob /\ ~IsTcp(job[t])
    <3>1. CASE UdpDnsRequest(t)
      <4>1. ~IsTcp(job[t])
        BY <3>1 DEF UdpDnsRequest, IsTcp
      <4>2. job'[t] = NoJob
        BY <3>1 DEF UdpDnsRequest, JobDone, ServerInv, TypeOK, RingTypeOK
      <4> QED BY <3>1, <4>1, <4>2, OtherThreads DEF DnsStep, WorkOnJob
    <3>2. CASE WaitForJob(t) \/ SendFails(t) \/ FreeAborts(t)
      BY <3>2 DEF WaitForJob, SendFails, FreeAborts, Wait, SpuriousWakeup, Halt,
                  offRingVars, threadVars
    <3>3. CASE TcpDnsRequest(t) \/ Finish(t) \/ CheckZero(t) \/ Send(t)
      BY <3>3 DEF TcpDnsRequest, Finish, CheckZero, Send, Goto, ringVars, ServerInv,
                  TypeOK, DnsThreadTypeOK
    <3> QED BY <1>2, <3>1, <3>2, <3>3, OtherThreads DEF DnsStep, WorkOnJob
  <2>4. \A u \in DnsThreads : \A c : JobOf(job'[u], c) <=> JobOf(job[u], c)
    BY <2>3 DEF JobOf, IsTcp
  <2>5. \A u \in DnsThreads : \A c : JobOf(job'[u], c) =>
          job'[u] = job[u] /\ (dpc[u] # "free" => dpc'[u] # "free")
    BY <2>3 DEF JobOf, IsTcp
  <2> QED BY <2>1, <2>2, <2>4, <2>5, FdFlowJobs DEF FdInv, OneFd
<1> QED BY <1>1, <1>2

\* A worker accepts: a free descriptor is given to a connection that had none.
LEMMA AcceptFdInv ==
  ASSUME RequestInv, FdInv, NEW w \in Workers, Accept(w)
  PROVE  FdInv'
<1> USE DEF RequestInv
<1>1. PICK f \in Fds, r \in Conns :
        AcceptFd(f, r) /\ wreq' = [wreq EXCEPT ![w] = r] /\ wfd' = [wfd EXCEPT ![w] = f]
  BY DEF Accept
<1>2. /\ UNCHANGED <<blk, job, dpc, sent>> /\ UNCHANGED ringVars
      /\ wpc[w] = "accept" /\ wpc'[w] = "serv" /\ wreq'[w] = r /\ wfd'[w] = f
      /\ \A v \in Workers : v # w => wpc'[v] = wpc[v] /\ wreq'[v] = wreq[v] /\ wfd'[v] = wfd[v]
  BY <1>1 DEF Accept, ringVars, threadVars, reqVars, ServerInv, TypeOK, TcpTypeOK
<1>3. /\ fdTab[f] = NoConn /\ r \in backlog /\ backlog' = backlog \ {r}
      /\ \A g \in Fds : fdTab'[g] = IF g = f THEN r ELSE fdTab[g]
  BY <1>1 DEF AcceptFd, ServerInv, TypeOK, SockTypeOK
<1>4. RingJobs' = RingJobs
  BY <1>2, SameWindow, SameRingJobs DEF ringVars
<1>5. Unserved(r) /\ blk[r] = "none" /\ \A v \in Workers : ~Serving(v, r)
  BY <1>3 DEF Unserved, ServedOnce
<1>6. Outstanding(r) = 0
  BY <1>5, OutstandingType DEF CountInv, BlockOutlivesJobs
<1>7. InRing(r) = {} /\ InThread(r) = {}
  BY <1>6, OutstandingType
<1>8. \A j \in RingJobs : ~JobOf(j, r)
  BY <1>7 DEF InRing, RingJobs, JobOf
<1>9. \A t \in DnsThreads : ~JobOf(job[t], r)
  <2> SUFFICES ASSUME NEW t \in DnsThreads, JobOf(job[t], r) PROVE FALSE
    OBVIOUS
  <2>1. job[t] # NoJob /\ dpc[t] # "loop" /\ dpc[t] \notin {"dnsrequest", "finish"}
    BY <1>7 DEF JobOf, IsTcp, InThread, ServerInv, ThreadShape
  <2>2. dpc[t] \in {"check", "send", "close", "free"}
    BY <2>1 DEF ServerInv, TypeOK, DnsThreadTypeOK
  <2> QED BY <1>5, <2>1, <2>2 DEF CountInv, EndsLast, JobOf
<1>10. \A g \in Fds : fdTab[g] # r
  BY <1>5 DEF FdInv, OneFd
<1>11. \A c \in Conns : c # r => Unserved(c)' = Unserved(c)
  BY <1>2, <1>3 DEF Unserved
<1>12. ~Unserved(r)'
  BY <1>2, <1>3 DEF Unserved, ServedOnce
<1>13. \A c : c # r => \A v \in Workers : Serving(v, c)' <=> Serving(v, c)
  BY <1>2 DEF Serving
<1>14. \A v \in Workers : Serving(v, r)' <=> v = w
  BY <1>2, <1>5 DEF Serving
<1>15. \A c : \A t \in DnsThreads : JobOf(job[t], c)' <=> JobOf(job[t], c)
  BY <1>2 DEF JobOf, IsTcp
<1>16. OneFd'
  <2>1. \A g, k \in Fds : fdTab'[g] # NoConn /\ fdTab'[g] = fdTab'[k] => g = k
    BY <1>3, <1>10 DEF FdInv, OneFd
  <2>2. \A g \in Fds : \A c \in Conns : fdTab'[g] = c =>
          /\ ~Unserved(c)' /\ blk'[c] # "freed"
          /\ \A t \in DnsThreads : JobOf(job[t], c)' => dpc'[t] # "free"
    BY <1>2, <1>3, <1>5, <1>9, <1>10, <1>11, <1>12, <1>15 DEF FdInv, OneFd
  <2> QED BY <2>1, <2>2 DEF OneFd
<1>17. FdAgrees'
  <2> SUFFICES ASSUME NEW g \in Fds, NEW c \in Conns, fdTab'[g] = c
               PROVE  /\ \A v \in Workers : Serving(v, c)' => wfd'[v] = g
                      /\ \A j \in RingJobs' : JobOf(j, c) => j.sockfd = g
                      /\ \A t \in DnsThreads : JobOf(job[t], c)' => job'[t].sockfd = g
    BY DEF FdAgrees, JobOf, IsTcp
  <2>1. CASE c = r
    BY <1>2, <1>3, <1>4, <1>8, <1>9, <1>10, <1>14, <1>15, <2>1
  <2>2. CASE c # r
    <3>1. fdTab[g] = c
      BY <1>3, <2>2
    <3> QED BY <1>2, <1>4, <1>13, <1>14, <1>15, <2>2, <3>1 DEF FdInv, FdAgrees, Serving
  <2> QED BY <2>1, <2>2
<1>18. FdHeld'
  <2> SUFFICES ASSUME NEW g \in Fds, NEW c \in Conns, fdTab'[g] = c
               PROVE  \/ \E v \in Workers : Serving(v, c)'
                      \/ \E j \in RingJobs' : JobOf(j, c)
                      \/ \E t \in DnsThreads : JobOf(job[t], c)'
    BY DEF FdHeld, JobOf, IsTcp
  <2>1. CASE c = r
    BY <1>14, <2>1
  <2>2. CASE c # r
    BY <1>3, <1>4, <1>13, <1>15, <2>2 DEF FdInv, FdHeld
  <2> QED BY <2>1, <2>2
<1> QED BY <1>16, <1>17, <1>18 DEF FdInv

\* A worker closes its connection and is done with it, or goes on.
LEMMA WorkerCloseFd ==
  ASSUME RequestInv, FdInv, NEW w \in Workers, wpc[w] # "accept",
         CloseConnfd(w), UNCHANGED <<backlog, sent, blk, dpc, job>>, RingJobs' = RingJobs,
         \A v \in Workers : v # w => wpc'[v] = wpc[v] /\ wreq'[v] = wreq[v] /\ wfd'[v] = wfd[v],
         wpc'[w] = "accept" \/ (wreq'[w] = wreq[w] /\ wfd'[w] = wfd[w])
  PROVE  FdInv'
<1> USE DEF RequestInv
<1>1. /\ wfd[w] \in Fds
      /\ \A f \in Fds : fdTab'[f] = IF f = wfd[w] THEN NoConn ELSE fdTab[f]
  BY DEF CloseConnfd, Closed, ServerInv, TypeOK, SockTypeOK, TcpTypeOK
<1>2. \A v \in Workers : v # w => \A c : Serving(v, c)' <=> Serving(v, c)
  BY DEF Serving
<1>3. \A c : Serving(w, c)' => Serving(w, c) /\ wfd'[w] = wfd[w]
  BY DEF Serving
<1>4. \A c : Unserved(c)' <=> Unserved(c)
  BY DEF Unserved
<1>5. ASSUME NEW f \in Fds, NEW c \in Conns, fdTab'[f] = c PROVE fdTab[f] = c /\ ~Serving(w, c)
  BY <1>1, <1>5, ConnAssumption DEF FdInv, FdAgrees
<1>6. ASSUME NEW f \in Fds, NEW c \in Conns, fdTab'[f] = c
      PROVE  \/ \E v \in Workers : Serving(v, c)'
             \/ \E j \in RingJobs' : JobOf(j, c)
             \/ \E t \in DnsThreads : JobOf(job'[t], c)
  <2>1. fdTab[f] = c /\ ~Serving(w, c)
    BY <1>5, <1>6
  <2> QED BY <1>2, <2>1 DEF FdInv, FdHeld
<1>7. ASSUME NEW f \in Fds, NEW c \in Conns, fdTab'[f] = c
      PROVE  /\ ~Unserved(c)'
             /\ blk'[c] # "freed"
             /\ \A t \in DnsThreads : JobOf(job'[t], c) => dpc'[t] # "free" /\ job'[t] = job[t]
             /\ \A v \in Workers : Serving(v, c)' => Serving(v, c) /\ wfd'[v] = wfd[v]
  BY <1>2, <1>3, <1>4, <1>5, <1>7 DEF FdInv, OneFd
<1> QED BY <1>1, <1>6, <1>7, FdFlow

\* A worker puts a job, and leaves the request after the last one: the ring holds
\* the connection from then on.
LEMMA PutJobFd ==
  ASSUME RequestInv, ServerInv', FdInv, NEW w \in Workers, PutJob(w)
  PROVE  FdInv'
<1> USE DEF RequestInv
<1>1. /\ wpc[w] = "put" /\ Put(MissJob(w)) /\ MissJob(w) \in Jobs
      /\ UNCHANGED <<fdTab, backlog, sent, blk, dpc, job>>
  BY MissJobType DEF PutJob, Put, offRingVars, sockVars, threadVars, reqVars
<1>2. PICK r \in Conns : wreq[w] = r /\ Serving(w, r)
  BY <1>1 DEF ServerInv, WorkerShape, Serving
<1>3. JobOf(MissJob(w), r) /\ MissJob(w).sockfd = wfd[w]
  BY <1>1, <1>2, JobAssumption DEF IsTcp, MissJob, JobOf
<1>4. RingJobs' = RingJobs \cup {MissJob(w)}
  BY <1>1, PutRingJobs DEF ServerInv
<1>5. /\ \A v \in Workers : v # w => wpc'[v] = wpc[v] /\ wreq'[v] = wreq[v] /\ wfd'[v] = wfd[v]
      /\ wpc'[w] = "accept" \/ (wreq'[w] = wreq[w] /\ wfd'[w] = wfd[w])
  BY OthersIdle DEF PutJob, Idle, ServerInv, TypeOK, TcpTypeOK
<1>6. \A v \in Workers : \A c : Serving(v, c)' => Serving(v, c) /\ wfd'[v] = wfd[v]
  BY <1>1, <1>5 DEF Serving
<1>7. \A v \in Workers : \A c : Serving(v, c) /\ v # w => Serving(v, c)'
  BY <1>5 DEF Serving
<1>8. \A c : Unserved(c)' <=> Unserved(c)
  BY <1>1 DEF Unserved
<1>9. \A c : Serving(w, c) => c = r
  BY <1>2 DEF Serving
<1>10. \A c : JobOf(MissJob(w), c) => c = r
  BY <1>3 DEF JobOf
<1> HIDE DEF RequestInv
<1>11. ASSUME NEW f \in Fds, NEW c \in Conns, fdTab'[f] = c
       PROVE  /\ ~Unserved(c)'
              /\ blk'[c] # "freed"
              /\ \A t \in DnsThreads : JobOf(job'[t], c) => dpc'[t] # "free" /\ job'[t] = job[t]
              /\ \A j \in RingJobs' : JobOf(j, c) =>
                   j \in RingJobs \/ \E v \in Workers : Serving(v, c) /\ j.sockfd = wfd[v]
  BY <1>1, <1>2, <1>3, <1>4, <1>8, <1>10, <1>11 DEF FdInv, OneFd
<1>12. ASSUME NEW f \in Fds, NEW c \in Conns, fdTab'[f] = c
       PROVE  \/ \E v \in Workers : Serving(v, c)'
              \/ \E j \in RingJobs' : JobOf(j, c)
              \/ \E t \in DnsThreads : JobOf(job'[t], c)
  BY <1>1, <1>3, <1>4, <1>7, <1>9, <1>12 DEF FdInv, FdHeld
<1> QED BY <1>1, <1>6, <1>11, <1>12, FdFlow DEF RequestInv

\* Every step of a worker.
LEMMA WorkerStepFd ==
  ASSUME RequestInv, ServerInv', FdInv, NEW w \in Workers, WorkerStep(w)
  PROVE  FdInv'
<1> USE DEF RequestInv
<1>1. CASE Reject(w) \/ ReplyHit(w)
  <2>1. /\ wpc[w] # "accept" /\ CloseConnfd(w) /\ Idle(w) /\ wpc'[w] = "accept"
        /\ UNCHANGED <<backlog, sent, blk, dpc, job>> /\ UNCHANGED ringVars
    BY <1>1 DEF Reject, ReplyHit, Idle, ringVars, threadVars, reqVars, ServerInv, TypeOK, TcpTypeOK
  <2>2. RingJobs' = RingJobs
    BY <2>1, SameWindow, SameRingJobs DEF ringVars
  <2> QED BY <2>1, <2>2, OthersIdle, WorkerCloseFd
<1>2. CASE ZeroLength(w)
  <2>1. /\ wpc[w] # "accept" /\ CloseConnfd(w) /\ UNCHANGED ringVars
        /\ UNCHANGED <<backlog, sent, blk, dpc, job, wreq, wfd>>
        /\ \A v \in Workers : v # w => wpc'[v] = wpc[v]
    BY <1>2 DEF ZeroLength, ringVars, threadVars, reqVars, ServerInv, TypeOK, TcpTypeOK
  <2>2. RingJobs' = RingJobs
    BY <2>1, SameWindow, SameRingJobs DEF ringVars
  <2> QED BY <2>1, <2>2, WorkerCloseFd
<1>3. CASE ReadBody(w) \/ Overwrite(w) \/ Search(w) \/ ReplyMiss(w) \/ NullBuffer(w) \/ OverwriteCrash(w) \/ ReplyKilled(w)
  <2>1. /\ UNCHANGED <<fdTab, backlog, sent, dpc, job, wreq, wfd>>
        /\ wpc' = wpc \/ \E l \in {"search", "reply", "put"} : wpc' = [wpc EXCEPT ![w] = l]
        /\ wpc[w] # "accept"
        /\ blk' = blk \/ blk' = [blk EXCEPT ![wreq[w]] = "live"]
    BY <1>3 DEF ReadBody, Overwrite, Search, ReplyMiss, NullBuffer, OverwriteCrash, ReplyKilled, Halt, sharedVars,
                ringVars, offRingVars, sockVars, threadVars, reqVars, workerVars
  <2>2. RingJobs' = RingJobs
    <3>1. CASE Halt
      BY <3>1, SameWindow, SameRingJobs DEF Halt
    <3>2. CASE UNCHANGED ringVars
      BY <3>2, SameWindow, SameRingJobs DEF ringVars
    <3> QED BY <1>3, <3>1, <3>2 DEF ReadBody, Overwrite, Search, ReplyMiss, NullBuffer, OverwriteCrash, ReplyKilled,
                                    sharedVars
  <2>3. \A v \in Workers : \A c : Serving(v, c)' <=> Serving(v, c)
    BY <2>1 DEF Serving, ServerInv, TypeOK, TcpTypeOK
  <2>4. \A c \in Conns : blk[c] # "freed" => blk'[c] # "freed"
    BY <2>1 DEF ServerInv, TypeOK, DnsThreadTypeOK
  <2>5. \A c : Unserved(c)' <=> Unserved(c)
    BY <2>1 DEF Unserved
  <2>6. ASSUME NEW f \in Fds, NEW c \in Conns, fdTab'[f] = c
        PROVE  /\ ~Unserved(c)'
               /\ blk'[c] # "freed"
               /\ \A t \in DnsThreads : JobOf(job'[t], c) => dpc'[t] # "free" /\ job'[t] = job[t]
               /\ \/ \E v \in Workers : Serving(v, c)'
                  \/ \E j \in RingJobs' : JobOf(j, c)
                  \/ \E t \in DnsThreads : JobOf(job'[t], c)
    BY <2>1, <2>2, <2>3, <2>4, <2>5, <2>6 DEF FdInv, OneFd, FdHeld
  <2> QED BY <2>1, <2>2, <2>3, <2>6, FdFlow
<1> QED BY <1>1, <1>2, <1>3, AcceptFdInv, PutJobFd DEF WorkerStep, ServeConn

\* One step of the server keeps every open descriptor in somebody's hands.
LEMMA FdInvStep == RequestInv /\ FdInv /\ [Next]_vars => FdInv'
<1> SUFFICES ASSUME RequestInv, FdInv, [Next]_vars PROVE FdInv'
  OBVIOUS
<1>1. ServerInv /\ ServerInv' /\ RequestInv'
  BY RequestInvStep DEF RequestInv
<1>2. ASSUME RingJobs \subseteq RingJobs', \A j \in RingJobs' : IsTcp(j) => j \in RingJobs,
             UNCHANGED <<fdTab, workerVars, threadVars, reqVars, job>>,
             \A c \in Conns : Unserved(c)' => Unserved(c)
      PROVE  FdInv'
  <2>1. \A w : \A c : Serving(w, c)' <=> Serving(w, c)
    BY <1>2 DEF Serving, workerVars
  <2>2. ASSUME NEW f \in Fds, NEW c \in Conns, fdTab'[f] = c
        PROVE  /\ ~Unserved(c)'
               /\ blk'[c] # "freed"
               /\ \A t \in DnsThreads : JobOf(job'[t], c) => dpc'[t] # "free" /\ job'[t] = job[t]
               /\ \A j \in RingJobs' : JobOf(j, c) => j \in RingJobs
               /\ \/ \E v \in Workers : Serving(v, c)'
                  \/ \E j \in RingJobs' : JobOf(j, c)
                  \/ \E t \in DnsThreads : JobOf(job'[t], c)
    BY <1>2, <2>1, <2>2 DEF FdInv, OneFd, FdHeld, JobOf, reqVars, threadVars
  <2> QED BY <1>1, <1>2, <2>1, <2>2, FdFlow DEF workerVars
<1>3. ASSUME NEW t \in DnsThreads, DnsStep(t), UNCHANGED workerVars PROVE FdInv'
  BY <1>3, DnsStepFd
<1>4. ASSUME NEW w \in Workers, WorkerStep(w) PROVE FdInv'
  BY <1>1, <1>4, WorkerStepFd
<1>5. ASSUME UdpStep, UNCHANGED workerVars PROVE FdInv'
  <2>1. \A c : Unserved(c)' <=> Unserved(c)
    BY <1>1, <1>5, UdpRingJobs DEF Unserved, offRingVars, sockVars
  <2> QED BY <1>1, <1>2, <1>5, <2>1, UdpRingJobs DEF offRingVars, sockVars
<1>6. ASSUME UNCHANGED ringVars PROVE RingJobs' = RingJobs /\ UNCHANGED job
  BY <1>6, SameWindow, SameRingJobs DEF ringVars
<1>7. ASSUME NEW c \in Conns, Client(c) PROVE FdInv'
  <2>1. \A d \in Conns : Unserved(d)' => Unserved(d)
    BY <1>1, <1>7 DEF Client, ClientConnect, ClientSend, ClientGone, Unserved, ServerInv, TypeOK, SockTypeOK
  <2>2. UNCHANGED fdTab
    BY <1>7 DEF Client, ClientConnect, ClientSend, ClientGone
  <2> QED BY <1>2, <1>6, <1>7, <2>1, <2>2 DEF Client
<1>8. ASSUME Clock \/ UNCHANGED vars PROVE FdInv'
  <2>1. UNCHANGED <<ringVars, sockVars, threadVars, reqVars, workerVars>>
    BY <1>8 DEF Clock, vars, sharedVars
  <2>2. \A c : Unserved(c)' <=> Unserved(c)
    BY <2>1 DEF Unserved, sockVars
  <2> QED BY <1>2, <1>6, <2>1, <2>2 DEF sockVars
<1> QED BY <1>3, <1>4, <1>5, <1>7, <1>8 DEF Next

\* At the start no descriptor is open.
LEMMA FdInvInit == Init => FdInv
BY ConnAssumption DEF Init, SockInit, FdInv, OneFd, FdAgrees, FdHeld

\* So it always holds.
LEMMA FdInvariant == Spec => [](RequestInv /\ FdInv)
<1>1. Init => RequestInv /\ FdInv
  BY RequestInvInit, FdInvInit
<1>2. (RequestInv /\ FdInv) /\ [Next]_vars => (RequestInv /\ FdInv)'
  BY RequestInvStep, FdInvStep
<1> QED BY <1>1, <1>2, PTL DEF Spec

\* No descriptor leaks, whatever clients send and whenever they go away: each open
\* one is held by the worker that serves it or by a job of its request that a
\* DNS thread will end, and the thread that reads the count as not zero is right
\* to leave the close to another.
THEOREM NoDescriptorLeaks == Spec => []DescriptorHeld
<1>1. RequestInv /\ FdInv => DescriptorHeld
  <2> SUFFICES ASSUME RequestInv, FdInv, NEW f \in Fds, fdTab[f] # NoConn
               PROVE  \/ \E w \in Workers : wpc[w] # "accept" /\ wfd[w] = f
                      \/ \E i \in 1 .. Queued : IsTcp(Contents[i]) /\ Contents[i].sockfd = f
                      \/ \E t \in DnsThreads : IsTcp(job[t]) /\ job[t].sockfd = f /\ dpc[t] # "free"
    BY DEF DescriptorHeld
  <2>1. PICK c \in Conns : fdTab[f] = c
    BY DEF RequestInv, ServerInv, TypeOK, SockTypeOK
  <2>2. CASE \E w \in Workers : Serving(w, c)
    BY <2>1, <2>2 DEF FdInv, FdAgrees, Serving
  <2>3. CASE \E j \in RingJobs : JobOf(j, c)
    BY <2>1, <2>3 DEF FdInv, FdAgrees, JobOf, RingJobs
  <2>4. CASE \E t \in DnsThreads : JobOf(job[t], c)
    BY <2>1, <2>4 DEF FdInv, FdAgrees, OneFd, JobOf
  <2> QED BY <2>1, <2>2, <2>3, <2>4 DEF FdInv, FdHeld
<1> QED BY <1>1, FdInvariant, PTL

(***************************************************************************)
(* Nobody uses another client's descriptor                                 *)
(***************************************************************************)

\* A job of a connection names the connection and a descriptor.
LEMMA TcpJobType ==
  ASSUME NEW j \in Jobs \cup {NoJob}, IsTcp(j)
  PROVE  j \in TcpJobs /\ j.req \in Conns /\ j.sockfd \in Fds /\ JobOf(j, j.req)
BY JobsAssumption DEF IsTcp, UdpJobs, TcpJobs, JobOf

\* A job in the ring, or with a thread that is not at the end of the request, means
\* that the block of its request is live and that no thread is at the end.
LEMMA JobOutstanding ==
  ASSUME RequestInv, NEW c \in Conns,
         \/ \E j \in RingJobs : JobOf(j, c)
         \/ \E t \in DnsThreads : JobOf(job[t], c) /\ dpc[t] \in {"dnsrequest", "finish"}
         \/ \E w \in Workers : Serving(w, c) /\ wpc[w] = "put"
  PROVE  blk[c] = "live" /\ Outstanding(c) # 0 /\ Enders(c) = {}
<1> USE DEF RequestInv
<1>1. Unput(c) # {} \/ InRing(c) # {} \/ InThread(c) # {}
  <2>1. CASE \E j \in RingJobs : JobOf(j, c)
    BY <2>1 DEF RingJobs, InRing, JobOf
  <2>2. CASE \E t \in DnsThreads : JobOf(job[t], c) /\ dpc[t] \in {"dnsrequest", "finish"}
    BY <2>2 DEF InThread, JobOf
  <2>3. CASE \E w \in Workers : Serving(w, c) /\ wpc[w] = "put"
    <3>1. PICK w \in Workers : wpc[w] = "put" /\ wreq[w] = c
      BY <2>3 DEF Serving
    <3>2. MissJob(w) \in TcpJobs
      BY <3>1, MissJobType, TcpJobType, JobAssumption DEF IsTcp, MissJob
    <3>3. wput[w] \in Counts
      BY <3>2 DEF TcpJobs, MissJob, Count
    <3>4. wmiss[w] \in Seq(Nodes)
      BY DEF ServerInv, TypeOK, TcpTypeOK
    <3>5. Len(wmiss[w]) \in Nat /\ wput[w] < Len(wmiss[w])
      BY <3>1, <3>4 DEF ServerInv, WorkerShape
    <3>6. wput[w] \in wput[w] .. Len(wmiss[w]) - 1
      BY <3>3, <3>5 DEF Counts
    <3>7. <<w, wput[w]>> \in Unput(c)
      BY <3>1, <3>3, <3>6 DEF Unput
    <3> QED BY <3>7
  <2> QED BY <2>1, <2>2, <2>3
<1>2. Outstanding(c) \in Nat \ {0}
  BY <1>1, OutstandingType
<1>3. blk[c] = "live"
  BY <1>2 DEF CountInv, BlockOutlivesJobs
<1>4. ASSUME NEW t \in Enders(c) PROVE FALSE
  <2>1. t \in DnsThreads /\ dpc[t] \in {"send", "close", "free"} /\ job[t].req = c
    BY DEF Enders
  <2>2. job[t] # NoJob
    BY <2>1, ThreadReq
  <2> QED BY <1>2, <2>1, <2>2 DEF CountInv, EndsLast
<1> QED BY <1>2, <1>3, <1>4

\* A worker that serves c before the jobs are put means that c has no block yet,
\* so no job of c is anywhere and no thread has counted one down.
LEMMA NoJobsYet ==
  ASSUME RequestInv, NEW c \in Conns, blk[c] = "none"
  PROVE  /\ \A j \in RingJobs : ~JobOf(j, c)
         /\ \A t \in DnsThreads : ~JobOf(job[t], c)
<1>1. \A j \in RingJobs : ~JobOf(j, c)
  BY JobOutstanding
<1>2. ASSUME NEW t \in DnsThreads, JobOf(job[t], c) PROVE FALSE
  <2>1. job[t] # NoJob /\ job[t].req = c /\ dpc[t] # "loop"
    BY <1>2 DEF JobOf, IsTcp, RequestInv, ServerInv, ThreadShape
  <2>2. dpc[t] \notin {"dnsrequest", "finish"}
    BY <1>2, JobOutstanding
  <2>3. dpc[t] \in {"check", "send", "close", "free"}
    BY <2>1, <2>2 DEF RequestInv, ServerInv, TypeOK, DnsThreadTypeOK
  <2> QED BY <2>1, <2>3 DEF RequestInv, CountInv, EndsLast
<1> QED BY <1>1, <1>2

\* The general step: each descriptor someone has a right to after the step was
\* handed to him by someone who had one, and still refers to the same connection.
LEMMA OwnedFlow ==
  ASSUME FdOwned, ~astray,
         \A w \in Workers : wpc'[w] # "accept" =>
           \/ fdTab'[wfd'[w]] = wreq'[w]
           \/ /\ wpc[w] # "accept" /\ wreq'[w] = wreq[w] /\ wfd'[w] = wfd[w]
              /\ fdTab'[wfd[w]] = fdTab[wfd[w]],
         \A j \in RingJobs' : IsTcp(j) =>
           /\ fdTab'[j.sockfd] = fdTab[j.sockfd]
           /\ \/ j \in RingJobs
              \/ \E w \in Workers : wpc[w] # "accept" /\ j.sockfd = wfd[w] /\ j.req = wreq[w],
         \A t \in DnsThreads : IsTcp(job'[t]) /\ Keeps(t)' =>
           /\ fdTab'[job'[t].sockfd] = fdTab[job'[t].sockfd]
           /\ job'[t] \in RingJobs \/ (job'[t] = job[t] /\ Keeps(t)),
         \A c \in Conns : \A t \in Enders(c)' : blk'[c] = "live" /\ Enders(c)' = {t}
  PROVE  FdOwned'
<1>1. \A w \in Workers : wpc'[w] # "accept" => fdTab'[wfd'[w]] = wreq'[w]
  BY DEF FdOwned
<1>2. \A j \in RingJobs' : IsTcp(j) => fdTab'[j.sockfd] = j.req
  BY DEF FdOwned
<1>3. \A t \in DnsThreads : IsTcp(job'[t]) /\ Keeps(t)' => fdTab'[job'[t].sockfd] = job'[t].req
  BY DEF FdOwned
<1>4. \A j \in RingJobs' : IsTcp(j)' <=> IsTcp(j)
  BY DEF IsTcp
<1>5. \A t \in DnsThreads : IsTcp(job[t])' <=> IsTcp(job'[t])
  BY DEF IsTcp
<1> QED BY <1>1, <1>2, <1>3, <1>4, <1>5 DEF FdOwned, IsTcp

\* Thread u, which has counted down, has no right to the descriptor after the step
\* that it had not before: the last thread of a request is followed by the free.
LEMMA KeepsOn ==
  ASSUME NEW u \in DnsThreads, NEW c \in Conns, job'[u] = job[u], job[u].req = c,
         dpc'[u] = "check" => dpc[u] = "check",
         dpc'[u] \in {"dnsrequest", "finish", "send", "close"}
           => dpc[u] \in {"dnsrequest", "finish", "send", "close"},
         blk'[c] = "live" => blk[c] = "live",
         blk'[c] = "live" => \A v \in Enders(c) : dpc[v] = "free" =>
                               v \in Enders(c)' /\ dpc'[v] = "free",
         Keeps(u)'
  PROVE  Keeps(u)
BY DEF Keeps

\* A step that leaves the descriptors, the ring, the blocks and who is at the end
\* of which request alone.
LEMMA OwnedStays ==
  ASSUME RequestInv, FdOwned, ~astray, UNCHANGED <<fdTab, blk>>,
         RingJobs' \subseteq RingJobs,
         \A w \in Workers : wpc'[w] # "accept" =>
           wpc[w] # "accept" /\ wreq'[w] = wreq[w] /\ wfd'[w] = wfd[w],
         \A c \in Conns : Enders(c)' = Enders(c),
         \A t \in DnsThreads :
           \/ job'[t] = NoJob
           \/ job'[t] \in RingJobs /\ dpc[t] = "loop"
           \/ job'[t] = job[t] /\ dpc[t] # "loop" /\ (dpc'[t] = dpc[t] \/ (dpc[t] # "check"  /\ dpc[t] # "free")),
         \A t \in DnsThreads : dpc[t] = "free" => dpc'[t] = "free" /\ job'[t] = job[t]
  PROVE  FdOwned'
<1> USE DEF RequestInv
<1>1. \A c \in Conns : \A t \in Enders(c)' : blk'[c] = "live" /\ Enders(c)' = {t}
  BY DEF FdOwned
<1>2. ASSUME NEW t \in DnsThreads, IsTcp(job'[t]), Keeps(t)'
      PROVE  job'[t] \in RingJobs \/ (job'[t] = job[t] /\ Keeps(t))
  <2>1. CASE job'[t] = NoJob
    BY <1>2, <2>1 DEF IsTcp
  <2>2. CASE job'[t] = job[t] /\ dpc[t] # "loop" /\ dpc'[t] = dpc[t]
    <3>1. IsTcp(job[t]) /\ job[t] \in Jobs \cup {NoJob}
      BY <1>2, <2>2 DEF IsTcp, ServerInv, TypeOK, RingTypeOK
    <3>2. PICK c \in Conns : job[t].req = c
      BY <3>1, TcpJobType
    <3>3. \A v \in Enders(c) : dpc[v] = "free" => v \in Enders(c)' /\ dpc'[v] = "free"
      BY DEF Enders
    <3> QED BY <1>2, <2>2, <3>2, <3>3, KeepsOn
  <2>3. CASE job'[t] = job[t] /\ dpc[t] \notin {"loop", "check", "free"}
    BY <1>2, <2>3 DEF Keeps, ServerInv, TypeOK, DnsThreadTypeOK
  <2> QED BY <1>2, <2>1, <2>2, <2>3
<1> QED BY <1>1, <1>2, OwnedFlow

\* A DNS thread takes a job, answers it, counts it down, leaves the request to
\* another, sends the second reply, or does nothing to any request.
LEMMA DnsStepOwned ==
  ASSUME RequestInv, FdOwned, NEW t \in DnsThreads, DnsStep(t), UNCHANGED workerVars,
         ~CheckZero(t), ~CloseConn(t), ~Free(t)
  PROVE  FdOwned'
<1> USE DEF RequestInv
<1>1. /\ UNCHANGED <<fdTab, blk, wpc, wreq, wfd>> /\ astray' = astray
  BY DEF DnsStep, WorkOnJob, TakeJob, WaitForJob, UdpDnsRequest, TcpDnsRequest, Finish,
     CheckNonZero, Send, SendFails, FreeAborts, offRingVars, sockVars, reqVars, workerVars
<1>2. CASE astray
  BY <1>1, <1>2 DEF FdOwned
<1>3. CASE ~astray
  <2>1. RingJobs' \subseteq RingJobs
    <3>1. CASE TakeJob(t)
      BY <3>1, TakeRingJobs DEF TakeJob
    <3> QED BY <3>1, DnsStepWindow, SameRingJobs
  <2>2. \/ job'[t] = NoJob /\ dpc[t] \in {"dnsrequest", "check"} /\ dpc'[t] = "loop"
        \/ job'[t] \in RingJobs /\ dpc[t] = "loop" /\ dpc'[t] = "dnsrequest"
        \/ job'[t] = job[t] /\ dpc'[t] = dpc[t]
        \/ job'[t] = job[t] /\ dpc[t] = "dnsrequest" /\ dpc'[t] = "finish"
        \/ job'[t] = job[t] /\ dpc[t] = "finish" /\ dpc'[t] = "check"
        \/ job'[t] = job[t] /\ dpc[t] = "send" /\ dpc'[t] = "close"
    <3> USE DEF ServerInv, TypeOK, DnsThreadTypeOK, RingTypeOK
    <3>1. CASE TakeJob(t)
      <4>1. job'[t] = dns_array[iget] /\ dpc[t] = "loop" /\ dpc'[t] = "dnsrequest"
        BY <3>1 DEF TakeJob, Take, Ready, Goto, ThreadShape
      <4> QED BY <3>1, <4>1, TakeRingJobs DEF TakeJob
    <3>2. CASE UdpDnsRequest(t) \/ CheckNonZero(t)
      BY <3>2 DEF UdpDnsRequest, CheckNonZero, JobDone, Goto
    <3>3. CASE TcpDnsRequest(t) \/ Finish(t) \/ Send(t)
      BY <3>3 DEF TcpDnsRequest, Finish, Send, Goto, ringVars
    <3>4. CASE WaitForJob(t) \/ SendFails(t) \/ FreeAborts(t)
      BY <3>4 DEF WaitForJob, SendFails, FreeAborts, Wait, SpuriousWakeup, Halt,
                  offRingVars, threadVars
    <3> QED BY <3>1, <3>2, <3>3, <3>4 DEF DnsStep, WorkOnJob
  <2>3. \A u \in DnsThreads : u # t => dpc'[u] = dpc[u] /\ job'[u] = job[u]
    BY OtherThreads
  <2>4. \A c \in Conns : Enders(c)' = Enders(c)
    <3> SUFFICES ASSUME NEW c \in Conns PROVE Enders(c)' = Enders(c)
      OBVIOUS
    <3>1. \A u : u \in Enders(c)' <=> u \in Enders(c)
      BY <2>2, <2>3 DEF Enders
    <3> QED BY <3>1
  <2>5. \A u \in DnsThreads :
          \/ job'[u] = NoJob
          \/ job'[u] \in RingJobs /\ dpc[u] = "loop"
          \/ job'[u] = job[u] /\ dpc[u] # "loop" /\ (dpc'[u] = dpc[u] \/ (dpc[u] # "check" /\ dpc[u] # "free"))
    BY <2>2, <2>3 DEF ServerInv, ThreadShape
  <2>6. \A u \in DnsThreads : dpc[u] = "free" => dpc'[u] = "free" /\ job'[u] = job[u]
    BY <2>2, <2>3
  <2> QED BY <1>1, <1>3, <2>1, <2>4, <2>5, <2>6, OwnedStays
<1> QED BY <1>2, <1>3

\* A thread reads the count as zero.  If that does not lead it astray it is the
\* only one to do so, the block is live, and the connection is still open.
LEMMA CheckZeroOwned ==
  ASSUME RequestInv, FdOwned, NEW t \in DnsThreads, CheckZero(t), UNCHANGED workerVars, ~astray'
  PROVE  FdOwned'
<1> USE DEF RequestInv
<1>1. PICK r \in Conns : r = job[t].req /\ job[t] # NoJob /\ IsTcp(job[t])
  BY ThreadReq DEF CheckZero
<1>2. /\ UNCHANGED <<fdTab, blk, wpc, wreq, wfd, job>> /\ dpc[t] = "check" /\ dpc'[t] = "send"
      /\ ~astray /\ blk[r] # "freed" /\ Enders(r) = {}
  BY <1>1 DEF CheckZero, Goto, sockVars, reqVars, ringVars, workerVars, ServerInv, TypeOK, DnsThreadTypeOK
<1>3. blk[r] = "live"
  BY <1>1, <1>2 DEF CountInv, EndsLast, ServerInv, TypeOK, DnsThreadTypeOK
<1>4. \A u \in DnsThreads : u # t => dpc'[u] = dpc[u]
  BY OtherThreads DEF DnsStep, WorkOnJob
<1>5. RingJobs' = RingJobs
  BY SameWindow, SameRingJobs DEF CheckZero, ringVars
<1>6. \A c \in Conns : \A u : u \in Enders(c)' <=> u \in Enders(c) \/ (u = t /\ c = r)
  BY <1>1, <1>2, <1>4 DEF Enders
<1>7. \A c \in Conns : \A u \in Enders(c)' : blk'[c] = "live" /\ Enders(c)' = {u}
  <2> SUFFICES ASSUME NEW c \in Conns, NEW u \in Enders(c)'
               PROVE  blk'[c] = "live" /\ Enders(c)' = {u}
    OBVIOUS
  <2>1. CASE c = r
    BY <1>2, <1>3, <1>6, <2>1
  <2>2. CASE c # r
    <3>1. Enders(c)' = Enders(c)
      BY <1>6, <2>2
    <3> QED BY <1>2, <3>1 DEF FdOwned
  <2> QED BY <2>1, <2>2
<1>8. ASSUME NEW u \in DnsThreads, IsTcp(job'[u]), Keeps(u)'
      PROVE  job'[u] = job[u] /\ Keeps(u)
  <2>1. CASE u = t
    BY <1>1, <1>2, <1>3, <2>1 DEF Keeps
  <2>2. CASE u # t
    <3>1. IsTcp(job[u]) /\ job[u] \in Jobs \cup {NoJob}
      BY <1>2, <1>8 DEF IsTcp, ServerInv, TypeOK, RingTypeOK
    <3>2. PICK c \in Conns : job[u].req = c
      BY <3>1, TcpJobType
    <3>3. \A v \in Enders(c) : dpc[v] = "free" => v \in Enders(c)' /\ dpc'[v] = "free"
      BY <1>2, <1>4, <1>6 DEF Enders
    <3> QED BY <1>2, <1>4, <1>8, <2>2, <3>2, <3>3, KeepsOn
  <2> QED BY <2>1, <2>2
<1> QED BY <1>2, <1>5, <1>7, <1>8, OwnedFlow

\* The last thread of a request closes its connection: nobody else has a right to
\* the descriptor any more.
LEMMA CloseConnOwned ==
  ASSUME RequestInv, FdOwned, NEW t \in DnsThreads, CloseConn(t), UNCHANGED workerVars, ~astray'
  PROVE  FdOwned'
<1> USE DEF RequestInv
<1>1. PICK r \in Conns : r = job[t].req /\ JobOf(job[t], r) /\ job[t].sockfd \in Fds
                         /\ job[t] # NoJob
  BY ThreadReq DEF CloseConn, JobOf, TcpJobs
<1> DEFINE g == job[t].sockfd
<1>2. /\ UNCHANGED <<blk, wpc, wreq, wfd, job>> /\ dpc[t] = "close" /\ dpc'[t] = "free" /\ ~astray
      /\ \A f \in Fds : f # g => fdTab'[f] = fdTab[f]
  BY DEF CloseConn, CloseSockfd, Closed, Goto, ringVars, workerVars, reqVars, ServerInv, TypeOK,
         SockTypeOK, DnsThreadTypeOK
<1>3. \A u \in DnsThreads : u # t => dpc'[u] = dpc[u]
  BY OtherThreads DEF DnsStep, WorkOnJob
<1>4. RingJobs' = RingJobs
  BY SameWindow, SameRingJobs DEF CloseConn, ringVars
<1>5. t \in Enders(r) /\ Enders(r) = {t} /\ blk[r] = "live" /\ fdTab[g] = r
  BY <1>1, <1>2 DEF Enders, FdOwned, Keeps, JobOf
<1>6. \A c \in Conns : \A u : u \in Enders(c)' <=> u \in Enders(c)
  BY <1>2, <1>3 DEF Enders
<1>7. \A c \in Conns : Enders(c)' = Enders(c)
  BY <1>6
<1> HIDE DEF g
<1>8. ASSUME NEW w \in Workers, wpc[w] # "accept" PROVE wfd[w] # g /\ wfd[w] \in Fds
  <2>1. fdTab[wfd[w]] = wreq[w] /\ wfd[w] \in Fds
    BY <1>2, <1>8 DEF FdOwned, ServerInv, TypeOK, TcpTypeOK
  <2>2. ~Serving(w, r)
    <3> SUFFICES ASSUME Serving(w, r) PROVE FALSE
      OBVIOUS
    <3>1. wpc[w] # "put"
      BY <1>5, JobOutstanding
    <3>2. wpc[w] \in {"serv", "search", "reply"} /\ wreq[w] = r
      BY <1>8, <3>1 DEF ServerInv, TypeOK, TcpTypeOK, Serving
    <3> QED BY <1>5, <3>2 DEF ServedOnce
  <2> QED BY <1>5, <1>8, <2>1, <2>2 DEF Serving
<1>9. ASSUME NEW j \in RingJobs, IsTcp(j) PROVE j.sockfd # g /\ j.sockfd \in Fds
  <2>1. fdTab[j.sockfd] = j.req /\ j.sockfd \in Fds /\ JobOf(j, j.req)
    BY <1>2, <1>9, TcpJobType, RingJobsType DEF FdOwned
  <2> QED BY <1>5, <2>1, JobOutstanding
<1>10. ASSUME NEW u \in DnsThreads, IsTcp(job'[u]), Keeps(u)'
       PROVE  job'[u] = job[u] /\ Keeps(u) /\ job[u].sockfd # g /\ job[u].sockfd \in Fds
  <2>1. IsTcp(job[u]) /\ job[u] \in Jobs \cup {NoJob}
    BY <1>2, <1>10 DEF IsTcp, ServerInv, TypeOK, RingTypeOK
  <2>2. PICK c \in Conns : job[u].req = c /\ JobOf(job[u], c) /\ job[u].sockfd \in Fds
    BY <2>1, TcpJobType
  <2>3. u # t
    BY <1>2, <1>10 DEF Keeps
  <2>4. c # r
    <3> SUFFICES ASSUME c = r PROVE FALSE
      OBVIOUS
    <3>1. dpc[u] # "check"
      BY <1>2, <1>3, <1>5, <1>7, <1>10, <2>2, <2>3 DEF Keeps
    <3>2. dpc[u] \notin {"dnsrequest", "finish"}
      BY <1>5, <2>2, JobOutstanding
    <3>3. dpc[u] \notin {"send", "close"}
      BY <1>5, <2>2, <2>3 DEF Enders
    <3> QED BY <1>2, <1>3, <1>10, <2>3, <3>1, <3>2, <3>3 DEF Keeps
  <2>5. \A v \in Enders(c) : dpc[v] = "free" => v \in Enders(c)' /\ dpc'[v] = "free"
    BY <1>2, <1>3, <1>7 DEF Enders
  <2>6. Keeps(u)
    BY <1>2, <1>3, <1>10, <2>2, <2>3, <2>5, KeepsOn
  <2>7. fdTab[job[u].sockfd] = c
    BY <1>2, <2>1, <2>2, <2>6 DEF FdOwned
  <2> QED BY <1>2, <1>5, <2>2, <2>4, <2>6, <2>7
<1>11. \A c \in Conns : \A u \in Enders(c)' : blk'[c] = "live" /\ Enders(c)' = {u}
  BY <1>2, <1>7 DEF FdOwned
<1> QED BY <1>2, <1>4, <1>8, <1>9, <1>10, <1>11, OwnedFlow

\* The last thread of a request frees the block and is the last.
LEMMA FreeOwned ==
  ASSUME RequestInv, FdOwned, NEW t \in DnsThreads, Free(t), UNCHANGED workerVars, ~astray'
  PROVE  FdOwned'
<1> USE DEF RequestInv
<1>1. PICK r \in Conns : r = job[t].req /\ dpc[t] = "free" /\ job[t] # NoJob
  BY ThreadReq DEF Free
<1>2. /\ UNCHANGED <<fdTab, wpc, wreq, wfd>> /\ job'[t] = NoJob /\ ~astray /\ dpc'[t] = "loop"
      /\ \A c \in Conns : blk'[c] = IF c = r THEN "freed" ELSE blk[c]
  BY <1>1 DEF Free, JobDone, Goto, sockVars, workerVars, ServerInv, TypeOK, RingTypeOK, DnsThreadTypeOK
<1>3. \A u \in DnsThreads : u # t => dpc'[u] = dpc[u] /\ job'[u] = job[u]
  BY OtherThreads DEF DnsStep, WorkOnJob
<1>4. RingJobs' = RingJobs
  BY SameWindow, SameRingJobs DEF Free, JobDone
<1>5. Enders(r) = {t}
  BY <1>1, <1>2 DEF Enders, FdOwned
<1>6. \A c \in Conns : \A u : u \in Enders(c)' <=> u \in Enders(c) /\ u # t
  BY <1>1, <1>2, <1>3 DEF Enders
<1>7. \A c \in Conns : \A u \in Enders(c)' : blk'[c] = "live" /\ Enders(c)' = {u}
  <2> SUFFICES ASSUME NEW c \in Conns, NEW u \in Enders(c)'
               PROVE  blk'[c] = "live" /\ Enders(c)' = {u}
    OBVIOUS
  <2>1. u \in Enders(c) /\ u # t
    BY <1>6
  <2>2. c # r
    BY <1>5, <2>1
  <2> QED BY <1>2, <1>6, <2>1, <2>2 DEF FdOwned
<1>8. ASSUME NEW u \in DnsThreads, IsTcp(job'[u]), Keeps(u)'
      PROVE  job'[u] = job[u] /\ Keeps(u)
  <2>1. u # t
    BY <1>2, <1>8 DEF IsTcp
  <2>2. IsTcp(job[u]) /\ job[u] \in Jobs \cup {NoJob}
    BY <1>3, <1>8, <2>1 DEF IsTcp, ServerInv, TypeOK, RingTypeOK
  <2>3. PICK c \in Conns : job[u].req = c
    BY <2>2, TcpJobType
  <2>4. c # r => \A v \in Enders(c) : dpc[v] = "free" => v \in Enders(c)' /\ dpc'[v] = "free"
    BY <1>1, <1>3, <1>6 DEF Enders
  <2>5. blk'[c] = "live" => c # r /\ blk[c] = "live"
    BY <1>2
  <2>6. job'[u] = job[u] /\ dpc'[u] = dpc[u]
    BY <1>3, <2>1
  <2> QED BY <1>8, <2>3, <2>4, <2>5, <2>6, KeepsOn
<1> QED BY <1>2, <1>4, <1>7, <1>8, OwnedFlow

\* A worker accepts: those with a right to a descriptor have an open one, and the
\* new one was not.
LEMMA AcceptOwned ==
  ASSUME RequestInv, FdOwned, NEW w \in Workers, Accept(w)
  PROVE  FdOwned'
<1> USE DEF RequestInv
<1>0. CASE astray
  BY <1>0 DEF Accept, FdOwned
<1>a. CASE ~astray
  <2>1. PICK f \in Fds, r \in Conns :
          AcceptFd(f, r) /\ wreq' = [wreq EXCEPT ![w] = r] /\ wfd' = [wfd EXCEPT ![w] = f]
    BY DEF Accept
  <2>2. /\ UNCHANGED <<blk, job, dpc>> /\ UNCHANGED ringVars
        /\ wreq'[w] = r /\ wfd'[w] = f
        /\ \A v \in Workers : v # w => wpc'[v] = wpc[v] /\ wreq'[v] = wreq[v] /\ wfd'[v] = wfd[v]
    BY <2>1 DEF Accept, ringVars, threadVars, reqVars, ServerInv, TypeOK, TcpTypeOK
  <2>3. /\ fdTab[f] = NoConn
        /\ \A g \in Fds : fdTab'[g] = IF g = f THEN r ELSE fdTab[g]
    BY <2>1 DEF AcceptFd, ServerInv, TypeOK, SockTypeOK
  <2>4. RingJobs' = RingJobs
    BY <2>2, SameWindow, SameRingJobs DEF ringVars
  <2>5. \A c \in Conns : Enders(c)' = Enders(c)
    BY <2>2 DEF Enders
  <2>6. \A c \in Conns : \A u \in Enders(c)' : blk'[c] = "live" /\ Enders(c)' = {u}
    BY <1>a, <2>2, <2>5 DEF FdOwned
  <2>7. ASSUME NEW v \in Workers, wpc'[v] # "accept"
        PROVE  \/ fdTab'[wfd'[v]] = wreq'[v]
               \/ /\ wpc[v] # "accept" /\ wreq'[v] = wreq[v] /\ wfd'[v] = wfd[v]
                  /\ fdTab'[wfd[v]] = fdTab[wfd[v]]
    <3>1. CASE v = w
      BY <2>2, <2>3, <3>1
    <3>2. CASE v # w
      <4>1. wpc[v] # "accept" /\ wfd[v] \in Fds /\ wreq[v] \in Conns /\ fdTab[wfd[v]] = wreq[v]
        BY <1>a, <2>2, <2>7, <3>2 DEF FdOwned, ServerInv, TypeOK, TcpTypeOK, WorkerShape
      <4> QED BY <2>2, <2>3, <3>2, <4>1, ConnAssumption
    <3> QED BY <3>1, <3>2
  <2>8. ASSUME NEW j \in RingJobs, IsTcp(j) PROVE fdTab'[j.sockfd] = fdTab[j.sockfd]
    <3>1. j.sockfd \in Fds /\ j.req \in Conns /\ fdTab[j.sockfd] = j.req
      BY <1>a, <2>8, RingJobsType, TcpJobType DEF FdOwned
    <3> QED BY <2>3, <3>1, ConnAssumption
  <2>9. ASSUME NEW u \in DnsThreads, IsTcp(job'[u]), Keeps(u)'
        PROVE  fdTab'[job'[u].sockfd] = fdTab[job'[u].sockfd] /\ job'[u] = job[u] /\ Keeps(u)
    <3>1. IsTcp(job[u]) /\ job[u] \in Jobs \cup {NoJob} /\ job'[u] = job[u]
      BY <2>2, <2>9 DEF IsTcp, ServerInv, TypeOK, RingTypeOK
    <3>2. PICK c \in Conns : job[u].req = c /\ job[u].sockfd \in Fds
      BY <3>1, TcpJobType
    <3>3. Keeps(u)
      BY <2>2, <2>5, <2>9, <3>2 DEF Keeps
    <3>4. fdTab[job[u].sockfd] = c
      BY <1>a, <3>1, <3>2, <3>3 DEF FdOwned
    <3> QED BY <2>3, <3>1, <3>2, <3>3, <3>4, ConnAssumption
  <2> QED BY <1>a, <2>4, <2>6, <2>7, <2>8, <2>9, OwnedFlow
<1> QED BY <1>0, <1>a

\* A worker that refuses a request or answers it at once closes the connection:
\* no job of the request is anywhere.
LEMMA WorkerCloseOwned ==
  ASSUME RequestInv, FdOwned, NEW w \in Workers, Reject(w) \/ ReplyHit(w)
  PROVE  FdOwned'
<1> USE DEF RequestInv
<1>1. /\ wpc[w] \in {"serv", "reply"} /\ CloseConnfd(w) /\ Idle(w) /\ wpc'[w] = "accept"
      /\ UNCHANGED <<blk, dpc, job>> /\ UNCHANGED ringVars /\ astray' = astray
  BY DEF Reject, ReplyHit, Idle, ringVars, threadVars, reqVars, ServerInv, TypeOK, TcpTypeOK
<1>2. CASE astray
  BY <1>1, <1>2 DEF FdOwned
<1>3. CASE ~astray
  <2> DEFINE g == wfd[w]
  <2>1. PICK r \in Conns : wreq[w] = r /\ Serving(w, r) /\ fdTab[g] = r /\ blk[r] = "none"
    BY <1>1, <1>3 DEF FdOwned, ServerInv, WorkerShape, ServedOnce, Serving
  <2>2. \A f \in Fds : f # g => fdTab'[f] = fdTab[f]
    BY <1>1 DEF CloseConnfd, Closed, ServerInv, TypeOK, SockTypeOK
  <2> HIDE DEF g
  <2>3. RingJobs' = RingJobs
    BY <1>1, SameWindow, SameRingJobs DEF ringVars
  <2>4. \A c \in Conns : Enders(c)' = Enders(c)
    BY <1>1 DEF Enders
  <2>5. \A c \in Conns : \A u \in Enders(c)' : blk'[c] = "live" /\ Enders(c)' = {u}
    BY <1>1, <1>3, <2>4 DEF FdOwned
  <2>6. ASSUME NEW v \in Workers, wpc'[v] # "accept"
        PROVE  /\ wpc[v] # "accept" /\ wreq'[v] = wreq[v] /\ wfd'[v] = wfd[v]
               /\ fdTab'[wfd[v]] = fdTab[wfd[v]]
    <3>1. v # w
      BY <1>1, <2>6
    <3>2. wpc[v] # "accept" /\ wreq'[v] = wreq[v] /\ wfd'[v] = wfd[v]
      BY <1>1, <2>6, <3>1, OthersIdle
    <3>3. wfd[v] \in Fds /\ fdTab[wfd[v]] = wreq[v]
      BY <1>3, <3>2 DEF FdOwned, ServerInv, TypeOK, TcpTypeOK
    <3>4. wreq[v] # r
      BY <2>1, <3>1, <3>2 DEF ServedOnce, Serving
    <3> QED BY <2>1, <2>2, <3>2, <3>3, <3>4
  <2>7. ASSUME NEW j \in RingJobs, IsTcp(j) PROVE fdTab'[j.sockfd] = fdTab[j.sockfd]
    <3>1. j.sockfd \in Fds /\ fdTab[j.sockfd] = j.req /\ JobOf(j, j.req)
      BY <1>3, <2>7, RingJobsType, TcpJobType DEF FdOwned
    <3> QED BY <2>1, <2>2, <3>1, NoJobsYet
  <2>8. ASSUME NEW u \in DnsThreads, IsTcp(job'[u]), Keeps(u)'
        PROVE  fdTab'[job'[u].sockfd] = fdTab[job'[u].sockfd] /\ job'[u] = job[u] /\ Keeps(u)
    <3>1. IsTcp(job[u]) /\ job[u] \in Jobs \cup {NoJob} /\ job'[u] = job[u]
      BY <1>1, <2>8 DEF IsTcp, ServerInv, TypeOK, RingTypeOK
    <3>2. PICK c \in Conns : job[u].req = c /\ job[u].sockfd \in Fds /\ JobOf(job[u], c)
      BY <3>1, TcpJobType
    <3>3. Keeps(u)
      BY <1>1, <2>4, <2>8, <3>2 DEF Keeps
    <3>4. fdTab[job[u].sockfd] = c
      BY <1>3, <3>1, <3>2, <3>3 DEF FdOwned
    <3> QED BY <2>1, <2>2, <3>1, <3>2, <3>3, <3>4, NoJobsYet
  <2> QED BY <1>3, <2>3, <2>5, <2>6, <2>7, <2>8, OwnedFlow
<1> QED BY <1>2, <1>3

\* A step that changes no thread, no descriptor and, of the blocks, at most one
\* that was not allocated.
LEMMA OwnedApart ==
  ASSUME RequestInv, FdOwned, UNCHANGED <<fdTab, dpc, job>>, astray' = astray,
         \A c \in Conns : blk[c] # "none" => blk'[c] = blk[c],
         \A v \in Workers : wpc'[v] # "accept" =>
           wpc[v] # "accept" /\ wreq'[v] = wreq[v] /\ wfd'[v] = wfd[v],
         \A j \in RingJobs' : IsTcp(j) =>
           \/ j \in RingJobs
           \/ \E v \in Workers : wpc[v] # "accept" /\ j.sockfd = wfd[v] /\ j.req = wreq[v]
  PROVE  FdOwned'
<1> USE DEF RequestInv
<1>1. CASE astray
  BY <1>1 DEF FdOwned
<1>2. CASE ~astray
  <2>1. \A c \in Conns : Enders(c)' = Enders(c)
    BY DEF Enders
  <2>2. \A c \in Conns : \A u \in Enders(c)' : blk'[c] = "live" /\ Enders(c)' = {u}
    BY <1>2, <2>1 DEF FdOwned
  <2>3. ASSUME NEW u \in DnsThreads, IsTcp(job'[u]), Keeps(u)'
        PROVE  job'[u] = job[u] /\ Keeps(u)
    <3>1. IsTcp(job[u]) /\ job[u] \in Jobs \cup {NoJob} /\ job[u] # NoJob
      BY <2>3 DEF IsTcp, ServerInv, TypeOK, RingTypeOK
    <3>2. PICK c \in Conns : job[u].req = c
      BY <3>1, TcpJobType
    <3>3. dpc[u] = "check" => blk'[c] = blk[c]
      BY <3>1, <3>2 DEF CountInv, EndsLast
    <3> QED BY <2>1, <2>3, <3>2, <3>3 DEF Keeps
  <2> QED BY <1>2, <2>2, <2>3, OwnedFlow
<1> QED BY <1>1, <1>2

\* Every step of a worker.
LEMMA WorkerStepOwned ==
  ASSUME RequestInv, ServerInv', FdOwned, NEW w \in Workers, WorkerStep(w)
  PROVE  FdOwned'
<1> USE DEF RequestInv
<1>1. CASE ZeroLength(w) \/ Overwrite(w)
  BY <1>1 DEF ZeroLength, Overwrite, FdOwned
<1>2. CASE ReadBody(w) \/ Search(w) \/ ReplyMiss(w) \/ NullBuffer(w) \/ OverwriteCrash(w) \/ ReplyKilled(w)
  <2>1. /\ UNCHANGED <<fdTab, dpc, job, wreq, wfd, astray>>
        /\ wpc' = wpc \/ \E l \in {"search", "reply", "put"} : wpc' = [wpc EXCEPT ![w] = l]
        /\ wpc[w] # "accept"
    BY <1>2 DEF ReadBody, Search, ReplyMiss, NullBuffer, OverwriteCrash, ReplyKilled, Halt, sharedVars,
                ringVars, offRingVars, sockVars, threadVars, workerVars
  <2>2. RingJobs' = RingJobs
    <3>1. CASE Halt
      BY <3>1, SameWindow, SameRingJobs DEF Halt
    <3>2. CASE UNCHANGED ringVars
      BY <3>2, SameWindow, SameRingJobs DEF ringVars
    <3> QED BY <1>2, <3>1, <3>2 DEF ReadBody, Search, ReplyMiss, NullBuffer, OverwriteCrash, ReplyKilled,
                                    sharedVars
  <2>3. \A c \in Conns : blk[c] # "none" => blk'[c] = blk[c]
    <3>1. CASE ReplyMiss(w)
      <4>1. wreq[w] \in Conns /\ blk[wreq[w]] = "none" /\ blk' = [blk EXCEPT ![wreq[w]] = "live"]
        BY <3>1 DEF ReplyMiss, ServedOnce, ServerInv, WorkerShape
      <4> QED BY <4>1 DEF ServerInv, TypeOK, DnsThreadTypeOK
    <3>2. CASE ~ReplyMiss(w)
      BY <1>2, <3>2 DEF ReadBody, Overwrite, Search, NullBuffer, OverwriteCrash, ReplyKilled, sharedVars, offRingVars,
                        reqVars
    <3> QED BY <3>1, <3>2
  <2>4. \A v \in Workers : wpc'[v] # "accept" => wpc[v] # "accept"
    BY <2>1 DEF ServerInv, TypeOK, TcpTypeOK
  <2> QED BY <2>1, <2>2, <2>3, <2>4, OwnedApart
<1>3. CASE PutJob(w)
  <2>1. /\ wpc[w] = "put" /\ Put(MissJob(w)) /\ MissJob(w) \in Jobs
        /\ UNCHANGED <<fdTab, blk, dpc, job, astray>>
    BY <1>3, MissJobType DEF PutJob, Put, offRingVars, sockVars, threadVars, reqVars
  <2>2. MissJob(w).sockfd = wfd[w] /\ MissJob(w).req = wreq[w]
    BY DEF MissJob
  <2>3. RingJobs' = RingJobs \cup {MissJob(w)}
    BY <2>1, PutRingJobs DEF ServerInv
  <2>4. \A v \in Workers : wpc'[v] # "accept" =>
           wpc[v] # "accept" /\ wreq'[v] = wreq[v] /\ wfd'[v] = wfd[v]
    BY <1>3, <2>1, OthersIdle, ZenonT(60) DEF PutJob, Idle, ServerInv, TypeOK, TcpTypeOK
  <2> QED BY <2>1, <2>2, <2>3, <2>4, OwnedApart
<1> QED BY <1>1, <1>2, <1>3, AcceptOwned, WorkerCloseOwned DEF WorkerStep, ServeConn

\* One step of the server leaves everyone the descriptors he has a right to.
LEMMA FdOwnedStep == RequestInv /\ FdOwned /\ [Next]_vars => FdOwned'
<1> SUFFICES ASSUME RequestInv, FdOwned, [Next]_vars PROVE FdOwned'
  OBVIOUS
<1>1. ServerInv /\ ServerInv'
  BY ServerInvStep DEF RequestInv
<1>2. ASSUME NEW t \in DnsThreads, DnsStep(t), UNCHANGED workerVars PROVE FdOwned'
  <2>1. CASE astray'
    BY <2>1 DEF FdOwned
  <2> QED BY <1>2, <2>1, DnsStepOwned, CheckZeroOwned, CloseConnOwned, FreeOwned
<1>3. ASSUME NEW w \in Workers, WorkerStep(w) PROVE FdOwned'
  BY <1>1, <1>3, WorkerStepOwned
<1>4. ASSUME UdpStep, UNCHANGED workerVars PROVE FdOwned'
  BY <1>1, <1>4, UdpRingJobs, OwnedApart DEF offRingVars, sockVars, threadVars, reqVars, workerVars
<1>5. ASSUME UNCHANGED <<fdTab, ringVars, threadVars, reqVars, astray, workerVars>> PROVE FdOwned'
  <2>1. RingJobs' = RingJobs /\ UNCHANGED job
    BY <1>5, SameWindow, SameRingJobs DEF ringVars
  <2> QED BY <1>5, <2>1, OwnedApart DEF threadVars, reqVars, workerVars
<1>6. ASSUME NEW c \in Conns, Client(c) PROVE FdOwned'
  BY <1>5, <1>6 DEF Client, ClientConnect, ClientSend, ClientGone
<1>7. ASSUME Clock \/ UNCHANGED vars PROVE FdOwned'
  BY <1>5, <1>7 DEF Clock, vars, sharedVars, sockVars
<1> QED BY <1>2, <1>3, <1>4, <1>6, <1>7 DEF Next

\* At the start nobody has a descriptor.
LEMMA FdOwnedInit == Init => FdOwned
<1> SUFFICES ASSUME Init PROVE FdOwned
  OBVIOUS
<1>1. RingJobs = {}
  BY SizeAssumption DEF Init, RingInit, RingJobs, Queued
<1> QED BY <1>1 DEF Init, RingInit, DnsThreadInit, TcpInit, FdOwned, IsTcp, Enders

\* So it always holds.
LEMMA FdOwnedInvariant == Spec => [](RequestInv /\ FdOwned)
<1>1. Init => RequestInv /\ FdOwned
  BY RequestInvInit, FdOwnedInit
<1>2. (RequestInv /\ FdOwned) /\ [Next]_vars => (RequestInv /\ FdOwned)'
  BY RequestInvStep, FdOwnedStep
<1> QED BY <1>1, <1>2, PTL DEF Spec

\* Until a thread goes astray, every descriptor in use by a worker or by a DNS
\* thread that may still write to it or close it refers to the connection it was
\* accepted for, although descriptors are closed by one thread and given out
\* again to another.
THEOREM DescriptorsOwned == Spec => []DescriptorOwned
<1>1. RequestInv /\ FdOwned => DescriptorOwned
  BY DEF FdOwned, Keeps, DescriptorOwned
<1> QED BY <1>1, FdOwnedInvariant, PTL

-----------------------------------------------------------------------------
(***************************************************************************)
(* Part 3.  What a client is answered, for every number of threads,        *)
(* connections and names.  First the second reply: until a thread goes     *)
(* astray, no failure of a DNS thread is lost on the way from its own      *)
(* missindex over *miss to the head byte of the reply.  Then the answers:  *)
(* if the cache can tell the domains apart that share a slot of its hash   *)
(* table, a client that sent a whole request gets one first reply, at most *)
(* one second reply, and in them the right answer for every name it asked  *)
(* for.                                                                    *)
(***************************************************************************)

(***************************************************************************)
(* The second reply                                                        *)
(***************************************************************************)

\* A failure written into a request's answers is recorded in *miss, or will be by
\* the thread that wrote it, which has not counted its job down yet.
ErrorKept ==
  \A c \in Conns : blk[c] = "live" =>
    \A k \in Counts : ipptr[c][k] # NoAnswer /\ ipptr[c][k].ip = DNS_ERROR =>
      miss[c] \/ \E t \in DnsThreads : dpc[t] = "finish" /\ JobOf(job[t], c) /\ missindex[t]

ErrorInv == ErrorKept /\ ErrorReported

(***************************************************************************)
(* What is written to a client                                             *)
(***************************************************************************)

\* A write leaves a stream alone or adds its message at the end.
LEMMA WrittenAt ==
  ASSUME SockTypeOK(Replies), NEW f, NEW m, NEW c \in Conns,
         wire' = Written(f, m)
  PROVE  \/ c \notin Reaches(f) /\ wire'[c] = wire[c]
         \/ /\ c \in Reaches(f) /\ Len(wire'[c]) = Len(wire[c]) + 1
            /\ wire'[c][Len(wire[c]) + 1] = m
            /\ \A i \in DOMAIN wire[c] : i \in DOMAIN wire'[c] /\ wire'[c][i] = wire[c][i]
            /\ \A i \in DOMAIN wire'[c] : i \in DOMAIN wire[c] \/ i = Len(wire[c]) + 1
<1>1. wire[c] \in Seq(Replies)
  BY DEF SockTypeOK
<1>2. CASE c \in Reaches(f)
  <2>1. wire'[c] = Append(wire[c], m)
    BY <1>2 DEF Written
  <2> QED BY <1>1, <1>2, <2>1
<1>3. CASE c \notin Reaches(f)
  BY <1>3 DEF Written
<1> QED BY <1>2, <1>3

\* The steps that write to a client: those of a worker with a first reply and of
\* a DNS thread with a second.
LEMMA WireStep ==
  ASSUME [Next]_vars
  PROVE  \/ UNCHANGED wire
         \/ \E w \in Workers : (ReplyHit(w) \/ ReplyMiss(w)) /\ UNCHANGED udpVars
         \/ \E t \in DnsThreads : Send(t) /\ UNCHANGED <<workerVars, udpVars>>
<1>1. ASSUME NEW t \in DnsThreads, DnsStep(t), ~Send(t) PROVE UNCHANGED wire
  BY <1>1 DEF DnsStep, WorkOnJob, TakeJob, WaitForJob, UdpDnsRequest, TcpDnsRequest, Finish,
              CheckZero, CheckNonZero, SendFails, CloseConn, Free, FreeAborts, sockVars, offRingVars
<1>2. ASSUME NEW w \in Workers, WorkerStep(w), ~ReplyHit(w), ~ReplyMiss(w) PROVE UNCHANGED wire
  BY <1>2 DEF WorkerStep, ServeConn, Accept, Reject, ReadBody, ZeroLength, NullBuffer, Overwrite, OverwriteCrash, Search,
              ReplyKilled, PutJob, sockVars, sharedVars, offRingVars
<1>3. ASSUME UdpStep PROVE UNCHANGED wire
  BY <1>3 DEF UdpStep, UdpRecv, UdpRecvFails, UdpWork, UdpSearch, UdpSend, UdpSendFails, UdpPut,
              sockVars, sharedVars, offRingVars
<1>4. ASSUME NEW c \in Conns, Client(c) PROVE UNCHANGED wire
  BY <1>4 DEF Client, ClientConnect, ClientSend, ClientGone
<1>5. ASSUME Clock \/ UNCHANGED vars PROVE UNCHANGED wire
  BY <1>5 DEF Clock, vars, sharedVars, sockVars
<1> QED BY <1>1, <1>2, <1>3, <1>4, <1>5 DEF Next

\* Nobody finds his way back.
LEMMA AstrayStays ==
  ASSUME ServerInv, [Next]_vars, astray
  PROVE  astray'
<1>1. ASSUME NEW t \in DnsThreads, DnsStep(t) PROVE astray'
  BY <1>1 DEF DnsStep, WorkOnJob, TakeJob, WaitForJob, UdpDnsRequest, TcpDnsRequest, Finish,
              CheckZero, CheckNonZero, Send, SendFails, CloseConn, Free, FreeAborts, offRingVars
<1>2. ASSUME NEW w \in Workers, WorkerStep(w) PROVE astray'
  BY <1>2 DEF WorkerStep, ServeConn, Accept, Reject, ReadBody, ZeroLength, NullBuffer, Overwrite, OverwriteCrash, Search,
              ReplyHit, ReplyMiss, ReplyKilled, PutJob, sharedVars, offRingVars
<1>3. ASSUME UdpStep PROVE astray'
  BY <1>3 DEF UdpStep, UdpRecv, UdpRecvFails, UdpWork, UdpSearch, UdpSend, UdpSendFails, UdpPut,
              sharedVars, offRingVars
<1>4. ASSUME NEW c \in Conns, Client(c) PROVE astray'
  BY <1>4 DEF Client
<1>5. ASSUME Clock \/ UNCHANGED vars PROVE astray'
  BY <1>5 DEF Clock, vars, sharedVars
<1> QED BY <1>1, <1>2, <1>3, <1>4, <1>5 DEF Next

(***************************************************************************)
(* Failures are kept                                                       *)
(***************************************************************************)

\* A step that leaves the blocks alone, and the threads that have to report.
LEMMA SameErrors ==
  ASSUME ErrorKept, UNCHANGED <<blk, ipptr, miss>>,
         \A t \in DnsThreads : dpc[t] = "finish" =>
           dpc'[t] = "finish" /\ job'[t] = job[t] /\ missindex'[t] = missindex[t]
  PROVE  ErrorKept'
<1> SUFFICES ASSUME NEW c \in Conns, blk[c] = "live", NEW k \in Counts,
                    ipptr[c][k] # NoAnswer, ipptr[c][k].ip = DNS_ERROR, ~miss[c]
             PROVE  \E t \in DnsThreads : dpc'[t] = "finish" /\ JobOf(job'[t], c) /\ missindex'[t]
  BY DEF ErrorKept
<1>1. PICK t \in DnsThreads : dpc[t] = "finish" /\ JobOf(job[t], c) /\ missindex[t]
  BY DEF ErrorKept
<1> QED BY <1>1

\* A thread that writes a failure into the answers sets its missindex in the same
\* step, and no other thread's answer makes it forget.
LEMMA AnswerKeepsErrors ==
  ASSUME ServerInv, ErrorKept, NEW t \in DnsThreads, TcpDnsRequest(t)
  PROVE  ErrorKept'
<1>1. PICK ip \in dnsrequest(job[t].domain) :
        /\ ipptr' = [ipptr EXCEPT ![job[t].req][job[t].count] = [index |-> job[t].index, ip |-> ip]]
        /\ missindex' = [missindex EXCEPT ![t] = @ \/ ip = DNS_ERROR]
  BY DEF TcpDnsRequest
<1>2. /\ dpc[t] = "dnsrequest" /\ dpc' = [dpc EXCEPT ![t] = "finish"]
      /\ UNCHANGED <<job, blk, miss>> /\ job[t].tcp_or_udp = "tcp"
  BY DEF TcpDnsRequest, Goto, ringVars
<1>3. IsTcp(job[t]) /\ job[t] \in Jobs \cup {NoJob}
  BY <1>2 DEF IsTcp, ServerInv, ThreadShape, TypeOK, RingTypeOK
<1>4. PICK r \in Conns : job[t].req = r /\ JobOf(job[t], r)
  BY <1>3, TcpJobType
<1>5. \A u \in DnsThreads : u # t => missindex'[u] = missindex[u] /\ dpc'[u] = dpc[u]
  BY <1>1, <1>2 DEF ServerInv, TypeOK, DnsThreadTypeOK
<1>6. dpc'[t] = "finish" /\ missindex'[t] = (missindex[t] \/ ip = DNS_ERROR)
  BY <1>1, <1>2 DEF ServerInv, TypeOK, DnsThreadTypeOK
<1> SUFFICES ASSUME NEW c \in Conns, blk[c] = "live", NEW k \in Counts,
                    ipptr'[c][k] # NoAnswer, ipptr'[c][k].ip = DNS_ERROR, ~miss[c]
             PROVE  \E u \in DnsThreads : dpc'[u] = "finish" /\ JobOf(job[u], c) /\ missindex'[u]
  BY <1>2 DEF ErrorKept
<1>7. CASE c = r /\ k = job[t].count
  <2>1. ipptr'[c][k].ip = ip
    BY <1>1, <1>4, <1>7 DEF ServerInv, TypeOK, DnsThreadTypeOK
  <2> QED BY <1>4, <1>6, <1>7, <2>1
<1>8. CASE ~(c = r /\ k = job[t].count)
  <2>1. ipptr'[c][k] = ipptr[c][k]
    BY <1>1, <1>4, <1>8 DEF ServerInv, TypeOK, DnsThreadTypeOK
  <2>2. PICK u \in DnsThreads : dpc[u] = "finish" /\ JobOf(job[u], c) /\ missindex[u]
    BY <2>1 DEF ErrorKept
  <2> QED BY <1>2, <1>5, <2>2
<1> QED BY <1>7, <1>8

\* A thread that counts its job down hands its missindex on to *miss first.
LEMMA FinishKeepsErrors ==
  ASSUME ServerInv, ErrorKept, NEW t \in DnsThreads, Finish(t)
  PROVE  ErrorKept'
<1>1. PICK r \in Conns : job[t].req = r /\ JobOf(job[t], r)
  BY ThreadReq DEF Finish, JobOf
<1>2. /\ dpc[t] = "finish" /\ dpc' = [dpc EXCEPT ![t] = "check"]
      /\ UNCHANGED <<job, blk, ipptr, missindex>>
      /\ miss' = [miss EXCEPT ![r] = miss[r] \/ missindex[t]]
  BY <1>1 DEF Finish, Goto, ringVars, MissAfter
<1>3. \A c \in Conns : miss'[c] = (IF c = r THEN miss[r] \/ missindex[t] ELSE miss[c])
  BY <1>2 DEF ServerInv, TypeOK, DnsThreadTypeOK
<1> SUFFICES ASSUME NEW c \in Conns, blk[c] = "live", NEW k \in Counts,
                    ipptr[c][k] # NoAnswer, ipptr[c][k].ip = DNS_ERROR, ~miss'[c]
             PROVE  \E u \in DnsThreads : dpc'[u] = "finish" /\ JobOf(job[u], c) /\ missindex[u]
  BY <1>2 DEF ErrorKept
<1>4. ~miss[c] /\ (c = r => ~missindex[t])
  BY <1>3 DEF ServerInv, TypeOK, DnsThreadTypeOK
<1>5. PICK u \in DnsThreads : dpc[u] = "finish" /\ JobOf(job[u], c) /\ missindex[u]
  BY <1>4 DEF ErrorKept
<1>6. u # t
  BY <1>1, <1>4, <1>5 DEF JobOf
<1> QED BY <1>2, <1>5, <1>6 DEF ServerInv, TypeOK, DnsThreadTypeOK

\* Every step of a DNS thread.
LEMMA DnsStepErrors ==
  ASSUME ServerInv, ErrorKept, NEW t \in DnsThreads, DnsStep(t)
  PROVE  ErrorKept'
<1>1. CASE Free(t)
  <2>1. PICK r \in Conns : job[t].req = r
    BY <1>1, ThreadReq DEF Free
  <2>2. UNCHANGED <<ipptr, miss, missindex>> /\ blk' = [blk EXCEPT ![r] = "freed"] /\ dpc[t] = "free"
    BY <1>1, <2>1 DEF Free
  <2>3. \A c \in Conns : blk'[c] = "live" => blk[c] = "live"
    BY <2>1, <2>2 DEF ServerInv, TypeOK, DnsThreadTypeOK
  <2>4. \A u \in DnsThreads : dpc[u] = "finish" => dpc'[u] = "finish" /\ job'[u] = job[u]
    BY <2>2, OtherThreads
  <2> SUFFICES ASSUME NEW c \in Conns, blk[c] = "live", NEW k \in Counts,
                      ipptr[c][k] # NoAnswer, ipptr[c][k].ip = DNS_ERROR, ~miss[c]
               PROVE  \E u \in DnsThreads : dpc'[u] = "finish" /\ JobOf(job'[u], c) /\ missindex[u]
    BY <2>2, <2>3 DEF ErrorKept
  <2>5. PICK u \in DnsThreads : dpc[u] = "finish" /\ JobOf(job[u], c) /\ missindex[u]
    BY DEF ErrorKept
  <2> QED BY <2>4, <2>5
<1>2. CASE ~Free(t) /\ ~TcpDnsRequest(t) /\ ~Finish(t)
  <2>1. UNCHANGED <<blk, ipptr, miss>>
    BY <1>2 DEF DnsStep, WorkOnJob, TakeJob, WaitForJob, UdpDnsRequest, CheckZero, CheckNonZero,
                Send, SendFails, CloseConn, FreeAborts, offRingVars, reqVars
  <2>2. dpc[t] # "finish"
        \/ (dpc'[t] = "finish" /\ job'[t] = job[t] /\ missindex'[t] = missindex[t])
    <3>1. CASE TakeJob(t)
      BY <3>1 DEF TakeJob, Take, Ready, ServerInv, ThreadShape
    <3>2. CASE WaitForJob(t)
      BY <3>2 DEF WaitForJob, Wait, SpuriousWakeup, offRingVars, threadVars
    <3>3. CASE WorkOnJob(t)
      BY <1>2, <3>3 DEF WorkOnJob, UdpDnsRequest, CheckZero, CheckNonZero, Send, SendFails,
                        CloseConn, FreeAborts
    <3> QED BY <3>1, <3>2, <3>3 DEF DnsStep
  <2> QED BY <2>1, <2>2, OtherThreads, SameErrors
<1> QED BY <1>1, <1>2, AnswerKeepsErrors, FinishKeepsErrors

\* A worker's block starts without answers.
LEMMA ReplyMissErrors ==
  ASSUME ServerInv, ErrorKept, NEW w \in Workers, ReplyMiss(w)
  PROVE  ErrorKept'
<1>1. PICK r \in Conns : wreq[w] = r
  BY DEF ReplyMiss, ServerInv, WorkerShape
<1>2. /\ UNCHANGED <<dpc, job, missindex>>
      /\ \A c \in Conns : c # r => blk'[c] = blk[c] /\ ipptr'[c] = ipptr[c] /\ miss'[c] = miss[c]
      /\ \A k \in Counts : ipptr'[r][k] = NoAnswer
  BY <1>1 DEF ReplyMiss, ringVars, threadVars, ServerInv, TypeOK, DnsThreadTypeOK
<1> QED BY <1>2 DEF ErrorKept

\* Every step of the server.
LEMMA ErrorKeptStep == ServerInv /\ ErrorKept /\ [Next]_vars => ErrorKept'
<1> SUFFICES ASSUME ServerInv, ErrorKept, [Next]_vars PROVE ErrorKept'
  OBVIOUS
<1>1. ASSUME UNCHANGED <<threadVars, reqVars, job>> PROVE ErrorKept'
  BY <1>1, SameErrors DEF threadVars, reqVars
<1>2. ASSUME NEW w \in Workers, WorkerStep(w) PROVE ErrorKept'
  <2>1. CASE ReplyMiss(w)
    BY <2>1, ReplyMissErrors
  <2>2. CASE ~ReplyMiss(w)
    BY <1>1, <1>2, <2>2 DEF WorkerStep, ServeConn, Accept, Reject, ReadBody, ZeroLength,
         NullBuffer, Overwrite, OverwriteCrash, Search, ReplyHit, ReplyKilled, PutJob, Halt, Put, sharedVars, offRingVars,
         ringVars
  <2> QED BY <2>1, <2>2
<1>3. ASSUME UdpStep PROVE ErrorKept'
  BY <1>1, <1>3 DEF UdpStep, UdpRecv, UdpRecvFails, UdpWork, UdpSearch, UdpSend, UdpSendFails, UdpPut,
                    Halt, Put, sharedVars, offRingVars, ringVars
<1>4. ASSUME \E c \in Conns : Client(c) PROVE ErrorKept'
  BY <1>1, <1>4 DEF Client, ringVars
<1>5. ASSUME Clock \/ UNCHANGED vars PROVE ErrorKept'
  BY <1>1, <1>5 DEF Clock, vars, sharedVars, ringVars
<1> QED BY <1>2, <1>3, <1>4, <1>5, DnsStepErrors DEF Next

(***************************************************************************)
(* Failures are reported                                                   *)
(***************************************************************************)

\* Until a thread goes astray, the one that sends the second reply finds the block
\* allocated, its connection behind the descriptor, and all answers written.
LEMMA SenderAlone ==
  ASSUME RequestInv, FdOwned, ~astray, NEW t \in DnsThreads, dpc[t] = "send"
  PROVE  \E r \in Conns : /\ job[t].req = r /\ JobOf(job[t], r) /\ job[t] \in TcpJobs
                          /\ blk[r] = "live" /\ Enders(r) = {t} /\ Outstanding(r) = 0
                          /\ fdTab[job[t].sockfd] = r
<1>1. ServerInv
  BY DEF RequestInv
<1>2. PICK r \in Conns : job[t].req = r /\ JobOf(job[t], r) /\ job[t] # NoJob /\ job[t] \in TcpJobs
                         /\ IsTcp(job[t])
  BY <1>1, ThreadReq DEF JobOf
<1>3. t \in Enders(r) /\ Keeps(t)
  BY <1>2 DEF Enders, Keeps
<1>4. blk[r] = "live" /\ Enders(r) = {t} /\ fdTab[job[t].sockfd] = r
  BY <1>2, <1>3 DEF FdOwned
<1>5. Outstanding(r) = 0
  BY <1>2 DEF RequestInv, CountInv, EndsLast
<1> QED BY <1>2, <1>4, <1>5

\* The second reply, when it is built, says that a name in it has failed.
LEMMA SendReports ==
  ASSUME RequestInv, FdOwned, ErrorKept, ~astray, NEW t \in DnsThreads, Send(t)
  PROVE  \E m : /\ wire' = Written(job[t].sockfd, m)
                /\ m = SecondReply(job[t].req, job[t].total, miss[job[t].req])
                /\ (\E k \in 0 .. m.total - 1 : m.answers[k] # NoAnswer
                                                /\ m.answers[k].ip = DNS_ERROR) => m.error
<1>1. PICK r \in Conns : /\ job[t].req = r /\ job[t] \in TcpJobs
                         /\ blk[r] = "live" /\ Outstanding(r) = 0
  BY SenderAlone DEF Send
<1> DEFINE m == SecondReply(r, job[t].total, miss[r])
<1>2. wire' = Written(job[t].sockfd, m)
  BY <1>1 DEF Send
<1>3. ASSUME NEW k \in 0 .. m.total - 1, m.answers[k] # NoAnswer, m.answers[k].ip = DNS_ERROR
      PROVE  m.error
  <2>1. m.total = job[t].total /\ m.answers = ipptr[r] /\ m.error = miss[r]
    BY DEF SecondReply
  <2>2. k \in Counts
    <3>1. job[t].total \in 0 .. MAXNAMES
      BY <1>1 DEF TcpJobs
    <3> QED BY <2>1, <3>1, MaxNamesAssumption DEF Counts
  <2>3. \A u \in DnsThreads : ~(dpc[u] = "finish" /\ JobOf(job[u], r))
    BY <1>1, JobOutstanding
  <2> QED BY <1>1, <1>3, <2>1, <2>2, <2>3 DEF ErrorKept
<1> QED BY <1>1, <1>2, <1>3

\* Every step of the server reports the failures in what it sends.
LEMMA ErrorReportedStep ==
  RequestInv /\ FdOwned /\ ErrorInv /\ [Next]_vars => ErrorReported'
<1> SUFFICES ASSUME RequestInv, FdOwned, ErrorInv, [Next]_vars, ~astray'
             PROVE  ErrorReported'
  BY DEF ErrorReported
<1>1. ServerInv /\ SockTypeOK(Replies)
  BY DEF RequestInv, ServerInv, TypeOK
<1>2. ~astray
  BY <1>1, AstrayStays
<1>3. ASSUME NEW m, NEW f, wire' = Written(f, m),
             m.serial = "second" =>
               ((\E k \in 0 .. m.total - 1 : m.answers[k] # NoAnswer
                                             /\ m.answers[k].ip = DNS_ERROR) => m.error)
      PROVE  ErrorReported'
  <2>1. ASSUME NEW c \in Conns, NEW i \in SecondsOf(c)'
        PROVE  wire'[c][i].serial = "second"
               /\ ((i \in SecondsOf(c) /\ wire'[c][i] = wire[c][i]) \/ wire'[c][i] = m)
    <3>1. i \in DOMAIN wire'[c] /\ wire'[c][i].serial = "second" /\ wire'[c][i].of = c
      BY DEF SecondsOf
    <3>2. wire' = Written(f, m) /\ i \in DOMAIN wire'[c]
      BY <1>3, <3>1
    <3>3. (i \in DOMAIN wire[c] /\ wire'[c][i] = wire[c][i]) \/ wire'[c][i] = m
      <4>1. CASE wire'[c] = wire[c]
        BY <3>2, <4>1
      <4>2. CASE wire'[c] # wire[c]
        <5>1. /\ wire'[c][Len(wire[c]) + 1] = m
              /\ \A l \in DOMAIN wire[c] : l \in DOMAIN wire'[c] /\ wire'[c][l] = wire[c][l]
              /\ \A l \in DOMAIN wire'[c] : l \in DOMAIN wire[c] \/ l = Len(wire[c]) + 1
          BY <1>1, <3>2, <4>2, WrittenAt, ZenonT(60)
        <5> QED BY <3>2, <5>1
      <4> QED BY <4>1, <4>2
    <3> QED BY <3>1, <3>3 DEF SecondsOf
  <2> SUFFICES ASSUME NEW c \in Conns, NEW i \in SecondsOf(c)',
                      \E k \in 0 .. wire'[c][i].total - 1 :
                        wire'[c][i].answers[k] # NoAnswer /\ wire'[c][i].answers[k].ip = DNS_ERROR
               PROVE  wire'[c][i].error
    BY DEF ErrorReported
  <2>2. CASE i \in SecondsOf(c) /\ wire'[c][i] = wire[c][i]
    BY <1>2, <2>2 DEF ErrorInv, ErrorReported
  <2>3. CASE wire'[c][i] = m
    BY <1>3, <2>1, <2>3
  <2> QED BY <2>1, <2>2, <2>3
<1>4. CASE UNCHANGED wire
  BY <1>2, <1>4 DEF ErrorInv, ErrorReported, SecondsOf
<1>5. ASSUME NEW w \in Workers, ReplyHit(w) \/ ReplyMiss(w) PROVE ErrorReported'
  <2>1. wire' = Written(wfd[w], FirstReply(w)) /\ FirstReply(w).serial # "second"
    BY <1>5 DEF ReplyHit, ReplyMiss, FirstReply
  <2> QED BY <1>3, <2>1
<1>6. ASSUME NEW t \in DnsThreads, Send(t) PROVE ErrorReported'
  BY <1>2, <1>3, <1>6, SendReports DEF ErrorInv
<1> QED BY <1>4, <1>5, <1>6, WireStep

\* Failures are kept and reported in every state of the server.
LEMMA ErrorInvariant == Spec => [](RequestInv /\ FdOwned /\ ErrorInv)
<1>1. Init => ErrorInv
  BY DEF Init, SockInit, DnsThreadInit, ErrorInv, ErrorKept, ErrorReported, SecondsOf
<1>2. RequestInv /\ FdOwned /\ ErrorInv /\ [Next]_vars => ErrorInv'
  BY ErrorKeptStep, ErrorReportedStep DEF ErrorInv, RequestInv
<1> QED BY <1>1, <1>2, FdOwnedInvariant, PTL DEF Spec

\* Until a thread goes astray, a second reply that holds a failed name says so in
\* its head byte, whichever of the request's DNS threads met the failure and
\* whichever of them sent the reply.
THEOREM NoErrorLost == Spec => []ErrorReported
<1>1. RequestInv /\ FdOwned /\ ErrorInv => ErrorReported
  BY DEF ErrorInv
<1> QED BY <1>1, ErrorInvariant, PTL

(***************************************************************************)
(* The answers                                                             *)
(***************************************************************************)

\* Domains outside the trie that share a slot differ in a character that both have
\* among their first four: what dl_kache.c relies on.
NamesToldApart ==
  \A m, n \in Names \ TrieNames : m # n /\ BKDRHash[m] = BKDRHash[n] =>
    \E i \in DOMAIN First4[m] \cap DOMAIN First4[n] : First4[m][i] # First4[n][i]

(***************************************************************************)
(* The cache: an entry holds an address of the domain it is found by.      *)
(***************************************************************************)

TrieOwn == \A n \in TrieNames : main_tr_data[n].ip \in {n, DNS_ERROR}

\* A slot holds the address of the domain whose characters are its part_key, or an
\* error, or nothing, with a timestamp that is never young enough.
SlotOwn(s) ==
  \/ s.h_data.ip = DNS_ERROR
  \/ s.h_data.ip = Zero /\ s.h_data.timestamp = 0
  \/ /\ s.h_data.ip \in Names \ TrieNames
     /\ \A i \in DOMAIN First4[s.h_data.ip] : s.part_key[i] = First4[s.h_data.ip][i]

CacheOwn ==
  /\ now >= StartTime
  /\ TrieOwn
  /\ \A h \in HashVals : /\ SlotOwn(hash_data[h])
                         /\ hash_data[h].h_data.ip \in Names => BKDRHash[hash_data[h].h_data.ip] = h

\* A store puts the address of its own domain, or an error, where only that domain
\* finds it.
LEMMA StoreOwn ==
  ASSUME KacheTypeOK, CacheOwn, NEW n \in AllNames, NEW ip \in dnsrequest(n),
         kache_store(n, [ip |-> ip, timestamp |-> now])
  PROVE  CacheOwn'
<1>1. ip = DNS_ERROR \/ (ip = n /\ n \in Names)
  BY DEF dnsrequest
<1>2. DNS_ERROR \notin Names /\ Zero \notin Names
  BY MarkerAssumption
<1>3. UNCHANGED now
  BY DEF kache_store
<1>4. CASE n \in TrieNames
  <2>1. /\ UNCHANGED hash_data
        /\ main_tr_data' = [main_tr_data EXCEPT ![n] = [ip |-> ip, timestamp |-> now]]
    BY <1>4 DEF kache_store
  <2>2. TrieOwn'
    BY <1>1, <1>4, <2>1 DEF CacheOwn, TrieOwn, KacheTypeOK
  <2> QED BY <1>3, <2>1, <2>2 DEF CacheOwn, SlotOwn
<1>5. CASE n \notin TrieNames
  <2>1. PICK h \in HashVals : h = BKDRHash[n]
    BY KacheAssumption
  <2>2. UNCHANGED main_tr_data
    BY <1>5 DEF kache_store
  <2>3. /\ \A g \in HashVals : g # h => hash_data'[g] = hash_data[g]
        /\ hash_data'[h].h_data = [ip |-> ip, timestamp |-> now]
        /\ \A i \in 1 .. 4 : i \in DOMAIN First4[n] => hash_data'[h].part_key[i] = First4[n][i]
    BY <1>5, <2>1 DEF kache_store, KacheTypeOK
  <2>4. DOMAIN First4[n] \subseteq 1 .. 4
    <3>1. First4[n] \in UNION {[1 .. k -> Chars] : k \in 0 .. 4}
      BY KacheAssumption
    <3>2. PICK k \in 0 .. 4 : First4[n] \in [1 .. k -> Chars]
      BY <3>1
    <3> QED BY <3>2
  <2>5. hash_data'[h].h_data.ip = ip
    BY <2>3
  <2>6. SlotOwn(hash_data'[h])
    <3>1. CASE ip = DNS_ERROR
      BY <2>5, <3>1 DEF SlotOwn
    <3>2. CASE ip = n /\ n \in Names
      BY <1>5, <2>3, <2>4, <2>5, <3>2 DEF SlotOwn
    <3> QED BY <1>1, <3>1, <3>2
  <2>7. ip \in Names => BKDRHash[ip] = h
    BY <1>1, <1>2, <2>1
  <2>8. ASSUME NEW g \in HashVals
        PROVE  /\ SlotOwn(hash_data'[g])
               /\ hash_data'[g].h_data.ip \in Names => BKDRHash[hash_data'[g].h_data.ip] = g
    <3>1. CASE g = h
      BY <2>5, <2>6, <2>7, <3>1
    <3>2. CASE g # h
      BY <2>3, <3>2 DEF CacheOwn
    <3> QED BY <3>1, <3>2
  <2> QED BY <1>3, <2>2, <2>8 DEF CacheOwn, TrieOwn, SlotOwn
<1> QED BY <1>4, <1>5

\* What do_search accepts for a name is the address of that name, or an error.
LEMMA FreshOwn ==
  ASSUME NamesToldApart, KacheTypeOK, CacheOwn, NEW n \in Names, NEW d \in Fresh(n)
  PROVE  d.ip \in {n, DNS_ERROR}
<1>1. d \in kache_retrieve(n) /\ d.timestamp + TIME_OUT >= now
  BY DEF Fresh
<1>2. CASE n \in TrieNames
  BY <1>1, <1>2 DEF kache_retrieve, CacheOwn, TrieOwn
<1>3. CASE n \notin TrieNames
  <2>1. PICK h \in HashVals : h = BKDRHash[n]
    BY KacheAssumption DEF AllNames
  <2>2. SamePartKey(h, n) /\ d = hash_data[h].h_data
    BY <1>1, <1>3, <2>1 DEF kache_retrieve
  <2>3. SlotOwn(hash_data[h]) /\ (d.ip \in Names => BKDRHash[d.ip] = h)
    BY <2>2 DEF CacheOwn
  <2>4. CASE d.ip = Zero /\ d.timestamp = 0
    BY <1>1, <2>4, KacheAssumption DEF CacheOwn, StartTime, KacheTypeOK
  <2>5. ASSUME NEW m \in Names \ TrieNames, m = d.ip,
               \A i \in DOMAIN First4[m] : hash_data[h].part_key[i] = First4[m][i]
        PROVE  m = n
    <3>1. BKDRHash[m] = BKDRHash[n]
      BY <2>1, <2>3, <2>5
    <3>2. \A i \in DOMAIN First4[n] : hash_data[h].part_key[i] = First4[n][i]
      BY <2>2 DEF SamePartKey
    <3> QED BY <1>3, <2>5, <3>1, <3>2 DEF NamesToldApart
  <2> QED BY <2>2, <2>3, <2>4, <2>5 DEF SlotOwn
<1> QED BY <1>2, <1>3

\* Every step of the server.
LEMMA CacheOwnStep == ServerInv /\ CacheOwn /\ [Next]_vars => CacheOwn'
<1> SUFFICES ASSUME ServerInv, CacheOwn, [Next]_vars PROVE CacheOwn'
  OBVIOUS
<1>1. ASSUME UNCHANGED kacheVars PROVE CacheOwn'
  BY <1>1 DEF kacheVars, CacheOwn, TrieOwn, SlotOwn
<1>2. KacheTypeOK
  BY DEF ServerInv, TypeOK
<1>3. ASSUME NEW t \in DnsThreads, DnsStep(t) PROVE CacheOwn'
  <2>1. CASE UdpDnsRequest(t) \/ TcpDnsRequest(t)
    <3>1. job[t] \in Jobs /\ dpc[t] = "dnsrequest"
      BY <2>1 DEF UdpDnsRequest, TcpDnsRequest, ServerInv, ThreadShape, TypeOK, RingTypeOK,
                  DnsThreadTypeOK
    <3>2. job[t].domain \in AllNames
      BY <3>1, JobsAssumption DEF TcpJobs, UdpJobs
    <3>3. \E ip \in dnsrequest(job[t].domain) :
            kache_store(job[t].domain, [ip |-> ip, timestamp |-> now])
      BY <2>1 DEF UdpDnsRequest, TcpDnsRequest
    <3> QED BY <1>2, <3>2, <3>3, StoreOwn
  <2>2. CASE ~UdpDnsRequest(t) /\ ~TcpDnsRequest(t)
    BY <1>1, <1>3, <2>2 DEF DnsStep, WorkOnJob, TakeJob, WaitForJob, Finish, CheckZero, CheckNonZero,
         Send, SendFails, CloseConn, Free, FreeAborts, offRingVars
  <2> QED BY <2>1, <2>2
<1>4. ASSUME NEW w \in Workers, WorkerStep(w) PROVE CacheOwn'
  BY <1>1, <1>4 DEF WorkerStep, ServeConn, Accept, Reject, ReadBody, ZeroLength, NullBuffer, Overwrite, OverwriteCrash,
       Search, ReplyHit, ReplyMiss, ReplyKilled, PutJob, sharedVars, offRingVars
<1>5. ASSUME UdpStep PROVE CacheOwn'
  BY <1>1, <1>5 DEF UdpStep, UdpRecv, UdpRecvFails, UdpWork, UdpSearch, UdpSend, UdpSendFails,
       UdpPut, sharedVars, offRingVars
<1>6. ASSUME NEW c \in Conns, Client(c) PROVE CacheOwn'
  BY <1>1, <1>6 DEF Client
<1>7. CASE Clock
  <2>1. now' = now + 1 /\ UNCHANGED <<main_tr_data, hash_data>>
    BY <1>7 DEF Clock, Tick
  <2>2. now' >= StartTime
    BY <1>2, <2>1, KacheAssumption DEF CacheOwn, StartTime, KacheTypeOK
  <2> QED BY <2>1, <2>2 DEF CacheOwn, TrieOwn, SlotOwn
<1>8. CASE UNCHANGED vars
  BY <1>1, <1>8 DEF vars, sharedVars
<1> QED BY <1>3, <1>4, <1>5, <1>6, <1>7, <1>8 DEF Next

\* kache_init fills the cache that way.
LEMMA CacheOwnInit == Init => CacheOwn
<1> SUFFICES ASSUME Init PROVE CacheOwn
  OBVIOUS
<1>1. now = StartTime /\ StartTime \in Nat
  BY KacheAssumption DEF Init, KacheInit, StartTime
<1>2. TrieOwn
  BY DEF Init, KacheInit, TrieOwn
<1>3. \A h \in HashVals : hash_data[h].h_data.ip = Zero /\ hash_data[h].h_data.timestamp = 0
  BY DEF Init, KacheInit
<1> QED BY <1>1, <1>2, <1>3, MarkerAssumption DEF CacheOwn, SlotOwn

(***************************************************************************)
(* A worker: its addresses and its list of misses belong to its request.   *)
(***************************************************************************)

\* The positions of the names that are missing in a first reply.
Missed(ips) == {p \in DOMAIN ips : ips[p] = CACHE_MISS}

\* What do_search has made of request q so far: an answer for each name, and in
\* its list of nodes each missing name with its position, none of them twice.
SearchedRight(q, ips, nodes) ==
  /\ \A p \in DOMAIN ips : ips[p] \in {q[p], DNS_ERROR, CACHE_MISS}
  /\ Cardinality(Missed(ips)) = Len(nodes)
  /\ \A p \in Missed(ips) : \E k \in DOMAIN nodes : nodes[k].index + 1 = p
  /\ \A k \in DOMAIN nodes : nodes[k].index + 1 \in DOMAIN ips
                             /\ nodes[k].domain = q[nodes[k].index + 1]

WorkerRight ==
  \A w \in Workers : wpc[w] \in {"search", "reply", "put"} /\ sent[wreq[w]] = "full" =>
    /\ wnames[w] = Request[wreq[w]]
    /\ wpc[w] \in {"reply", "put"} => Len(wips[w]) = Len(wnames[w])
    /\ SearchedRight(Request[wreq[w]], wips[w], wmiss[w])

\* The positions that miss are finitely many.
LEMMA MissedFinite ==
  ASSUME NEW ips \in Seq(Ips)
  PROVE  Missed(ips) \subseteq 1 .. Len(ips) /\ IsFiniteSet(Missed(ips))
<1>1. Missed(ips) \subseteq 1 .. Len(ips) /\ Len(ips) \in Nat
  BY DEF Missed
<1>2. 1 \in Int /\ Len(ips) \in Int
  BY <1>1
<1>3. IsFiniteSet(1 .. Len(ips))
  BY <1>2, FS_Interval
<1> QED BY <1>1, <1>3, FS_Subset

\* A hit is added to the addresses.
LEMMA HitRight ==
  ASSUME NEW q \in Seq(Names), NEW ips \in Seq(Ips), NEW nodes \in Seq(Nodes),
         SearchedRight(q, ips, nodes), Len(ips) < Len(q),
         NEW ip \in {q[Len(ips) + 1], DNS_ERROR}
  PROVE  SearchedRight(q, Append(ips, ip), nodes)
<1> DEFINE l == Len(ips) + 1
           new == Append(ips, ip)
<1>1. l \in Nat /\ q[l] \in Names /\ DOMAIN ips = 1 .. Len(ips) /\ Len(ips) \in Nat
  OBVIOUS
<1>2. ip # CACHE_MISS /\ ip \in Ips
  BY <1>1, MarkerAssumption DEF Ips, DNS_ERROR, CACHE_MISS
<1>3. DOMAIN new = 1 .. l /\ new[l] = ip /\ \A p \in 1 .. Len(ips) : new[p] = ips[p]
  BY <1>2
<1>4. Missed(new) = Missed(ips)
  BY <1>1, <1>2, <1>3 DEF Missed
<1>5. \A p \in DOMAIN new : new[p] \in {q[p], DNS_ERROR, CACHE_MISS}
  BY <1>1, <1>3 DEF SearchedRight
<1>6. DOMAIN ips \subseteq DOMAIN new
  BY <1>1, <1>3
<1> QED BY <1>4, <1>5, <1>6 DEF SearchedRight

\* A miss is added to the addresses and to the list.
LEMMA MissRight ==
  ASSUME NEW q \in Seq(Names), NEW ips \in Seq(Ips), NEW nodes \in Seq(Nodes),
         SearchedRight(q, ips, nodes), Len(ips) < Len(q),
         NEW node \in Nodes, node = [domain |-> q[Len(ips) + 1], index |-> Len(ips)]
  PROVE  SearchedRight(q, Append(ips, CACHE_MISS), Append(nodes, node))
<1> DEFINE l == Len(ips) + 1
           new == Append(ips, CACHE_MISS)
           more == Append(nodes, node)
<1>1. l \in Nat /\ DOMAIN ips = 1 .. Len(ips) /\ Len(ips) \in Nat /\ Len(nodes) \in Nat
      /\ DOMAIN nodes = 1 .. Len(nodes)
  OBVIOUS
<1>2. CACHE_MISS \in Ips
  BY DEF Ips
<1>3. DOMAIN new = 1 .. l /\ new[l] = CACHE_MISS /\ \A p \in 1 .. Len(ips) : new[p] = ips[p]
  BY <1>2
<1>4. /\ DOMAIN more = 1 .. Len(nodes) + 1 /\ Len(more) = Len(nodes) + 1
      /\ more[Len(nodes) + 1] = node /\ \A k \in 1 .. Len(nodes) : more[k] = nodes[k]
  OBVIOUS
<1>5. Missed(new) = Missed(ips) \cup {l} /\ l \notin Missed(ips)
  BY <1>1, <1>3 DEF Missed
<1>6. Cardinality(Missed(new)) = Cardinality(Missed(ips)) + 1
  BY <1>5, MissedFinite, FS_AddElement
<1>7. node.index + 1 = l /\ node.domain = q[l]
  BY <1>1
<1>8. \A p \in DOMAIN new : new[p] \in {q[p], DNS_ERROR, CACHE_MISS}
  BY <1>1, <1>3 DEF SearchedRight
<1>9. \A p \in Missed(new) : \E k \in DOMAIN more : more[k].index + 1 = p
  <2> SUFFICES ASSUME NEW p \in Missed(new) PROVE \E k \in DOMAIN more : more[k].index + 1 = p
    OBVIOUS
  <2>1. CASE p = l
    BY <1>1, <1>4, <1>7, <2>1, SMTT(60)
  <2>2. CASE p \in Missed(ips)
    <3>1. PICK k \in DOMAIN nodes : nodes[k].index + 1 = p
      BY <2>2 DEF SearchedRight
    <3> QED BY <1>1, <1>4, <3>1
  <2> QED BY <1>5, <2>1, <2>2
<1>10. \A k \in DOMAIN more : more[k].index + 1 \in DOMAIN new
                              /\ more[k].domain = q[more[k].index + 1]
  <2> SUFFICES ASSUME NEW k \in DOMAIN more
               PROVE  more[k].index + 1 \in DOMAIN new /\ more[k].domain = q[more[k].index + 1]
    OBVIOUS
  <2>1. CASE k = Len(nodes) + 1
    BY <1>1, <1>3, <1>4, <1>7, <2>1
  <2>2. CASE k \in DOMAIN nodes
    <3>1. more[k] = nodes[k]
      BY <1>1, <1>4, <2>2
    <3>2. nodes[k].index + 1 \in DOMAIN ips /\ nodes[k].domain = q[nodes[k].index + 1]
      BY <2>2 DEF SearchedRight
    <3> QED BY <1>1, <1>3, <3>1, <3>2
  <2> QED BY <1>1, <1>4, <2>1, <2>2
<1>11. Cardinality(Missed(new)) = Len(more)
  BY <1>4, <1>6 DEF SearchedRight
<1> QED BY <1>8, <1>9, <1>10, <1>11 DEF SearchedRight

\* A worker's step leaves the locals of the others alone.
LEMMA OtherWorkers ==
  ASSUME ServerInv, NEW w \in Workers, WorkerStep(w), NEW v \in Workers, v # w
  PROVE  wpc'[v] = wpc[v] /\ wreq'[v] = wreq[v] /\ wfd'[v] = wfd[v] /\ wnames'[v] = wnames[v]
         /\ wips'[v] = wips[v] /\ wmiss'[v] = wmiss[v] /\ wput'[v] = wput[v]
<1> USE DEF ServerInv, TypeOK, TcpTypeOK
<1>1. CASE Accept(w) \/ ReadBody(w) \/ Overwrite(w) \/ ZeroLength(w) \/ Search(w) \/ ReplyMiss(w)
  BY <1>1 DEF Accept, ReadBody, Overwrite, ZeroLength, Search, ReplyMiss
<1>2. CASE Reject(w) \/ ReplyHit(w)
  BY <1>2, OthersIdle DEF Reject, ReplyHit
<1>3. CASE PutJob(w)
  <2>1. CASE Idle(w)
    BY <2>1, OthersIdle
  <2> QED BY <1>3, <2>1 DEF PutJob
<1>4. CASE NullBuffer(w) \/ OverwriteCrash(w) \/ ReplyKilled(w)
  BY <1>4 DEF NullBuffer, OverwriteCrash, ReplyKilled, workerVars
<1> QED BY <1>1, <1>2, <1>3, <1>4 DEF WorkerStep, ServeConn

\* What a client has sent stays sent.
LEMMA SentStays ==
  ASSUME ServerInv, [Next]_vars, NEW c \in Conns, sent[c] # "none"
  PROVE  sent'[c] = sent[c]
<1>1. ASSUME NEW t \in DnsThreads, DnsStep(t) PROVE UNCHANGED sent
  BY <1>1 DEF DnsStep, WorkOnJob, TakeJob, WaitForJob, UdpDnsRequest, TcpDnsRequest, Finish,
       CheckZero, CheckNonZero, Send, SendFails, CloseConn, Free, FreeAborts, sockVars, offRingVars
<1>2. ASSUME NEW w \in Workers, WorkerStep(w) PROVE UNCHANGED sent
  BY <1>2 DEF WorkerStep, ServeConn, Accept, Reject, ReadBody, ZeroLength, NullBuffer, Overwrite, OverwriteCrash, Search,
       ReplyHit, ReplyMiss, ReplyKilled, PutJob, sockVars, sharedVars, offRingVars
<1>3. ASSUME UdpStep PROVE UNCHANGED sent
  BY <1>3 DEF UdpStep, UdpRecv, UdpRecvFails, UdpWork, UdpSearch, UdpSend, UdpSendFails, UdpPut,
              sockVars, sharedVars, offRingVars
<1>4. ASSUME NEW d \in Conns, Client(d) PROVE sent'[c] = sent[c]
  <2>1. CASE ClientConnect(d)
    BY <2>1 DEF ClientConnect, ServerInv, TypeOK, SockTypeOK
  <2>2. CASE ClientGone(d)
    BY <2>2 DEF ClientGone
  <2>3. CASE ClientSend(d)
    BY <2>3 DEF ClientSend
  <2> QED BY <1>4, <2>1, <2>2, <2>3 DEF Client
<1>5. ASSUME Clock \/ UNCHANGED vars PROVE UNCHANGED sent
  BY <1>5 DEF Clock, vars, sharedVars, sockVars
<1> QED BY <1>1, <1>2, <1>3, <1>4, <1>5 DEF Next

\* One turn of do_search's loop.
LEMMA SearchRight ==
  ASSUME NamesToldApart, ServerInv, CacheOwn, WorkerRight, NEW w \in Workers, Search(w),
         sent[wreq[w]] = "full"
  PROVE  /\ wnames'[w] = Request[wreq[w]]
         /\ wpc'[w] = "reply" => Len(wips'[w]) = Len(wnames'[w])
         /\ SearchedRight(Request[wreq[w]], wips'[w], wmiss'[w])
<1> DEFINE q == Request[wreq[w]]
           ips == wips[w]
           nodes == wmiss[w]
           n == wnames[w][Len(wips[w]) + 1]
<1>1. /\ wpc[w] = "search" /\ wreq[w] \in Conns /\ Len(ips) < Len(wnames[w])
      /\ ips \in Seq(Ips) /\ nodes \in Seq(Nodes)
  BY DEF Search, ServerInv, WorkerShape, TypeOK, TcpTypeOK
<1>2. wnames[w] = q /\ SearchedRight(q, ips, nodes)
  BY <1>1 DEF WorkerRight
<1>3. q \in Seq(Names) /\ Len(q) <= MAXNAMES
  BY <1>1, RequestAssumption
<1>4. /\ wnames'[w] = wnames[w]
      /\ wpc'[w] = (IF Len(ips) + 1 = Len(wnames[w]) THEN "reply" ELSE "search")
  BY DEF Search, ServerInv, TypeOK, TcpTypeOK
<1>5. n \in Names /\ n = q[Len(ips) + 1]
  BY <1>1, <1>2, <1>3
<1>6. ASSUME NEW ip \in Ips, wips'[w] = Append(ips, ip)
      PROVE  wpc'[w] = "reply" => Len(wips'[w]) = Len(wnames'[w])
  BY <1>1, <1>4, <1>6
<1>7. CASE \E d \in Fresh(n) : wips' = [wips EXCEPT ![w] = Append(@, d.ip)] /\ UNCHANGED wmiss
  <2>1. PICK d \in Fresh(n) : wips' = [wips EXCEPT ![w] = Append(@, d.ip)] /\ UNCHANGED wmiss
    BY <1>7
  <2>2. PICK ip \in {q[Len(ips) + 1], DNS_ERROR} : ip = d.ip
    BY <1>5, FreshOwn DEF ServerInv, TypeOK
  <2>3. wips'[w] = Append(ips, ip) /\ wmiss'[w] = nodes
    BY <2>1, <2>2 DEF ServerInv, TypeOK, TcpTypeOK
  <2>4. SearchedRight(q, Append(ips, ip), nodes)
    BY <1>1, <1>2, <1>3, HitRight
  <2>5. ip \in Ips
    BY <1>5 DEF Ips
  <2> QED BY <1>2, <1>4, <1>6, <2>3, <2>4, <2>5
<1>8. CASE /\ wips' = [wips EXCEPT ![w] = Append(@, CACHE_MISS)]
           /\ wmiss' = [wmiss EXCEPT ![w] = Append(@, Node(w, n))]
  <2>1. wips'[w] = Append(ips, CACHE_MISS) /\ wmiss'[w] = Append(nodes, Node(w, n))
    BY <1>8 DEF ServerInv, TypeOK, TcpTypeOK
  <2>2. PICK node : node = [domain |-> q[Len(ips) + 1], index |-> Len(ips)]
    OBVIOUS
  <2>3. Node(w, n) = node
    BY <1>5, <2>2 DEF Node
  <2>4. node \in Nodes
    <3>1. Len(ips) \in Counts
      BY <1>1, <1>2, <1>3, MaxNamesAssumption DEF Counts
    <3> QED BY <1>5, <2>2, <3>1 DEF Nodes, AllNames
  <2>5. SearchedRight(q, Append(ips, CACHE_MISS), Append(nodes, node))
    BY <1>1, <1>2, <1>3, <2>2, <2>4, MissRight
  <2>6. CACHE_MISS \in Ips
    BY DEF Ips
  <2> QED BY <1>2, <1>4, <1>6, <2>1, <2>3, <2>5, <2>6
<1> QED BY <1>7, <1>8 DEF Search

\* Every step of a worker.
LEMMA WorkerStepRight ==
  ASSUME NamesToldApart, ServerInv, ServedOnce, CacheOwn, WorkerRight,
         NEW w \in Workers, WorkerStep(w), UNCHANGED sent
  PROVE  WorkerRight'
<1> SUFFICES ASSUME NEW v \in Workers, wpc'[v] \in {"search", "reply", "put"},
                    sent[wreq'[v]] = "full"
             PROVE  /\ wnames'[v] = Request[wreq'[v]]
                    /\ wpc'[v] \in {"reply", "put"} => Len(wips'[v]) = Len(wnames'[v])
                    /\ SearchedRight(Request[wreq'[v]], wips'[v], wmiss'[v])
  BY DEF WorkerRight
<1> USE DEF ServerInv, TypeOK, TcpTypeOK
<1>1. CASE v # w
  BY <1>1, OtherWorkers DEF WorkerRight
<1>2. CASE v = w
  <2>1. CASE Accept(w) \/ ZeroLength(w) \/ Overwrite(w) \/ Reject(w) \/ ReplyHit(w)
    BY <1>2, <2>1 DEF Accept, ZeroLength, Overwrite, Reject, ReplyHit, Idle, Found
  <2>2. CASE ReadBody(w)
    <3>1. /\ wpc[w] = "serv" /\ wreq'[w] = wreq[w] /\ wreq[w] \in Conns /\ wpc'[w] = "search"
          /\ wips'[w] = <<>> /\ wmiss'[w] = <<>>
      BY <2>2 DEF ReadBody, WorkerShape
    <3>2. wnames'[w] = Request[wreq[w]]
      BY <1>2, <2>2, <3>1 DEF ReadBody, Bodies
    <3>3. Missed(<<>>) = {}
      BY DEF Missed
    <3>4. Cardinality(Missed(<<>>)) = 0
      BY <3>3, FS_EmptySet
    <3>5. SearchedRight(Request[wreq[w]], <<>>, <<>>)
      BY <3>3, <3>4 DEF SearchedRight
    <3> QED BY <1>2, <3>1, <3>2, <3>5
  <2>3. CASE Search(w)
    <3>1. wreq'[w] = wreq[w] /\ wpc'[w] # "put"
      BY <2>3 DEF Search
    <3> QED BY <1>2, <2>3, <3>1, SearchRight
  <2>4. CASE ReplyMiss(w) \/ NullBuffer(w) \/ ReplyKilled(w)
    <3>1. /\ UNCHANGED <<wreq, wnames, wips, wmiss>> /\ wpc[w] # "search"
          /\ wpc[w] \in {"reply", "put"} \/ wpc'[w] = "serv"
      BY <2>4 DEF ReplyMiss, NullBuffer, ReplyKilled, workerVars
    <3> QED BY <1>2, <3>1 DEF WorkerRight
  <2>5. CASE PutJob(w)
    <3>1. CASE Idle(w)
      BY <1>2, <3>1 DEF Idle
    <3>2. CASE UNCHANGED <<wpc, wreq, wfd, wnames, wips, wmiss>>
      BY <1>2, <3>2 DEF WorkerRight
    <3> QED BY <2>5, <3>1, <3>2 DEF PutJob
  <2>6. CASE OverwriteCrash(w)
    BY <1>2, <2>6 DEF OverwriteCrash, workerVars, WorkerRight
  <2> QED BY <2>1, <2>2, <2>3, <2>4, <2>5, <2>6 DEF WorkerStep, ServeConn
<1> QED BY <1>1, <1>2

\* Every step of the server.
LEMMA WorkerRightStep ==
  ASSUME NamesToldApart, ServerInv, ServedOnce, CacheOwn, WorkerRight, [Next]_vars
  PROVE  WorkerRight'
<1>1. ASSUME UNCHANGED workerVars PROVE WorkerRight'
  <2> SUFFICES ASSUME NEW v \in Workers, wpc[v] \in {"search", "reply", "put"},
                      sent'[wreq[v]] = "full"
               PROVE  /\ wnames[v] = Request[wreq[v]]
                      /\ wpc[v] \in {"reply", "put"} => Len(wips[v]) = Len(wnames[v])
                      /\ SearchedRight(Request[wreq[v]], wips[v], wmiss[v])
    BY <1>1 DEF WorkerRight, workerVars
  <2>1. PICK c \in Conns : wreq[v] = c /\ Serving(v, c)
    BY DEF ServerInv, WorkerShape, Serving
  <2>2. sent[c] # "none"
    BY <2>1 DEF ServedOnce, Unserved
  <2>3. sent[c] = "full"
    BY <2>1, <2>2, SentStays
  <2> QED BY <2>1, <2>3 DEF WorkerRight
<1>2. ASSUME NEW w \in Workers, WorkerStep(w) PROVE WorkerRight'
  <2>1. UNCHANGED sent
    BY <1>2 DEF WorkerStep, ServeConn, Accept, Reject, ReadBody, ZeroLength, NullBuffer, Overwrite, OverwriteCrash, Search,
         ReplyHit, ReplyMiss, ReplyKilled, PutJob, sockVars, sharedVars, offRingVars
  <2> QED BY <1>2, <2>1, WorkerStepRight
<1> QED BY <1>1, <1>2 DEF Next, Client, Clock, vars

(***************************************************************************)
(* The jobs of a request: each position of the block belongs to one name   *)
(* for good, first in the worker's list, then in a job, then in an answer. *)
(***************************************************************************)

\* Position k of c's block is for the name at index x: in the list of c's worker,
InList(c, k, x) ==
  \E w \in Workers : /\ wpc[w] = "put" /\ wreq[w] = c
                     /\ k \in wput[w] .. Len(wmiss[w]) - 1
                     /\ wmiss[w][k + 1].index = x
\* in a job in the ring,
InQueue(c, k, x) == \E j \in RingJobs : JobOf(j, c) /\ j.count = k /\ j.index = x
\* in the job of a thread that has no answer yet,
InHand(c, k, x) ==
  \E t \in DnsThreads : /\ dpc[t] = "dnsrequest" /\ JobOf(job[t], c)
                        /\ job[t].count = k /\ job[t].index = x
\* or in the answers.
InBlock(c, k, x) == ipptr[c][k] # NoAnswer /\ ipptr[c][k].index = x

Carries(c, k, x) ==
  InList(c, k, x) \/ InQueue(c, k, x) \/ InHand(c, k, x) \/ InBlock(c, k, x)

OneCarried ==
  \A c \in Conns : blk[c] = "live" =>
    \A k, x, y \in Counts : Carries(c, k, x) /\ Carries(c, k, y) => x = y

\* Steps that leave the workers, the ring, the threads or the blocks alone.
LEMMA SameList ==
  ASSUME UNCHANGED workerVars, NEW c, NEW k, NEW x
  PROVE  InList(c, k, x)' <=> InList(c, k, x)
BY DEF InList, workerVars

\* A step that leaves the contents of the ring alone.
LEMMA SameQueue ==
  ASSUME RingJobs' = RingJobs, NEW c, NEW k, NEW x
  PROVE  InQueue(c, k, x)' <=> InQueue(c, k, x)
BY DEF InQueue

\* A step that leaves the threads and the jobs they hold alone.
LEMMA SameHand ==
  ASSUME UNCHANGED <<dpc, job>>, NEW c, NEW k, NEW x
  PROVE  InHand(c, k, x)' <=> InHand(c, k, x)
BY DEF InHand

\* A step that leaves the result block of c alone.
LEMMA SameBlock ==
  ASSUME NEW c, ipptr'[c] = ipptr[c], NEW k, NEW x
  PROVE  InBlock(c, k, x)' <=> InBlock(c, k, x)
BY DEF InBlock

\* A thread takes a job.
LEMMA TakeCarries ==
  ASSUME ServerInv, NEW t \in DnsThreads, TakeJob(t), UNCHANGED workerVars,
         NEW c \in Conns, NEW k \in Counts, NEW x \in Counts
  PROVE  Carries(c, k, x)' <=> Carries(c, k, x)
<1>1. PICK j : j = dns_array[iget]
  OBVIOUS
<1>2. Take(t) /\ UNCHANGED ipptr
  BY DEF TakeJob, reqVars
<1>3. j \in RingJobs /\ RingJobs' \subseteq RingJobs /\ RingJobs \subseteq RingJobs' \cup {j}
  BY <1>1, <1>2, TakeRingJobs
<1>4. dpc'[t] = "dnsrequest" /\ job'[t] = j /\ dpc[t] = "loop"
  BY <1>1, <1>2 DEF TakeJob, Take, Ready, Goto, ServerInv, TypeOK, DnsThreadTypeOK, RingTypeOK,
                    ThreadShape
<1>5. \A u \in DnsThreads : u # t => dpc'[u] = dpc[u] /\ job'[u] = job[u]
  BY OtherThreads DEF DnsStep
<1>6. ASSUME InQueue(c, k, x) PROVE InQueue(c, k, x)' \/ InHand(c, k, x)'
  BY <1>3, <1>4, <1>6 DEF InQueue, InHand
<1>7. ASSUME InHand(c, k, x) PROVE InHand(c, k, x)'
  BY <1>4, <1>5, <1>7 DEF InHand
<1>8. ASSUME InQueue(c, k, x)' PROVE InQueue(c, k, x)
  BY <1>3, <1>8 DEF InQueue
<1>9. ASSUME InHand(c, k, x)' PROVE InQueue(c, k, x) \/ InHand(c, k, x)
  <2>1. PICK u \in DnsThreads : /\ dpc'[u] = "dnsrequest" /\ JobOf(job'[u], c)
                                /\ job'[u].count = k /\ job'[u].index = x
    BY <1>9 DEF InHand
  <2>2. CASE u = t
    BY <1>3, <1>4, <2>1, <2>2 DEF InQueue
  <2>3. CASE u # t
    BY <1>5, <2>1, <2>3 DEF InHand
  <2> QED BY <2>2, <2>3
<1> QED BY <1>2, <1>6, <1>7, <1>8, <1>9, SameList, SameBlock DEF Carries

\* A thread writes its answer at its job's position, which is for no other name.
LEMMA AnswerCarries ==
  ASSUME ServerInv, OneCarried, NEW t \in DnsThreads, TcpDnsRequest(t), UNCHANGED workerVars,
         NEW c \in Conns, blk[c] = "live", NEW k \in Counts, NEW x \in Counts
  PROVE  Carries(c, k, x)' <=> Carries(c, k, x)
<1>1. PICK ip \in dnsrequest(job[t].domain) :
        ipptr' = [ipptr EXCEPT ![job[t].req][job[t].count] = [index |-> job[t].index, ip |-> ip]]
  BY DEF TcpDnsRequest
<1>2. /\ dpc[t] = "dnsrequest" /\ dpc' = [dpc EXCEPT ![t] = "finish"]
      /\ UNCHANGED <<job, ringVars>> /\ job[t].tcp_or_udp = "tcp"
  BY DEF TcpDnsRequest, Goto, ringVars
<1>3. IsTcp(job[t]) /\ job[t] \in Jobs \cup {NoJob}
  BY <1>2 DEF IsTcp, ServerInv, ThreadShape, TypeOK, RingTypeOK
<1>4. job[t] \in TcpJobs
  BY <1>3, TcpJobType
<1>5. PICK r \in Conns, l \in Counts, y \in Counts :
        job[t].req = r /\ job[t].count = l /\ job[t].index = y /\ JobOf(job[t], r)
  BY <1>3, <1>4, TcpJobType DEF TcpJobs
<1>6. RingJobs' = RingJobs
  BY <1>2, SameWindow, SameRingJobs DEF ringVars
<1>7. \A u \in DnsThreads : dpc'[u] = IF u = t THEN "finish" ELSE dpc[u]
  BY <1>2 DEF ServerInv, TypeOK, DnsThreadTypeOK
<1>8. PICK a : a = [index |-> y, ip |-> ip]
  OBVIOUS
<1>9. a \in Answers
  BY <1>4, <1>5, <1>8, DnsRequestType DEF Answers, TcpJobs
<1>10. ipptr'[c][k] = IF c = r /\ k = l THEN a ELSE ipptr[c][k]
  BY <1>1, <1>5, <1>8 DEF ServerInv, TypeOK, DnsThreadTypeOK
<1>11. InBlock(c, k, x)' <=> IF c = r /\ k = l THEN x = y ELSE InBlock(c, k, x)
  <2>1. a # NoAnswer /\ a.index = y
    BY <1>8, <1>9, NoAnswerAssumption
  <2> QED BY <1>10, <2>1 DEF InBlock
<1>12. InHand(c, k, x) <=> InHand(c, k, x)' \/ (c = r /\ k = l /\ x = y)
  <2>1. ASSUME InHand(c, k, x) PROVE InHand(c, k, x)' \/ (c = r /\ k = l /\ x = y)
    <3>1. PICK u \in DnsThreads : /\ dpc[u] = "dnsrequest" /\ JobOf(job[u], c)
                                  /\ job[u].count = k /\ job[u].index = x
      BY <2>1 DEF InHand
    <3>2. CASE u = t
      BY <1>5, <3>1, <3>2 DEF JobOf
    <3>3. CASE u # t
      BY <1>2, <1>7, <3>1, <3>3 DEF InHand
    <3> QED BY <3>2, <3>3
  <2>2. ASSUME InHand(c, k, x)' PROVE InHand(c, k, x)
    <3>1. PICK u \in DnsThreads : /\ dpc'[u] = "dnsrequest" /\ JobOf(job'[u], c)
                                  /\ job'[u].count = k /\ job'[u].index = x
      BY <2>2 DEF InHand
    <3> QED BY <1>2, <1>7, <3>1 DEF InHand
  <2>3. ASSUME c = r, k = l, x = y PROVE InHand(c, k, x)
    BY <1>2, <1>5, <2>3 DEF InHand
  <2> QED BY <2>1, <2>2, <2>3
<1>13. c = r /\ k = l /\ InBlock(c, k, x) => x = y
  <2>1. InHand(r, l, y)
    BY <1>2, <1>5 DEF InHand
  <2> QED BY <1>5, <2>1 DEF OneCarried, Carries
<1>14. (InList(c, k, x)' <=> InList(c, k, x)) /\ (InQueue(c, k, x)' <=> InQueue(c, k, x))
  BY <1>6, SameList, SameQueue
<1> QED BY <1>11, <1>12, <1>13, <1>14 DEF Carries

\* Every step of a DNS thread.
LEMMA DnsStepCarries ==
  ASSUME ServerInv, OneCarried, NEW t \in DnsThreads, DnsStep(t), UNCHANGED workerVars,
         NEW c \in Conns, blk[c] = "live", NEW k \in Counts, NEW x \in Counts
  PROVE  Carries(c, k, x)' <=> Carries(c, k, x)
<1>1. CASE ~TakeJob(t) /\ ~TcpDnsRequest(t)
  <2>1. UNCHANGED ipptr
    BY <1>1 DEF DnsStep, WorkOnJob, WaitForJob, UdpDnsRequest, Finish, CheckZero, CheckNonZero,
         Send, SendFails, CloseConn, Free, FreeAborts, offRingVars, reqVars
  <2>2. RingJobs' = RingJobs
    BY <1>1, DnsStepWindow, SameRingJobs
  <2>3. \/ dpc'[t] = dpc[t] /\ job'[t] = job[t]
        \/ dpc'[t] # "dnsrequest" /\ (dpc[t] = "dnsrequest" => ~IsTcp(job[t]))
    <3>1. CASE UdpDnsRequest(t)
      BY <3>1 DEF UdpDnsRequest, Goto, IsTcp, ServerInv, TypeOK, DnsThreadTypeOK
    <3>2. CASE WaitForJob(t) \/ SendFails(t) \/ FreeAborts(t)
      BY <3>2 DEF WaitForJob, Wait, SpuriousWakeup, SendFails, FreeAborts, Halt, offRingVars,
                  threadVars
    <3>3. CASE Finish(t) \/ CheckZero(t) \/ CheckNonZero(t) \/ Send(t) \/ CloseConn(t) \/ Free(t)
      BY <3>3 DEF Finish, CheckZero, CheckNonZero, Send, CloseConn, Free, Goto, ServerInv, TypeOK,
                  DnsThreadTypeOK
    <3> QED BY <1>1, <3>1, <3>2, <3>3 DEF DnsStep, WorkOnJob
  <2>4. \A u \in DnsThreads : u # t => dpc'[u] = dpc[u] /\ job'[u] = job[u]
    BY OtherThreads
  <2>5. InHand(c, k, x)' <=> InHand(c, k, x)
    <3>1. ASSUME NEW u \in DnsThreads
          PROVE  \/ dpc'[u] = dpc[u] /\ job'[u] = job[u]
                 \/ dpc'[u] # "dnsrequest" /\ ~(dpc[u] = "dnsrequest" /\ JobOf(job[u], c))
      BY <2>3, <2>4 DEF JobOf
    <3> QED BY <3>1 DEF InHand
  <2> QED BY <2>1, <2>2, <2>5, SameList, SameQueue, SameBlock DEF Carries
<1> QED BY <1>1, TakeCarries, AnswerCarries

\* A worker that puts no job leaves its list alone, and when it allocates the block
\* of another request, the rest too.
LEMMA WorkerStepCarries ==
  ASSUME RequestInv, NEW w \in Workers, WorkerStep(w), ~PutJob(w),
         NEW c \in Conns, blk[c] = "live", NEW k \in Counts, NEW x \in Counts
  PROVE  Carries(c, k, x)' <=> Carries(c, k, x)
<1>1. ServerInv /\ ServedOnce
  BY DEF RequestInv
<1>2. ReplyMiss(w) => wreq[w] \in Conns /\ wreq[w] # c
  BY <1>1 DEF ReplyMiss, ServedOnce, ServerInv, WorkerShape
<1>3. UNCHANGED <<dpc, job>>
  BY DEF WorkerStep, ServeConn, Accept, Reject, ReadBody, ZeroLength, NullBuffer, Overwrite, OverwriteCrash,
       Search, ReplyHit, ReplyMiss, ReplyKilled, Halt, sharedVars, offRingVars, ringVars, threadVars
<1>4. ipptr'[c] = ipptr[c]
  <2>1. CASE ReplyMiss(w)
    BY <1>1, <1>2, <2>1 DEF ReplyMiss, ServerInv, TypeOK, DnsThreadTypeOK
  <2>2. CASE ~ReplyMiss(w)
    BY <2>2 DEF WorkerStep, ServeConn, Accept, Reject, ReadBody, ZeroLength, NullBuffer, Overwrite, OverwriteCrash,
         Search, ReplyHit, ReplyKilled, sharedVars, offRingVars, reqVars
  <2> QED BY <2>1, <2>2
<1>5. RingJobs' = RingJobs
  <2>1. CASE Halt
    BY <2>1, SameWindow, SameRingJobs DEF Halt
  <2>2. CASE UNCHANGED ringVars
    BY <2>2, SameWindow, SameRingJobs DEF ringVars
  <2> QED BY <2>1, <2>2 DEF WorkerStep, ServeConn, Accept, Reject, ReadBody, ZeroLength,
                            NullBuffer, Overwrite, OverwriteCrash, Search, ReplyHit, ReplyMiss, ReplyKilled, sharedVars
<1>6. wpc[w] # "put" /\ (wpc'[w] = "put" => wreq'[w] # c)
  <2>1. CASE ReplyMiss(w)
    BY <1>2, <2>1 DEF ReplyMiss
  <2>2. CASE ~ReplyMiss(w)
    BY <1>1, <2>2 DEF WorkerStep, ServeConn, Accept, Reject, ReadBody, ZeroLength, NullBuffer, Overwrite, OverwriteCrash,
         Search, ReplyHit, ReplyKilled, Idle, workerVars, ServerInv, TypeOK, TcpTypeOK
  <2> QED BY <2>1, <2>2
<1>7. \A v \in Workers : v # w => wpc'[v] = wpc[v] /\ wreq'[v] = wreq[v] /\ wmiss'[v] = wmiss[v]
                                  /\ wput'[v] = wput[v]
  BY <1>1, OtherWorkers
<1>8. InList(c, k, x)' <=> InList(c, k, x)
  <2>1. ASSUME InList(c, k, x) PROVE InList(c, k, x)'
    <3>1. PICK v \in Workers : /\ wpc[v] = "put" /\ wreq[v] = c
                               /\ k \in wput[v] .. Len(wmiss[v]) - 1
                               /\ wmiss[v][k + 1].index = x
      BY <2>1 DEF InList
    <3> QED BY <1>6, <1>7, <3>1 DEF InList
  <2>2. ASSUME InList(c, k, x)' PROVE InList(c, k, x)
    <3>1. PICK v \in Workers : /\ wpc'[v] = "put" /\ wreq'[v] = c
                               /\ k \in wput'[v] .. Len(wmiss'[v]) - 1
                               /\ wmiss'[v][k + 1].index = x
      BY <2>2 DEF InList
    <3> QED BY <1>6, <1>7, <3>1 DEF InList
  <2> QED BY <2>1, <2>2
<1> QED BY <1>3, <1>4, <1>5, <1>8, SameQueue, SameHand, SameBlock DEF Carries

\* A worker puts the next node of its list into the ring, as a job for the same
\* position and the same name.
LEMMA PutJobCarries ==
  ASSUME ServerInv, ServerInv', NEW w \in Workers, PutJob(w),
         NEW c \in Conns, NEW k \in Counts, NEW x \in Counts
  PROVE  Carries(c, k, x)' <=> Carries(c, k, x)
<1>1. /\ wpc[w] = "put" /\ Put(MissJob(w)) /\ MissJob(w) \in Jobs
      /\ UNCHANGED <<dpc, job, ipptr>>
  BY MissJobType DEF PutJob, Put, offRingVars, threadVars, reqVars
<1>2. PICK j \in Jobs : j = MissJob(w)
  BY <1>1
<1>3. RingJobs' = RingJobs \cup {j}
  BY <1>1, <1>2, PutRingJobs DEF ServerInv
<1>4. PICK n \in Nat, l \in Nat : n = wput[w] /\ l = Len(wmiss[w]) /\ n < l
  BY <1>1 DEF ServerInv, TypeOK, TcpTypeOK, WorkerShape
<1>5. IsTcp(j) /\ j.req = wreq[w] /\ j.count = n /\ j.index = wmiss[w][n + 1].index
  BY <1>2, <1>4, JobAssumption DEF MissJob, Count, IsTcp
<1>6. \A v \in Workers : v # w => wpc'[v] = wpc[v] /\ wreq'[v] = wreq[v] /\ wmiss'[v] = wmiss[v]
                                  /\ wput'[v] = wput[v]
  BY OtherWorkers DEF WorkerStep, ServeConn
<1>7. IF n + 1 = l
      THEN wpc'[w] = "accept"
      ELSE wpc'[w] = "put" /\ wreq'[w] = wreq[w] /\ wmiss'[w] = wmiss[w] /\ wput'[w] = n + 1
  BY <1>1, <1>4 DEF PutJob, Idle, ServerInv, TypeOK, TcpTypeOK
<1>8. ASSUME InList(c, k, x) PROVE InList(c, k, x)' \/ InQueue(c, k, x)'
  <2>1. PICK v \in Workers : /\ wpc[v] = "put" /\ wreq[v] = c
                             /\ k \in wput[v] .. Len(wmiss[v]) - 1
                             /\ wmiss[v][k + 1].index = x
    BY <1>8 DEF InList
  <2>2. CASE v # w
    BY <1>6, <2>1, <2>2 DEF InList
  <2>3. CASE v = w /\ k = n
    BY <1>3, <1>5, <2>1, <2>3 DEF InQueue, JobOf
  <2>4. CASE v = w /\ k # n
    <3>1. k \in n + 1 .. l - 1 /\ n + 1 # l
      BY <1>4, <2>1, <2>4
    <3> QED BY <1>4, <1>7, <2>1, <2>4, <3>1 DEF InList
  <2> QED BY <2>2, <2>3, <2>4
<1>9. ASSUME InList(c, k, x)' PROVE InList(c, k, x)
  <2>1. PICK v \in Workers : /\ wpc'[v] = "put" /\ wreq'[v] = c
                             /\ k \in wput'[v] .. Len(wmiss'[v]) - 1
                             /\ wmiss'[v][k + 1].index = x
    BY <1>9 DEF InList
  <2>2. CASE v # w
    BY <1>6, <2>1, <2>2 DEF InList
  <2>3. CASE v = w
    <3>1. wreq[w] = c /\ k \in n + 1 .. l - 1 /\ wmiss[w][k + 1].index = x
      BY <1>4, <1>7, <2>1, <2>3
    <3>2. k \in wput[w] .. Len(wmiss[w]) - 1
      BY <1>4, <3>1
    <3> QED BY <1>1, <3>1, <3>2 DEF InList
  <2> QED BY <2>2, <2>3
<1>10. ASSUME InQueue(c, k, x) PROVE InQueue(c, k, x)'
  BY <1>3, <1>10 DEF InQueue
<1>11. ASSUME InQueue(c, k, x)' PROVE InQueue(c, k, x) \/ InList(c, k, x)
  <2>1. PICK i \in RingJobs' : JobOf(i, c) /\ i.count = k /\ i.index = x
    BY <1>11 DEF InQueue
  <2>2. CASE i \in RingJobs
    BY <2>1, <2>2 DEF InQueue
  <2>3. CASE i = j
    <3>1. wreq[w] = c /\ k = n /\ wmiss[w][k + 1].index = x
      BY <1>5, <2>1, <2>3 DEF JobOf
    <3>2. k \in wput[w] .. Len(wmiss[w]) - 1
      BY <1>4, <3>1
    <3> QED BY <1>1, <3>1, <3>2 DEF InList
  <2> QED BY <1>3, <2>1, <2>2, <2>3
<1> QED BY <1>1, <1>8, <1>9, <1>10, <1>11, SameHand, SameBlock DEF Carries

\* Every step of the server: while a request is served, each position of its block
\* stays with its name.
LEMMA CarriesStays ==
  ASSUME RequestInv, OneCarried, [Next]_vars,
         NEW c \in Conns, blk[c] = "live", NEW k \in Counts, NEW x \in Counts
  PROVE  Carries(c, k, x)' <=> Carries(c, k, x)
<1>1. ServerInv /\ ServerInv'
  BY ServerInvStep DEF RequestInv
<1>2. ASSUME NEW t \in DnsThreads, DnsStep(t), UNCHANGED workerVars
      PROVE  Carries(c, k, x)' <=> Carries(c, k, x)
  BY <1>1, <1>2, DnsStepCarries
<1>3. ASSUME NEW w \in Workers, WorkerStep(w) PROVE Carries(c, k, x)' <=> Carries(c, k, x)
  BY <1>1, <1>3, WorkerStepCarries, PutJobCarries
<1>4. ASSUME UdpStep, UNCHANGED workerVars PROVE Carries(c, k, x)' <=> Carries(c, k, x)
  <2>1. /\ RingJobs \subseteq RingJobs' /\ \A j \in RingJobs' : IsTcp(j) => j \in RingJobs
        /\ UNCHANGED <<dpc, job, ipptr>>
    BY <1>1, <1>4, UdpRingJobs DEF offRingVars, threadVars, reqVars
  <2>2. InQueue(c, k, x)' <=> InQueue(c, k, x)
    BY <2>1 DEF InQueue, JobOf
  <2> QED BY <1>4, <2>1, <2>2, SameList, SameHand, SameBlock DEF Carries
<1>5. ASSUME UNCHANGED <<ringVars, threadVars, reqVars, workerVars>>
      PROVE  Carries(c, k, x)' <=> Carries(c, k, x)
  <2>1. RingJobs' = RingJobs /\ UNCHANGED job
    BY <1>5, SameWindow, SameRingJobs DEF ringVars
  <2> QED BY <1>5, <2>1, SameList, SameQueue, SameHand, SameBlock DEF Carries, threadVars, reqVars
<1>6. ASSUME NEW d \in Conns, Client(d) PROVE Carries(c, k, x)' <=> Carries(c, k, x)
  BY <1>5, <1>6 DEF Client
<1>7. ASSUME Clock \/ UNCHANGED vars PROVE Carries(c, k, x)' <=> Carries(c, k, x)
  BY <1>5, <1>7 DEF Clock, vars, sharedVars
<1> QED BY <1>2, <1>3, <1>4, <1>6, <1>7 DEF Next

\* A block comes into use when its worker has sent the first reply, at no other time.
LEMMA BlockBegins ==
  ASSUME RequestInv, [Next]_vars, NEW c \in Conns, blk'[c] = "live", blk[c] # "live"
  PROVE  \E w \in Workers : ReplyMiss(w) /\ wreq[w] = c /\ blk[c] = "none" /\ UNCHANGED udpVars
<1>1. ServerInv /\ ServedOnce
  BY DEF RequestInv
<1>2. ASSUME NEW t \in DnsThreads, DnsStep(t) PROVE FALSE
  <2>1. CASE Free(t)
    <3>1. job[t].req \in Conns
      BY <1>1, <2>1, ThreadReq DEF Free
    <3> QED BY <1>1, <2>1, <3>1 DEF Free, ServerInv, TypeOK, DnsThreadTypeOK
  <2>2. CASE ~Free(t)
    BY <1>2, <2>2 DEF DnsStep, WorkOnJob, TakeJob, WaitForJob, UdpDnsRequest, TcpDnsRequest,
         Finish, CheckZero, CheckNonZero, Send, SendFails, CloseConn, FreeAborts, offRingVars, reqVars
  <2> QED BY <2>1, <2>2
<1>3. ASSUME NEW w \in Workers, WorkerStep(w), ~ReplyMiss(w) PROVE FALSE
  BY <1>3 DEF WorkerStep, ServeConn, Accept, Reject, ReadBody, ZeroLength, NullBuffer, Overwrite, OverwriteCrash, Search,
       ReplyHit, ReplyKilled, PutJob, sharedVars, offRingVars, reqVars
<1>4. ASSUME NEW w \in Workers, ReplyMiss(w) PROVE wreq[w] = c /\ blk[c] = "none"
  <2>1. wreq[w] \in Conns /\ blk[wreq[w]] = "none"
    BY <1>1, <1>4 DEF ReplyMiss, ServedOnce, ServerInv, WorkerShape
  <2> QED BY <1>1, <1>4, <2>1 DEF ReplyMiss, ServerInv, TypeOK, DnsThreadTypeOK
<1>5. ASSUME UdpStep PROVE FALSE
  BY <1>5 DEF UdpStep, UdpRecv, UdpRecvFails, UdpWork, UdpSearch, UdpSend, UdpSendFails, UdpPut,
              sharedVars, offRingVars, reqVars
<1>6. ASSUME NEW d \in Conns, Client(d) PROVE FALSE
  BY <1>6 DEF Client, reqVars
<1>7. ASSUME Clock \/ UNCHANGED vars PROVE FALSE
  BY <1>7 DEF Clock, vars, sharedVars, reqVars
<1> QED BY <1>2, <1>3, <1>4, <1>5, <1>6, <1>7 DEF Next

\* Then all its positions are in the worker's list, and nowhere else.
LEMMA BlockBeginsInList ==
  ASSUME RequestInv, NEW w \in Workers, ReplyMiss(w), NEW c \in Conns, wreq[w] = c
  PROVE  /\ UNCHANGED <<wreq, wmiss, wput, wnames, wips>> /\ wpc'[w] = "put" /\ wput[w] = 0
         /\ \A v \in Workers : Serving(v, c)' => v = w
         /\ \A j \in RingJobs' : ~JobOf(j, c)
         /\ \A t \in DnsThreads : ~JobOf(job'[t], c)
         /\ \A k \in Counts : ipptr'[c][k] = NoAnswer
         /\ UNCHANGED <<dpc, job>> /\ RingJobs' = RingJobs
<1>1. ServerInv /\ ServedOnce
  BY DEF RequestInv
<1>2. blk[c] = "none" /\ Serving(w, c)
  BY <1>1 DEF ReplyMiss, ServedOnce, Serving
<1>3. /\ UNCHANGED <<ringVars, dpc, job, wreq, wmiss, wput, wnames, wips>>
      /\ wpc'[w] = "put" /\ wput[w] = 0
  BY <1>1 DEF ReplyMiss, ringVars, threadVars, ServerInv, TypeOK, TcpTypeOK, WorkerShape
<1>4. RingJobs' = RingJobs
  BY <1>3, SameWindow, SameRingJobs DEF ringVars
<1>5. \A k \in Counts : ipptr'[c][k] = NoAnswer
  BY <1>1 DEF ReplyMiss, ServerInv, TypeOK, DnsThreadTypeOK
<1>6. ASSUME NEW v \in Workers, Serving(v, c)' PROVE v = w
  <2>1. CASE v # w
    <3>1. wpc'[v] = wpc[v]
      BY <1>1, <2>1 DEF ReplyMiss, ServerInv, TypeOK, TcpTypeOK
    <3>2. Serving(v, c)
      BY <1>3, <1>6, <3>1 DEF Serving
    <3> QED BY <1>1, <1>2, <3>2 DEF ServedOnce
  <2> QED BY <2>1
<1> QED BY <1>2, <1>3, <1>4, <1>5, <1>6, NoJobsYet

\* No position is ever for two names.
LEMMA OneCarriedStep == RequestInv /\ OneCarried /\ [Next]_vars => OneCarried'
<1> SUFFICES ASSUME RequestInv, OneCarried, [Next]_vars, NEW c \in Conns, blk'[c] = "live",
                    NEW k \in Counts, NEW x \in Counts, NEW y \in Counts,
                    Carries(c, k, x)', Carries(c, k, y)'
             PROVE  x = y
  BY DEF OneCarried
<1>1. CASE blk[c] = "live"
  <2>1. Carries(c, k, x) /\ Carries(c, k, y)
    BY <1>1, CarriesStays
  <2> QED BY <1>1, <2>1 DEF OneCarried
<1>2. CASE blk[c] # "live"
  <2>1. PICK w \in Workers : ReplyMiss(w) /\ wreq[w] = c
    BY <1>2, BlockBegins
  <2>2. ASSUME NEW z \in Counts, Carries(c, k, z)' PROVE wmiss[w][k + 1].index = z
    <3>1. ~InQueue(c, k, z)' /\ ~InHand(c, k, z)' /\ ~InBlock(c, k, z)'
      BY <2>1, BlockBeginsInList DEF InQueue, InHand, InBlock
    <3>2. InList(c, k, z)'
      BY <2>2, <3>1 DEF Carries
    <3>3. PICK v \in Workers : wpc'[v] = "put" /\ wreq'[v] = c /\ wmiss'[v][k + 1].index = z
      BY <3>2 DEF InList
    <3>4. v = w /\ wmiss' = wmiss
      BY <2>1, <3>3, BlockBeginsInList DEF Serving
    <3> QED BY <3>3, <3>4
  <2> QED BY <2>2
<1> QED BY <1>1, <1>2

(***************************************************************************)
(* A job asks for the name at its position of the request.                 *)
(***************************************************************************)

JobRight(j) ==
  sent[j.req] = "full" =>
    j.index + 1 \in DOMAIN Request[j.req] /\ j.domain = Request[j.req][j.index + 1]

\* So do the jobs in the ring and in the threads, and the answers answer it.
JobsRight ==
  /\ \A j \in RingJobs : IsTcp(j) => JobRight(j)
  /\ \A t \in DnsThreads : IsTcp(job[t]) => JobRight(job[t])
  /\ \A c \in Conns : blk[c] = "live" /\ sent[c] = "full" =>
       \A k \in Counts : ipptr[c][k] # NoAnswer =>
         ipptr[c][k].ip \in {Request[c][ipptr[c][k].index + 1], DNS_ERROR}

\* A worker of a whole request puts jobs for its names.
LEMMA MissJobRight ==
  ASSUME ServerInv, WorkerRight, NEW w \in Workers, wpc[w] = "put"
  PROVE  JobRight(MissJob(w))
<1> SUFFICES ASSUME sent[wreq[w]] = "full"
             PROVE  LET j == MissJob(w) q == Request[wreq[w]] IN
                    j.index + 1 \in DOMAIN q /\ j.domain = q[j.index + 1]
  BY DEF JobRight, MissJob
<1>1. PICK k \in DOMAIN wmiss[w] : k = wput[w] + 1
  BY DEF ServerInv, WorkerShape, TypeOK, TcpTypeOK
<1>2. MissJob(w).index = wmiss[w][k].index /\ MissJob(w).domain = wmiss[w][k].domain
  BY <1>1 DEF MissJob
<1>3. /\ wnames[w] = Request[wreq[w]] /\ Len(wips[w]) = Len(wnames[w])
      /\ SearchedRight(Request[wreq[w]], wips[w], wmiss[w])
  BY DEF WorkerRight
<1>4. DOMAIN wips[w] = DOMAIN Request[wreq[w]]
  BY <1>3 DEF ServerInv, TypeOK, TcpTypeOK
<1>5. wmiss[w][k].index + 1 \in DOMAIN wips[w]
      /\ wmiss[w][k].domain = Request[wreq[w]][wmiss[w][k].index + 1]
  BY <1>1, <1>3 DEF SearchedRight
<1> QED BY <1>2, <1>4, <1>5

\* A job of a TCP request in the ring was there before, or its worker has put it.
LEMMA RingFlow ==
  ASSUME RequestInv, [Next]_vars, NEW j \in RingJobs', IsTcp(j)
  PROVE  j \in RingJobs \/ \E w \in Workers : PutJob(w) /\ j = MissJob(w)
<1>1. ServerInv /\ ServerInv'
  BY ServerInvStep DEF RequestInv
<1>2. ASSUME NEW t \in DnsThreads, DnsStep(t) PROVE j \in RingJobs
  <2>1. CASE TakeJob(t)
    BY <1>1, <2>1, TakeRingJobs DEF TakeJob
  <2>2. CASE ~TakeJob(t)
    BY <1>2, <2>2, DnsStepWindow, SameRingJobs
  <2> QED BY <2>1, <2>2
<1>3. ASSUME Halt \/ UNCHANGED ringVars PROVE j \in RingJobs
  BY <1>3, SameWindow, SameRingJobs DEF Halt, ringVars
<1>4. ASSUME NEW w \in Workers, WorkerStep(w), ~PutJob(w) PROVE j \in RingJobs
  BY <1>3, <1>4 DEF WorkerStep, ServeConn, Accept, Reject, ReadBody, ZeroLength, NullBuffer, Overwrite, OverwriteCrash,
       Search, ReplyHit, ReplyMiss, ReplyKilled, sharedVars
<1>5. ASSUME NEW w \in Workers, PutJob(w) PROVE j \in RingJobs \/ j = MissJob(w)
  <2>1. Put(MissJob(w)) /\ MissJob(w) \in Jobs
    BY <1>1, <1>5, MissJobType DEF PutJob
  <2> QED BY <1>1, <2>1, PutRingJobs DEF ServerInv
<1>6. ASSUME UdpStep PROVE j \in RingJobs
  BY <1>1, <1>6, UdpRingJobs
<1> QED BY <1>2, <1>3, <1>4, <1>5, <1>6 DEF Next, Client, Clock, vars, sharedVars

\* A thread's job of a TCP request is the one it had, or one from the ring.
LEMMA ThreadFlow ==
  ASSUME RequestInv, [Next]_vars, NEW t \in DnsThreads, IsTcp(job'[t])
  PROVE  job'[t] = job[t] \/ job'[t] \in RingJobs
<1>1. ServerInv /\ ServerInv'
  BY ServerInvStep DEF RequestInv
<1>2. ASSUME NEW u \in DnsThreads, DnsStep(u) PROVE job'[t] = job[t] \/ job'[t] \in RingJobs
  <2>1. CASE u # t
    BY <1>1, <1>2, <2>1, OtherThreads
  <2>2. CASE u = t /\ TakeJob(t)
    <3>1. job'[t] = dns_array[iget] /\ Take(t)
      BY <1>1, <2>2 DEF TakeJob, Take, ServerInv, TypeOK, RingTypeOK
    <3> QED BY <1>1, <3>1, TakeRingJobs
  <2>3. CASE u = t /\ ~TakeJob(t)
    <3>1. UNCHANGED job \/ JobDone(t)
      BY <1>2, <2>3 DEF DnsStep, WorkOnJob, WaitForJob, Wait, SpuriousWakeup, UdpDnsRequest,
           TcpDnsRequest, Finish, CheckZero, CheckNonZero, Send, SendFails, CloseConn, Free,
           FreeAborts, Halt, ringVars
    <3>2. CASE JobDone(t)
      <4>1. job'[t] = NoJob
        BY <1>1, <3>2 DEF JobDone, ServerInv, TypeOK, RingTypeOK
      <4> QED BY <4>1 DEF IsTcp
    <3> QED BY <3>1, <3>2
  <2> QED BY <2>1, <2>2, <2>3
<1>3. ASSUME NEW w \in Workers, WorkerStep(w) PROVE UNCHANGED job
  BY <1>3 DEF WorkerStep, ServeConn, Accept, Reject, ReadBody, ZeroLength, NullBuffer, Overwrite, OverwriteCrash,
       Search, ReplyHit, ReplyMiss, ReplyKilled, PutJob, Put, Halt, sharedVars, ringVars
<1>4. ASSUME UdpStep PROVE UNCHANGED job
  BY <1>1, <1>4, UdpRingJobs
<1> QED BY <1>2, <1>3, <1>4 DEF Next, Client, Clock, vars, sharedVars, ringVars

\* The client of a job has sent its request.
LEMMA JobSent ==
  ASSUME RequestInv, [Next]_vars, NEW j \in Jobs \cup {NoJob}, IsTcp(j),
         \/ j \in RingJobs
         \/ \E t \in DnsThreads : j = job[t]
         \/ \E w \in Workers : wpc[w] = "put" /\ j = MissJob(w)
  PROVE  sent'[j.req] = sent[j.req]
<1>1. PICK c \in Conns : j.req = c /\ JobOf(j, c)
  BY TcpJobType
<1>2. ServerInv /\ ServedOnce
  BY DEF RequestInv
<1>3. CASE blk[c] # "none"
  BY <1>1, <1>2, <1>3, SentStays DEF ServedOnce, Unserved
<1>4. CASE blk[c] = "none"
  <2>1. PICK w \in Workers : wpc[w] = "put" /\ j = MissJob(w)
    BY <1>1, <1>4, NoJobsYet, SMTT(60)
  <2>2. Serving(w, c)
    BY <1>1, <2>1 DEF Serving, MissJob
  <2> QED BY <1>1, <1>2, <2>2, SentStays DEF ServedOnce, Unserved
<1> QED BY <1>3, <1>4

\* What a thread writes into the answers answers its job.
LEMMA AnswerRight ==
  ASSUME ServerInv, JobsRight, NEW t \in DnsThreads, TcpDnsRequest(t),
         NEW c \in Conns, blk[c] = "live", sent[c] = "full", NEW k \in Counts,
         ipptr'[c][k] # NoAnswer
  PROVE  ipptr'[c][k].ip \in {Request[c][ipptr'[c][k].index + 1], DNS_ERROR}
<1>1. PICK ip \in dnsrequest(job[t].domain) :
        ipptr' = [ipptr EXCEPT ![job[t].req][job[t].count] = [index |-> job[t].index, ip |-> ip]]
  BY DEF TcpDnsRequest
<1>2. IsTcp(job[t]) /\ job[t] \in Jobs \cup {NoJob}
  BY DEF TcpDnsRequest, IsTcp, ServerInv, ThreadShape, TypeOK, RingTypeOK
<1>3. PICK r \in Conns : job[t].req = r
  BY <1>2, TcpJobType
<1>4. ip \in {DNS_ERROR, job[t].domain}
  BY <1>1 DEF dnsrequest
<1>5. CASE c = r /\ k = job[t].count
  <2>1. ipptr'[c][k] = [index |-> job[t].index, ip |-> ip]
    BY <1>1, <1>3, <1>5 DEF ServerInv, TypeOK, DnsThreadTypeOK
  <2>2. JobRight(job[t])
    BY <1>2 DEF JobsRight
  <2>3. job[t].domain = Request[c][job[t].index + 1]
    BY <1>3, <1>5, <2>2 DEF JobRight
  <2> QED BY <1>4, <2>1, <2>3
<1>6. CASE ~(c = r /\ k = job[t].count)
  <2>1. ipptr'[c][k] = ipptr[c][k]
    BY <1>1, <1>3, <1>6 DEF ServerInv, TypeOK, DnsThreadTypeOK
  <2> QED BY <2>1 DEF JobsRight
<1> QED BY <1>5, <1>6

\* The steps that write into a block.
LEMMA AnswersStay ==
  ASSUME RequestInv, [Next]_vars, NEW c \in Conns, blk[c] = "live"
  PROVE  ipptr'[c] = ipptr[c] \/ \E t \in DnsThreads : TcpDnsRequest(t) /\ UNCHANGED workerVars
<1>1. ServerInv /\ ServedOnce
  BY DEF RequestInv
<1>2. ASSUME NEW t \in DnsThreads, DnsStep(t), ~TcpDnsRequest(t) PROVE ipptr' = ipptr
  BY <1>2 DEF DnsStep, WorkOnJob, TakeJob, WaitForJob, UdpDnsRequest, Finish, CheckZero,
       CheckNonZero, Send, SendFails, CloseConn, Free, FreeAborts, offRingVars, reqVars
<1>3. ASSUME NEW w \in Workers, WorkerStep(w) PROVE ipptr'[c] = ipptr[c]
  <2>1. CASE ReplyMiss(w)
    <3>1. wreq[w] \in Conns /\ wreq[w] # c
      BY <1>1, <2>1 DEF ReplyMiss, ServedOnce, ServerInv, WorkerShape
    <3> QED BY <1>1, <2>1, <3>1 DEF ReplyMiss, ServerInv, TypeOK, DnsThreadTypeOK
  <2>2. CASE ~ReplyMiss(w)
    BY <1>3, <2>2 DEF WorkerStep, ServeConn, Accept, Reject, ReadBody, ZeroLength, NullBuffer, Overwrite, OverwriteCrash,
         Search, ReplyHit, ReplyKilled, PutJob, sharedVars, offRingVars, reqVars
  <2> QED BY <2>1, <2>2
<1>4. ASSUME UdpStep PROVE ipptr' = ipptr
  BY <1>4 DEF UdpStep, UdpRecv, UdpRecvFails, UdpWork, UdpSearch, UdpSend, UdpSendFails, UdpPut,
              sharedVars, offRingVars, reqVars
<1> QED BY <1>2, <1>3, <1>4 DEF Next, Client, Clock, vars, sharedVars, reqVars

\* Every step of the server.
LEMMA JobsRightStep ==
  RequestInv /\ WorkerRight /\ JobsRight /\ [Next]_vars => JobsRight'
<1> SUFFICES ASSUME RequestInv, WorkerRight, JobsRight, [Next]_vars PROVE JobsRight'
  OBVIOUS
<1>1. ServerInv /\ ServedOnce /\ ServerInv'
  BY ServerInvStep DEF RequestInv
<1>2. ASSUME NEW j \in RingJobs', IsTcp(j) PROVE JobRight(j)'
  <2>1. /\ JobRight(j) /\ j \in Jobs
        /\ j \in RingJobs \/ \E w \in Workers : wpc[w] = "put" /\ j = MissJob(w)
    <3>1. CASE j \in RingJobs
      BY <1>1, <1>2, <3>1, RingJobsType DEF JobsRight
    <3>2. ASSUME NEW w \in Workers, PutJob(w), j = MissJob(w)
          PROVE  JobRight(j) /\ wpc[w] = "put" /\ j \in Jobs
      BY <1>1, <3>2, MissJobRight, MissJobType DEF PutJob
    <3> QED BY <1>2, <3>1, <3>2, RingFlow
  <2>2. sent'[j.req] = sent[j.req]
    BY <1>2, <2>1, JobSent
  <2> QED BY <2>1, <2>2 DEF JobRight
<1>3. ASSUME NEW t \in DnsThreads, IsTcp(job[t])' PROVE JobRight(job[t])'
  <2>1. PICK j \in Jobs \cup {NoJob} : j = job'[t]
    BY <1>1 DEF ServerInv, TypeOK, RingTypeOK
  <2>2. IsTcp(j) /\ (j = job[t] \/ j \in RingJobs)
    BY <1>3, <2>1, ThreadFlow
  <2>3. JobRight(j)
    BY <2>2 DEF JobsRight
  <2>4. sent'[j.req] = sent[j.req]
    BY <2>2, JobSent
  <2>5. JobRight(j)'
    BY <2>3, <2>4 DEF JobRight
  <2> QED BY <2>1, <2>5 DEF JobRight
<1>4. ASSUME NEW c \in Conns, blk'[c] = "live", sent'[c] = "full", NEW k \in Counts,
             ipptr'[c][k] # NoAnswer
      PROVE  ipptr'[c][k].ip \in {Request[c][ipptr'[c][k].index + 1], DNS_ERROR}
  <2>1. CASE blk[c] = "live"
    <3>1. sent[c] = "full"
      BY <1>1, <1>4, <2>1, SentStays DEF ServedOnce, Unserved
    <3>2. CASE ipptr'[c] = ipptr[c]
      BY <1>4, <2>1, <3>1, <3>2 DEF JobsRight
    <3>3. CASE \E t \in DnsThreads : TcpDnsRequest(t)
      BY <1>1, <1>4, <2>1, <3>1, <3>3, AnswerRight
    <3> QED BY <2>1, <3>2, <3>3, AnswersStay
  <2>2. CASE blk[c] # "live"
    BY <1>4, <2>2, BlockBegins, BlockBeginsInList
  <2> QED BY <2>1, <2>2
<1> QED BY <1>2, <1>3, <1>4 DEF JobsRight

(***************************************************************************)
(* The streams                                                             *)
(***************************************************************************)

\* The second reply to c has been sent.
SecondSent(c) == \E t \in Enders(c) : dpc[t] \in {"close", "free"}

\* Before its worker replies a client has received nothing, and before its second
\* reply is sent just the first, or nothing if it has gone.
StreamShape ==
  ~astray => \A c \in Conns :
    /\ Unserved(c) => wire[c] = <<>>
    /\ \A w \in Workers : Serving(w, c) /\ wpc[w] # "put" => wire[c] = <<>>
    /\ blk[c] = "live" /\ ~SecondSent(c) =>
         Len(wire[c]) <= 1 /\ (c \notin gone => Len(wire[c]) = 1)

\* The jobs of a request fit the first reply to it: as many as names missed, and
\* one of them for each.
JobsOfReply ==
  ~astray => \A c \in Conns : blk[c] = "live" /\ sent[c] = "full" /\ Len(wire[c]) > 0 =>
    LET missed == Missed(wire[c][1].ips) IN
    /\ \A p \in missed : \E k \in 0 .. Cardinality(missed) - 1 : Carries(c, k, p - 1)
    /\ \A w \in Workers : Serving(w, c) => Len(wmiss[w]) = Cardinality(missed)
    /\ \A j \in RingJobs : JobOf(j, c) => j.total = Cardinality(missed)
    /\ \A t \in DnsThreads : JobOf(job[t], c) => job[t].total = Cardinality(missed)

\* A worker's first reply reaches its own client, as the first it receives.
LEMMA FirstWritten ==
  ASSUME RequestInv, FdOwned, StreamShape, ~astray,
         NEW w \in Workers, ReplyHit(w) \/ ReplyMiss(w)
  PROVE  \E r \in Conns :
           /\ wreq[w] = r /\ Serving(w, r) /\ blk[r] = "none" /\ ~Unserved(r)
           /\ \A c \in Conns : c # r => wire'[c] = wire[c]
           /\ wire[r] = <<>>
           /\ wire'[r] = IF r \in gone THEN <<>> ELSE <<FirstReply(w)>>
<1>1. ServerInv /\ ServedOnce
  BY DEF RequestInv
<1>2. wpc[w] = "reply" /\ wire' = Written(wfd[w], FirstReply(w))
  BY DEF ReplyHit, ReplyMiss
<1>3. PICK r \in Conns : wreq[w] = r /\ Serving(w, r) /\ blk[r] = "none" /\ ~Unserved(r)
  BY <1>1, <1>2 DEF ServerInv, WorkerShape, ServedOnce, Serving
<1>4. fdTab[wfd[w]] = r
  BY <1>2, <1>3 DEF FdOwned
<1>5. wire[r] = <<>>
  BY <1>2, <1>3 DEF StreamShape
<1>6. \A c \in Conns : c \in Reaches(wfd[w]) <=> c = r /\ r \notin gone
  BY <1>3, <1>4 DEF Reaches
<1>7. \A c \in Conns : wire'[c] = IF c = r /\ r \notin gone THEN Append(wire[c], FirstReply(w))
                                                            ELSE wire[c]
  BY <1>2, <1>6 DEF Written
<1>8. Append(<<>>, FirstReply(w)) = <<FirstReply(w)>>
  OBVIOUS
<1> QED BY <1>3, <1>5, <1>7, <1>8

\* The second reply reaches the client of the request, after the first.
LEMMA SecondWritten ==
  ASSUME RequestInv, FdOwned, StreamShape, ~astray, NEW t \in DnsThreads, Send(t)
  PROVE  \E r \in Conns :
           /\ job[t].req = r /\ JobOf(job[t], r) /\ blk[r] = "live" /\ Outstanding(r) = 0
           /\ dpc'[t] = "close" /\ UNCHANGED job
           /\ \A c \in Conns : c # r => wire'[c] = wire[c]
           /\ r \in gone => wire'[r] = wire[r]
           /\ r \notin gone =>
                Len(wire[r]) = 1
                /\ wire'[r] = Append(wire[r], SecondReply(r, job[t].total, miss[r]))
<1>1. ServerInv
  BY DEF RequestInv
<1>2. PICK r \in Conns : /\ job[t].req = r /\ JobOf(job[t], r)
                         /\ blk[r] = "live" /\ Enders(r) = {t} /\ Outstanding(r) = 0
                         /\ fdTab[job[t].sockfd] = r
  BY SenderAlone DEF Send
<1>3. wire' = Written(job[t].sockfd, SecondReply(r, job[t].total, miss[r]))
  BY <1>2 DEF Send
<1>4. dpc'[t] = "close" /\ UNCHANGED job
  BY <1>1 DEF Send, Goto, ringVars, ServerInv, TypeOK, DnsThreadTypeOK
<1>5. \A c \in Conns : c \in Reaches(job[t].sockfd) <=> c = r /\ r \notin gone
  BY <1>2 DEF Reaches
<1>6. \A c \in Conns : wire'[c] = IF c = r /\ r \notin gone
                                  THEN Append(wire[c], SecondReply(r, job[t].total, miss[r]))
                                  ELSE wire[c]
  BY <1>3, <1>5 DEF Written
<1>7. ~SecondSent(r)
  BY <1>2 DEF SecondSent, Send
<1>8. r \notin gone => Len(wire[r]) = 1
  BY <1>2, <1>7 DEF StreamShape
<1> QED BY <1>2, <1>4, <1>6, <1>8

\* A connection that is not accepted was not accepted before.
LEMMA UnservedBefore ==
  ASSUME ServerInv, [Next]_vars, NEW c \in Conns, Unserved(c)'
  PROVE  Unserved(c)
<1>1. ASSUME NEW t \in DnsThreads, DnsStep(t) PROVE UNCHANGED <<sent, backlog>>
  BY <1>1 DEF DnsStep, WorkOnJob, TakeJob, WaitForJob, UdpDnsRequest, TcpDnsRequest, Finish,
       CheckZero, CheckNonZero, Send, SendFails, CloseConn, Free, FreeAborts, sockVars, offRingVars
<1>2. ASSUME NEW w \in Workers, WorkerStep(w) PROVE UNCHANGED sent /\ backlog' \subseteq backlog
  BY <1>2 DEF WorkerStep, ServeConn, Accept, AcceptFd, Reject, ReadBody, ZeroLength,
       NullBuffer, Overwrite, OverwriteCrash, Search, ReplyHit, ReplyMiss, ReplyKilled, PutJob, sockVars, sharedVars,
       offRingVars
<1>3. ASSUME UdpStep PROVE UNCHANGED <<sent, backlog>>
  BY <1>3 DEF UdpStep, UdpRecv, UdpRecvFails, UdpWork, UdpSearch, UdpSend, UdpSendFails, UdpPut,
              sockVars, sharedVars, offRingVars
<1>4. ASSUME NEW d \in Conns, Client(d) PROVE Unserved(c)
  <2>1. CASE ClientConnect(d)
    BY <2>1 DEF ClientConnect, Unserved, ServerInv, TypeOK, SockTypeOK
  <2>2. CASE ClientGone(d)
    BY <2>2 DEF ClientGone, Unserved
  <2>3. CASE ClientSend(d)
    BY <2>3 DEF ClientSend, Unserved
  <2> QED BY <1>4, <2>1, <2>2, <2>3 DEF Client
<1>5. ASSUME Clock \/ UNCHANGED vars PROVE UNCHANGED <<sent, backlog>>
  BY <1>5 DEF Clock, vars, sharedVars, sockVars
<1> QED BY <1>1, <1>2, <1>3, <1>4, <1>5 DEF Next, Unserved

\* A worker that serves a connection has accepted it just now, or served it before
\* and, once the block is allocated, has not touched its list.
LEMMA ServingBefore ==
  ASSUME ServerInv, [Next]_vars, NEW c \in Conns, NEW w \in Workers, Serving(w, c)'
  PROVE  \/ Unserved(c) /\ wpc'[w] = "serv"
         \/ /\ Serving(w, c)
            /\ wpc[w] = "put" => wmiss'[w] = wmiss[w] /\ wpc'[w] = "put"
<1>1. CASE UNCHANGED workerVars
  BY <1>1 DEF workerVars, Serving
<1>2. ASSUME NEW v \in Workers, WorkerStep(v), v # w
      PROVE  Serving(w, c) /\ wmiss'[w] = wmiss[w] /\ wpc'[w] = wpc[w]
  BY <1>2, OtherWorkers DEF Serving
<1>3. CASE Accept(w)
  BY <1>3 DEF Accept, AcceptFd, Serving, Unserved, ServerInv, TypeOK, TcpTypeOK
<1>4. CASE ServeConn(w)
  <2>1. CASE ReadBody(w) \/ Overwrite(w) \/ ZeroLength(w) \/ Search(w) \/ ReplyMiss(w)
    BY <2>1 DEF ReadBody, Overwrite, ZeroLength, Search, ReplyMiss, Serving
  <2>2. CASE Reject(w) \/ ReplyHit(w)
    BY <2>2 DEF Reject, ReplyHit, Idle, Serving, ServerInv, TypeOK, TcpTypeOK
  <2>3. CASE NullBuffer(w) \/ OverwriteCrash(w) \/ ReplyKilled(w)
    BY <2>3 DEF NullBuffer, OverwriteCrash, ReplyKilled, workerVars, Serving
  <2>4. CASE PutJob(w)
    <3>1. CASE Idle(w)
      BY <3>1 DEF Idle, Serving, ServerInv, TypeOK, TcpTypeOK
    <3> QED BY <2>4, <3>1 DEF PutJob, Serving
  <2> QED BY <1>4, <2>1, <2>2, <2>3, <2>4 DEF ServeConn
<1> QED BY <1>1, <1>2, <1>3, <1>4 DEF Next, WorkerStep, Client, Clock, vars

\* Until the block is freed, the second reply stays sent.
LEMMA SecondStays ==
  ASSUME ServerInv, [Next]_vars, NEW c \in Conns, SecondSent(c), blk'[c] = "live"
  PROVE  SecondSent(c)'
<1>1. PICK t \in DnsThreads : job[t].req = c /\ dpc[t] \in {"close", "free"}
  BY DEF SecondSent, Enders
<1>2. CASE UNCHANGED <<dpc, job>>
  BY <1>1, <1>2 DEF SecondSent, Enders
<1>3. ASSUME NEW u \in DnsThreads, DnsStep(u) PROVE SecondSent(c)'
  <2>1. CASE u # t
    <3>1. dpc'[t] = dpc[t] /\ job'[t] = job[t]
      BY <1>3, <2>1, OtherThreads
    <3> QED BY <1>1, <3>1 DEF SecondSent, Enders
  <2>2. CASE u = t
    <3>1. CASE CloseConn(t)
      <4>1. dpc'[t] = "free" /\ job' = job
        BY <3>1 DEF CloseConn, Goto, ringVars, ServerInv, TypeOK, DnsThreadTypeOK
      <4> QED BY <1>1, <4>1 DEF SecondSent, Enders
    <3>2. CASE Free(t)
      BY <1>1, <3>2 DEF Free, ServerInv, TypeOK, DnsThreadTypeOK
    <3>3. CASE ~CloseConn(t) /\ ~Free(t)
      <4>1. ~TakeJob(t)
        BY <1>1 DEF TakeJob, Take, Ready, ServerInv, ThreadShape
      <4>2. WaitForJob(t) \/ FreeAborts(t)
        BY <1>1, <1>3, <2>2, <3>3, <4>1 DEF DnsStep, WorkOnJob, UdpDnsRequest, TcpDnsRequest, Finish,
             CheckZero, CheckNonZero, Send, SendFails
      <4> QED BY <1>2, <4>2 DEF WaitForJob, Wait, SpuriousWakeup, FreeAborts, Halt, offRingVars,
                                threadVars
    <3> QED BY <3>1, <3>2, <3>3
  <2> QED BY <2>1, <2>2
<1>4. ASSUME NEW w \in Workers, WorkerStep(w) PROVE UNCHANGED <<dpc, job>>
  BY <1>4 DEF WorkerStep, ServeConn, Accept, Reject, ReadBody, ZeroLength, NullBuffer, Overwrite, OverwriteCrash,
       Search, ReplyHit, ReplyMiss, ReplyKilled, PutJob, Put, Halt, sharedVars, offRingVars, ringVars,
       threadVars
<1>5. ASSUME UdpStep PROVE UNCHANGED <<dpc, job>>
  BY <1>5 DEF UdpStep, UdpRecv, UdpRecvFails, UdpWork, UdpSearch, UdpSend, UdpSendFails, UdpPut,
              Put, Halt, sharedVars, offRingVars, ringVars, threadVars
<1>6. ASSUME NEW d \in Conns, Client(d) PROVE UNCHANGED <<dpc, job>>
  BY <1>6 DEF Client, ringVars, threadVars
<1>7. ASSUME Clock \/ UNCHANGED vars PROVE UNCHANGED <<dpc, job>>
  BY <1>7 DEF Clock, vars, sharedVars, ringVars, threadVars
<1> QED BY <1>2, <1>3, <1>4, <1>5, <1>6, <1>7 DEF Next

\* A client that has gone does not come back.
LEMMA GoneStays ==
  ASSUME [Next]_vars
  PROVE  gone \subseteq gone'
<1>1. ASSUME NEW t \in DnsThreads, DnsStep(t) PROVE UNCHANGED gone
  BY <1>1 DEF DnsStep, WorkOnJob, TakeJob, WaitForJob, UdpDnsRequest, TcpDnsRequest, Finish,
       CheckZero, CheckNonZero, Send, SendFails, CloseConn, Free, FreeAborts, sockVars, offRingVars
<1>2. ASSUME NEW w \in Workers, WorkerStep(w) PROVE UNCHANGED gone
  BY <1>2 DEF WorkerStep, ServeConn, Accept, Reject, ReadBody, ZeroLength, NullBuffer, Overwrite, OverwriteCrash, Search,
       ReplyHit, ReplyMiss, ReplyKilled, PutJob, sockVars, sharedVars, offRingVars
<1>3. ASSUME UdpStep PROVE UNCHANGED gone
  BY <1>3 DEF UdpStep, UdpRecv, UdpRecvFails, UdpWork, UdpSearch, UdpSend, UdpSendFails, UdpPut,
              sockVars, sharedVars, offRingVars
<1>4. ASSUME NEW d \in Conns, Client(d) PROVE gone \subseteq gone'
  BY <1>4 DEF Client, ClientConnect, ClientSend, ClientGone
<1>5. ASSUME Clock \/ UNCHANGED vars PROVE UNCHANGED gone
  BY <1>5 DEF Clock, vars, sharedVars, sockVars
<1> QED BY <1>1, <1>2, <1>3, <1>4, <1>5 DEF Next

\* A stream that a step leaves alone, when the step does not allocate its block.
LEMMA SameStream ==
  ASSUME RequestInv, StreamShape, ~astray, [Next]_vars,
         NEW c \in Conns, wire'[c] = wire[c], blk'[c] = "live" => blk[c] = "live"
  PROVE  /\ Unserved(c)' => wire'[c] = <<>>
         /\ \A w \in Workers : Serving(w, c)' /\ wpc'[w] # "put" => wire'[c] = <<>>
         /\ blk'[c] = "live" /\ ~SecondSent(c)' =>
              Len(wire'[c]) <= 1 /\ (c \notin gone' => Len(wire'[c]) = 1)
<1>1. ServerInv
  BY DEF RequestInv
<1>2. ASSUME Unserved(c)' PROVE wire'[c] = <<>>
  BY <1>1, <1>2, UnservedBefore DEF StreamShape
<1>3. ASSUME NEW w \in Workers, Serving(w, c)', wpc'[w] # "put" PROVE wire'[c] = <<>>
  BY <1>1, <1>3, ServingBefore DEF StreamShape
<1>4. ASSUME blk'[c] = "live", ~SecondSent(c)'
      PROVE  Len(wire'[c]) <= 1 /\ (c \notin gone' => Len(wire'[c]) = 1)
  <2>1. blk[c] = "live" /\ ~SecondSent(c)
    BY <1>1, <1>4, SecondStays
  <2> QED BY <2>1, GoneStays DEF StreamShape
<1> QED BY <1>2, <1>3, <1>4

\* Every step of the server.
LEMMA StreamShapeStep ==
  RequestInv /\ FdOwned /\ StreamShape /\ [Next]_vars => StreamShape'
<1> SUFFICES ASSUME RequestInv, FdOwned, StreamShape, [Next]_vars, ~astray', NEW c \in Conns
             PROVE  /\ Unserved(c)' => wire'[c] = <<>>
                    /\ \A w \in Workers : Serving(w, c)' /\ wpc'[w] # "put" => wire'[c] = <<>>
                    /\ blk'[c] = "live" /\ ~SecondSent(c)' =>
                         Len(wire'[c]) <= 1 /\ (c \notin gone' => Len(wire'[c]) = 1)
  BY DEF StreamShape
<1>1. ServerInv /\ ServedOnce /\ ServerInv'
  BY ServerInvStep DEF RequestInv
<1>2. ~astray
  BY <1>1, AstrayStays
<1>3. ServedOnce'
  BY RequestInvStep DEF RequestInv
<1>4. ASSUME NEW w \in Workers, ReplyHit(w), wreq[w] = c
      PROVE  /\ ~Unserved(c)' /\ blk'[c] # "live"
             /\ \A v \in Workers : ~Serving(v, c)'
  <2>1. Serving(w, c) /\ ~Unserved(c) /\ blk[c] = "none" /\ blk' = blk /\ Idle(w)
    BY <1>1, <1>4 DEF ReplyHit, Serving, ServedOnce, reqVars
  <2>2. ~Unserved(c)'
    BY <1>1, <2>1, UnservedBefore
  <2>3. ASSUME NEW v \in Workers PROVE ~Serving(v, c)'
    <3>1. CASE v = w
      BY <1>1, <2>1, <3>1 DEF Idle, Serving, ServerInv, TypeOK, TcpTypeOK
    <3>2. CASE v # w
      <4>1. ~Serving(v, c)
        BY <1>1, <2>1, <3>2 DEF ServedOnce
      <4>2. wpc'[v] = wpc[v] /\ wreq'[v] = wreq[v]
        BY <1>1, <2>1, <3>2, OthersIdle
      <4> QED BY <4>1, <4>2 DEF Serving
    <3> QED BY <3>1, <3>2
  <2> QED BY <2>1, <2>2, <2>3
<1>5. ASSUME NEW w \in Workers, ReplyMiss(w), wreq[w] = c
      PROVE  /\ ~Unserved(c)'
             /\ \A v \in Workers : Serving(v, c)' => wpc'[v] = "put"
             /\ Len(wire'[c]) <= 1 /\ (c \notin gone' => Len(wire'[c]) = 1)
  <2>1. ~Unserved(c) /\ wire'[c] = IF c \in gone THEN <<>> ELSE <<FirstReply(w)>>
    BY <1>2, <1>5, FirstWritten
  <2>2. ~Unserved(c)'
    BY <1>1, <2>1, UnservedBefore
  <2>3. \A v \in Workers : Serving(v, c)' => wpc'[v] = "put"
    BY <1>5, BlockBeginsInList
  <2>4. Len(<<>>) = 0 /\ Len(<<FirstReply(w)>>) = 1
    OBVIOUS
  <2> QED BY <2>1, <2>2, <2>3, <2>4, GoneStays
<1>6. ASSUME NEW t \in DnsThreads, Send(t), job[t].req = c
      PROVE  /\ ~Unserved(c)' /\ SecondSent(c)'
             /\ \A w \in Workers : Serving(w, c)' => wpc'[w] = "put"
  <2>1. blk[c] = "live" /\ dpc'[t] = "close" /\ job'[t] = job[t] /\ blk' = blk
    BY <1>2, <1>6, SecondWritten DEF Send, reqVars
  <2>2. SecondSent(c)'
    BY <1>6, <2>1 DEF SecondSent, Enders
  <2>3. ~Unserved(c)'
    BY <1>3, <2>1 DEF ServedOnce
  <2>4. ASSUME NEW w \in Workers, Serving(w, c)' PROVE wpc'[w] = "put"
    <3>1. wpc'[w] \in {"accept", "serv", "search", "reply", "put"}
      BY <1>1 DEF ServerInv, TypeOK, TcpTypeOK
    <3>2. wpc'[w] \notin {"serv", "search", "reply"}
      BY <1>3, <2>1, <2>4 DEF ServedOnce, Serving
    <3> QED BY <2>4, <3>1, <3>2 DEF Serving
  <2> QED BY <2>2, <2>3, <2>4
<1>7. CASE wire'[c] = wire[c]
  <2>1. CASE blk'[c] = "live" => blk[c] = "live"
    BY <1>2, <1>7, <2>1, SameStream
  <2>2. CASE blk'[c] = "live" /\ blk[c] # "live"
    BY <1>5, <2>2, BlockBegins
  <2> QED BY <2>1, <2>2
<1>8. CASE wire'[c] # wire[c]
  <2>1. ASSUME NEW w \in Workers, ReplyHit(w) \/ ReplyMiss(w) PROVE wreq[w] = c
    BY <1>2, <1>8, <2>1, FirstWritten
  <2>2. ASSUME NEW t \in DnsThreads, Send(t) PROVE job[t].req = c
    BY <1>2, <1>8, <2>2, SecondWritten
  <2> QED BY <1>4, <1>5, <1>6, <1>8, <2>1, <2>2, WireStep
<1> QED BY <1>7, <1>8

\* Once the block is allocated the first reply is out, and stays the first.
LEMMA FirstStays ==
  ASSUME RequestInv, FdOwned, StreamShape, ~astray, [Next]_vars,
         NEW c \in Conns, blk[c] = "live", Len(wire'[c]) > 0
  PROVE  Len(wire[c]) > 0 /\ wire'[c][1] = wire[c][1]
<1>1. CASE wire'[c] = wire[c]
  BY <1>1
<1>2. CASE wire'[c] # wire[c]
  <2>1. ASSUME NEW w \in Workers, ReplyHit(w) \/ ReplyMiss(w) PROVE FALSE
    BY <1>2, <2>1, FirstWritten
  <2>2. PICK t \in DnsThreads : Send(t)
    BY <1>2, <2>1, WireStep
  <2>3. PICK m : Len(wire[c]) = 1 /\ wire'[c] = Append(wire[c], m)
    BY <1>2, <2>2, SecondWritten, ZenonT(60)
  <2>4. wire[c] \in Seq(Replies)
    BY DEF RequestInv, ServerInv, TypeOK, SockTypeOK
  <2>5. wire'[c][1] = wire[c][1]
    BY <2>3, <2>4
  <2> QED BY <2>3, <2>5
<1> QED BY <1>1, <1>2

\* The positions that a first reply to a whole request reports as missing are
\* positions of the request.
LEMMA MissedBound ==
  ASSUME ServerInv, RepliesRight, ~astray, NEW c \in Conns, sent[c] = "full", Len(wire[c]) > 0
  PROVE  /\ wire[c][1].ips \in Seq(Ips) /\ Len(wire[c][1].ips) = Len(Request[c])
         /\ Cardinality(Missed(wire[c][1].ips)) \in 0 .. MAXNAMES
         /\ \A p \in Missed(wire[c][1].ips) : p - 1 \in Counts
<1>1. wire[c] \in Seq(Replies) /\ 1 \in DOMAIN wire[c]
  BY DEF ServerInv, TypeOK, SockTypeOK
<1>2. wire[c][1].serial = "first" /\ Len(wire[c][1].ips) = Len(Request[c])
  BY <1>1 DEF RepliesRight
<1>3. wire[c][1] \in FirstReplies
  BY <1>1, <1>2 DEF Replies, SecondReplies
<1>4. PICK ips \in Seq(Ips) : ips = wire[c][1].ips
  BY <1>3 DEF FirstReplies
<1>5. PICK n \in Nat : n = Len(ips) /\ n <= MAXNAMES
  BY <1>2, <1>4, RequestAssumption, MaxNamesAssumption
<1>6. Missed(ips) \subseteq 1 .. n
  BY <1>5, MissedFinite
<1>7. 1 \in Int /\ n \in Int /\ (IF 1 > n THEN 0 ELSE n - 1 + 1) = n
  BY <1>5
<1>8. IsFiniteSet(1 .. n) /\ Cardinality(1 .. n) = n
  BY <1>7, FS_Interval
<1>9. Missed(ips) \in SUBSET (1 .. n)
  BY <1>6
<1>10. IsFiniteSet(Missed(ips)) /\ Cardinality(Missed(ips)) <= n
  BY <1>8, <1>9, FS_Subset
<1>11. PICK m \in Nat : m = Cardinality(Missed(ips))
  BY <1>10, FS_CardinalityType
<1>12. m \in 0 .. MAXNAMES
  BY <1>5, <1>10, <1>11, MaxNamesAssumption
<1>13. \A p \in Missed(ips) : p - 1 \in Counts
  BY <1>5, <1>6, MaxNamesAssumption DEF Counts
<1> QED BY <1>2, <1>4, <1>11, <1>12, <1>13

\* When the block is allocated, the jobs fit because the worker's list does.
LEMMA JobsOfReplyBegin ==
  ASSUME RequestInv, ServerInv', FdOwned, StreamShape, WorkerRight, ~astray,
         NEW w \in Workers, ReplyMiss(w), NEW c \in Conns, wreq[w] = c, sent[c] = "full",
         Len(wire'[c]) > 0,
         NEW missed, missed = Missed(wire'[c][1].ips)
  PROVE  /\ \A p \in missed : \E k \in 0 .. Cardinality(missed) - 1 : Carries(c, k, p - 1)'
         /\ \A v \in Workers : Serving(v, c)' => Len(wmiss'[v]) = Cardinality(missed)
         /\ \A j \in RingJobs' : ~JobOf(j, c)
         /\ \A t \in DnsThreads : ~JobOf(job'[t], c)
<1>1. ServerInv
  BY DEF RequestInv
<1>2. PICK nodes \in Seq(Nodes), ips \in Seq(Ips) : nodes = wmiss[w] /\ ips = wips[w]
  BY <1>1 DEF ServerInv, TypeOK, TcpTypeOK
<1>3. /\ UNCHANGED <<wreq, wmiss, wput>> /\ wpc'[w] = "put" /\ wput[w] = 0
      /\ \A v \in Workers : Serving(v, c)' => v = w
      /\ \A j \in RingJobs' : ~JobOf(j, c)
      /\ \A t \in DnsThreads : ~JobOf(job'[t], c)
  BY BlockBeginsInList
<1>4. wire'[c] = <<FirstReply(w)>>
  <2>1. wire'[c] = IF c \in gone THEN <<>> ELSE <<FirstReply(w)>>
    BY FirstWritten
  <2>2. Len(<<>>) = 0
    OBVIOUS
  <2> QED BY <2>1, <2>2
<1>5. missed = Missed(ips)
  BY <1>2, <1>4 DEF FirstReply
<1>6. SearchedRight(Request[c], ips, nodes)
  BY <1>2 DEF WorkerRight, ReplyMiss
<1>7. Cardinality(missed) = Len(nodes)
  BY <1>5, <1>6 DEF SearchedRight
<1>8. ASSUME NEW p \in missed
      PROVE  \E k \in 0 .. Cardinality(missed) - 1 : Carries(c, k, p - 1)'
  <2>1. PICK i \in DOMAIN nodes : nodes[i].index + 1 = p
    BY <1>5, <1>6, <1>8 DEF SearchedRight
  <2>2. i \in Nat /\ i - 1 \in 0 .. Len(nodes) - 1 /\ (i - 1) + 1 = i
    BY <2>1
  <2>3. nodes[i].index \in Counts
    <3>1. nodes[i] \in Nodes
      BY <2>1
    <3> QED BY <3>1 DEF Nodes
  <2>4. nodes[i].index = p - 1
    BY <2>1, <2>3, MaxNamesAssumption DEF Counts
  <2>5. PICK k : k = i - 1
    OBVIOUS
  <2>6. InList(c, k, p - 1)'
    <3>1. k \in wput'[w] .. Len(wmiss'[w]) - 1 /\ wmiss'[w][k + 1].index = p - 1
      BY <1>2, <1>3, <2>2, <2>4, <2>5
    <3> QED BY <1>3, <3>1 DEF InList
  <2> QED BY <1>7, <2>2, <2>5, <2>6 DEF Carries
<1>9. \A v \in Workers : Serving(v, c)' => Len(wmiss'[v]) = Cardinality(missed)
  BY <1>2, <1>3, <1>7
<1> QED BY <1>3, <1>8, <1>9

\* Every step of the server.
LEMMA JobsOfReplyStep ==
  ASSUME RequestInv, FdOwned, WorkerRight, OneCarried, StreamShape, JobsOfReply, RepliesRight,
         [Next]_vars
  PROVE  JobsOfReply'
<1>1. ServerInv /\ ServedOnce /\ ServerInv'
  BY ServerInvStep DEF RequestInv
<1> SUFFICES ASSUME ~astray', NEW c \in Conns, blk'[c] = "live", sent'[c] = "full",
                    Len(wire'[c]) > 0,
                    NEW missed, missed = Missed(wire'[c][1].ips)
             PROVE  /\ \A p \in missed : \E k \in 0 .. Cardinality(missed) - 1 : Carries(c, k, p - 1)'
                    /\ \A w \in Workers : Serving(w, c)' => Len(wmiss'[w]) = Cardinality(missed)
                    /\ \A j \in RingJobs' : JobOf(j, c) => j.total = Cardinality(missed)
                    /\ \A t \in DnsThreads : JobOf(job'[t], c) => job'[t].total = Cardinality(missed)
  BY DEF JobsOfReply
<1>2. ~astray
  BY <1>1, AstrayStays
<1>3. CASE blk[c] # "live"
  <2>1. PICK w \in Workers : ReplyMiss(w) /\ wreq[w] = c
    BY <1>3, BlockBegins
  <2>2. sent[c] = "full"
    BY <2>1 DEF ReplyMiss
  <2> QED BY <1>1, <1>2, <2>1, <2>2, JobsOfReplyBegin
<1>4. CASE blk[c] = "live"
  <2>1. Len(wire[c]) > 0 /\ wire'[c][1] = wire[c][1]
    BY <1>2, <1>4, FirstStays
  <2>2. ~Unserved(c) /\ sent[c] = "full"
    BY <1>1, <1>4, SentStays DEF ServedOnce, Unserved
  <2>3. /\ \A p \in missed : \E k \in 0 .. Cardinality(missed) - 1 : Carries(c, k, p - 1)
        /\ \A w \in Workers : Serving(w, c) => Len(wmiss[w]) = Cardinality(missed)
        /\ \A j \in RingJobs : JobOf(j, c) => j.total = Cardinality(missed)
        /\ \A t \in DnsThreads : JobOf(job[t], c) => job[t].total = Cardinality(missed)
    BY <1>2, <1>4, <2>1, <2>2 DEF JobsOfReply
  <2>4. ASSUME NEW w \in Workers, Serving(w, c)' PROVE Len(wmiss'[w]) = Cardinality(missed)
    <3>1. Serving(w, c) /\ (wpc[w] = "put" => wmiss'[w] = wmiss[w])
      BY <1>1, <2>2, <2>4, ServingBefore
    <3>2. wpc[w] = "put"
      <4>1. wpc[w] \in {"accept", "serv", "search", "reply", "put"}
        BY <1>1 DEF ServerInv, TypeOK, TcpTypeOK
      <4> QED BY <1>1, <1>4, <3>1, <4>1 DEF ServedOnce, Serving
    <3> QED BY <2>3, <3>1, <3>2
  <2>5. ASSUME NEW j \in RingJobs', JobOf(j, c) PROVE j.total = Cardinality(missed)
    <3>1. CASE j \in RingJobs
      BY <2>3, <2>5, <3>1
    <3>2. ASSUME NEW w \in Workers, PutJob(w), j = MissJob(w) PROVE j.total = Cardinality(missed)
      <4>1. j.total = Len(wmiss[w]) /\ Serving(w, c)
        BY <2>5, <3>2 DEF MissJob, Total, JobOf, PutJob, Serving
      <4> QED BY <2>3, <4>1
    <3> QED BY <2>5, <3>1, <3>2, RingFlow DEF JobOf
  <2>6. ASSUME NEW t \in DnsThreads, JobOf(job'[t], c) PROVE job'[t].total = Cardinality(missed)
    BY <2>3, <2>6, ThreadFlow DEF JobOf
  <2>7. ASSUME NEW p \in missed PROVE \E k \in 0 .. Cardinality(missed) - 1 : Carries(c, k, p - 1)'
    <3>1. PICK k \in 0 .. Cardinality(missed) - 1 : Carries(c, k, p - 1)
      BY <2>3, <2>7
    <3>2. Cardinality(missed) \in 0 .. MAXNAMES /\ p - 1 \in Counts
      BY <1>1, <1>2, <2>1, <2>2, <2>7, MissedBound
    <3>3. PICK m \in 0 .. MAXNAMES : m = Cardinality(missed)
      BY <3>2
    <3>4. k \in Counts
      BY <3>1, <3>3, MaxNamesAssumption DEF Counts
    <3>5. Carries(c, k, p - 1)'
      BY <1>4, <3>1, <3>2, <3>4, CarriesStays
    <3> QED BY <3>5
  <2> QED BY <2>4, <2>5, <2>6, <2>7
<1> QED BY <1>3, <1>4

(***************************************************************************)
(* The replies                                                             *)
(***************************************************************************)

\* What RepliesRight says of the stream s to client c, who has sent a whole request
\* if full.
RightStream(c, full, s) ==
  LET q == Request[c] IN
    /\ Len(s) <= 2
    /\ \A i \in DOMAIN s : s[i].of = c /\ s[i].serial = IF i = 1 THEN "first" ELSE "second"
    /\ full /\ Len(s) > 0 =>
         /\ Len(s[1].ips) = Len(q)
         /\ \A p \in DOMAIN q : s[1].ips[p] \in {q[p], DNS_ERROR, CACHE_MISS}
         /\ s[1].error <=> \E p \in DOMAIN q : s[1].ips[p] = CACHE_MISS
    /\ full /\ Len(s) = 2 =>
         LET missed == {p \in DOMAIN q : s[1].ips[p] = CACHE_MISS}
             a == s[2].answers
         IN  /\ s[2].total = Cardinality(missed)
             /\ \A p \in missed : \E k \in 0 .. s[2].total - 1 :
                  /\ a[k] # NoAnswer
                  /\ a[k].index = p - 1
                  /\ a[k].ip \in {q[p], DNS_ERROR}

\* RepliesRight is about each connection on its own.
LEMMA RightStreams ==
  RepliesRight <=> (~astray => \A c \in Conns : RightStream(c, sent[c] = "full", wire[c]))
BY DEF RepliesRight, RightStream

\* A client that has received nothing.
LEMMA EmptyRight ==
  ASSUME NEW c \in Conns, NEW full
  PROVE  RightStream(c, full, <<>>)
<1>1. Len(<<>>) = 0 /\ DOMAIN <<>> = {}
  OBVIOUS
<1> QED BY <1>1 DEF RightStream

\* The first reply of a worker.
LEMMA FirstRight ==
  ASSUME ServerInv, WorkerRight, NEW w \in Workers, wpc[w] = "reply", NEW c \in Conns, wreq[w] = c
  PROVE  RightStream(c, sent[c] = "full", <<FirstReply(w)>>)
<1>1. PICK m : m = FirstReply(w)
  OBVIOUS
<1>2. m.of = c /\ m.serial = "first" /\ m.ips = wips[w] /\ m.error = (wmiss[w] # <<>>)
  BY <1>1 DEF FirstReply
<1>3. PICK s : s = <<m>>
  OBVIOUS
<1>4. Len(s) = 1 /\ DOMAIN s = {1} /\ s[1] = m
  BY <1>3
<1>5. ASSUME sent[c] = "full"
      PROVE  /\ Len(m.ips) = Len(Request[c])
             /\ \A p \in DOMAIN Request[c] : m.ips[p] \in {Request[c][p], DNS_ERROR, CACHE_MISS}
             /\ m.error <=> \E p \in DOMAIN Request[c] : m.ips[p] = CACHE_MISS
  <2>1. Len(wips[w]) = Len(Request[c]) /\ SearchedRight(Request[c], wips[w], wmiss[w])
    BY <1>5 DEF WorkerRight
  <2>2. wips[w] \in Seq(Ips) /\ Request[c] \in Seq(Names)
    BY RequestAssumption DEF ServerInv, TypeOK, TcpTypeOK
  <2>3. DOMAIN wips[w] = DOMAIN Request[c]
    BY <2>1, <2>2
  <2>4. wmiss[w] # <<>> <=> Missed(wips[w]) # {}
    <3>1. wmiss[w] \in Seq(Nodes) /\ (wmiss[w] = <<>> <=> Len(wmiss[w]) = 0)
      BY DEF ServerInv, TypeOK, TcpTypeOK
    <3>2. IsFiniteSet(Missed(wips[w])) /\ Cardinality(Missed(wips[w])) = Len(wmiss[w])
      BY <2>1, <2>2, MissedFinite DEF SearchedRight
    <3>3. Cardinality(Missed(wips[w])) = 0 <=> Missed(wips[w]) = {}
      BY <3>2, FS_EmptySet
    <3> QED BY <3>1, <3>2, <3>3
  <2>5. m.error <=> \E p \in DOMAIN Request[c] : m.ips[p] = CACHE_MISS
    BY <1>2, <2>3, <2>4 DEF Missed
  <2> QED BY <1>2, <2>1, <2>3, <2>5 DEF SearchedRight
<1>6. RightStream(c, sent[c] = "full", s)
  BY <1>2, <1>4, <1>5 DEF RightStream
<1> QED BY <1>1, <1>3, <1>6

\* Each name that missed has its answer in the block when the last thread sends it.
LEMMA BlockComplete ==
  ASSUME RequestInv, OneCarried, JobsRight, StreamShape, JobsOfReply, RepliesRight, ~astray,
         NEW t \in DnsThreads, NEW c \in Conns, JobOf(job[t], c), blk[c] = "live",
         Outstanding(c) = 0, sent[c] = "full", Len(wire[c]) > 0,
         NEW missed, missed = Missed(wire[c][1].ips)
  PROVE  /\ job[t].total = Cardinality(missed)
         /\ \A p \in missed : \E k \in 0 .. Cardinality(missed) - 1 :
              /\ ipptr[c][k] # NoAnswer
              /\ ipptr[c][k].index = p - 1
              /\ ipptr[c][k].ip \in {Request[c][p], DNS_ERROR}
<1>1. ServerInv
  BY DEF RequestInv
<1>2. /\ job[t].total = Cardinality(missed)
      /\ \A p \in missed : \E k \in 0 .. Cardinality(missed) - 1 : Carries(c, k, p - 1)
  BY DEF JobsOfReply
<1>3. ASSUME NEW p \in missed
      PROVE  \E k \in 0 .. Cardinality(missed) - 1 :
               /\ ipptr[c][k] # NoAnswer
               /\ ipptr[c][k].index = p - 1
               /\ ipptr[c][k].ip \in {Request[c][p], DNS_ERROR}
  <2>1. PICK k \in 0 .. Cardinality(missed) - 1 : Carries(c, k, p - 1)
    BY <1>2, <1>3
  <2>2. Cardinality(missed) \in 0 .. MAXNAMES /\ p - 1 \in Counts
    BY <1>1, <1>3, MissedBound
  <2>3. PICK m \in 0 .. MAXNAMES : m = Cardinality(missed)
    BY <2>2
  <2>4. k \in Counts
    BY <2>1, <2>3, MaxNamesAssumption DEF Counts
  <2>5. ~InList(c, k, p - 1)
    BY JobOutstanding DEF InList, Serving
  <2>6. ~InQueue(c, k, p - 1) /\ ~InHand(c, k, p - 1)
    BY JobOutstanding DEF InQueue, InHand
  <2>7. ipptr[c][k] # NoAnswer /\ ipptr[c][k].index = p - 1
    BY <2>1, <2>5, <2>6 DEF Carries, InBlock
  <2>8. p \in Nat /\ (p - 1) + 1 = p
    <3>1. p \in DOMAIN wire[c][1].ips
      BY <1>3 DEF Missed
    <3>2. wire[c][1].ips \in Seq(Ips)
      BY <1>1, MissedBound
    <3>3. PICK ips \in Seq(Ips) : ips = wire[c][1].ips
      BY <3>2
    <3>4. p \in DOMAIN ips
      BY <3>1, <3>3
    <3> QED BY <3>4
  <2>9. ipptr[c][k].ip \in {Request[c][ipptr[c][k].index + 1], DNS_ERROR}
    BY <2>4, <2>7 DEF JobsRight
  <2> QED BY <2>1, <2>7, <2>8, <2>9
<1> QED BY <1>2, <1>3

\* The second reply after the first.
LEMMA SecondRight ==
  ASSUME RequestInv, OneCarried, JobsRight, StreamShape, JobsOfReply, RepliesRight, ~astray,
         NEW t \in DnsThreads, NEW c \in Conns, JobOf(job[t], c), blk[c] = "live",
         Outstanding(c) = 0, Len(wire[c]) = 1
  PROVE  RightStream(c, sent[c] = "full",
                     Append(wire[c], SecondReply(c, job[t].total, miss[c])))
<1>1. ServerInv /\ wire[c] \in Seq(Replies)
  BY DEF RequestInv, ServerInv, TypeOK, SockTypeOK
<1>2. PICK m : m = SecondReply(c, job[t].total, miss[c])
  OBVIOUS
<1>3. m.of = c /\ m.serial = "second" /\ m.total = job[t].total /\ m.answers = ipptr[c]
  BY <1>2 DEF SecondReply
<1>4. PICK s : s = Append(wire[c], m)
  OBVIOUS
<1>5. Len(s) = 2 /\ DOMAIN s = {1, 2} /\ s[1] = wire[c][1] /\ s[2] = m
  BY <1>1, <1>4, SMTT(60)
<1>6. RightStream(c, sent[c] = "full", wire[c])
  BY RightStreams
<1>7. s[1].of = c /\ s[1].serial = "first"
  BY <1>1, <1>5, <1>6 DEF RightStream
<1>8. ASSUME sent[c] = "full"
      PROVE  /\ Len(s[1].ips) = Len(Request[c])
             /\ \A p \in DOMAIN Request[c] : s[1].ips[p] \in {Request[c][p], DNS_ERROR, CACHE_MISS}
             /\ s[1].error <=> \E p \in DOMAIN Request[c] : s[1].ips[p] = CACHE_MISS
  BY <1>5, <1>6, <1>8 DEF RightStream
<1>9. ASSUME sent[c] = "full",
             NEW missed, missed = {p \in DOMAIN Request[c] : s[1].ips[p] = CACHE_MISS}
      PROVE  /\ m.total = Cardinality(missed)
             /\ \A p \in missed : \E k \in 0 .. m.total - 1 :
                  /\ m.answers[k] # NoAnswer
                  /\ m.answers[k].index = p - 1
                  /\ m.answers[k].ip \in {Request[c][p], DNS_ERROR}
  <2>1. PICK ips \in Seq(Ips) : ips = wire[c][1].ips /\ Len(ips) = Len(Request[c])
    BY <1>1, <1>9, MissedBound
  <2>2. DOMAIN ips = DOMAIN Request[c]
    BY <2>1, RequestAssumption
  <2>3. missed = Missed(wire[c][1].ips)
    BY <1>5, <1>9, <2>1, <2>2 DEF Missed
  <2>4. Len(wire[c]) > 0
    OBVIOUS
  <2>5. /\ job[t].total = Cardinality(missed)
        /\ \A p \in missed : \E k \in 0 .. Cardinality(missed) - 1 :
             /\ ipptr[c][k] # NoAnswer
             /\ ipptr[c][k].index = p - 1
             /\ ipptr[c][k].ip \in {Request[c][p], DNS_ERROR}
    BY <1>9, <2>3, <2>4, BlockComplete
  <2> QED BY <1>3, <2>5
<1>10. RightStream(c, sent[c] = "full", s)
  <2>1. /\ Len(s) <= 2
        /\ \A i \in DOMAIN s : s[i].of = c /\ s[i].serial = IF i = 1 THEN "first" ELSE "second"
    BY <1>3, <1>5, <1>7
  <2>2. PICK missed : missed = {p \in DOMAIN Request[c] : s[1].ips[p] = CACHE_MISS}
    OBVIOUS
  <2>3. sent[c] = "full" =>
          /\ s[2].total = Cardinality(missed)
          /\ \A p \in missed : \E k \in 0 .. s[2].total - 1 :
               /\ s[2].answers[k] # NoAnswer
               /\ s[2].answers[k].index = p - 1
               /\ s[2].answers[k].ip \in {Request[c][p], DNS_ERROR}
    BY <1>5, <1>9, <2>2
  <2> QED BY <1>8, <2>1, <2>2, <2>3 DEF RightStream
<1> QED BY <1>2, <1>4, <1>10

\* Every step of the server leaves the streams right.
LEMMA RepliesRightStep ==
  ASSUME RequestInv, FdOwned, WorkerRight, OneCarried, JobsRight, StreamShape, JobsOfReply,
         RepliesRight, [Next]_vars
  PROVE  RepliesRight'
<1>1. ServerInv
  BY DEF RequestInv
<1>2. CASE astray'
  BY <1>2 DEF RepliesRight
<1>3. CASE ~astray'
  <2>1. ~astray
    BY <1>1, <1>3, AstrayStays
  <2>2. \A c \in Conns : RightStream(c, sent[c] = "full", wire[c])
    BY <2>1, RightStreams
  <2>3. ASSUME NEW c \in Conns PROVE RightStream(c, sent'[c] = "full", wire'[c])
    <3>1. CASE wire'[c] = wire[c]
      <4>1. CASE wire[c] = <<>>
        BY <3>1, <4>1, EmptyRight
      <4>2. CASE wire[c] # <<>>
        <5>1. sent[c] # "none"
          BY <2>1, <4>2 DEF StreamShape, Unserved
        <5>2. sent'[c] = sent[c]
          BY <1>1, <5>1, SentStays
        <5> QED BY <2>2, <3>1, <5>2
      <4> QED BY <4>1, <4>2
    <3>2. CASE wire'[c] # wire[c]
      <4>1. ASSUME NEW w \in Workers, ReplyHit(w) \/ ReplyMiss(w)
            PROVE  RightStream(c, sent'[c] = "full", wire'[c])
        <5>1. wreq[w] = c /\ wire'[c] = <<FirstReply(w)>>
          BY <2>1, <3>2, <4>1, FirstWritten
        <5>2. wpc[w] = "reply" /\ sent' = sent
          BY <4>1 DEF ReplyHit, ReplyMiss
        <5>3. RightStream(c, sent[c] = "full", <<FirstReply(w)>>)
          BY <1>1, <5>1, <5>2, FirstRight
        <5> QED BY <5>1, <5>2, <5>3
      <4>2. ASSUME NEW t \in DnsThreads, Send(t)
            PROVE  RightStream(c, sent'[c] = "full", wire'[c])
        <5>1. /\ JobOf(job[t], c) /\ blk[c] = "live" /\ Outstanding(c) = 0 /\ Len(wire[c]) = 1
              /\ wire'[c] = Append(wire[c], SecondReply(c, job[t].total, miss[c]))
          BY <2>1, <3>2, <4>2, SecondWritten
        <5>2. sent' = sent
          BY <4>2 DEF Send
        <5>3. RightStream(c, sent[c] = "full",
                          Append(wire[c], SecondReply(c, job[t].total, miss[c])))
          BY <2>1, <5>1, SecondRight
        <5> QED BY <5>1, <5>2, <5>3
      <4> QED BY <3>2, <4>1, <4>2, WireStep
    <3> QED BY <3>1, <3>2
  <2>4. RepliesRight'
        <=> (~astray' => \A c \in Conns : RightStream(c, sent'[c] = "full", wire'[c]))
    BY DEF RepliesRight, RightStream
  <2> QED BY <2>3, <2>4
<1> QED BY <1>2, <1>3

AnswerInv == /\ RequestInv /\ FdOwned
             /\ CacheOwn /\ WorkerRight
             /\ OneCarried /\ JobsRight
             /\ StreamShape /\ JobsOfReply /\ RepliesRight

\* At the start nobody has asked for anything.
LEMMA AnswerInvInit == Init => AnswerInv
<1> SUFFICES ASSUME Init PROVE AnswerInv
  OBVIOUS
<1>1. RingJobs = {}
  BY SizeAssumption DEF Init, RingInit, RingJobs, Queued
<1>2. \A c \in Conns : blk[c] = "none" /\ wire[c] = <<>>
  BY DEF Init, SockInit, DnsThreadInit
<1>3. WorkerRight
  BY DEF Init, TcpInit, WorkerRight
<1>4. OneCarried /\ JobsOfReply
  BY <1>2 DEF OneCarried, JobsOfReply
<1>5. \A t \in DnsThreads : job[t] = NoJob
  BY DEF Init, RingInit
<1>6. JobsRight
  BY <1>1, <1>2, <1>5 DEF JobsRight, IsTcp
<1>7. StreamShape
  BY <1>2 DEF StreamShape
<1>8. RepliesRight
  BY <1>2, EmptyRight, RightStreams
<1> QED BY <1>3, <1>4, <1>6, <1>7, <1>8, RequestInvInit, FdOwnedInit, CacheOwnInit DEF AnswerInv

\* If names can be told apart, every step keeps all of it.
LEMMA AnswerInvStep ==
  ASSUME NamesToldApart, AnswerInv, [Next]_vars
  PROVE  AnswerInv'
<1> USE DEF AnswerInv
<1>1. ServerInv /\ ServedOnce
  BY DEF RequestInv
<1>2. RequestInv' /\ FdOwned'
  BY RequestInvStep, FdOwnedStep
<1>3. CacheOwn' /\ WorkerRight'
  BY <1>1, CacheOwnStep, WorkerRightStep
<1>4. OneCarried' /\ JobsRight'
  BY OneCarriedStep, JobsRightStep
<1>5. StreamShape' /\ JobsOfReply' /\ RepliesRight'
  BY StreamShapeStep, JobsOfReplyStep, RepliesRightStep
<1> QED BY <1>2, <1>3, <1>4, <1>5

\* If names that share a slot of the hash table differ in their first characters,
\* then until a thread goes astray every client that sent a whole request receives
\* only replies to it, the first reply first and at most one second reply; each
\* name is answered by its own address, DNS_ERROR or CACHE_MISS in the first, and
\* each name that missed is answered in the second, whatever the interleaving of
\* workers, DNS threads and other clients.
THEOREM AnswersRight == ASSUME NamesToldApart PROVE Spec => []RepliesRight
<1>1. Init => AnswerInv
  BY AnswerInvInit
<1>2. AnswerInv /\ [Next]_vars => AnswerInv'
  BY AnswerInvStep
<1>3. AnswerInv => RepliesRight
  BY DEF AnswerInv
<1> QED BY <1>1, <1>2, <1>3, PTL DEF Spec
=============================================================================
