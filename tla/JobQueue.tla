------------------------------ MODULE JobQueue ------------------------------
(***************************************************************************)
(* What the DNS work queue promises, independently of the ring that holds  *)
(* it: a first-in first-out queue shared by any number of producers (the   *)
(* TCP worker threads and the UDP server) and consumers (the DNS threads). *)
(* Every job put is taken by exactly one thread, in the order of the puts. *)
(* The put that brings the queue to Capacity entries ends the process.     *)
(***************************************************************************)
EXTENDS Naturals, Sequences

CONSTANTS Capacity,  \* number of entries the queue may never reach
          Threads,   \* the consumers
          Jobs,      \* the jobs
          NoJob      \* what a thread holds between two jobs

VARIABLES queue,     \* jobs put and not yet taken, oldest first
          taken,     \* taken[t]: the job thread t works on, or NoJob
          state      \* "run", or why the process has ended

qvars == <<queue, taken, state>>

QInit == queue = <<>> /\ taken = [t \in Threads |-> NoJob] /\ state = "run"

QPut(j) == /\ state = "run"
           /\ queue' = Append(queue, j)
           /\ state' = IF Len(queue) + 1 = Capacity THEN "full" ELSE "run"
           /\ UNCHANGED taken

QTake(t) == /\ state = "run"
            /\ taken[t] = NoJob
            /\ queue # <<>>
            /\ queue' = Tail(queue)
            /\ taken' = [taken EXCEPT ![t] = Head(queue)]
            /\ UNCHANGED state

QDone(t) == /\ state = "run"
            /\ taken' = [taken EXCEPT ![t] = NoJob]
            /\ UNCHANGED <<queue, state>>

QHalt == state = "run" /\ state' = "halt" /\ UNCHANGED <<queue, taken>>

QNext == \/ \E j \in Jobs : QPut(j)
         \/ \E t \in Threads : QTake(t) \/ QDone(t)
         \/ QHalt

QSpec == QInit /\ [][QNext]_qvars
=============================================================================
