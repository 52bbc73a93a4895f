----------------------------- MODULE ReadyQueue -----------------------------
(***************************************************************************)
(* The two Redis structures of backend/internal/queue: the ready list and  *)
(* the lease keys.  One action is one Redis command, which Redis runs      *)
(* atomically.  The module has no specification of its own: Orchestrator   *)
(* says who issues the commands, and when.                                 *)
(***************************************************************************)
EXTENDS Naturals, Sequences, FiniteSets

CONSTANTS Job,          \* job identifiers
          Worker,       \* worker identifiers
          NoWorker      \* the value of a lease nobody holds

VARIABLES ready,        \* the list: pushed at the head, popped at the tail
          lease         \* lease[j]: the worker named in the key of job j

-----------------------------------------------------------------------------
QueueInit ==
    /\ ready = << >>
    /\ lease = [j \in Job |-> NoWorker]

InReady(j) == \E i \in DOMAIN ready : ready[i] = j

\* LPUSH: the list may hold a job more than once.
EnqueueJob(j) ==
    /\ ready' = <<j>> \o ready
    /\ UNCHANGED lease

\* The positions in a list of the entries of other jobs, the place of one of them
\* once the entries of j have gone, and the list that is left, in its order.
Others(list, j) == {i \in DOMAIN list : list[i] # j}
Place(others, i) == Cardinality({m \in others : m <= i})
Without(list, j) ==
    LET others == Others(list, j)
    IN  [k \in 1..Cardinality(others) |-> list[CHOOSE i \in others : Place(others, i) = k]]

\* LREM with a count of 0: every entry of the job goes.
RemoveQueuedJob(j) ==
    /\ ready' = Without(ready, j)
    /\ UNCHANGED lease

\* BRPOP.  Its timeout on an empty list brings the worker back to the loop.
DequeueJob(j) ==
    /\ ready # << >>
    /\ j = ready[Len(ready)]
    /\ ready' = SubSeq(ready, 1, Len(ready) - 1)
    /\ UNCHANGED lease

\* SET NX with a time to live; the guard is the "acquired" answer.
AcquireLease(j, w) ==
    /\ lease[j] = NoWorker
    /\ lease' = [lease EXCEPT ![j] = w]
    /\ UNCHANGED ready

\* DEL, whoever holds the lease.
ReleaseLease(j) ==
    /\ lease' = [lease EXCEPT ![j] = NoWorker]
    /\ UNCHANGED ready

\* The time to live of the key runs out.
LeaseExpires(j) ==
    /\ lease[j] # NoWorker
    /\ ReleaseLease(j)
-----------------------------------------------------------------------------
QueueTypeOK ==
    /\ ready \in Seq(Job)
    /\ lease \in [Job -> Worker \cup {NoWorker}]
=============================================================================
