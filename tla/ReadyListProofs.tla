--------------------------- MODULE ReadyListProofs ---------------------------
(***************************************************************************)
(* What the ready list has to do with the tables: the type of the list,    *)
(* that what it holds exists, which queued jobs a worker or a request is   *)
(* still to bring to a claim, and how often a job is claimed.              *)
(***************************************************************************)
EXTENDS OrchestratorProofs, FiniteSetTheorems, SequenceTheorems

Entries(list) == {list[i] : i \in DOMAIN list}
Distinct(list) == \A i, k \in DOMAIN list : list[i] = list[k] => i = k

(***************************************************************************)
(* The list without a job.  Place numbers the entries that stay from 1 to  *)
(* their number without a gap: it is injective, since of two positions the *)
(* later has one more before it, and between finite sets of one size an    *)
(* injection misses nothing.                                               *)
(***************************************************************************)
\* The positions that stay are finitely many, and each has a place among them.
LEMMA PlaceType ==
    ASSUME NEW n \in Nat, NEW others \in SUBSET (1..n)
    PROVE  /\ IsFiniteSet(others)
           /\ Cardinality(others) \in Nat
           /\ \A i \in others : Place(others, i) \in 1..Cardinality(others)
<1>1. IsFiniteSet(others)
  <2>1. IsFiniteSet(1..n)
    BY FS_Interval
  <2> QED  BY <2>1, FS_Subset
<1>2. Cardinality(others) \in Nat
  BY <1>1, FS_CardinalityType
<1>3. ASSUME NEW i \in others
      PROVE  Place(others, i) \in 1..Cardinality(others)
  <2> DEFINE upTo == {m \in others : m <= i}
  <2>1. IsFiniteSet(upTo) /\ Cardinality(upTo) <= Cardinality(others)
    BY <1>1, FS_Subset
  <2>2. Cardinality(upTo) \in Nat /\ (Cardinality(upTo) = 0 <=> upTo = {})
    BY <2>1, FS_CardinalityType, FS_EmptySet
  <2>3. i \in upTo
    BY <1>3
  <2> QED  BY <1>2, <2>1, <2>2, <2>3 DEF Place
<1> QED  BY <1>1, <1>2, <1>3

\* A later position has a higher place.
LEMMA PlaceGrows ==
    ASSUME NEW n \in Nat, NEW others \in SUBSET (1..n), NEW i \in others, NEW k \in others, i < k
    PROVE  Place(others, i) < Place(others, k)
<1> DEFINE upTo(x) == {m \in others : m <= x}
<1>1. IsFiniteSet(upTo(k)) /\ IsFiniteSet(upTo(i))
  BY PlaceType, FS_Subset
<1>2. upTo(i) \in SUBSET upTo(k) /\ k \in upTo(k) /\ k \notin upTo(i)
  <2>1. \A m \in others : m \in Int
    OBVIOUS
  <2>2. ~(k <= i) /\ k <= k /\ \A m \in others : m <= i => m <= k
    BY <2>1
  <2> QED  BY <2>2
<1>3. Cardinality(upTo(i)) <= Cardinality(upTo(k)) /\ Cardinality(upTo(i)) # Cardinality(upTo(k))
  BY <1>1, <1>2, FS_Subset
<1>4. Cardinality(upTo(i)) \in Nat /\ Cardinality(upTo(k)) \in Nat
  BY <1>1, FS_CardinalityType
<1> QED  BY <1>3, <1>4 DEF Place

\* Every place is taken, by one position.
LEMMA PlaceTaken ==
    ASSUME NEW n \in Nat, NEW others \in SUBSET (1..n), NEW k \in 1..Cardinality(others)
    PROVE  \E i \in others : /\ Place(others, i) = k
                             /\ \A m \in others : Place(others, m) = k => m = i
<1> DEFINE size == Cardinality(others)
           place == [i \in others |-> Place(others, i)]
<1>1. size \in Nat /\ IsFiniteSet(others)
  BY PlaceType
<1>2. \A i, m \in others : Place(others, i) = Place(others, m) => i = m
  <2> SUFFICES ASSUME NEW i \in others, NEW m \in others, i # m
               PROVE  Place(others, i) # Place(others, m)
    OBVIOUS
  <2>1. Place(others, i) \in Nat /\ Place(others, m) \in Nat
    <3>1. \A x \in others : Place(others, x) \in 1..size
      BY PlaceType
    <3> QED  BY <1>1, <3>1
  <2>2. ASSUME NEW x \in others, NEW y \in others, x < y
        PROVE  Place(others, x) < Place(others, y)
    BY <2>2, PlaceGrows
  <2>3. i < m \/ m < i
    OBVIOUS
  <2> QED  BY <2>1, <2>2, <2>3
<1>3. place \in Injection(others, 1..size)
  BY <1>2, PlaceType DEF Injection, IsInjective
<1>4. IsFiniteSet(1..size) /\ Cardinality(1..size) = size
  BY <1>1, FS_Interval
<1>5. place \in Surjection(others, 1..size)
  BY <1>3, <1>4, FS_Injection
<1> QED  BY <1>2, <1>5 DEF Surjection

\* What is left of a list: the entries of the other jobs, none of them twice if none
\* was there twice before.
LEMMA WithoutEntries ==
    ASSUME NEW list \in Seq(Job), NEW j
    PROVE  /\ Without(list, j) \in Seq(Job)
           /\ Entries(Without(list, j)) = Entries(list) \ {j}
           /\ Distinct(list) => Distinct(Without(list, j))
<1> DEFINE others == Others(list, j)
           size == Cardinality(others)
           at(k) == CHOOSE i \in others : Place(others, i) = k
           left == [k \in 1..size |-> list[at(k)]]
<1>1. Len(list) \in Nat /\ others \in SUBSET (1..Len(list)) /\ DOMAIN list = 1..Len(list)
  BY LenProperties DEF Others
<1>2. size \in Nat
  BY <1>1, PlaceType
<1>3. \A k \in 1..size : at(k) \in others /\ Place(others, at(k)) = k
  BY <1>1, PlaceTaken
<1>4. \A i \in others : Place(others, i) \in 1..size /\ at(Place(others, i)) = i
  <2> SUFFICES ASSUME NEW i \in others
               PROVE  Place(others, i) \in 1..size /\ at(Place(others, i)) = i
    OBVIOUS
  <2>1. Place(others, i) \in 1..size
    BY <1>1, PlaceType
  <2> QED  BY <1>1, <1>3, <2>1, PlaceTaken
<1>5. left = Without(list, j)
  BY DEF Without
<1>6. \A i \in others : i \in 1..Len(list) /\ list[i] \in Job /\ list[i] # j
  BY <1>1, ElementOfSeq DEF Others
<1> HIDE DEF others, size, at
<1>7. left \in [1..size -> Job]
  BY <1>3, <1>6
<1>8. left \in Seq(Job) /\ DOMAIN left = 1..size
  BY <1>2, <1>7, SeqDef
<1>9. \A k \in DOMAIN left : left[k] \in Entries(list) \ {j}
  BY <1>1, <1>3, <1>6, <1>8 DEF Entries
<1>10. ASSUME NEW i \in DOMAIN list, list[i] # j
       PROVE  list[i] \in Entries(left)
  <2>1. i \in others
    BY <1>10 DEF others, Others
  <2>2. Place(others, i) \in DOMAIN left /\ left[Place(others, i)] = list[i]
    BY <1>4, <1>8, <2>1
  <2> QED  BY <2>2 DEF Entries
<1>11. ASSUME Distinct(list), NEW k \in DOMAIN left, NEW l \in DOMAIN left, left[k] = left[l]
       PROVE  k = l
  <2>1. at(k) \in DOMAIN list /\ at(l) \in DOMAIN list /\ list[at(k)] = list[at(l)]
    BY <1>1, <1>3, <1>6, <1>8, <1>11
  <2>2. at(k) = at(l)
    BY <1>11, <2>1 DEF Distinct
  <2> QED  BY <1>3, <1>8, <2>2
<1> HIDE DEF left
<1>12. Entries(left) = Entries(list) \ {j}
  BY <1>9, <1>10 DEF Entries
<1> QED  BY <1>5, <1>8, <1>11, <1>12 DEF Distinct

\* A push adds the job.
LEMMA PushEntries ==
    ASSUME NEW list \in Seq(Job), NEW j \in Job
    PROVE  /\ <<j>> \o list \in Seq(Job)
           /\ Entries(<<j>> \o list) = Entries(list) \cup {j}
           /\ Distinct(list) /\ j \notin Entries(list) => Distinct(<<j>> \o list)
<1> DEFINE longer == <<j>> \o list
<1>1. <<j>> \in Seq(Job) /\ Len(<<j>>) = 1 /\ <<j>>[1] = j
  OBVIOUS
<1>2. Len(list) \in Nat /\ DOMAIN list = 1..Len(list)
  BY LenProperties
<1>3. longer \in Seq(Job) /\ Len(longer) = Len(list) + 1
  BY <1>1, <1>2, ConcatProperties
<1>4. DOMAIN longer = 1..(Len(list) + 1)
  BY <1>3, LenProperties
<1>5. \A i \in DOMAIN longer : longer[i] = IF i = 1 THEN j ELSE list[i - 1]
  <2>1. \A i \in 1..(1 + Len(list)) : longer[i] = IF i <= 1 THEN <<j>>[i] ELSE list[i - 1]
    BY <1>1, ConcatProperties
  <2> QED  BY <1>1, <1>2, <1>4, <2>1
<1> HIDE DEF longer
<1>6. \A i \in DOMAIN longer : i # 1 => i - 1 \in DOMAIN list
  BY <1>2, <1>4
<1>7. \A i \in DOMAIN list : i + 1 \in DOMAIN longer /\ longer[i + 1] = list[i]
  BY <1>2, <1>4, <1>5
<1>8. 1 \in DOMAIN longer /\ longer[1] = j
  BY <1>2, <1>4, <1>5
<1>9. Entries(longer) = Entries(list) \cup {j}
  <2>1. \A i \in DOMAIN longer : longer[i] \in Entries(list) \cup {j}
    BY <1>5, <1>6 DEF Entries
  <2>2. \A i \in DOMAIN list : list[i] \in Entries(longer)
    BY <1>7 DEF Entries
  <2>3. j \in Entries(longer)
    BY <1>8 DEF Entries
  <2> QED  BY <2>1, <2>2, <2>3 DEF Entries
<1>10. ASSUME Distinct(list), j \notin Entries(list)
       PROVE  Distinct(longer)
  <2> SUFFICES ASSUME NEW i \in DOMAIN longer, NEW k \in DOMAIN longer, longer[i] = longer[k]
               PROVE  i = k
    BY DEF Distinct
  <2>1. \A m \in DOMAIN longer : longer[m] = j => m = 1
    BY <1>5, <1>6, <1>10 DEF Entries
  <2>2. CASE i # 1 /\ k # 1
    <3>1. i - 1 \in DOMAIN list /\ k - 1 \in DOMAIN list /\ list[i - 1] = list[k - 1]
      BY <1>5, <1>6, <2>2
    <3>2. i - 1 = k - 1
      BY <1>10, <3>1 DEF Distinct
    <3> QED  BY <1>2, <1>4, <3>2
  <2> QED  BY <1>8, <2>1, <2>2
<1> QED  BY <1>3, <1>9, <1>10 DEF longer

\* A pop takes away one entry, that of its job.
LEMMA PopEntries ==
    ASSUME NEW list \in Seq(Job), list # << >>
    PROVE  /\ list[Len(list)] \in Entries(list)
           /\ Entries(list) \subseteq Job
           /\ SubSeq(list, 1, Len(list) - 1) \in Seq(Job)
           /\ Entries(SubSeq(list, 1, Len(list) - 1)) \subseteq Entries(list)
           /\ Entries(list) \subseteq
                 Entries(SubSeq(list, 1, Len(list) - 1)) \cup {list[Len(list)]}
           /\ Distinct(list) => Distinct(SubSeq(list, 1, Len(list) - 1))
<1> DEFINE last == Len(list)
           shorter == SubSeq(list, 1, last - 1)
<1>1. last \in Nat \ {0} /\ DOMAIN list = 1..last /\ \A i \in 1..last : list[i] \in Job
  BY EmptySeq, LenProperties, ElementOfSeq
<1>2. /\ shorter \in Seq(Job)
      /\ Len(shorter) = IF 1 <= last - 1 THEN last - 1 - 1 + 1 ELSE 0
      /\ \A i \in 1..(last - 1 - 1 + 1) : shorter[i] = list[1 + i - 1]
  <2>1. \A i \in 1..(last - 1) : list[i] \in Job
    BY <1>1
  <2>2. 1 \in Int /\ last - 1 \in Int
    BY <1>1
  <2> HIDE DEF last
  <2> QED  BY <2>1, <2>2, SubSeqProperties
<1>3. DOMAIN shorter = 1..Len(shorter)
  BY <1>2, LenProperties
<1> HIDE DEF last, shorter
<1>4. DOMAIN shorter = 1..(last - 1) /\ \A i \in 1..(last - 1) : shorter[i] = list[i]
  BY <1>1, <1>2, <1>3
<1>5. \A i \in 1..(last - 1) : i \in DOMAIN list
  BY <1>1
<1>6. \A i \in DOMAIN list : i = last \/ i \in DOMAIN shorter
  BY <1>1, <1>4
<1>7. list[last] \in Entries(list) /\ Entries(list) \subseteq Job
  BY <1>1 DEF Entries
<1>8. Entries(shorter) \subseteq Entries(list) /\ Entries(list) \subseteq Entries(shorter) \cup {list[last]}
  BY <1>4, <1>5, <1>6 DEF Entries
<1>9. Distinct(list) => Distinct(shorter)
  BY <1>4, <1>5 DEF Distinct
<1> QED  BY <1>2, <1>7, <1>8, <1>9 DEF last, shorter

(***************************************************************************)
(* What the list and the processes name exists: a job is pushed, popped or *)
(* cancelled only after its row has been written, and no row is deleted.   *)
(***************************************************************************)
NamesExist ==
    /\ \A j \in Entries(ready) : Exists(j)
    /\ \A w \in Worker : wjob[w] # NoId => Exists(wjob[w])
    /\ \A r \in Request : InFlight(r) => Exists(rjob[r])

ReadyInv == ready \in Seq(Job) /\ NamesExist

\* A row that is there stays.
LEMMA ExistsStays ==
    ASSUME BaseInv, [Next]_vars, NEW j \in Job, Exists(j)
    PROVE  Exists(j)'
<1>1. StoreTypeOK /\ StoreInv
  BY DEF BaseInv
<1> QED  BY <1>1, NextIsStoreStep, JobMoves DEF Exists

\* A step that brings in no new name keeps the names good.
LEMMA NamesKept ==
    ASSUME BaseInv, ReadyInv, [Next]_vars,
           ready' \in Seq(Job), Entries(ready') \subseteq Entries(ready),
           \A w \in Worker : wjob'[w] \in {NoId, wjob[w]},
           \A r \in Request : InFlight(r)' => InFlight(r) /\ rjob'[r] = rjob[r]
    PROVE  ReadyInv'
<1>1. \A j \in Entries(ready) : j \in Job
  BY ElementOfSeq, LenProperties DEF ReadyInv, Entries
<1>2. \A w \in Worker : wjob[w] \in Job \cup {NoId}
  BY DEF BaseInv, ProcessTypeOK
<1>3. \A r \in Request : rjob[r] \in Job \cup {NoId} /\ (InFlight(r) => rjob[r] # NoId)
  BY DEF BaseInv, ProcessTypeOK
<1>4. \A j \in Entries(ready') : Exists(j)'
  BY <1>1, ExistsStays DEF ReadyInv, NamesExist
<1>5. \A w \in Worker : wjob'[w] # NoId => (jobs'[wjob'[w]].status # "absent")
  BY <1>2, ExistsStays DEF ReadyInv, NamesExist, Exists
<1>6. \A r \in Request : InFlight(r)' => (jobs'[rjob'[r]].status # "absent")
  BY <1>3, ExistsStays DEF ReadyInv, NamesExist, Exists
<1> QED  BY <1>4, <1>5, <1>6 DEF ReadyInv, NamesExist, Exists

\* A worker does no more to the list than a pop.
LEMMA WorkerPops ==
    ASSUME ready \in Seq(Job), NEW w \in Worker, WorkerStep(w) \/ Stop(w) \/ Restart(w)
    PROVE  /\ ready' \in Seq(Job)
           /\ Entries(ready') \subseteq Entries(ready)
           /\ Distinct(ready) => Distinct(ready')
<1>1. CASE ready' = ready
  BY <1>1
<1>2. CASE \E j \in Job : DequeueJob(j)
  BY <1>2, PopEntries DEF DequeueJob
<1> QED
  BY <1>1, <1>2
     DEF WorkerStep, IdleBeat, HeartbeatTick, Dequeue, DequeueError, Lease, LeaseError,
         AcquireLease,
         Claim, ClaimError, Record, RecordError, Announce, AnnounceError, BusyBeat, Execute, Finish,
         FinishConflict, FinishError, Release, ReleaseLease, Stop, Restart, queueVars, workerVars

\* A worker takes its job from the list.
LEMMA WorkerKeepsNames ==
    ASSUME BaseInv, ReadyInv, NEW w \in Worker, WorkerStep(w) \/ Stop(w) \/ Restart(w)
    PROVE  ReadyInv'
<1> USE DEF Goto, Continue, LeaveJob
<1>1. [Next]_vars
  BY DEF Next
<1>2. ready \in Seq(Job) /\ wjob \in [Worker -> Job \cup {NoId}]
  BY DEF ReadyInv, BaseInv, ProcessTypeOK
<1>3. UNCHANGED requestVars
  BY WorkerKeepsRequests
<1>4. \A r \in Request : InFlight(r)' => InFlight(r) /\ rjob'[r] = rjob[r]
  BY <1>3 DEF requestVars, InFlight
<1>5. CASE ready' = ready /\ \E v \in {NoId, wjob[w]} : wjob' = [wjob EXCEPT ![w] = v]
  <2>1. \A v \in Worker : wjob'[v] \in {NoId, wjob[v]}
    BY <1>2, <1>5
  <2> QED  BY <1>1, <1>2, <1>4, <1>5, <2>1, NamesKept
<1>6. CASE ready' = ready /\ wjob' = wjob
  BY <1>1, <1>2, <1>4, <1>6, NamesKept
<1>7. CASE Dequeue(w) \/ DequeueError(w)
  <2>1. PICK j \in Job : DequeueJob(j)
    BY <1>7 DEF Dequeue, DequeueError
  <2>2. /\ j \in Entries(ready)
        /\ ready' \in Seq(Job) /\ Entries(ready') \subseteq Entries(ready)
    BY <1>2, <2>1, PopEntries DEF DequeueJob
  <2>3. CASE DequeueError(w)
    <3>1. wjob' = wjob
      BY <2>3 DEF DequeueError, workerVars
    <3> QED  BY <1>1, <1>4, <2>2, <3>1, NamesKept
  <2>4. CASE Dequeue(w)
    <3>1. wjob' = [wjob EXCEPT ![w] = j]
      BY <2>1, <2>4 DEF Dequeue, DequeueJob
    <3>2. jobs' = jobs /\ Exists(j)
      BY <2>2, <2>4 DEF Dequeue, storeVars, ReadyInv, NamesExist
    <3> QED  BY <1>2, <1>4, <2>2, <3>1, <3>2 DEF ReadyInv, NamesExist, Exists
  <2> QED  BY <1>7, <2>3, <2>4
<1> QED
  BY <1>5, <1>6, <1>7
     DEF WorkerStep, IdleBeat, HeartbeatTick, Lease, LeaseError, AcquireLease, Claim, ClaimError,
         Record, RecordError, Announce, AnnounceError, BusyBeat, Execute, Finish, FinishConflict,
         FinishError, Release, ReleaseLease, Stop, Restart, queueVars, workerVars

\* A request writes or finds the row of its job before it calls the queue.
LEMMA RequestKeepsNames ==
    ASSUME BaseInv, ReadyInv, NEW r \in Request, NewRequest(r) \/ RequestStep(r)
    PROVE  ReadyInv'
<1>1. [Next]_vars
  BY DEF Next
<1>2. /\ ready \in Seq(Job) /\ rjob \in [Request -> Job \cup {NoId}]
      /\ rpc \in [Request -> RequestPC]
      /\ InFlight(r) => rjob[r] \in Job
  BY DEF ReadyInv, BaseInv, ProcessTypeOK
<1>3. wjob' = wjob
  BY DEF NewRequest, CreateJob, CreateError, StartCancel, StartRetry, StartError, RequestStep,
         CreateEvent, Push, Remove, CancelRelease, workerVars
<1>4. CASE NewRequest(r)
  <2>1. ready' = ready
    BY <1>4 DEF NewRequest, CreateJob, CreateError, StartCancel, StartRetry, StartError, queueVars
  <2>2. PICK j \in Job, label \in RequestPC, key \in IdemKey \cup {NoKey} :
          /\ Begin(r, label, j, key)
          /\ label \in {"answered", "failed"} \/ Exists(j)'
    <3>1. \A j \in Job, key \in IdemKey \cup {NoKey} : InsertJob(j, key) => Exists(j)'
      BY DEF InsertJob, SetJob, NoJob, Exists, BaseInv, StoreTypeOK
    <3>2. \A j \in Job : CancelJob(j) \/ RetryJob(j) => Exists(j)
      BY DEF CancelJob, Cancellable, RetryJob, Retryable, Exists
    <3>3. \A j \in Job : CancelJob(j) \/ RetryJob(j) => Exists(j)'
      BY <1>1, <3>2, ExistsStays
    <3> QED
      BY <1>4, <3>1, <3>3
         DEF NewRequest, CreateJob, CreateError, StartCancel, StartRetry, StartError, RequestPC
  <2>3. \A i \in Job : Exists(i) => Exists(i)'
    BY <1>1, ExistsStays
  <2>4. \A q \in Request : InFlight(q)' => (jobs'[rjob'[q]].status # "absent")
    <3>1. CASE label \in {"answered", "failed"}
      <4>1. ~InFlight(r)' /\ \A q \in Request \ {r} : rpc'[q] = rpc[q] /\ rjob'[q] = rjob[q]
        BY <1>2, <2>2, <3>1 DEF Begin, InFlight
      <4>2. \A q \in Request \ {r} : InFlight(q) => rjob[q] \in Job /\ Exists(rjob[q])
        BY DEF ReadyInv, NamesExist, BaseInv, ProcessTypeOK
      <4> QED  BY <2>3, <4>1, <4>2 DEF InFlight, Exists
    <3>2. CASE label \notin {"answered", "failed"}
      <4>1. rjob'[r] = j /\ \A q \in Request \ {r} : rpc'[q] = rpc[q] /\ rjob'[q] = rjob[q]
        BY <1>2, <2>2 DEF Begin
      <4>2. \A q \in Request \ {r} : InFlight(q) => rjob[q] \in Job /\ Exists(rjob[q])
        BY DEF ReadyInv, NamesExist, BaseInv, ProcessTypeOK
      <4> QED  BY <2>2, <2>3, <3>2, <4>1, <4>2 DEF InFlight, Exists
    <3> QED  BY <3>1, <3>2
  <2>5. \A i \in Entries(ready) : i \in Job /\ Exists(i)
    BY <1>2, LenProperties, ElementOfSeq DEF ReadyInv, NamesExist, Entries
  <2>6. \A w \in Worker : wjob[w] # NoId => wjob[w] \in Job /\ Exists(wjob[w])
    BY DEF ReadyInv, NamesExist, BaseInv, ProcessTypeOK
  <2> QED  BY <1>2, <1>3, <2>1, <2>3, <2>4, <2>5, <2>6 DEF ReadyInv, NamesExist, Exists
<1>5. CASE RequestStep(r)
  <2>1. /\ InFlight(r) /\ rjob' = rjob
        /\ \A q \in Request : InFlight(q)' => InFlight(q)
    BY <1>2, <1>5 DEF RequestStep, CreateEvent, Push, Remove, CancelRelease, Proceed, InFlight
  <2>2. CASE ready' \in Seq(Job) /\ Entries(ready') \subseteq Entries(ready)
    BY <1>1, <1>3, <2>1, <2>2, NamesKept
  <2>3. CASE Remove(r)
    BY <1>2, <2>2, <2>3, WithoutEntries DEF Remove, RemoveQueuedJob, queueVars
  <2>4. CASE EnqueueJob(rjob[r]) /\ UNCHANGED storeVars
    <3>1. ready' \in Seq(Job) /\ Entries(ready') = Entries(ready) \cup {rjob[r]}
      BY <1>2, <2>1, <2>4, PushEntries DEF EnqueueJob
    <3>2. Exists(rjob[r])
      BY <2>1 DEF ReadyInv, NamesExist
    <3> QED  BY <1>3, <2>1, <2>4, <3>1, <3>2 DEF ReadyInv, NamesExist, storeVars, Exists
  <2> QED
    BY <1>2, <1>5, <2>2, <2>3, <2>4
       DEF RequestStep, CreateEvent, Push, CancelRelease, ReleaseLease, queueVars
<1> QED  BY <1>4, <1>5

\* So every step keeps them.
LEMMA ReadyInvStep ==
    ASSUME BaseInv, ReadyInv, [Next]_vars
    PROVE  ReadyInv'
<1>1. ASSUME UNCHANGED <<ready, wjob, rjob>>, \A r \in Request : InFlight(r)' => InFlight(r)
      PROVE  ReadyInv'
  BY <1>1, NamesKept DEF ReadyInv
<1>2. ASSUME NEW R \in SUBSET Request, Abandon(R)
      PROVE  ReadyInv'
  <2>1. \A r \in Request : InFlight(r)' => InFlight(r)
    BY <1>2 DEF Abandon, InFlight
  <2> QED  BY <1>1, <1>2, <2>1 DEF Abandon, queueVars, workerVars
<1>3. ASSUME NEW j \in Job, Expire(j)
      PROVE  ReadyInv'
  BY <1>1, <1>3 DEF Expire, LeaseExpires, ReleaseLease, workerVars, requestVars, InFlight
<1>4. CASE UNCHANGED vars
  BY <1>1, <1>4 DEF vars, queueVars, workerVars, requestVars, InFlight
<1> QED  BY <1>2, <1>3, <1>4, WorkerKeepsNames, RequestKeepsNames DEF Next

\* The list holds jobs, and no name in the system is that of a job not yet created,
\* whatever fails.
THEOREM ReadyInvariant == Spec => []ReadyInv
<1>1. Init => ReadyInv
  BY EmptySeq DEF Init, QueueInit, ReadyInv, NamesExist, Entries, InFlight
<1>2. BaseInv /\ ReadyInv /\ [Next]_vars => ReadyInv'
  BY ReadyInvStep
<1> QED  BY <1>1, <1>2, BaseInvariant, PTL DEF Spec

\* Every variable of the running system keeps its type.
THEOREM SystemTyped == Spec => []TypeOK
<1>1. BaseInv /\ LeaseInv /\ ReadyInv => TypeOK
  BY DEF BaseInv, LeaseInv, ReadyInv, TypeOK, QueueTypeOK
<1> QED  BY <1>1, BaseInvariant, LeaseInvariant, ReadyInvariant, PTL

(***************************************************************************)
(* How a queued job can be lost without a failure.  Whoever brings the job *)
(* to a claim hands it on: a request to the list, the list to a worker,    *)
(* the worker to its claim.  Two steps break that chain: a cancel that     *)
(* removes the entry of a retry that came after it, and a worker that      *)
(* finds the lease taken.                                                  *)
(***************************************************************************)
LateCancel(j) ==
    \E r \in Request : rpc[r] = "cancelRemove" /\ rpc'[r] = "cancelRelease" /\ rjob[r] = j

HeldLease(j) ==
    \E w \in Worker : /\ wpc[w] = "lease" /\ wpc'[w] = "loop"
                      /\ wjob[w] = j
                      /\ lease[j] # NoWorker
                      /\ \A v \in Worker \ {w} : wpc'[v] = wpc[v] /\ wjob'[v] = wjob[v]

BeforePush == {"createEvent", "createPush", "retryRemove", "retryPush"}

\* Nothing but these two steps loses the job.
Handed(j) == Reachable(j)' \/ LateCancel(j) \/ HeldLease(j)

\* What each statement makes of the status of its job.
LEMMA StatusAfter ==
    ASSUME StoreTypeOK, NEW i \in Job
    PROVE  /\ MarkJobRunning(i) => jobs'[i].status = "running"
           /\ CancelJob(i) => jobs'[i].status = "cancelled"
           /\ MarkJobSucceeded(i) => jobs'[i].status = "succeeded"
           /\ MarkJobFailed(i) => jobs'[i].status = "failed"
<1>1. jobs[i] \in JobRow
  BY DEF StoreTypeOK
<1>2. \A row : SetJob(i, row) => jobs'[i] = row
  BY DEF SetJob, StoreTypeOK
<1>3. MarkJobRunning(i) => jobs'[i].status = "running"
  BY <1>1, <1>2 DEF MarkJobRunning, JobRow
<1>4. CancelJob(i) => jobs'[i].status = "cancelled"
  BY <1>1, <1>2 DEF CancelJob, JobRow
<1>5. MarkJobSucceeded(i) => jobs'[i].status = "succeeded"
  BY <1>1, <1>2 DEF MarkJobSucceeded, JobRow
<1>6. MarkJobFailed(i) => jobs'[i].status = "failed"
  BY <1>1, <1>2 DEF MarkJobFailed, JobRow
<1> QED  BY <1>3, <1>4, <1>5, <1>6

\* Only the insert of its row and a retry put a job into the queue.
LEMMA QueuedBy ==
    ASSUME StoreTypeOK, [StoreNext]_storeVars, NEW j \in Job,
           jobs'[j].status = "queued", jobs[j].status # "queued"
    PROVE  (\E key \in IdemKey \cup {NoKey} : InsertJob(j, key)) \/ RetryJob(j)
<1>1. jobs' # jobs
  OBVIOUS
<1>2. PICK i \in Job : JobStep(i)
  BY <1>1 DEF StoreNext, JobStep, storeVars
<1>3. i = j
  BY <1>2, OtherJobsKept
<1> QED  BY <1>1, <1>2, <1>3, StatusAfter DEF JobStep, AppendEvent, InsertAttempt

\* No worker puts a job into the queue.
LEMMA WorkerQueuesNothing ==
    ASSUME BaseInv, NEW w \in Worker, WorkerStep(w) \/ Stop(w) \/ Restart(w),
           NEW j \in Job, jobs'[j].status = "queued"
    PROVE  jobs[j].status = "queued"
<1>1. StoreTypeOK /\ (wpc[w] \in {"claim", "succeed", "fail"} => wjob[w] \in Job)
  BY DEF BaseInv, ProcessTypeOK
<1>2. \/ jobs' = jobs
      \/ /\ wjob[w] \in Job
         /\ MarkJobRunning(wjob[w]) \/ MarkJobSucceeded(wjob[w]) \/ MarkJobFailed(wjob[w])
  BY <1>1
     DEF WorkerStep, IdleBeat, HeartbeatTick, Dequeue, DequeueError, Lease, LeaseError, Claim,
         ClaimError, Record, RecordError, Announce, AnnounceError, BusyBeat, Execute, Finish,
         StoreOutcome, FinishConflict, FinishError, Release, Stop, Restart, storeVars,
         InsertAttempt, AppendEvent
<1> QED  BY <1>1, <1>2, StatusAfter, OtherJobsKept DEF JobStep

\* The parts of Reachable, for a process or a list that a step leaves alone.
LEMMA ReachableKept ==
    ASSUME NEW j \in Job, Reachable(j),
           InReady(j) => InReady(j)',
           \A r \in Request : rjob[r] = j /\ rpc[r] \in BeforePush => rjob'[r] = j /\ rpc'[r] \in BeforePush,
           \A w \in Worker : wjob[w] = j /\ wpc[w] \in {"lease", "claim"}
                                => wjob'[w] = j /\ wpc'[w] \in {"lease", "claim"}
    PROVE  Reachable(j)'
BY DEF Reachable, BeforePush

\* A worker that takes the job from the list goes on to its claim.
LEMMA WorkerHandsOn ==
    ASSUME BaseInv, ReadyInv, NEW w \in Worker, WorkerStep(w) \/ Stop(w) \/ Restart(w), faults' = faults,
           NEW j \in Job, jobs[j].status = "queued", jobs'[j].status = "queued", Reachable(j)
    PROVE  Handed(j)
<1> USE DEF Goto, Continue, LeaveJob
<1>1. /\ ready \in Seq(Job) /\ wjob \in [Worker -> Job \cup {NoId}] /\ wpc \in [Worker -> WorkerPC]
      /\ faults \in Nat
  BY OrchestratorAssumption DEF ReadyInv, BaseInv, ProcessTypeOK
<1>2. UNCHANGED requestVars
  BY WorkerKeepsRequests
<1>3. \A r \in Request : rjob[r] = j /\ rpc[r] \in BeforePush => rjob'[r] = j /\ rpc'[r] \in BeforePush
  BY <1>2 DEF requestVars
<1>4. ASSUME wpc[w] \notin {"lease", "claim"}, ready' = ready,
             \A v \in Worker \ {w} : wpc'[v] = wpc[v] /\ wjob'[v] = wjob[v]
      PROVE  Handed(j)
  BY <1>3, <1>4, ReachableKept DEF Handed, InReady
<1>5. CASE Dequeue(w)
  <2>1. PICK i \in Job : DequeueJob(i) /\ wjob' = [wjob EXCEPT ![w] = i]
    BY <1>5 DEF Dequeue
  <2>2. wpc[w] = "loop" /\ wpc' = [wpc EXCEPT ![w] = "lease"]
    BY <1>5 DEF Dequeue
  <2>3. wjob'[w] = i /\ wpc'[w] = "lease"
    BY <1>1, <2>1, <2>2
  <2>4. CASE i = j
    BY <2>3, <2>4 DEF Handed, Reachable
  <2>5. CASE i # j
    <3>1. InReady(j) => InReady(j)'
      BY <1>1, <2>1, <2>5, PopEntries DEF DequeueJob, InReady, Entries
    <3> QED  BY <1>1, <1>3, <2>1, <2>2, <3>1, ReachableKept DEF Handed
  <2> QED  BY <2>4, <2>5
<1>6. CASE Lease(w)
  <2>1. wpc[w] = "lease" /\ ready' = ready
    BY <1>6 DEF Lease, AcquireLease, queueVars
  <2>2. \A v \in Worker \ {w} : wpc'[v] = wpc[v] /\ wjob'[v] = wjob[v]
    BY <1>1, <1>6 DEF Lease
  <2>3. CASE wjob[w] = j /\ LeaveJob(w, "loop") /\ lease[j] # NoWorker
    <3>1. wpc'[w] = "loop"
      BY <1>1, <2>3
    <3> QED  BY <2>1, <2>2, <2>3, <3>1 DEF HeldLease, Handed
  <2>4. CASE wjob' = wjob /\ wpc' = [wpc EXCEPT ![w] = "claim"]
    BY <1>1, <1>3, <2>1, <2>4, ReachableKept DEF Handed, InReady
  <2>5. CASE wjob[w] # j
    BY <1>3, <2>1, <2>2, <2>5, ReachableKept DEF Handed, InReady
  <2> QED  BY <1>6, <2>3, <2>4, <2>5 DEF Lease
<1>7. CASE Claim(w)
  <2>1. wpc[w] = "claim" /\ ready' = ready
    BY <1>7 DEF Claim, queueVars
  <2>2. \A v \in Worker \ {w} : wpc'[v] = wpc[v] /\ wjob'[v] = wjob[v]
    BY <1>1, <1>7 DEF Claim
  <2>3. wjob[w] # j
    BY <1>7, StatusAfter DEF Claim, BaseInv
  <2> QED  BY <1>3, <2>1, <2>2, <2>3, ReachableKept DEF Handed, InReady
<1>8. CASE IdleBeat(w) \/ HeartbeatTick(w) \/ Record(w) \/ Announce(w) \/ BusyBeat(w) \/ Execute(w) \/ Restart(w)
  BY <1>1, <1>4, <1>8
     DEF IdleBeat, HeartbeatTick, Record, Announce, BusyBeat, Execute, Restart, queueVars
<1>9. CASE Finish(w) \/ FinishConflict(w) \/ Release(w)
  BY <1>1, <1>4, <1>9 DEF Finish, StoreOutcome, FinishConflict, Release, ReleaseLease, queueVars
<1> QED
  BY <1>1, <1>5, <1>6, <1>7, <1>8, <1>9
     DEF WorkerStep, DequeueError, LeaseError, ClaimError, RecordError, AnnounceError,
         FinishError, Stop, Fault

\* A request that writes a queued row, or finds one to push, goes on to the push.
LEMMA RequestHandsOn ==
    ASSUME BaseInv, ReadyInv, NEW r \in Request, NewRequest(r) \/ RequestStep(r), faults' = faults,
           NEW j \in Job, jobs'[j].status = "queued",
           jobs[j].status = "queued" => Reachable(j)
    PROVE  Handed(j)
<1>1. /\ ready \in Seq(Job) /\ faults \in Nat
      /\ rjob \in [Request -> Job \cup {NoId}] /\ rpc \in [Request -> RequestPC]
      /\ InFlight(r) => rjob[r] \in Job
  BY OrchestratorAssumption DEF ReadyInv, BaseInv, ProcessTypeOK
<1>2. UNCHANGED <<wpc, wjob>>
  BY DEF NewRequest, CreateJob, CreateError, StartCancel, StartRetry, StartError, RequestStep,
         CreateEvent, Push, Remove, CancelRelease, workerVars
<1>3. CASE NewRequest(r)
  <2>1. ready' = ready /\ rpc[r] = "new" /\ \A q \in Request \ {r} : rpc'[q] = rpc[q] /\ rjob'[q] = rjob[q]
    BY <1>1, <1>3
       DEF NewRequest, CreateJob, CreateError, StartCancel, StartRetry, StartError, Begin,
           queueVars
  <2>2. CASE jobs[j].status = "queued"
    BY <1>2, <2>1, <2>2, ReachableKept DEF Handed, InReady, BeforePush
  <2>3. CASE jobs[j].status # "queued"
    <3>1. PICK i \in Job, label \in {"createEvent", "retryRemove"} :
             /\ \/ \E key \in IdemKey \cup {NoKey} : InsertJob(i, key)
                \/ RetryJob(i)
             /\ rpc' = [rpc EXCEPT ![r] = label] /\ rjob' = [rjob EXCEPT ![r] = i]
      <4>1. jobs' # jobs
        BY <2>3
      <4>2. ~\E i \in Job : CancelJob(i)
        <5>1. StoreTypeOK
          BY DEF BaseInv
        <5> QED  BY <2>3, <5>1, StatusAfter, OtherJobsKept DEF JobStep
      <4> QED
        BY <1>1, <1>3, <4>1, <4>2 DEF NewRequest, CreateJob, CreateError, StartCancel, StartRetry,
            StartError, Begin, Fault, storeVars
    <3>2. i = j
      BY <2>3, <3>1 DEF InsertJob, RetryJob, SetJob, BaseInv, StoreTypeOK
    <3>3. rjob'[r] = j /\ rpc'[r] \in BeforePush
      BY <1>1, <3>1, <3>2 DEF BeforePush
    <3> QED  BY <3>3 DEF Handed, Reachable, BeforePush
  <2> QED  BY <2>2, <2>3
<1>4. CASE RequestStep(r)
  <2>1. /\ rjob' = rjob /\ InFlight(r) /\ rjob[r] \in Job
        /\ \A q \in Request \ {r} : rpc'[q] = rpc[q]
    BY <1>1, <1>4 DEF RequestStep, CreateEvent, Push, Remove, CancelRelease, Proceed, InFlight
  <2>2. Reachable(j)
    <3>1. jobs' = jobs
      BY <1>4 DEF RequestStep, CreateEvent, AppendEvent, Push, Remove, CancelRelease, storeVars
    <3> QED  BY <3>1
  <2>3. ASSUME InReady(j) => InReady(j)', rjob[r] # j \/ rpc[r] \notin BeforePush \/ rpc'[r] \in BeforePush
        PROVE  Handed(j)
    BY <1>2, <2>1, <2>2, <2>3, ReachableKept DEF Handed
  <2>4. CASE CreateEvent(r)
    <3>1. ready' = ready /\ rpc' = [rpc EXCEPT ![r] = "createPush"]
      BY <1>1, <2>4 DEF CreateEvent, Proceed, Fault, queueVars
    <3> QED  BY <1>1, <2>3, <3>1 DEF InReady, BeforePush
  <2>5. CASE Push(r)
    <3>1. EnqueueJob(rjob[r])
      BY <1>1, <2>5 DEF Push, Fault
    <3>2. Entries(ready') = Entries(ready) \cup {rjob[r]}
      BY <1>1, <2>1, <3>1, PushEntries DEF EnqueueJob
    <3>3. CASE rjob[r] = j
      BY <3>2, <3>3 DEF Handed, Reachable, InReady, Entries
    <3>4. CASE rjob[r] # j
      BY <2>3, <3>2, <3>4 DEF InReady, Entries
    <3> QED  BY <3>3, <3>4
  <2>6. CASE Remove(r)
    <3>1. RemoveQueuedJob(rjob[r])
      BY <1>1, <2>6 DEF Remove, Fault
    <3>2. Entries(ready') = Entries(ready) \ {rjob[r]}
      BY <1>1, <3>1, WithoutEntries DEF RemoveQueuedJob
    <3>3. \/ rpc[r] = "cancelRemove" /\ rpc'[r] = "cancelRelease"
          \/ rpc[r] = "retryRemove" /\ rpc'[r] = "retryPush"
      BY <1>1, <2>6 DEF Remove, Proceed
    <3>4. CASE rjob[r] = j
      BY <2>1, <3>3, <3>4 DEF Handed, LateCancel, Reachable
    <3>5. CASE rjob[r] # j
      BY <2>3, <3>2, <3>5 DEF InReady, Entries
    <3> QED  BY <3>4, <3>5
  <2>7. CASE CancelRelease(r)
    BY <2>3, <2>7 DEF CancelRelease, Proceed, ReleaseLease, queueVars, InReady, BeforePush
  <2> QED  BY <1>4, <2>4, <2>5, <2>6, <2>7 DEF RequestStep
<1> QED  BY <1>3, <1>4

\* A job that is queued after a step without a fault was queued before it and within
\* reach, or the step puts it within reach, or it is one of the two that lose it.
LEMMA QueuedHandedOn ==
    ASSUME BaseInv, ReadyInv, [Next]_vars, faults' = faults,
           NEW j \in Job, jobs'[j].status = "queued", jobs[j].status = "queued" => Reachable(j)
    PROVE  Handed(j)
<1>1. faults \in Nat
  BY OrchestratorAssumption DEF BaseInv, ProcessTypeOK
<1>2. ASSUME UNCHANGED <<jobs, ready, wpc, wjob, rpc, rjob>>
      PROVE  Handed(j)
  BY <1>2, ReachableKept DEF Handed, InReady
<1>3. ASSUME NEW w \in Worker, WorkerStep(w) \/ Stop(w) \/ Restart(w)
      PROVE  Handed(j)
  <2>1. jobs[j].status = "queued"
    BY <1>3, WorkerQueuesNothing
  <2> QED  BY <1>3, <2>1, WorkerHandsOn
<1>4. ASSUME NEW r \in Request, NewRequest(r) \/ RequestStep(r)
      PROVE  Handed(j)
  BY <1>4, RequestHandsOn
<1>5. ASSUME NEW R \in SUBSET Request, Abandon(R)
      PROVE  Handed(j)
  BY <1>1, <1>5 DEF Abandon, Fault
<1>6. ASSUME NEW i \in Job, Expire(i)
      PROVE  Handed(j)
  BY <1>2, <1>6 DEF Expire, LeaseExpires, ReleaseLease, storeVars, workerVars, requestVars
<1>7. CASE UNCHANGED vars
  BY <1>2, <1>7 DEF vars, storeVars, queueVars, workerVars, requestVars
<1> QED  BY <1>3, <1>4, <1>5, <1>6, <1>7 DEF Next

\* A queued job within reach of a claim stays within reach in every step of any
\* number of workers and requests that is not itself a failing call or the end of a
\* process, whatever failed before it, but for a late cancel and a lease that is
\* taken.
LostInTwoWays ==
    [][\A j \in Job :
          /\ faults' = faults
          /\ jobs[j].status = "queued" /\ jobs'[j].status = "queued"
          /\ Reachable(j)
          => Reachable(j)' \/ LateCancel(j) \/ HeldLease(j)]_vars

\* So the system keeps it: CancelJob's removal and a refused lease are the only
\* calls that can forget a job without a fault.
THEOREM OnlyTwoLoseJobs == Spec => LostInTwoWays
<1>1. ASSUME BaseInv, ReadyInv, [Next]_vars, NEW j \in Job, faults' = faults,
             jobs[j].status = "queued", jobs'[j].status = "queued", Reachable(j)
      PROVE  Reachable(j)' \/ LateCancel(j) \/ HeldLease(j)
  BY <1>1, QueuedHandedOn DEF Handed
<1>2. BaseInv /\ ReadyInv /\ [Next]_vars =>
        [\A j \in Job :
          /\ faults' = faults
          /\ jobs[j].status = "queued" /\ jobs'[j].status = "queued"
          /\ Reachable(j)
          => Reachable(j)' \/ LateCancel(j) \/ HeldLease(j)]_vars
  BY <1>1
<1> QED  BY <1>2, BaseInvariant, ReadyInvariant, PTL DEF Spec, LostInTwoWays

(***************************************************************************)
(* How a lost job comes back.  Its entry is gone and nobody is about to    *)
(* push one, so no worker can come upon it; and no part of the system      *)
(* looks for such jobs.                                                    *)
(***************************************************************************)
StaysLost(j) == jobs'[j].status = "queued" /\ ~Reachable(j)'

\* A worker does not come upon a lost job.
LEMMA WorkerMissesLost ==
    ASSUME BaseInv, ReadyInv, NEW w \in Worker, WorkerStep(w) \/ Stop(w) \/ Restart(w),
           NEW j \in Job, jobs[j].status = "queued", ~Reachable(j)
    PROVE  StaysLost(j)
<1> USE DEF Goto, Continue, LeaveJob
<1>1. /\ ready \in Seq(Job) /\ wjob \in [Worker -> Job \cup {NoId}] /\ wpc \in [Worker -> WorkerPC]
      /\ StoreTypeOK
  BY DEF ReadyInv, BaseInv, ProcessTypeOK
<1>2. ~(wjob[w] = j /\ wpc[w] \in {"lease", "claim"}) /\ j \notin Entries(ready)
  BY DEF Reachable, InReady, Entries
<1>3. jobs'[j].status = "queued"
  <2>1. \/ jobs' = jobs
        \/ wpc[w] = "claim" /\ MarkJobRunning(wjob[w])
        \/ wpc[w] \in {"succeed", "fail"} /\ (MarkJobSucceeded(wjob[w]) \/ MarkJobFailed(wjob[w]))
    BY DEF WorkerStep, IdleBeat, HeartbeatTick, Dequeue, DequeueError, Lease, LeaseError, Claim,
           ClaimError, Record, RecordError, Announce, AnnounceError, BusyBeat, Execute, Finish,
           StoreOutcome, FinishConflict, FinishError, Release, Stop, Restart, storeVars,
           InsertAttempt, AppendEvent
  <2>2. wpc[w] \in {"claim", "succeed", "fail"} => wjob[w] \in Job
    BY <1>1 DEF BaseInv, ProcessTypeOK
  <2>3. ~MarkJobSucceeded(j) /\ ~MarkJobFailed(j)
    BY DEF MarkJobSucceeded, MarkJobFailed, Running
  <2> QED  BY <1>1, <1>2, <2>1, <2>2, <2>3, OtherJobsKept DEF JobStep
<1>4. ~InReady(j)'
  BY <1>1, <1>2, WorkerPops DEF InReady, Entries
<1>5. \A v \in Worker \ {w} : wpc'[v] = wpc[v] /\ wjob'[v] = wjob[v]
  BY <1>1 DEF WorkerStep, IdleBeat, HeartbeatTick, Dequeue, DequeueError, Lease, LeaseError, Claim,
         ClaimError, Record, RecordError, Announce, AnnounceError, BusyBeat, Execute, Finish,
         FinishConflict, FinishError, Release, Stop, Restart, workerVars
<1>6. ~(wjob'[w] = j /\ wpc'[w] \in {"lease", "claim"})
  <2>1. CASE Dequeue(w)
    <3>1. PICK i \in Job : DequeueJob(i) /\ wjob' = [wjob EXCEPT ![w] = i]
      BY <2>1 DEF Dequeue
    <3> QED  BY <1>1, <1>2, <3>1, PopEntries DEF DequeueJob
  <2>2. CASE Lease(w)
    BY <1>1, <1>2, <2>2 DEF Lease
  <2>3. CASE ~Dequeue(w) /\ ~Lease(w)
    BY <1>1, <1>2, <2>3
       DEF WorkerStep, IdleBeat, HeartbeatTick, DequeueError, LeaseError, Claim, ClaimError, Record,
           RecordError, Announce, AnnounceError, BusyBeat, Execute, Finish, FinishConflict,
           FinishError, Release, Stop, Restart, workerVars
  <2> QED  BY <2>1, <2>2, <2>3
<1> QED  BY <1>3, <1>4, <1>5, <1>6, WorkerKeepsRequests DEF StaysLost, Reachable, requestVars

\* Nor does a request, the retry of that job apart.
LEMMA RequestMissesLost ==
    ASSUME BaseInv, ReadyInv, NEW r \in Request, NewRequest(r) \/ RequestStep(r),
           NEW j \in Job, jobs[j].status = "queued", ~Reachable(j)
    PROVE  CancelJob(j) \/ RetryJob(j) \/ StaysLost(j)
<1>1. /\ ready \in Seq(Job) /\ StoreTypeOK
      /\ rjob \in [Request -> Job \cup {NoId}] /\ rpc \in [Request -> RequestPC]
      /\ InFlight(r) => rjob[r] \in Job
  BY DEF ReadyInv, BaseInv, ProcessTypeOK
<1>2. UNCHANGED <<wpc, wjob>>
  BY DEF NewRequest, CreateJob, CreateError, StartCancel, StartRetry, StartError, RequestStep,
         CreateEvent, Push, Remove, CancelRelease, workerVars
<1>3. j \notin Entries(ready) /\ \A q \in Request : ~(rjob[q] = j /\ rpc[q] \in BeforePush)
  BY DEF Reachable, InReady, Entries, BeforePush
<1>4. ASSUME jobs'[j].status = "queued", j \notin Entries(ready'),
             \A q \in Request : ~(rjob'[q] = j /\ rpc'[q] \in BeforePush)
      PROVE  StaysLost(j)
  BY <1>2, <1>4 DEF StaysLost, Reachable, InReady, Entries, BeforePush
<1>5. CASE NewRequest(r)
  <2>1. ready' = ready /\ \A q \in Request \ {r} : rpc'[q] = rpc[q] /\ rjob'[q] = rjob[q]
    BY <1>1, <1>5
       DEF NewRequest, CreateJob, CreateError, StartCancel, StartRetry, StartError, Begin,
           queueVars
  <2>2. \A key : ~InsertJob(j, key)
    BY DEF InsertJob, Exists
  <2>3. CASE \E i \in Job : i # j /\ JobStep(i) /\ rjob' = [rjob EXCEPT ![r] = i]
    BY <1>1, <1>3, <1>4, <2>1, <2>3, OtherJobsKept
  <2>4. CASE jobs' = jobs /\ rpc'[r] \notin BeforePush
    BY <1>1, <1>3, <1>4, <2>1, <2>4
  <2>5. \/ \E i \in Job : JobStep(i) /\ rjob' = [rjob EXCEPT ![r] = i]
                         /\ ((\E key : InsertJob(i, key)) \/ CancelJob(i) \/ RetryJob(i))
        \/ jobs' = jobs /\ rpc'[r] \notin BeforePush
    BY <1>1, <1>5
       DEF NewRequest, CreateJob, CreateError, StartCancel, StartRetry, StartError, Begin,
         storeVars, JobStep, BeforePush
  <2> QED  BY <2>2, <2>3, <2>4, <2>5
<1>6. CASE RequestStep(r)
  <2>1. /\ rjob' = rjob /\ InFlight(r) /\ rjob[r] \in Job /\ jobs' = jobs
        /\ \A q \in Request \ {r} : rpc'[q] = rpc[q]
        /\ rpc'[r] \in BeforePush => rpc[r] \in BeforePush
    BY <1>1, <1>6 DEF RequestStep, CreateEvent, Push, Remove, CancelRelease, Proceed, InFlight,
         AppendEvent, storeVars, BeforePush
  <2>2. \A q \in Request : ~(rjob'[q] = j /\ rpc'[q] \in BeforePush)
    BY <1>3, <2>1
  <2>3. CASE Push(r)
    <3>1. ready' = ready \/ EnqueueJob(rjob[r])
      BY <2>3 DEF Push, queueVars
    <3>2. rjob[r] # j
      BY <1>3, <2>3 DEF Push, Proceed, BeforePush
    <3>3. Entries(ready') \subseteq Entries(ready) \cup {rjob[r]}
      BY <1>1, <2>1, <3>1, PushEntries DEF EnqueueJob
    <3> QED  BY <1>3, <1>4, <2>1, <2>2, <3>2, <3>3
  <2>4. CASE Remove(r)
    <3>1. Entries(ready') \subseteq Entries(ready)
      BY <1>1, <2>1, <2>4, WithoutEntries DEF Remove, RemoveQueuedJob, queueVars
    <3> QED  BY <1>3, <1>4, <2>1, <2>2, <3>1
  <2>5. CASE CreateEvent(r) \/ CancelRelease(r)
    BY <1>3, <1>4, <2>1, <2>2, <2>5 DEF CreateEvent, CancelRelease, ReleaseLease, queueVars
  <2> QED  BY <1>6, <2>3, <2>4, <2>5 DEF RequestStep
<1> QED  BY <1>5, <1>6

\* A job that is queued without an entry, and with nobody about to push one, stays
\* queued and is never claimed, by any number of workers and whatever else happens,
\* until an operator cancels or retries it: creating it again under its key, a
\* restart, or a lease that runs out do not bring it back.
LostUntilRetried ==
    [][\A j \in Job :
          jobs[j].status = "queued" /\ ~Reachable(j) =>
              \/ CancelJob(j)
              \/ RetryJob(j)
              \/ jobs'[j].status = "queued" /\ ~Reachable(j)']_vars

\* So the system keeps it: nothing but the two requests repairs a difference between
\* the table and the list.
THEOREM OnlyOperatorRecovers == Spec => LostUntilRetried
<1>1. ASSUME BaseInv, ReadyInv, [Next]_vars, NEW j \in Job, jobs[j].status = "queued", ~Reachable(j)
      PROVE  CancelJob(j) \/ RetryJob(j) \/ StaysLost(j)
  <2>1. ASSUME UNCHANGED <<jobs, ready, wpc, wjob, rjob>>,
               \A r \in Request : rpc'[r] = rpc[r] \/ rpc'[r] = "failed"
        PROVE  StaysLost(j)
    BY <1>1, <2>1 DEF StaysLost, Reachable, InReady
  <2>2. ASSUME NEW R \in SUBSET Request, Abandon(R)
        PROVE  StaysLost(j)
    BY <2>1, <2>2 DEF Abandon, storeVars, queueVars, workerVars
  <2>3. ASSUME NEW i \in Job, Expire(i)
        PROVE  StaysLost(j)
    BY <2>1, <2>3 DEF Expire, LeaseExpires, ReleaseLease, storeVars, workerVars, requestVars
  <2>4. CASE UNCHANGED vars
    BY <2>1, <2>4 DEF vars, storeVars, queueVars, workerVars, requestVars
  <2> QED  BY <1>1, <2>2, <2>3, <2>4, WorkerMissesLost, RequestMissesLost DEF Next
<1>2. BaseInv /\ ReadyInv /\ [Next]_vars =>
        [\A j \in Job :
          jobs[j].status = "queued" /\ ~Reachable(j) =>
              \/ CancelJob(j)
              \/ RetryJob(j)
              \/ jobs'[j].status = "queued" /\ ~Reachable(j)']_vars
  BY <1>1 DEF StaysLost
<1> QED  BY <1>2, BaseInvariant, ReadyInvariant, PTL DEF Spec, LostUntilRetried

(***************************************************************************)
(* First runs.  A worker past its claim and a request past its transaction *)
(* have seen the job leave the queue, and only a retry puts it back.  So   *)
(* neither of the two steps that lose a job can lose one never retried:    *)
(* who removes its entry or holds its lease is past that point, or is a    *)
(* worker still on its way to the claim.                                   *)
(***************************************************************************)
Begun(j) == jobs[j].status = "queued" => "retry_scheduled" \in events[j]

BegunNext(j) == jobs'[j].status = "queued" => "retry_scheduled" \in events'[j]

PastClaim == {"record", "announce", "busyBeat", "execute", "succeed", "fail", "release", "drop"}
PastStart == {"cancelRemove", "cancelRelease", "retryRemove", "retryPush"}

FirstRunInv ==
    faults = 0 =>
        /\ \A w \in Worker : wpc[w] \in PastClaim => Begun(wjob[w])
        /\ \A r \in Request : rpc[r] \in PastStart => Begun(rjob[r])

\* Only a retry queues a job again, and it says so in the event log.
LEMMA BegunStays ==
    ASSUME BaseInv, [Next]_vars, NEW j \in Job, Exists(j), Begun(j)
    PROVE  BegunNext(j)
<1>1. StoreTypeOK /\ StoreInv /\ [StoreNext]_storeVars
  BY NextIsStoreStep DEF BaseInv
<1>2. events[j] \subseteq events'[j]
  BY <1>1, JobMoves
<1>3. RetryJob(j) => "retry_scheduled" \in events'[j]
  BY <1>1 DEF RetryJob, Log, StoreTypeOK
<1>4. ~\E key \in IdemKey \cup {NoKey} : InsertJob(j, key)
  BY DEF InsertJob
<1> QED  BY <1>1, <1>2, <1>3, <1>4, QueuedBy DEF Begun, BegunNext

\* Who is past the claim or the transaction names a job that exists.
LEMMA PastExist ==
    ASSUME BaseInv, ReadyInv
    PROVE  /\ \A v \in Worker : wpc[v] \in PastClaim \cup {"claim"} => wjob[v] \in Job /\ Exists(wjob[v])
           /\ \A q \in Request : rpc[q] \in PastStart => rjob[q] \in Job /\ Exists(rjob[q])
<1>1. ASSUME NEW v \in Worker, wpc[v] \in PastClaim \cup {"claim"}
      PROVE  wjob[v] \in Job /\ Exists(wjob[v])
  <2>1. wjob[v] # NoId /\ wjob[v] \in Job \cup {NoId}
    BY <1>1 DEF BaseInv, ProcessTypeOK, PastClaim
  <2> QED  BY <2>1 DEF ReadyInv, NamesExist
<1>2. ASSUME NEW q \in Request, rpc[q] \in PastStart
      PROVE  rjob[q] \in Job /\ Exists(rjob[q])
  <2>1. InFlight(q)
    BY <1>2 DEF PastStart, InFlight
  <2>2. rjob[q] # NoId /\ rjob[q] \in Job \cup {NoId}
    BY <2>1 DEF BaseInv, ProcessTypeOK
  <2> QED  BY <2>1, <2>2 DEF ReadyInv, NamesExist
<1> QED  BY <1>1, <1>2

\* A worker gets past its claim by taking the job out of the queue, or by finding
\* that it is not in there.
LEMMA WorkerPastClaim ==
    ASSUME BaseInv, ReadyInv, FirstRunInv, faults' = 0,
           NEW w \in Worker, WorkerStep(w) \/ Stop(w) \/ Restart(w)
    PROVE  FirstRunInv'
<1> USE DEF Goto, Continue, LeaveJob
<1>1. [Next]_vars
  BY DEF Next
<1>2. /\ wjob \in [Worker -> Job \cup {NoId}] /\ wpc \in [Worker -> WorkerPC] /\ StoreTypeOK
      /\ faults \in Nat
      /\ \A v \in Worker : wpc[v] \in PastClaim \cup {"claim"} => wjob[v] \in Job /\ Exists(wjob[v])
      /\ \A q \in Request : rpc[q] \in PastStart => rjob[q] \in Job /\ Exists(rjob[q])
  BY OrchestratorAssumption, PastExist DEF BaseInv, ProcessTypeOK
<1>3. faults = 0 /\ UNCHANGED requestVars
  BY <1>2 DEF WorkerStep, IdleBeat, HeartbeatTick, Dequeue, DequeueError, Lease, LeaseError, Claim,
         ClaimError, Record, RecordError, Announce, AnnounceError, BusyBeat, Execute, Finish,
         FinishConflict, FinishError, Release, Stop, Restart, Fault, NoFault
<1>4. \A r \in Request : rpc'[r] \in PastStart => BegunNext(rjob'[r])
  BY <1>1, <1>2, <1>3, BegunStays DEF FirstRunInv, requestVars
<1>5. \A v \in Worker \ {w} : wpc'[v] = wpc[v] /\ wjob'[v] = wjob[v]
  BY <1>2 DEF WorkerStep, IdleBeat, HeartbeatTick, Dequeue, DequeueError, Lease, LeaseError, Claim,
         ClaimError, Record, RecordError, Announce, AnnounceError, BusyBeat, Execute, Finish,
         FinishConflict, FinishError, Release, Stop, Restart, workerVars
<1>6. \A v \in Worker \ {w} : wpc'[v] \in PastClaim => BegunNext(wjob'[v])
  BY <1>1, <1>2, <1>3, <1>5, BegunStays DEF FirstRunInv
<1>7. wpc'[w] \in PastClaim => BegunNext(wjob'[w])
  <2>1. CASE Claim(w)
    <3>1. wpc[w] = "claim" /\ wjob' = wjob
      BY <2>1 DEF Claim
    <3>2. MarkJobRunning(wjob[w]) \/ (jobs[wjob[w]].status # "queued" /\ jobs' = jobs)
      BY <2>1 DEF Claim, storeVars
    <3>3. jobs'[wjob[w]].status # "queued"
      BY <1>2, <3>1, <3>2, StatusAfter
    <3> QED  BY <3>1, <3>3 DEF BegunNext
  <2>2. CASE wpc[w] \in PastClaim /\ wjob'[w] = wjob[w]
    BY <1>1, <1>2, <1>3, <2>2, BegunStays DEF FirstRunInv
  <2>3. CASE wpc'[w] \notin PastClaim
    BY <2>3
  <2> QED
    BY <1>2, <2>1, <2>2, <2>3
       DEF WorkerStep, IdleBeat, HeartbeatTick, Dequeue, DequeueError, Lease, LeaseError,
           ClaimError, Record, RecordError, Announce, AnnounceError, BusyBeat, Execute, Finish,
           StoreOutcome, FinishConflict, FinishError, Release, Stop, Restart, Fault, PastClaim
<1> QED  BY <1>4, <1>6, <1>7 DEF FirstRunInv, Begun, BegunNext

\* A request gets past its transaction by cancelling the job or by retrying it.
LEMMA RequestPastStart ==
    ASSUME BaseInv, ReadyInv, FirstRunInv, faults' = 0,
           NEW r \in Request, NewRequest(r) \/ RequestStep(r)
    PROVE  FirstRunInv'
<1>1. [Next]_vars
  BY DEF Next
<1>2. /\ rjob \in [Request -> Job \cup {NoId}] /\ rpc \in [Request -> RequestPC] /\ StoreTypeOK
      /\ faults \in Nat
      /\ \A v \in Worker : wpc[v] \in PastClaim => wjob[v] \in Job /\ Exists(wjob[v])
      /\ \A q \in Request : rpc[q] \in PastStart => rjob[q] \in Job /\ Exists(rjob[q])
  BY OrchestratorAssumption, PastExist DEF BaseInv, ProcessTypeOK
<1>3. faults = 0 /\ UNCHANGED workerVars
  BY <1>2 DEF NewRequest, CreateJob, CreateError, StartCancel, StartRetry, StartError, RequestStep,
         CreateEvent, Push, Remove, CancelRelease, Fault, NoFault
<1>4. \A v \in Worker : wpc'[v] \in PastClaim => BegunNext(wjob'[v])
  BY <1>1, <1>2, <1>3, BegunStays DEF FirstRunInv, workerVars
<1>5. \A q \in Request \ {r} : rpc'[q] = rpc[q] /\ rjob'[q] = rjob[q]
  BY <1>2 DEF NewRequest, CreateJob, CreateError, StartCancel, StartRetry, StartError, Begin,
         RequestStep, CreateEvent, Push, Remove, CancelRelease, Proceed
<1>6. \A q \in Request \ {r} : rpc'[q] \in PastStart => BegunNext(rjob'[q])
  BY <1>1, <1>2, <1>3, <1>5, BegunStays DEF FirstRunInv
<1>7. rpc'[r] \in PastStart => BegunNext(rjob'[r])
  <2>1. CASE rpc[r] \in PastStart /\ rjob'[r] = rjob[r]
    BY <1>1, <1>2, <1>3, <2>1, BegunStays DEF FirstRunInv
  <2>2. CASE rpc'[r] \notin PastStart
    BY <2>2
  <2>3. ASSUME NEW j \in Job, rjob'[r] = j, CancelJob(j) \/ RetryJob(j)
        PROVE  BegunNext(rjob'[r])
    <3>1. RetryJob(j) => "retry_scheduled" \in events'[j]
      BY <1>2 DEF RetryJob, Log, StoreTypeOK
    <3> QED  BY <1>2, <2>3, <3>1, StatusAfter DEF BegunNext
  <2> QED
    BY <1>2, <2>1, <2>2, <2>3
       DEF NewRequest, CreateJob, CreateError, StartCancel, StartRetry, StartError, Begin,
           RequestStep, CreateEvent, Push, Remove, CancelRelease, Proceed, Fault, PastStart
<1> QED  BY <1>4, <1>6, <1>7 DEF FirstRunInv, Begun, BegunNext

\* Every step keeps it.
LEMMA FirstRunStep ==
    ASSUME BaseInv, ReadyInv, FirstRunInv, [Next]_vars
    PROVE  FirstRunInv'
<1>1. CASE faults' # 0
  BY <1>1 DEF FirstRunInv
<1>2. CASE UNCHANGED <<jobs, events, wpc, wjob, rpc, rjob, faults>>
  BY <1>2 DEF FirstRunInv, Begun
<1>3. ASSUME NEW R \in SUBSET Request, Abandon(R)
      PROVE  FirstRunInv'
  BY <1>1, <1>3, OrchestratorAssumption DEF Abandon, Fault, BaseInv, ProcessTypeOK
<1>4. ASSUME NEW j \in Job, Expire(j)
      PROVE  FirstRunInv'
  BY <1>2, <1>4 DEF Expire, storeVars, workerVars, requestVars
<1>5. CASE UNCHANGED vars
  BY <1>2, <1>5 DEF vars, storeVars, workerVars, requestVars
<1> QED  BY <1>1, <1>3, <1>4, <1>5, WorkerPastClaim, RequestPastStart DEF Next

\* Neither of the steps that lose a job loses one never retried.
LEMMA FirstRunReachableStep ==
    ASSUME BaseInv, LeaseInv, ReadyInv, FirstRunInv, FirstRunReachable, [Next]_vars
    PROVE  FirstRunReachable'
<1> SUFFICES ASSUME NEW j \in Job, faults' = 0, jobs'[j].status = "queued",
                    "retry_scheduled" \notin events'[j]
             PROVE  Reachable(j)'
  BY DEF FirstRunReachable
<1>1. faults = 0
  BY StepShape DEF Shape, Quiet, KeepsRuns, Claiming, Recording, Finishing
<1>2. "retry_scheduled" \notin events[j]
  BY NextIsStoreStep, JobMoves DEF BaseInv
<1>3. jobs[j].status = "queued" => Reachable(j)
  BY <1>1, <1>2 DEF FirstRunReachable
<1>4. CASE LateCancel(j) \/ HeldLease(j)
  <2>1. Exists(j)
    BY <1>4, OrchestratorAssumption
       DEF LateCancel, HeldLease, BaseInv, ProcessTypeOK, ReadyInv, NamesExist, InFlight
  <2>2. ~Begun(j)
    BY <2>1, BegunStays DEF BegunNext
  <2>3. ~LateCancel(j)
    BY <1>1, <2>2 DEF LateCancel, FirstRunInv, PastStart
  <2>4. PICK w \in Worker : /\ wpc[w] = "lease" /\ wjob[w] = j /\ lease[j] # NoWorker
                            /\ \A v \in Worker \ {w} : wpc'[v] = wpc[v] /\ wjob'[v] = wjob[v]
    BY <1>4, <2>3 DEF HeldLease
  <2>5. lease[j] \in Worker \ {w} /\ wjob[lease[j]] = j /\ wpc[lease[j]] # "lease"
    BY <1>1, <2>4 DEF LeaseInv, LeaseNotLeaked
  <2>6. wpc[lease[j]] \in PastClaim \cup {"claim"}
    BY <2>5, OrchestratorAssumption DEF BaseInv, ProcessTypeOK, WorkerPC, PastClaim
  <2>7. wpc[lease[j]] = "claim"
    BY <1>1, <2>2, <2>5, <2>6 DEF FirstRunInv
  <2> QED  BY <2>4, <2>5, <2>7 DEF Reachable
<1> QED  BY <1>1, <1>3, <1>4, QueuedHandedOn DEF Handed

\* While nothing has failed, a job never retried is not lost between the table and
\* the list, however many workers and requests there are.
THEOREM FirstRunsReachable == Spec => []FirstRunReachable
<1>1. Init => FirstRunInv /\ FirstRunReachable
  BY DEF Init, StoreInit, NoJob, FirstRunInv, FirstRunReachable, PastClaim, PastStart
<1>2. BaseInv /\ ReadyInv /\ FirstRunInv /\ [Next]_vars => FirstRunInv'
  BY FirstRunStep
<1>3. BaseInv /\ LeaseInv /\ ReadyInv /\ FirstRunInv /\ FirstRunReachable /\ [Next]_vars => FirstRunReachable'
  BY FirstRunReachableStep
<1> QED  BY <1>1, <1>2, <1>3, BaseInvariant, LeaseInvariant, ReadyInvariant, PTL DEF Spec

(***************************************************************************)
(* One request at a time.  Then no retry comes between a cancel and its    *)
(* removal of entries, and no job is pushed while it is in the list: a     *)
(* created job is new, and a retry has removed the entries there were.     *)
(***************************************************************************)
CancelEnds ==
    faults = 0 => \A r \in Request : rpc[r] = "cancelRemove" => jobs[rjob[r]].status # "queued"

PushesOnce ==
    faults = 0 => /\ Distinct(ready)
                  /\ \A r \in Request : rpc[r] \in {"createEvent", "createPush", "retryPush"}
                                           => rjob[r] \notin Entries(ready)

\* An operator who waits for each answer is one of the callers Spec allows.
LEMMA SerialIsSpec == SerialSpec => Spec /\ []OneInFlight
<1>1. Init => OneInFlight
  BY DEF Init, OneInFlight, InFlight
<1>2. [Next /\ OneInFlight']_vars => [Next]_vars
  OBVIOUS
<1>3. OneInFlight /\ [Next /\ OneInFlight']_vars => OneInFlight'
  BY DEF vars, requestVars, OneInFlight, InFlight
<1> QED  BY <1>1, <1>2, <1>3, PTL DEF SerialSpec, Spec

\* A transaction that has not failed leaves its request in flight.
LEMMA StartedInFlight ==
    ASSUME BaseInv, NEW r \in Request, NewRequest(r), faults' = 0, jobs' # jobs
    PROVE  InFlight(r)'
<1>1. faults \in Nat /\ rpc \in [Request -> RequestPC]
  BY OrchestratorAssumption DEF BaseInv, ProcessTypeOK
<1>2. \E label \in {"createEvent", "cancelRemove", "retryRemove"} : rpc' = [rpc EXCEPT ![r] = label]
  BY <1>1
     DEF NewRequest, CreateJob, CreateError, StartCancel, StartRetry, StartError, Begin, Fault,
         storeVars
<1> QED  BY <1>1, <1>2 DEF InFlight

\* While a cancel is about to remove the entries, nobody retries its job.
LEMMA CancelEndsStep ==
    ASSUME BaseInv, CancelEnds, OneInFlight', [Next]_vars
    PROVE  CancelEnds'
<1> SUFFICES ASSUME NEW r \in Request, faults' = 0, rpc'[r] = "cancelRemove"
             PROVE  jobs'[rjob'[r]].status # "queued"
  BY DEF CancelEnds
<1>1. /\ rjob \in [Request -> Job \cup {NoId}] /\ rpc \in [Request -> RequestPC]
      /\ StoreTypeOK /\ faults \in Nat
      /\ rpc[r] = "cancelRemove" => rjob[r] \in Job
  BY OrchestratorAssumption DEF BaseInv, ProcessTypeOK, InFlight
<1>2. faults = 0
  BY StepShape DEF Shape, Quiet, KeepsRuns, Claiming, Recording, Finishing
<1>3. CASE rpc[r] = "cancelRemove" /\ rjob'[r] = rjob[r] /\ jobs' = jobs
  BY <1>2, <1>3 DEF CancelEnds
<1>4. ASSUME NEW w \in Worker, WorkerStep(w) \/ Stop(w) \/ Restart(w)
      PROVE  jobs'[rjob'[r]].status # "queued"
  <2>1. UNCHANGED requestVars
    BY <1>4, WorkerKeepsRequests
  <2>2. rpc[r] = "cancelRemove" /\ rjob'[r] = rjob[r] /\ rjob[r] \in Job
    BY <1>1, <2>1 DEF requestVars
  <2>3. jobs[rjob[r]].status # "queued"
    BY <1>2, <2>2 DEF CancelEnds
  <2> QED  BY <1>4, <2>2, <2>3, WorkerQueuesNothing
<1>5. ASSUME NEW q \in Request, NewRequest(q)
      PROVE  jobs'[rjob'[r]].status # "queued"
  <2>1. CASE q = r
    <3>1. PICK j \in Job : CancelJob(j) /\ rjob' = [rjob EXCEPT ![r] = j]
      BY <1>1, <1>5, <2>1
         DEF NewRequest, CreateJob, CreateError, StartCancel, StartRetry, StartError, Begin
    <3> QED  BY <1>1, <3>1, StatusAfter
  <2>2. CASE q # r
    <3>1. ~InFlight(q)'
      BY <2>2 DEF OneInFlight, InFlight
    <3>2. rpc[r] = "cancelRemove" /\ rjob'[r] = rjob[r]
      BY <1>1, <1>5, <2>2
         DEF NewRequest, CreateJob, CreateError, StartCancel, StartRetry, StartError, Begin
    <3> QED  BY <1>3, <1>5, <3>1, <3>2, StartedInFlight
  <2> QED  BY <2>1, <2>2
<1>6. ASSUME NEW q \in Request, RequestStep(q)
      PROVE  jobs'[rjob'[r]].status # "queued"
  BY <1>1, <1>3, <1>6
     DEF RequestStep, CreateEvent, AppendEvent, Push, Remove, CancelRelease, Proceed, storeVars
<1>7. ASSUME NEW R \in SUBSET Request, Abandon(R)
      PROVE  jobs'[rjob'[r]].status # "queued"
  BY <1>1, <1>7 DEF Abandon, Fault
<1>8. ASSUME NEW j \in Job, Expire(j)
      PROVE  jobs'[rjob'[r]].status # "queued"
  BY <1>3, <1>8 DEF Expire, storeVars, requestVars
<1>9. CASE UNCHANGED vars
  BY <1>3, <1>9 DEF vars, storeVars, requestVars
<1> QED  BY <1>4, <1>5, <1>6, <1>7, <1>8, <1>9 DEF Next

\* The removal that ends a cancel changes no table.
LEMMA LateCancelKeepsJobs ==
    ASSUME [Next]_vars, NEW r \in Request, rpc[r] = "cancelRemove", rpc'[r] = "cancelRelease",
           rpc \in [Request -> RequestPC]
    PROVE  jobs' = jobs
<1>1. CASE rpc' = rpc
  BY <1>1
<1>2. ASSUME NEW q \in Request, NewRequest(q)
      PROVE  FALSE
  BY <1>2 DEF NewRequest, CreateJob, CreateError, StartCancel, StartRetry, StartError, Begin
<1>3. ASSUME NEW q \in Request, RequestStep(q)
      PROVE  jobs' = jobs
  BY <1>3 DEF RequestStep, CreateEvent, AppendEvent, Push, Remove, CancelRelease, storeVars
<1>4. ASSUME NEW R \in SUBSET Request, Abandon(R)
      PROVE  jobs' = jobs
  BY <1>4 DEF Abandon, storeVars
<1> QED
  BY <1>1, <1>2, <1>3, <1>4, WorkerKeepsRequests DEF Next, Expire, vars, requestVars

\* With one worker and one request at a time neither step that loses a job is there.
LEMMA QueuedReachableStep ==
    ASSUME \A v, w \in Worker : v = w,
           BaseInv, LeaseInv, ReadyInv, CancelEnds, QueuedReachable, [Next]_vars
    PROVE  QueuedReachable'
<1> SUFFICES ASSUME NEW j \in Job, faults' = 0, jobs'[j].status = "queued"
             PROVE  Reachable(j)'
  BY DEF QueuedReachable
<1>1. faults = 0
  BY StepShape DEF Shape, Quiet, KeepsRuns, Claiming, Recording, Finishing
<1>2. jobs[j].status = "queued" => Reachable(j)
  BY <1>1 DEF QueuedReachable
<1>3. Handed(j)
  BY <1>1, <1>2, QueuedHandedOn
<1>4. ~LateCancel(j)
  <2> SUFFICES ASSUME NEW r \in Request, rpc[r] = "cancelRemove", rpc'[r] = "cancelRelease", rjob[r] = j
               PROVE  FALSE
    BY DEF LateCancel
  <2>1. jobs[j].status # "queued"
    BY <1>1 DEF CancelEnds
  <2>2. jobs' = jobs
    BY LateCancelKeepsJobs DEF BaseInv, ProcessTypeOK
  <2> QED  BY <2>1, <2>2
<1>5. ~HeldLease(j)
  BY <1>1 DEF HeldLease, LeaseInv, LeaseNotLeaked
<1> QED  BY <1>3, <1>4, <1>5 DEF Handed

\* While nothing has failed, one worker and an operator who waits for each answer
\* lose no queued job, however often it is retried.
THEOREM QueuedJobsReachable ==
    ASSUME \A v, w \in Worker : v = w
    PROVE  SerialSpec => []QueuedReachable
<1>1. Init => CancelEnds /\ QueuedReachable
  BY DEF Init, StoreInit, NoJob, CancelEnds, QueuedReachable
<1>2. BaseInv /\ CancelEnds /\ OneInFlight' /\ [Next]_vars => CancelEnds'
  BY CancelEndsStep
<1>3. BaseInv /\ LeaseInv /\ ReadyInv /\ CancelEnds /\ QueuedReachable /\ [Next]_vars => QueuedReachable'
  BY QueuedReachableStep
<1> QED
  BY <1>1, <1>2, <1>3, SerialIsSpec, BaseInvariant, LeaseInvariant, ReadyInvariant, PTL DEF Spec

\* Every step keeps the entries of a job from coming twice.
LEMMA PushesOnceStep ==
    ASSUME BaseInv, ReadyInv, PushesOnce, OneInFlight, [Next]_vars
    PROVE  PushesOnce'
<1> SUFFICES ASSUME faults' = 0
             PROVE  /\ Distinct(ready')
                    /\ \A q \in Request : rpc'[q] \in {"createEvent", "createPush", "retryPush"}
                                             => rjob'[q] \notin Entries(ready')
  BY DEF PushesOnce, Distinct, Entries
<1>1. /\ rjob \in [Request -> Job \cup {NoId}] /\ rpc \in [Request -> RequestPC]
      /\ ready \in Seq(Job) /\ faults \in Nat
  BY OrchestratorAssumption DEF BaseInv, ProcessTypeOK, ReadyInv
<1>2. faults = 0
  BY StepShape DEF Shape, Quiet, KeepsRuns, Claiming, Recording, Finishing
<1>3. /\ Distinct(ready)
      /\ \A q \in Request : rpc[q] \in {"createEvent", "createPush", "retryPush"}
                               => rjob[q] \notin Entries(ready)
  BY <1>2 DEF PushesOnce
<1>4. CASE UNCHANGED <<ready, rpc, rjob>>
  BY <1>3, <1>4
<1>5. ASSUME NEW w \in Worker, WorkerStep(w) \/ Stop(w) \/ Restart(w)
      PROVE  /\ Distinct(ready')
             /\ \A q \in Request : rpc'[q] \in {"createEvent", "createPush", "retryPush"}
                                      => rjob'[q] \notin Entries(ready')
  <2>1. UNCHANGED requestVars
    BY <1>5, WorkerKeepsRequests
  <2>2. Entries(ready') \subseteq Entries(ready) /\ Distinct(ready')
    BY <1>1, <1>3, <1>5, WorkerPops
  <2> QED  BY <1>3, <2>1, <2>2 DEF requestVars
<1>6. ASSUME NEW r \in Request, NewRequest(r)
      PROVE  /\ Distinct(ready')
             /\ \A q \in Request : rpc'[q] \in {"createEvent", "createPush", "retryPush"}
                                      => rjob'[q] \notin Entries(ready')
  <2>1. ready' = ready /\ \A q \in Request \ {r} : rpc'[q] = rpc[q] /\ rjob'[q] = rjob[q]
    BY <1>1, <1>6
       DEF NewRequest, CreateJob, CreateError, StartCancel, StartRetry, StartError, Begin,
           queueVars
  <2>2. rpc'[r] \in {"createEvent", "createPush", "retryPush"} =>
           \E j \in Job : ~Exists(j) /\ rjob'[r] = j
    BY <1>1, <1>6
       DEF NewRequest, CreateJob, InsertJob, CreateError, StartCancel, StartRetry, StartError, Begin
  <2>3. \A j \in Job : ~Exists(j) => j \notin Entries(ready)
    BY DEF ReadyInv, NamesExist
  <2> QED  BY <1>3, <2>1, <2>2, <2>3
<1>7. ASSUME NEW r \in Request, RequestStep(r)
      PROVE  /\ Distinct(ready')
             /\ \A q \in Request : rpc'[q] \in {"createEvent", "createPush", "retryPush"}
                                      => rjob'[q] \notin Entries(ready')
  <2>1. InFlight(r) /\ rjob[r] \in Job /\ rjob' = rjob /\ \A q \in Request \ {r} : rpc'[q] = rpc[q]
    <3>1. InFlight(r) /\ rjob' = rjob /\ \A q \in Request \ {r} : rpc'[q] = rpc[q]
      BY <1>1, <1>7 DEF RequestStep, CreateEvent, Push, Remove, CancelRelease, Proceed, InFlight
    <3> QED  BY <3>1 DEF BaseInv, ProcessTypeOK
  <2>2. \A q \in Request \ {r} : rpc'[q] \notin {"createEvent", "createPush", "retryPush"}
    BY <2>1 DEF OneInFlight, InFlight
  <2>3. CASE CreateEvent(r)
    BY <1>1, <1>3, <2>1, <2>2, <2>3 DEF CreateEvent, Proceed, queueVars
  <2>4. CASE Push(r)
    <3>1. EnqueueJob(rjob[r]) /\ rpc[r] \in {"createPush", "retryPush"} /\ rpc'[r] = "answered"
      BY <1>1, <2>4 DEF Push, Proceed, Fault
    <3>2. Distinct(ready')
      BY <1>1, <1>3, <2>1, <3>1, PushEntries DEF EnqueueJob
    <3> QED  BY <2>2, <3>1, <3>2
  <2>5. CASE Remove(r)
    <3>1. RemoveQueuedJob(rjob[r])
      BY <1>1, <2>5 DEF Remove, Fault
    <3> QED  BY <1>1, <1>3, <2>1, <2>2, <3>1, WithoutEntries DEF RemoveQueuedJob
  <2>6. CASE CancelRelease(r)
    BY <1>1, <1>3, <2>2, <2>6 DEF CancelRelease, Proceed, ReleaseLease, queueVars
  <2> QED  BY <1>7, <2>3, <2>4, <2>5, <2>6 DEF RequestStep
<1>8. ASSUME NEW R \in SUBSET Request, Abandon(R)
      PROVE  FALSE
  BY <1>1, <1>8 DEF Abandon, Fault
<1>9. ASSUME NEW j \in Job, Expire(j)
      PROVE  UNCHANGED <<ready, rpc, rjob>>
  BY <1>9 DEF Expire, LeaseExpires, ReleaseLease, requestVars
<1>10. CASE UNCHANGED vars
  BY <1>4, <1>10 DEF vars, queueVars, requestVars
<1> QED  BY <1>4, <1>5, <1>6, <1>7, <1>8, <1>9, <1>10 DEF Next

\* While nothing has failed, one request at a time leaves no job in the list twice,
\* however many workers there are.
THEOREM EntriesDistinct == SerialSpec => []NoDuplicateEntries
<1>1. Init => PushesOnce
  BY DEF Init, QueueInit, PushesOnce, Distinct
<1>2. BaseInv /\ ReadyInv /\ PushesOnce /\ OneInFlight /\ [Next]_vars => PushesOnce'
  BY PushesOnceStep
<1>3. PushesOnce => NoDuplicateEntries
  BY DEF PushesOnce, Distinct, NoDuplicateEntries
<1> QED
  BY <1>1, <1>2, <1>3, SerialIsSpec, BaseInvariant, ReadyInvariant, PTL DEF Spec

(***************************************************************************)
(* How often a job runs.  A claim takes the job out of the queue, and only *)
(* a request of its own, the create or a retry, puts it there; so each     *)
(* attempt, and the one a queued job waits for, has a request behind it.   *)
(***************************************************************************)
Asked(j) == {r \in Request : rjob[r] = j}
Due(j) == jobs[j].attempt + (IF jobs[j].status = "queued" THEN 1 ELSE 0)

AttemptsAsked == \A j \in Job : Due(j) <= Cardinality(Asked(j))
NewNamesNone == \A r \in Request : rpc[r] = "new" => rjob[r] = NoId

\* A statement adds no attempt that was not due, unless it queues a job.
LEMMA DueStep ==
    ASSUME StoreTypeOK, [StoreNext]_storeVars, NEW j \in Job
    PROVE  /\ Due(j) \in Nat /\ Due(j)' \in Nat
           /\ \/ Due(j)' <= Due(j)
              \/ /\ jobs[j].status # "queued" /\ jobs'[j].status = "queued"
                 /\ Due(j)' <= Due(j) + 1
<1>1. jobs[j] \in JobRow /\ jobs[j].attempt \in Nat
  BY StoreAssumption DEF StoreTypeOK, JobRow
<1>2. \A row : SetJob(j, row) => jobs'[j] = row
  BY DEF SetJob, StoreTypeOK
<1>3. CASE jobs'[j] = jobs[j]
  BY <1>1, <1>3 DEF Due
<1>4. ASSUME jobs'[j].attempt = jobs[j].attempt
      PROVE  /\ Due(j) \in Nat /\ Due(j)' \in Nat
             /\ \/ Due(j)' <= Due(j)
                \/ /\ jobs[j].status # "queued" /\ jobs'[j].status = "queued"
                   /\ Due(j)' <= Due(j) + 1
  BY <1>1, <1>4 DEF Due
<1>5. CASE jobs'[j] # jobs[j]
  <2>1. PICK i \in Job : JobStep(i)
    BY <1>5 DEF StoreNext, JobStep, storeVars
  <2>2. i = j
    BY <1>5, <2>1, OtherJobsKept
  <2>3. CASE \E key \in IdemKey \cup {NoKey} : InsertJob(j, key)
    <3>1. jobs'[j].attempt = 0 /\ jobs'[j].status = "queued" /\ jobs[j].status # "queued"
      BY <1>2, <2>3 DEF InsertJob, NoJob, Exists
    <3> QED  BY <1>1, <3>1 DEF Due
  <2>4. CASE CancelJob(j) \/ RetryJob(j) \/ MarkJobSucceeded(j) \/ MarkJobFailed(j)
    <3>1. jobs'[j].attempt = jobs[j].attempt
      BY <1>1, <1>2, <2>4 DEF CancelJob, RetryJob, MarkJobSucceeded, MarkJobFailed, JobRow
    <3> QED  BY <1>4, <3>1
  <2>5. CASE MarkJobRunning(j)
    <3>1. /\ jobs[j].status = "queued" /\ jobs'[j].status = "running"
          /\ jobs'[j].attempt = jobs[j].attempt + 1
      BY <1>1, <1>2, <2>5 DEF MarkJobRunning, JobRow
    <3> QED  BY <1>1, <3>1 DEF Due
  <2> QED  BY <1>5, <2>1, <2>2, <2>3, <2>4, <2>5 DEF JobStep, AppendEvent, InsertAttempt
<1> QED  BY <1>3, <1>5

\* A job gets into the queue by a request that did not name it before.
LEMMA QueuedByRequest ==
    ASSUME BaseInv, [Next]_vars, NEW j \in Job,
           jobs[j].status # "queued", jobs'[j].status = "queued"
    PROVE  \E r \in Request : rpc[r] = "new" /\ rjob'[r] = j
<1>1. /\ StoreTypeOK /\ rjob \in [Request -> Job \cup {NoId}]
  BY DEF BaseInv, ProcessTypeOK
<1>2. jobs' # jobs
  OBVIOUS
<1>3. PICK r \in Request : NewRequest(r)
  BY <1>2, WorkerQueuesNothing
     DEF Next, RequestStep, CreateEvent, AppendEvent, Push, Remove, CancelRelease, Abandon, Expire,
         vars, storeVars
<1>4. PICK i \in Job : JobStep(i) /\ rpc[r] = "new" /\ rjob' = [rjob EXCEPT ![r] = i]
  BY <1>2, <1>3
     DEF NewRequest, CreateJob, CreateError, StartCancel, StartRetry, StartError, Begin, JobStep,
         storeVars
<1>5. i = j
  BY <1>1, <1>4, OtherJobsKept
<1> QED  BY <1>1, <1>4, <1>5

\* A request names one job for good.
LEMMA RequestsStay ==
    ASSUME BaseInv, NewNamesNone, [Next]_vars
    PROVE  NewNamesNone' /\ \A r \in Request : rjob[r] # NoId => rjob'[r] = rjob[r]
<1>1. rjob \in [Request -> Job \cup {NoId}] /\ rpc \in [Request -> RequestPC]
  BY DEF BaseInv, ProcessTypeOK
<1>2. CASE UNCHANGED requestVars
  BY <1>2 DEF requestVars, NewNamesNone
<1>3. ASSUME NEW r \in Request, NewRequest(r)
      PROVE  NewNamesNone' /\ \A q \in Request : rjob[q] # NoId => rjob'[q] = rjob[q]
  BY <1>1, <1>3
     DEF NewRequest, CreateJob, CreateError, StartCancel, StartRetry, StartError, Begin, NewNamesNone
<1>4. ASSUME NEW r \in Request, RequestStep(r)
      PROVE  NewNamesNone' /\ rjob' = rjob
  BY <1>1, <1>4
     DEF RequestStep, CreateEvent, Push, Remove, CancelRelease, Proceed, NewNamesNone
<1>5. ASSUME NEW R \in SUBSET Request, Abandon(R)
      PROVE  NewNamesNone' /\ rjob' = rjob
  BY <1>1, <1>5 DEF Abandon, NewNamesNone
<1> QED
  BY <1>2, <1>3, <1>4, <1>5, WorkerKeepsRequests DEF Next, Expire, vars, requestVars

\* Every step keeps the attempts within the requests.
LEMMA AttemptsAskedStep ==
    ASSUME IsFiniteSet(Request), BaseInv, NewNamesNone, AttemptsAsked, [Next]_vars
    PROVE  AttemptsAsked'
<1> SUFFICES ASSUME NEW j \in Job
             PROVE  Due(j)' <= Cardinality(Asked(j)')
  BY DEF AttemptsAsked
<1>1. StoreTypeOK /\ [StoreNext]_storeVars
  BY NextIsStoreStep DEF BaseInv
<1>2. IsFiniteSet(Asked(j)) /\ IsFiniteSet(Asked(j)')
  BY FS_Subset DEF Asked
<1>3. /\ Cardinality(Asked(j)) \in Nat /\ Cardinality(Asked(j)') \in Nat
      /\ Due(j) \in Nat /\ Due(j)' \in Nat
      /\ Due(j) <= Cardinality(Asked(j))
  BY <1>1, <1>2, FS_CardinalityType, DueStep DEF AttemptsAsked
<1>4. Asked(j) \subseteq Asked(j)'
  BY RequestsStay, OrchestratorAssumption DEF Asked
<1>5. Cardinality(Asked(j)) <= Cardinality(Asked(j)')
  BY <1>2, <1>4, FS_Subset
<1>6. CASE Due(j)' <= Due(j)
  BY <1>3, <1>5, <1>6
<1>7. CASE /\ jobs[j].status # "queued" /\ jobs'[j].status = "queued"
           /\ Due(j)' <= Due(j) + 1
  <2>1. PICK r \in Request : rpc[r] = "new" /\ rjob'[r] = j
    BY <1>7, QueuedByRequest
  <2>2. r \in Asked(j)' /\ r \notin Asked(j)
    BY <2>1, OrchestratorAssumption DEF Asked, NewNamesNone
  <2>3. Cardinality(Asked(j)) # Cardinality(Asked(j)')
    BY <1>2, <1>4, <2>2, FS_Subset
  <2> QED  BY <1>3, <1>5, <1>7, <2>3
<1> QED  BY <1>1, <1>6, <1>7, DueStep

\* No job runs more often than requests have asked: whatever fails and however
\* often its entry is in the list, each attempt, and the one a queued job waits for,
\* has its own create or retry.
THEOREM RunsAreAskedFor ==
    ASSUME IsFiniteSet(Request)
    PROVE  Spec => []AttemptsAsked
<1>1. Init => AttemptsAsked /\ NewNamesNone
  <2>1. \A j \in Job : IsFiniteSet(Asked(j)) /\ Cardinality(Asked(j)) \in Nat
    BY FS_Subset, FS_CardinalityType DEF Asked
  <2> QED  BY <2>1 DEF Init, StoreInit, NoJob, AttemptsAsked, NewNamesNone, Due
<1>2. BaseInv /\ NewNamesNone /\ [Next]_vars => NewNamesNone'
  BY RequestsStay
<1>3. BaseInv /\ NewNamesNone /\ AttemptsAsked /\ [Next]_vars => AttemptsAsked'
  BY AttemptsAskedStep
<1> QED  BY <1>1, <1>2, <1>3, BaseInvariant, PTL DEF Spec

\* So a bound on attempts that is no less than the number of requests never keeps
\* a worker from a claim: the runs lose no behaviour by it.
THEOREM BoundNeverBlocks ==
    ASSUME IsFiniteSet(Request), Cardinality(Request) <= MaxAttempt
    PROVE  Spec => [](\A j \in Job : jobs[j].status = "queued" => jobs[j].attempt < MaxAttempt)
<1>1. ASSUME BaseInv, AttemptsAsked, NEW j \in Job, jobs[j].status = "queued"
      PROVE  jobs[j].attempt < MaxAttempt
  <2>1. jobs[j].attempt \in Nat /\ MaxAttempt \in Nat
    BY <1>1, StoreAssumption DEF BaseInv, StoreTypeOK, JobRow
  <2>2. Cardinality(Asked(j)) \in Nat /\ Cardinality(Request) \in Nat
        /\ Cardinality(Asked(j)) <= Cardinality(Request)
    BY FS_Subset, FS_CardinalityType DEF Asked
  <2>3. jobs[j].attempt + 1 <= Cardinality(Asked(j))
    BY <1>1 DEF AttemptsAsked, Due
  <2> QED  BY <2>1, <2>2, <2>3
<1>2. BaseInv /\ AttemptsAsked =>
        \A j \in Job : jobs[j].status = "queued" => jobs[j].attempt < MaxAttempt
  BY <1>1
<1> QED  BY <1>2, BaseInvariant, RunsAreAskedFor, PTL
=============================================================================
