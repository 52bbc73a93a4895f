------------------------- MODULE OrchestratorProofs -------------------------
(***************************************************************************)
(* What the running system keeps for every number of workers, requests and *)
(* faults: its steps are statements of the store, no attempt is run twice, *)
(* and a worker is stale only in a job that has been cancelled.            *)
(***************************************************************************)
EXTENDS Orchestrator, JobStoreProofs

\* The invariant that says which job and attempt a process is about.
BaseInv == StoreTypeOK /\ StoreInv /\ ProcessTypeOK /\ HandedOut

(***************************************************************************)
(* The shapes of a step, as the store and the running attempts see it.     *)
(***************************************************************************)
OthersKept(w) ==
    \A v \in Worker \ {w} :
        wpc'[v] = wpc[v] /\ wjob'[v] = wjob[v] /\ wattempt'[v] = wattempt[v]

\* No worker starts to run a job.
KeepsClaims ==
    \A v \in Worker :
        Executing(v)' => Executing(v) /\ wjob'[v] = wjob[v] /\ wattempt'[v] = wattempt[v]

\* Unless something fails, no worker stops running its job either.
KeepsRuns == faults' = 0 => faults = 0 /\ \A v \in Worker : Executing(v) => Executing(v)'

Claiming(w) ==
    /\ wpc[w] = "claim" /\ wpc'[w] = "record"
    /\ wjob[w] \in Job /\ wjob'[w] = wjob[w]
    /\ wattempt'[w] = jobs[wjob[w]].attempt + 1
    /\ MarkJobRunning(wjob[w])
    /\ OthersKept(w)
    /\ faults' = faults

Recording(w) ==
    /\ wpc[w] = "record" /\ wjob[w] \in Job
    /\ InsertAttempt(wjob[w], wattempt[w])
    /\ KeepsClaims /\ KeepsRuns

Finishing(w) ==
    /\ wjob[w] \in Job
    /\ wpc[w] \in {"succeed", "fail"} /\ wpc'[w] = "release"
    /\ \/ MarkJobSucceeded(wjob[w]) \/ MarkJobFailed(wjob[w])
       \/ ~Running(wjob[w]) /\ UNCHANGED storeVars
       \/ UNCHANGED storeVars /\ faults' # 0
       \/ UNCHANGED storeVars /\ \E v \in Worker \ {w} : /\ wpc[v] = "record"
                                                        /\ wjob[v] = wjob[w]
                                                        /\ wattempt[v] = jobs[wjob[w]].attempt
    /\ OthersKept(w)
    /\ faults' = 0 => faults = 0

Quiet ==
    /\ KeepsClaims /\ KeepsRuns
    /\ \/ UNCHANGED storeVars
       \/ \E j \in Job : \/ \E key \in IdemKey \cup {NoKey} : InsertJob(j, key)
                         \/ \E kind \in {"created", "started"} : AppendEvent(j, kind)
                         \/ CancelJob(j)
                         \/ RetryJob(j)
                         \/ MarkJobRunning(j) /\ faults' # 0

Shape == Quiet \/ \E w \in Worker : Claiming(w) \/ Recording(w) \/ Finishing(w)

\* Every step of a worker has one of the shapes.
LEMMA WorkerShape ==
    ASSUME BaseInv, NEW w \in Worker, WorkerStep(w) \/ Stop(w) \/ Restart(w)
    PROVE  Shape
<1> USE OrchestratorAssumption DEF BaseInv, ProcessTypeOK
<1>1. ASSUME UNCHANGED storeVars, OthersKept(w), ~Executing(w)', ~Executing(w) \/ faults' # 0,
             faults' = 0 => faults = 0
      PROVE  Shape
  BY <1>1 DEF Shape, Quiet, KeepsClaims, KeepsRuns, OthersKept, Executing
<1>2. ASSUME \/ UNCHANGED storeVars
             \/ wjob[w] \in Job /\ AppendEvent(wjob[w], "started")
             \/ wjob[w] \in Job /\ MarkJobRunning(wjob[w]) /\ faults' # 0,
             OthersKept(w), wjob'[w] = wjob[w], wattempt'[w] = wattempt[w],
             Executing(w)' => Executing(w), faults' # 0 \/ (Executing(w) => Executing(w)'),
             faults' = 0 => faults = 0
      PROVE  Shape
  BY <1>2 DEF Shape, Quiet, KeepsClaims, KeepsRuns, OthersKept, Executing
<1>3. CASE IdleBeat(w) \/ HeartbeatTick(w) \/ Dequeue(w) \/ DequeueError(w)
  BY <1>3, <1>1
     DEF IdleBeat, HeartbeatTick, Dequeue, DequeueError, workerVars, Goto, Continue, LeaveJob,
         OthersKept, Executing, Fault, NoFault
<1>4. CASE Lease(w) \/ LeaseError(w)
  BY <1>4, <1>1
     DEF Lease, LeaseError, Goto, Continue, LeaveJob, OthersKept, Executing, Fault, NoFault
<1>5. CASE Claim(w) \/ ClaimError(w)
  <2>1. wpc[w] = "claim" /\ wjob[w] \in Job /\ wjob' = wjob /\ jobs[wjob[w]] \in JobRow
    BY <1>5 DEF Claim, ClaimError, Continue, WorkerPC, StoreTypeOK
  <2>2. CASE Claim(w) /\ MarkJobRunning(wjob[w])
    <3>1. wpc' = [wpc EXCEPT ![w] = "record"] /\ UNCHANGED faults
      BY <2>1, <2>2 DEF Claim, Goto, MarkJobRunning
    <3>2. wattempt' = [wattempt EXCEPT ![w] = jobs'[wjob[w]].attempt]
      BY <2>1, <2>2 DEF Claim, MarkJobRunning
    <3>3. jobs'[wjob[w]].attempt = jobs[wjob[w]].attempt + 1
      BY <2>1, <2>2 DEF MarkJobRunning, SetJob, StoreTypeOK, JobRow
    <3>4. Claiming(w)
      BY <2>1, <2>2, <3>1, <3>2, <3>3 DEF Claiming, OthersKept
    <3> QED  BY <3>4 DEF Shape
  <2>3. CASE Claim(w) /\ ~MarkJobRunning(wjob[w])
    BY <2>1, <2>3, <1>2 DEF Claim, Goto, OthersKept, Executing
  <2>4. CASE ClaimError(w)
    BY <2>1, <2>4, <1>2 DEF ClaimError, Continue, Goto, Fault, OthersKept, Executing
  <2> QED  BY <1>5, <2>2, <2>3, <2>4
<1>6. CASE Record(w) \/ RecordError(w)
  <2>1. /\ wpc[w] = "record" /\ wjob[w] \in Job /\ UNCHANGED <<wjob, wattempt>>
        /\ \E label \in {"announce", "drop"} : wpc' = [wpc EXCEPT ![w] = label]
        /\ wpc'[w] = "drop" => faults' # 0
        /\ faults' = 0 => faults = 0
    BY <1>6 DEF Record, RecordError, Continue, Goto, Fault, WorkerPC
  <2>2. KeepsClaims /\ KeepsRuns
    BY <2>1 DEF KeepsClaims, KeepsRuns, Executing
  <2>3. UNCHANGED storeVars \/ InsertAttempt(wjob[w], wattempt[w])
    BY <1>6 DEF Record, RecordError
  <2> QED  BY <2>1, <2>2, <2>3 DEF Shape, Quiet, Recording
<1>7. CASE Announce(w) \/ AnnounceError(w)
  BY <1>7, <1>2
     DEF Announce, AnnounceError, Goto, Continue, LeaveJob, OthersKept, Executing, Fault,
         NoFault
<1>8. CASE BusyBeat(w) \/ Execute(w)
  BY <1>8, <1>2
     DEF BusyBeat, Execute, Goto, Continue, LeaveJob, OthersKept, Executing, Fault, NoFault
<1>9. CASE Finish(w) \/ FinishConflict(w) \/ FinishError(w)
  <2>1. /\ wpc[w] \in {"succeed", "fail"} /\ wjob[w] \in Job
        /\ wpc' = [wpc EXCEPT ![w] = "release"] /\ UNCHANGED <<wjob, wattempt>>
        /\ faults' = 0 => faults = 0
    BY <1>9 DEF Finish, FinishConflict, FinishError, StoreOutcome, Continue, Goto, Fault, WorkerPC
  <2>2. OthersKept(w) /\ wpc'[w] = "release"
    BY <2>1 DEF OthersKept
  <2>3. \/ MarkJobSucceeded(wjob[w]) \/ MarkJobFailed(wjob[w])
        \/ ~Running(wjob[w]) /\ UNCHANGED storeVars
        \/ UNCHANGED storeVars /\ faults' # 0
        \/ UNCHANGED storeVars /\ \E v \in Worker \ {w} :
              wpc[v] = "record" /\ wjob[v] = wjob[w] /\ wattempt[v] = jobs[wjob[w]].attempt
    BY <1>9 DEF Finish, FinishConflict, FinishError, StoreOutcome, Fault
  <2> QED  BY <2>1, <2>2, <2>3 DEF Shape, Finishing
<1>10. CASE Release(w) \/ Stop(w) \/ Restart(w)
  BY <1>10, <1>1
     DEF Release, Stop, Restart, Goto, Continue, LeaveJob, OthersKept, Executing, Fault, NoFault
<1> QED
  BY <1>3, <1>4, <1>5, <1>6, <1>7, <1>8, <1>9, <1>10 DEF WorkerStep

\* So does every other step of the system.
LEMMA StepShape ==
    ASSUME BaseInv, [Next]_vars
    PROVE  Shape
<1> USE OrchestratorAssumption DEF BaseInv, ProcessTypeOK
<1>1. ASSUME UNCHANGED <<wpc, wjob, wattempt>>, faults' = 0 => faults = 0,
             \/ UNCHANGED storeVars
             \/ \E j \in Job : \/ \E key \in IdemKey \cup {NoKey} : InsertJob(j, key)
                               \/ AppendEvent(j, "created")
                               \/ CancelJob(j)
                               \/ RetryJob(j)
      PROVE  Shape
  <2>1. KeepsClaims /\ KeepsRuns
    BY <1>1 DEF KeepsClaims, KeepsRuns, Executing
  <2> QED  BY <1>1, <2>1 DEF Shape, Quiet
<1>2. CASE UNCHANGED vars
  BY <1>1, <1>2 DEF vars, workerVars
<1>3. ASSUME NEW w \in Worker, WorkerStep(w) \/ Stop(w) \/ Restart(w)
      PROVE  Shape
  BY <1>3, WorkerShape
<1>4. ASSUME NEW r \in Request, NewRequest(r)
      PROVE  Shape
  BY <1>1, <1>4 DEF NewRequest, CreateJob, CreateError, StartCancel, StartRetry, StartError,
                    workerVars, Fault
<1>5. ASSUME NEW r \in Request, RequestStep(r)
      PROVE  Shape
  <2>1. rpc[r] = "createEvent" => rjob[r] \in Job
    BY DEF InFlight
  <2> QED
    BY <1>1, <1>5, <2>1 DEF RequestStep, CreateEvent, Push, Remove, CancelRelease, Proceed,
                            workerVars, Fault, NoFault
<1>6. ASSUME NEW R \in SUBSET Request, Abandon(R)
      PROVE  Shape
  BY <1>1, <1>6 DEF Abandon, workerVars, Fault
<1>7. ASSUME NEW j \in Job, Expire(j)
      PROVE  Shape
  BY <1>1, <1>7 DEF Expire, workerVars
<1> QED  BY <1>2, <1>3, <1>4, <1>5, <1>6, <1>7 DEF Next

(***************************************************************************)
(* The system's steps are steps of the store.                              *)
(***************************************************************************)
\* A step of any shape is a statement of the store or leaves the tables alone.
LEMMA ShapeIsStoreStep ==
    ASSUME BaseInv, Shape
    PROVE  UNCHANGED storeVars \/ \E j \in Job : JobStep(j)
<1>1. CASE Quiet
  BY <1>1 DEF Quiet, JobStep
<1>2. ASSUME NEW w \in Worker, Claiming(w)
      PROVE  \E j \in Job : JobStep(j)
  BY <1>2 DEF Claiming, JobStep
<1>3. ASSUME NEW w \in Worker, Recording(w)
      PROVE  \E j \in Job : JobStep(j)
  <2>1. wattempt[w] \in 1..jobs[wjob[w]].attempt
    BY <1>3 DEF Recording, BaseInv, HandedOut, Executing
  <2> QED  BY <1>3, <2>1 DEF Recording, JobStep
<1>4. ASSUME NEW w \in Worker, Finishing(w)
      PROVE  UNCHANGED storeVars \/ \E j \in Job : JobStep(j)
  BY <1>4 DEF Finishing, JobStep
<1> QED  BY <1>1, <1>2, <1>3, <1>4 DEF Shape

\* So is every step of the system.
LEMMA NextIsStoreStep ==
    ASSUME BaseInv, [Next]_vars
    PROVE  [StoreNext]_storeVars
BY StepShape, ShapeIsStoreStep DEF StoreNext, JobStep

\* A worker's attempt never runs ahead of its job's counter.
LEMMA HandedOutStep ==
    ASSUME BaseInv, [Next]_vars
    PROVE  HandedOut'
<1> USE DEF BaseInv
<1>1. \A i \in Job : jobs[i].attempt \in Nat /\ jobs'[i].attempt \in Nat
                   /\ jobs'[i].attempt >= jobs[i].attempt
  <2>1. StoreTypeOK'
    BY NextIsStoreStep, StoreTypeStep DEF StoreTypeOK, storeVars
  <2> QED  BY <2>1, NextIsStoreStep, JobMoves, StoreAssumption DEF StoreTypeOK, JobRow
<1>2. \A v \in Worker : Executing(v) => wjob[v] \in Job
  BY DEF ProcessTypeOK, Executing
<1>3. CASE KeepsClaims
  BY <1>1, <1>2, <1>3 DEF HandedOut, KeepsClaims
<1>4. ASSUME NEW w \in Worker, OthersKept(w), wpc'[w] = "release"
      PROVE  HandedOut'
  <2>1. KeepsClaims
    BY <1>4 DEF KeepsClaims, OthersKept, Executing
  <2> QED  BY <1>3, <2>1
<1>5. ASSUME NEW w \in Worker, Claiming(w)
      PROVE  HandedOut'
  <2>1. wattempt'[w] = jobs'[wjob'[w]].attempt /\ wattempt'[w] > 0
    BY <1>1, <1>5 DEF Claiming, MarkJobRunning, SetJob, StoreTypeOK, JobRow
  <2>2. \A v \in Worker \ {w} : Executing(v)' => wattempt'[v] \in 1..jobs'[wjob'[v]].attempt
    BY <1>1, <1>2, <1>5 DEF Claiming, OthersKept, Executing, HandedOut
  <2> QED  BY <1>1, <1>5, <2>1, <2>2 DEF HandedOut, Claiming
<1> QED
  BY <1>3, <1>4, <1>5, StepShape DEF Shape, Quiet, Recording, Finishing

\* Where a process stands says what it holds, also after a step.
LEMMA ProcessTypeStep ==
    ASSUME BaseInv, [Next]_vars
    PROVE  ProcessTypeOK'
<1> USE OrchestratorAssumption, StoreAssumption DEF BaseInv, ProcessTypeOK
<1>1. StoreTypeOK'
  BY NextIsStoreStep, StoreTypeStep DEF StoreTypeOK, storeVars
<1>2. CASE UNCHANGED vars
  BY <1>2 DEF vars, workerVars, requestVars, InFlight
<1>3. ASSUME NEW w \in Worker, WorkerStep(w) \/ Stop(w) \/ Restart(w)
      PROVE  ProcessTypeOK'
  <2> USE DEF Goto, Continue, LeaveJob, Fault, NoFault, WorkerPC, requestVars
  <2>1. CASE IdleBeat(w) \/ HeartbeatTick(w) \/ BusyBeat(w)
    BY <2>1 DEF IdleBeat, HeartbeatTick, BusyBeat, InFlight
  <2>2. CASE Dequeue(w) \/ DequeueError(w)
    BY <2>2 DEF Dequeue, DequeueError, workerVars, InFlight
  <2>3. CASE Lease(w) \/ LeaseError(w)
    BY <2>3 DEF Lease, LeaseError, InFlight
  <2>4. CASE Claim(w)
    <3>1. wjob[w] \in Job => jobs'[wjob[w]].attempt \in 0..MaxAttempt
      BY <1>1 DEF StoreTypeOK, JobRow
    <3> QED  BY <2>4, <3>1 DEF Claim, InFlight
  <2>5. CASE ClaimError(w) \/ Record(w) \/ RecordError(w) \/ Announce(w) \/ AnnounceError(w)
    BY <2>5 DEF ClaimError, Record, RecordError, Announce, AnnounceError, InFlight
  <2>6. CASE Execute(w) \/ Finish(w) \/ FinishConflict(w) \/ FinishError(w)
    BY <2>6 DEF Execute, Finish, FinishConflict, FinishError, StoreOutcome, InFlight
  <2>7. CASE Release(w) \/ Stop(w) \/ Restart(w)
    BY <2>7 DEF Release, Stop, Restart, InFlight
  <2> QED
    BY <1>3, <2>1, <2>2, <2>3, <2>4, <2>5, <2>6, <2>7 DEF WorkerStep
<1>4. ASSUME NEW r \in Request, NewRequest(r)
      PROVE  ProcessTypeOK'
  <2>1. ASSUME NEW label \in RequestPC, NEW j \in Job, NEW key \in IdemKey \cup {NoKey},
               Begin(r, label, j, key), UNCHANGED workerVars, faults' \in 0..MaxFaults
        PROVE  ProcessTypeOK'
    BY <2>1 DEF Begin, workerVars, InFlight
  <2>2. PICK label \in RequestPC, j \in Job, key \in IdemKey \cup {NoKey} :
          Begin(r, label, j, key) /\ UNCHANGED workerVars /\ faults' \in 0..MaxFaults
    BY <1>4
       DEF NewRequest, CreateJob, CreateError, StartCancel, StartRetry, StartError, Fault,
           RequestPC
  <2> QED  BY <2>1, <2>2
<1>5. ASSUME NEW r \in Request, RequestStep(r)
      PROVE  ProcessTypeOK'
  <2>1. ASSUME NEW from \in RequestPC \ {"new", "answered", "failed"}, NEW to \in RequestPC,
               Proceed(r, from, to), UNCHANGED workerVars, faults' \in 0..MaxFaults
        PROVE  ProcessTypeOK'
    BY <2>1 DEF Proceed, workerVars, InFlight
  <2>2. PICK from \in RequestPC \ {"new", "answered", "failed"}, to \in RequestPC :
          Proceed(r, from, to) /\ UNCHANGED workerVars /\ faults' \in 0..MaxFaults
    BY <1>5 DEF RequestStep, CreateEvent, Push, Remove, CancelRelease, Fault, NoFault, RequestPC
  <2> QED  BY <2>1, <2>2
<1>6. ASSUME NEW R \in SUBSET Request, Abandon(R)
      PROVE  ProcessTypeOK'
  BY <1>6 DEF Abandon, workerVars, Fault, InFlight, RequestPC
<1>7. ASSUME NEW j \in Job, Expire(j)
      PROVE  ProcessTypeOK'
  BY <1>7 DEF Expire, workerVars, requestVars, InFlight
<1> QED  BY <1>2, <1>3, <1>4, <1>5, <1>6, <1>7 DEF Next

\* The system starts typed, with no attempt handed out.
LEMMA BaseInvInit == Init => BaseInv
<1> SUFFICES ASSUME Init PROVE BaseInv
  OBVIOUS
<1>1. StoreTypeOK
  BY StoreTypeInit DEF Init
<1>2. StoreInv
  BY StoreInvInit DEF Init
<1>3. ProcessTypeOK
  BY OrchestratorAssumption, StoreAssumption DEF Init, ProcessTypeOK, WorkerPC, RequestPC, InFlight
<1>4. HandedOut
  BY DEF Init, HandedOut, Executing
<1> QED  BY <1>1, <1>2, <1>3, <1>4 DEF BaseInv

\* Every step keeps the types and the attempts handed out.
LEMMA BaseInvStep ==
    ASSUME BaseInv, [Next]_vars
    PROVE  BaseInv'
<1>1. StoreTypeOK' /\ StoreInv'
  BY NextIsStoreStep, StoreTypeStep, StoreInvStep DEF BaseInv, StoreTypeOK, storeVars
<1> QED  BY <1>1, ProcessTypeStep, HandedOutStep DEF BaseInv

\* Tables, processes and handed out attempts stay typed in every behaviour.
THEOREM BaseInvariant == Spec => []BaseInv
<1>1. BaseInv /\ [Next]_vars => BaseInv'
  BY BaseInvStep
<1> QED  BY <1>1, BaseInvInit, PTL DEF Spec

\* What the store guarantees under any callers, it guarantees here.
THEOREM SystemImplementsStore == Spec => ImplementsStore
<1>1. Init => StoreInit
  BY DEF Init
<1>2. BaseInv /\ [Next]_vars => [StoreNext]_storeVars
  BY NextIsStoreStep
<1> QED  BY <1>1, <1>2, BaseInvariant, PTL DEF Spec, ImplementsStore, StoreSpec

\* So the tables of the running system stay consistent, whatever fails, and nobody
\* rewrites a verdict or changes the row of a job that has succeeded.
THEOREM SystemKeepsStore ==
    Spec => /\ [](OneJobPerKey /\ OutcomeRecorded /\ RowsMatchCounter /\ SuccessIsLast)
            /\ [](DatesMatchStatus /\ RetriesTold)
            /\ ClosedAttemptKept
            /\ SuccessIsFinal
            /\ ImplementsLedger
BY SystemImplementsStore, KeysUnique, OutcomesRecorded, RowsMatch, SuccessesAreLast, DatesMatch,
   SecondRunsAreRetries, VerdictsKept, SuccessesFinal, StoreImplementsLedger, PTL DEF ImplementsStore

(***************************************************************************)
(* No attempt runs twice: a claim takes a number above every number handed *)
(* out before it.                                                          *)
(***************************************************************************)
\* No step lets two workers run one attempt.
LEMMA ClaimedOnceStep ==
    ASSUME BaseInv, ClaimedOnce, [Next]_vars
    PROVE  ClaimedOnce'
<1>1. CASE KeepsClaims
  BY <1>1 DEF ClaimedOnce, KeepsClaims
<1>2. ASSUME NEW w \in Worker, OthersKept(w), wpc'[w] = "release"
      PROVE  ClaimedOnce'
  <2>1. KeepsClaims
    BY <1>2 DEF KeepsClaims, OthersKept, Executing
  <2> QED  BY <1>1, <2>1
<1>3. ASSUME NEW w \in Worker, Claiming(w)
      PROVE  ClaimedOnce'
  <2>1. \A v \in Worker \ {w} : Executing(v)' => /\ Executing(v)
                                                /\ wjob'[v] = wjob[v]
                                                /\ wattempt'[v] = wattempt[v]
    BY <1>3 DEF Claiming, OthersKept, Executing
  <2>2. \A v \in Worker \ {w} : Executing(v) /\ wjob[v] = wjob[w] => wattempt[v] < wattempt'[w]
    <3>1. jobs[wjob[w]].attempt \in Nat
      BY <1>3, StoreAssumption DEF Claiming, BaseInv, StoreTypeOK, JobRow
    <3> QED  BY <1>3, <3>1 DEF Claiming, BaseInv, HandedOut
  <2>3. wjob'[w] = wjob[w]
    BY <1>3 DEF Claiming
  <2>4. \A v \in Worker \ {w} : Executing(v)' /\ wjob'[v] = wjob'[w] => wattempt'[v] # wattempt'[w]
    <3>1. \A v \in Worker \ {w} : Executing(v) => wattempt[v] \in Nat
      BY StoreAssumption DEF BaseInv, ProcessTypeOK
    <3>2. wattempt'[w] \in Nat
      BY <1>3, StoreAssumption DEF Claiming, BaseInv, StoreTypeOK, JobRow
    <3> QED  BY <2>1, <2>2, <2>3, <3>1, <3>2
  <2> QED  BY <2>1, <2>4 DEF ClaimedOnce
<1> QED
  BY <1>1, <1>2, <1>3, StepShape DEF Shape, Quiet, Recording, Finishing

\* No two workers ever run the same attempt of a job.
THEOREM AttemptsClaimedOnce == Spec => []ClaimedOnce
<1>1. Init => ClaimedOnce
  BY DEF Init, ClaimedOnce, Executing
<1>2. BaseInv /\ ClaimedOnce /\ [Next]_vars => ClaimedOnce'
  BY ClaimedOnceStep
<1> QED  BY <1>1, <1>2, BaseInvariant, PTL DEF Spec

(***************************************************************************)
(* A worker is stale only in a job that has been cancelled.  The one other *)
(* step that ends a run is an outcome; it comes from the worker that runs  *)
(* the attempt, or from one that was stale already (ClaimedOnce).          *)
(***************************************************************************)
\* Job i goes on in the same attempt, or it has been cancelled some time.
GoesOn(i) == \/ jobs'[i].status = "running" /\ jobs'[i].attempt = jobs[i].attempt
             \/ "cancelled" \in events'[i]

\* A statement about one job only ends the runs of that job, and of the
\* statements about a running job only CancelJob and the outcomes end its run.
LEMMA RunGoesOn ==
    ASSUME StoreTypeOK, NEW j \in Job, JobStep(j), NEW i \in Job, Running(i),
           i # j \/ ~(MarkJobSucceeded(j) \/ MarkJobFailed(j))
    PROVE  GoesOn(i)
<1>1. CASE i # j
  BY <1>1, OtherJobsKept DEF Running, GoesOn
<1>2. CASE jobs' = jobs
  BY <1>2 DEF Running, GoesOn
<1>3. CASE i = j /\ CancelJob(i)
  BY <1>3 DEF CancelJob, Log, StoreTypeOK, GoesOn
<1> QED
  BY <1>1, <1>2, <1>3 DEF JobStep, InsertJob, Exists, AppendEvent, RetryJob, Retryable,
                          MarkJobRunning, InsertAttempt, Running

\* No step makes an attempt stale of a job that has never been cancelled.
LEMMA StaleStep ==
    ASSUME BaseInv, ClaimedOnce, StaleNeedsCancel, [Next]_vars
    PROVE  StaleNeedsCancel'
<1> USE DEF BaseInv
<1>1. \A v \in Worker : Executing(v) => wjob[v] \in Job
  BY DEF ProcessTypeOK, Executing
<1>2. \A i \in Job : events[i] \subseteq events'[i]
  BY NextIsStoreStep, JobMoves
<1> DEFINE Fine(v) == \/ Running(wjob[v]) /\ jobs[wjob[v]].attempt = wattempt[v]
                      \/ "cancelled" \in events[wjob[v]]
<1>3. ASSUME NEW v \in Worker, Executing(v), wjob'[v] = wjob[v], wattempt'[v] = wattempt[v],
             \/ "cancelled" \in events[wjob[v]]
             \/ Running(wjob[v]) => GoesOn(wjob[v])
      PROVE  Fine(v)'
  BY <1>1, <1>2, <1>3 DEF StaleNeedsCancel, GoesOn, Running
<1>4. CASE Quiet
  <2>1. \A i \in Job : Running(i) => GoesOn(i)
    <3>1. CASE UNCHANGED storeVars
      BY <3>1 DEF storeVars, Running, GoesOn
    <3>2. ASSUME NEW j \in Job, NEW i \in Job, Running(i),
                 \/ \E key \in IdemKey \cup {NoKey} : InsertJob(j, key)
                 \/ \E kind \in {"created", "started"} : AppendEvent(j, kind)
                 \/ CancelJob(j)
                 \/ RetryJob(j)
                 \/ MarkJobRunning(j)
          PROVE  GoesOn(i)
      <4>1. CASE i # j
        BY <3>2, <4>1, RunGoesOn DEF JobStep
      <4>2. CASE i = j /\ CancelJob(j)
        BY <3>2, <4>2 DEF CancelJob, Log, StoreTypeOK, GoesOn
      <4>3. CASE i = j /\ ~CancelJob(j)
        BY <3>2, <4>3 DEF InsertJob, Exists, AppendEvent, RetryJob, Retryable, MarkJobRunning,
                          Running, GoesOn
      <4> QED  BY <4>1, <4>2, <4>3
    <3> QED  BY <1>4, <3>1, <3>2 DEF Quiet
  <2> QED  BY <1>1, <1>3, <1>4, <2>1 DEF Quiet, KeepsClaims, StaleNeedsCancel
<1>5. ASSUME NEW w \in Worker, Claiming(w)
      PROVE  StaleNeedsCancel'
  <2>1. \A i \in Job : Running(i) => GoesOn(i)
    <3>1. \A i \in Job : Running(i) => i # wjob[w]
      BY <1>5 DEF Claiming, MarkJobRunning, Running
    <3> QED  BY <1>5, <3>1, RunGoesOn DEF Claiming, JobStep
  <2>2. \A v \in Worker \ {w} : Executing(v)' => Fine(v)'
    BY <1>1, <1>3, <1>5, <2>1 DEF Claiming, OthersKept, Executing
  <2>3. Fine(w)'
    BY <1>5 DEF Claiming, MarkJobRunning, SetJob, Running, StoreTypeOK, JobRow
  <2> QED  BY <2>2, <2>3 DEF StaleNeedsCancel
<1>6. ASSUME NEW w \in Worker, Recording(w)
      PROVE  StaleNeedsCancel'
  <2>1. \A i \in Job : Running(i) => GoesOn(i)
    BY <1>6 DEF Recording, InsertAttempt, Running, GoesOn
  <2> QED  BY <1>1, <1>3, <1>6, <2>1 DEF Recording, KeepsClaims, StaleNeedsCancel
<1>7. ASSUME NEW w \in Worker, Finishing(w)
      PROVE  StaleNeedsCancel'
  <2>1. ASSUME NEW v \in Worker \ {w}, Executing(v)'
        PROVE  Fine(v)'
    <3>1. Executing(v) /\ wjob'[v] = wjob[v] /\ wattempt'[v] = wattempt[v]
      BY <1>7, <2>1 DEF Finishing, OthersKept, Executing
    <3>2. CASE wjob[v] # wjob[w] \/ UNCHANGED storeVars
      <4>1. Running(wjob[v]) => GoesOn(wjob[v])
        <5>1. CASE UNCHANGED storeVars
          BY <5>1 DEF storeVars, Running, GoesOn
        <5>2. CASE wjob[v] # wjob[w] /\ (MarkJobSucceeded(wjob[w]) \/ MarkJobFailed(wjob[w]))
          BY <1>1, <1>7, <3>1, <5>2, RunGoesOn DEF Finishing, JobStep
        <5> QED  BY <1>7, <3>2, <5>1, <5>2 DEF Finishing
      <4> QED  BY <1>3, <3>1, <4>1
    <3>3. CASE wjob[v] = wjob[w]
      <4>1. wattempt[v] # wattempt[w]
        BY <1>7, <3>1, <3>3 DEF ClaimedOnce, Finishing, Executing
      <4>2. \/ "cancelled" \in events[wjob[v]]
            \/ Running(wjob[v]) /\ jobs[wjob[v]].attempt = wattempt[v]
        BY <3>1 DEF StaleNeedsCancel
      <4>3. \/ "cancelled" \in events[wjob[w]]
            \/ Running(wjob[w]) /\ jobs[wjob[w]].attempt = wattempt[w]
        BY <1>7 DEF StaleNeedsCancel, Finishing, Executing
      <4> QED  BY <1>3, <3>1, <3>3, <4>1, <4>2, <4>3
    <3> QED  BY <3>2, <3>3
  <2>2. ~Executing(w)'
    BY <1>7 DEF Finishing, Executing
  <2> QED  BY <2>1, <2>2 DEF StaleNeedsCancel
<1> QED  BY <1>4, <1>5, <1>6, <1>7, StepShape DEF Shape

\* A worker runs an attempt its job has left only if the job has been cancelled at
\* some time, under that worker or under an earlier one.
THEOREM StaleOnlyByCancel == Spec => []StaleNeedsCancel
<1>1. Init => StaleNeedsCancel
  BY DEF Init, StaleNeedsCancel, Executing
<1>2. BaseInv /\ ClaimedOnce /\ StaleNeedsCancel /\ [Next]_vars => StaleNeedsCancel'
  BY StaleStep
<1> QED  BY <1>1, <1>2, BaseInvariant, AttemptsClaimedOnce, PTL DEF Spec

(***************************************************************************)
(* Two workers on one job.  They run different attempts (ClaimedOnce), so  *)
(* one of them is stale, and the job is past its first attempt.            *)
(***************************************************************************)
CancelledAndRetried(j) == {"cancelled", "retry_scheduled"} \subseteq events[j]

SharedOnlyAfterRetry ==
    \A v, w \in Worker :
        v # w /\ Executing(v) /\ Executing(w) /\ wjob[v] = wjob[w] => CancelledAndRetried(wjob[w])

\* Two workers execute one job at a time only if it has been both cancelled and
\* retried at some time: no lease that ran out or was deleted by another worker, no
\* failed call and no second entry in the ready list brings that about by itself.
THEOREM JobsNotShared == Spec => []SharedOnlyAfterRetry
<1>1. ASSUME BaseInv, ClaimedOnce, StaleNeedsCancel, RetriesTold
      PROVE  SharedOnlyAfterRetry
  <2> SUFFICES ASSUME NEW v \in Worker, NEW w \in Worker, v # w, Executing(v), Executing(w),
                      wjob[v] = wjob[w]
               PROVE  CancelledAndRetried(wjob[w])
    BY DEF SharedOnlyAfterRetry
  <2>1. wjob[w] \in Job
    BY <1>1 DEF BaseInv, ProcessTypeOK, Executing
  <2>2. wattempt[v] # wattempt[w]
    BY <1>1 DEF ClaimedOnce
  <2>3. jobs[wjob[w]].attempt \in Nat
    BY <1>1, <2>1, StoreAssumption DEF BaseInv, StoreTypeOK, JobRow
  <2>4. wattempt[v] \in 1..jobs[wjob[w]].attempt /\ wattempt[w] \in 1..jobs[wjob[w]].attempt
    BY <1>1 DEF BaseInv, HandedOut
  <2>5. jobs[wjob[w]].attempt > 1
    BY <2>2, <2>3, <2>4
  <2>6. "cancelled" \in events[wjob[w]]
    BY <1>1, <2>2 DEF StaleNeedsCancel
  <2> QED  BY <1>1, <2>1, <2>5, <2>6 DEF CancelledAndRetried, RetriesTold
<1> QED
  BY <1>1, BaseInvariant, AttemptsClaimedOnce, StaleOnlyByCancel, SystemKeepsStore, PTL

\* The insert of an attempt row meets the outcome of another attempt, and makes its
\* transaction roll back, only if the job has been both cancelled and retried.
ConflictNeedsRetry ==
    [][\A w \in Worker : FinishConflict(w) => CancelledAndRetried(wjob[w])]_vars

\* For the two workers then execute one job.
THEOREM ConflictsAreRare == Spec => ConflictNeedsRetry
<1>1. SharedOnlyAfterRetry => \A w \in Worker : FinishConflict(w) => CancelledAndRetried(wjob[w])
  BY DEF SharedOnlyAfterRetry, FinishConflict, Executing
<1> QED  BY <1>1, JobsNotShared, PTL DEF ConflictNeedsRetry

\* The outcome a worker stores is that of the attempt it ran, unless the job has been
\* both cancelled and retried at some time: the update names the job and its status,
\* but no attempt.
OutcomesBelong ==
    [][\A w \in Worker :
          Finish(w) \/ FinishError(w) =>
              \/ jobs' = jobs
              \/ jobs[wjob[w]].attempt = wattempt[w]
              \/ CancelledAndRetried(wjob[w])]_vars

\* For a worker whose attempt is over is stale, and its job is past that attempt.
THEOREM MisfiledOnlyAfterRetry == Spec => OutcomesBelong
<1>1. ASSUME BaseInv, StaleNeedsCancel, RetriesTold,
             NEW w \in Worker, Finish(w) \/ FinishError(w),
             jobs' # jobs, jobs[wjob[w]].attempt # wattempt[w]
      PROVE  CancelledAndRetried(wjob[w])
  <2>1. Executing(w)
    BY <1>1 DEF Finish, FinishError, StoreOutcome, Executing
  <2>2. wjob[w] \in Job
    BY <1>1, <2>1 DEF BaseInv, ProcessTypeOK, Executing
  <2>3. jobs[wjob[w]].attempt \in Nat /\ wattempt[w] \in 1..jobs[wjob[w]].attempt
    BY <1>1, <2>1, <2>2, StoreAssumption DEF BaseInv, HandedOut, StoreTypeOK, JobRow
  <2>4. jobs[wjob[w]].attempt > 1
    BY <1>1, <2>3
  <2>5. "cancelled" \in events[wjob[w]]
    BY <1>1, <2>1 DEF StaleNeedsCancel
  <2> QED  BY <1>1, <2>2, <2>4, <2>5 DEF CancelledAndRetried, RetriesTold
<1>2. BaseInv /\ StaleNeedsCancel /\ RetriesTold =>
        \A w \in Worker :
          Finish(w) \/ FinishError(w) =>
              \/ jobs' = jobs
              \/ jobs[wjob[w]].attempt = wattempt[w]
              \/ CancelledAndRetried(wjob[w])
  BY <1>1
<1> QED  BY <1>2, BaseInvariant, StaleOnlyByCancel, SystemKeepsStore, PTL DEF OutcomesBelong

(***************************************************************************)
(* Open attempts.  A row is opened by the worker that claimed its attempt; *)
(* that worker is fresh or the job has been cancelled (StaleNeedsCancel).  *)
(***************************************************************************)
\* Only a worker's own insert opens an attempt row.
LEMMA OpenedByRecording ==
    ASSUME BaseInv, Shape, NEW i \in Job, NEW a \in Attempt,
           attempts'[i][a] = "open", attempts[i][a] # "open"
    PROVE  \E w \in Worker : Recording(w) /\ i = wjob[w] /\ a = wattempt[w]
<1>1. attempts \in [Job -> [Attempt -> AttemptRow]]
  BY DEF BaseInv, StoreTypeOK
<1>2. ASSUME NEW j \in Job, CancelJob(j)
      PROVE  FALSE
  BY <1>1, <1>2 DEF CancelJob
<1>3. ASSUME NEW j \in Job, MarkJobSucceeded(j) \/ MarkJobFailed(j)
      PROVE  FALSE
  BY <1>1, <1>3 DEF MarkJobSucceeded, MarkJobFailed
<1>4. attempts' # attempts
  BY <1>1
<1>5. ~Quiet
  BY <1>2, <1>4 DEF Quiet, InsertJob, AppendEvent, RetryJob, MarkJobRunning, storeVars
<1>6. \A w \in Worker : ~Claiming(w) /\ ~Finishing(w)
  BY <1>3, <1>4 DEF Claiming, Finishing, MarkJobRunning, storeVars
<1>7. PICK w \in Worker : Recording(w)
  BY <1>5, <1>6 DEF Shape
<1>8. i = wjob[w] /\ a = wattempt[w]
  BY <1>1, <1>7 DEF Recording, InsertAttempt
<1> QED  BY <1>7, <1>8

\* No step leaves an open row behind a job that has never been cancelled.
LEMMA OpenStep ==
    ASSUME BaseInv, StaleNeedsCancel, OpenAttemptNeedsCancel, [Next]_vars
    PROVE  OpenAttemptNeedsCancel'
<1> USE DEF BaseInv
<1>1. \A i \in Job : events[i] \subseteq events'[i]
  BY NextIsStoreStep, JobMoves
<1>2. SUFFICES ASSUME NEW i \in Job, NEW a \in Attempt, attempts'[i][a] = "open"
               PROVE  \/ jobs'[i].status = "running" /\ jobs'[i].attempt = a
                      \/ "cancelled" \in events'[i]
  BY DEF OpenAttemptNeedsCancel, Running
<1>3. CASE UNCHANGED storeVars
  BY <1>2, <1>3 DEF storeVars, OpenAttemptNeedsCancel, Running
<1>4. ASSUME NEW j \in Job, JobStep(j), attempts[i][a] = "open"
      PROVE  \/ jobs'[i].status = "running" /\ jobs'[i].attempt = a
             \/ "cancelled" \in events'[i]
  <2>1. CASE "cancelled" \in events[i]
    BY <1>1, <2>1
  <2>2. CASE Running(i) /\ jobs[i].attempt = a
    <3>1. ~(i = j /\ (MarkJobSucceeded(j) \/ MarkJobFailed(j)))
      BY <1>2, <2>2 DEF MarkJobSucceeded, MarkJobFailed, StoreTypeOK
    <3> QED  BY <1>4, <2>2, <3>1, RunGoesOn DEF GoesOn
  <2> QED  BY <1>4, <2>1, <2>2 DEF OpenAttemptNeedsCancel
<1>5. CASE attempts[i][a] # "open"
  <2>1. PICK w \in Worker : Recording(w) /\ i = wjob[w] /\ a = wattempt[w]
    BY <1>2, <1>5, StepShape, OpenedByRecording
  <2>2. jobs' = jobs /\ events' = events
    BY <2>1 DEF Recording, InsertAttempt
  <2> QED  BY <2>1, <2>2 DEF StaleNeedsCancel, Recording, Executing, Running
<1> QED  BY <1>3, <1>4, <1>5, StepShape, ShapeIsStoreStep

\* An open row that is not the running attempt's is that of a job which has been
\* cancelled at some time.
THEOREM OpenOnlyByCancel == Spec => []OpenAttemptNeedsCancel
<1>1. Init => OpenAttemptNeedsCancel
  BY DEF Init, StoreInit, OpenAttemptNeedsCancel
<1>2. BaseInv /\ StaleNeedsCancel /\ OpenAttemptNeedsCancel /\ [Next]_vars => OpenAttemptNeedsCancel'
  BY OpenStep
<1> QED  BY <1>1, <1>2, BaseInvariant, StaleOnlyByCancel, PTL DEF Spec

(***************************************************************************)
(* A running job has its worker, until something fails.                    *)
(***************************************************************************)
\* After an outcome the job no longer runs, and no other job has changed.
LEMMA OutcomeEndsRun ==
    ASSUME StoreTypeOK, NEW i \in Job, MarkJobSucceeded(i) \/ MarkJobFailed(i)
    PROVE  jobs'[i].status # "running" /\ \A j \in Job \ {i} : jobs'[j] = jobs[j]
<1>1. jobs[i] \in JobRow
  BY DEF StoreTypeOK
<1>2. \A row : SetJob(i, row) => jobs'[i] = row
  BY DEF SetJob, StoreTypeOK
<1>3. MarkJobSucceeded(i) => jobs'[i].status = "succeeded"
  BY <1>1, <1>2 DEF MarkJobSucceeded, JobRow
<1>4. MarkJobFailed(i) => jobs'[i].status = "failed"
  BY <1>1, <1>2 DEF MarkJobFailed, JobRow
<1> QED  BY <1>3, <1>4, OtherJobsKept DEF JobStep

\* While nothing fails, no step leaves a running job without its worker.
LEMMA RunningHasWorkerStep ==
    ASSUME BaseInv, RunningHasWorker, [Next]_vars
    PROVE  RunningHasWorker'
<1> USE DEF BaseInv
<1> DEFINE Owner(w, j) == Executing(w) /\ wjob[w] = j /\ wattempt[w] = jobs[j].attempt
<1>1. SUFFICES ASSUME NEW j \in Job, faults' = 0, Running(j)'
               PROVE  \E w \in Worker : Owner(w, j)'
  BY DEF RunningHasWorker
<1>2. faults = 0
  BY <1>1, StepShape DEF Shape, Quiet, KeepsRuns, Claiming, Recording, Finishing
<1>3. ASSUME KeepsClaims, KeepsRuns, Running(j), jobs'[j].attempt = jobs[j].attempt
      PROVE  \E w \in Worker : Owner(w, j)'
  <2>1. PICK w \in Worker : Owner(w, j)
    BY <1>2, <1>3 DEF RunningHasWorker
  <2>2. Owner(w, j)'
    BY <1>1, <1>3, <2>1 DEF KeepsClaims, KeepsRuns
  <2> QED  BY <2>2
<1>4. CASE Quiet
  <2>1. CASE jobs' = jobs
    BY <1>1, <1>3, <1>4, <2>1 DEF Quiet, Running
  <2>2. ASSUME NEW i \in Job, (\E key \in IdemKey \cup {NoKey} : InsertJob(i, key)) \/ CancelJob(i) \/ RetryJob(i)
        PROVE  Running(j) /\ jobs'[j].attempt = jobs[j].attempt
    <3>1. jobs'[i].status # "running"
      <4>1. jobs[i] \in JobRow
        BY DEF StoreTypeOK
      <4>2. \A row : SetJob(i, row) => jobs'[i] = row
        BY DEF SetJob, StoreTypeOK
      <4>3. CASE \E key \in IdemKey \cup {NoKey} : InsertJob(i, key)
        BY <4>2, <4>3 DEF InsertJob, NoJob
      <4>4. CASE CancelJob(i)
        BY <4>1, <4>2, <4>4 DEF CancelJob, JobRow
      <4>5. CASE RetryJob(i)
        BY <4>1, <4>2, <4>5 DEF RetryJob, JobRow
      <4> QED  BY <2>2, <4>3, <4>4, <4>5
    <3>2. i # j => jobs'[j] = jobs[j]
      BY <2>2, OtherJobsKept DEF JobStep
    <3> QED  BY <1>1, <3>1, <3>2 DEF Running
  <2> QED
    BY <1>1, <1>3, <1>4, <2>1, <2>2 DEF Quiet, AppendEvent, storeVars
<1>5. ASSUME NEW w \in Worker, Claiming(w)
      PROVE  \E v \in Worker : Owner(v, j)'
  <2>1. CASE j = wjob[w]
    <3>1. Owner(w, j)'
      BY <1>5, <2>1 DEF Claiming, MarkJobRunning, SetJob, StoreTypeOK, JobRow, Executing
    <3> QED  BY <3>1
  <2>2. CASE j # wjob[w]
    <3>1. jobs'[j] = jobs[j]
      BY <1>5, <2>2 DEF Claiming, MarkJobRunning, SetJob, StoreTypeOK
    <3>2. PICK v \in Worker : Owner(v, j)
      BY <1>1, <1>2, <3>1 DEF RunningHasWorker, Running
    <3>3. Owner(v, j)'
      BY <1>5, <3>1, <3>2 DEF Claiming, OthersKept, Executing
    <3> QED  BY <3>3
  <2> QED  BY <2>1, <2>2
<1>6. ASSUME NEW w \in Worker, Recording(w)
      PROVE  \E v \in Worker : Owner(v, j)'
  BY <1>1, <1>3, <1>6 DEF Recording, InsertAttempt, Running
<1>7. ASSUME NEW w \in Worker, Finishing(w)
      PROVE  \E v \in Worker : Owner(v, j)'
  <2>1. CASE UNCHANGED storeVars
    <3>1. PICK v \in Worker : Owner(v, j)
      BY <1>1, <1>2, <2>1 DEF RunningHasWorker, Running, storeVars
    <3>2. CASE v # w
      <4>1. Owner(v, j)'
        BY <1>7, <2>1, <3>1, <3>2 DEF Finishing, OthersKept, Executing, storeVars
      <4> QED  BY <4>1
    <3>3. CASE v = w
      <4>1. PICK u \in Worker \ {w} : wpc[u] = "record" /\ wjob[u] = j /\ wattempt[u] = jobs[j].attempt
        <5>1. Running(wjob[w]) /\ ~(MarkJobSucceeded(wjob[w]) \/ MarkJobFailed(wjob[w]))
          BY <1>1, <1>7, <2>1, <3>1, <3>3, OutcomeEndsRun DEF Finishing, Running, storeVars
        <5> QED  BY <1>1, <1>7, <3>1, <3>3, <5>1 DEF Finishing
      <4>2. Owner(u, j)'
        BY <1>7, <2>1, <4>1 DEF Finishing, OthersKept, Executing, storeVars
      <4> QED  BY <4>2
    <3> QED  BY <3>2, <3>3
  <2>2. CASE MarkJobSucceeded(wjob[w]) \/ MarkJobFailed(wjob[w])
    <3>1. jobs'[wjob[w]].status # "running" /\ (wjob[w] # j => jobs'[j] = jobs[j])
      BY <1>7, <2>2, OutcomeEndsRun DEF Finishing
    <3>2. j # wjob[w] /\ jobs'[j] = jobs[j]
      BY <1>1, <3>1 DEF Running
    <3>3. PICK v \in Worker : Owner(v, j)
      BY <1>1, <1>2, <3>2 DEF RunningHasWorker, Running
    <3>4. Owner(v, j)'
      BY <1>7, <3>2, <3>3 DEF Finishing, OthersKept, Executing
    <3> QED  BY <3>4
  <2> QED  BY <1>7, <2>1, <2>2 DEF Finishing
<1> QED  BY <1>4, <1>5, <1>6, <1>7, StepShape DEF Shape

\* Without faults, a job the database calls running is being run.
THEOREM RunningIsRun == Spec => []RunningHasWorker
<1>1. Init => RunningHasWorker
  BY DEF Init, StoreInit, NoJob, RunningHasWorker, Running
<1>2. BaseInv /\ RunningHasWorker /\ [Next]_vars => RunningHasWorker'
  BY RunningHasWorkerStep
<1> QED  BY <1>1, <1>2, BaseInvariant, PTL DEF Spec

(***************************************************************************)
(* Leases.  While nothing has failed, a lease is held by a worker that     *)
(* goes on to release it: what is released is the lease of the job at      *)
(* hand, so the invariant ties every lease to its holder's job.            *)
(***************************************************************************)
LeaseInv == lease \in [Job -> Worker \cup {NoWorker}] /\ LeaseNotLeaked

\* A step that takes no lease, and whose workers keep the jobs they hold a lease of.
LEMMA LeaseKept ==
    ASSUME BaseInv, LeaseInv, faults' = 0 => faults = 0,
           lease' \in [Job -> Worker \cup {NoWorker}],
           \A j \in Job : lease'[j] # NoWorker => lease'[j] = lease[j],
           \A j \in Job : faults' = 0 /\ lease'[j] # NoWorker =>
               /\ wjob'[lease[j]] = wjob[lease[j]]
               /\ wpc'[lease[j]] = wpc[lease[j]] \/ wpc'[lease[j]] # "lease"
    PROVE  LeaseInv'
BY DEF LeaseInv, LeaseNotLeaked

\* Every step is of that kind, but for a worker's own lease.
LEMMA LeaseStep ==
    ASSUME BaseInv, LeaseInv, [Next]_vars
    PROVE  LeaseInv'
<1> USE OrchestratorAssumption DEF BaseInv, ProcessTypeOK
<1>1. lease \in [Job -> Worker \cup {NoWorker}]
  BY DEF LeaseInv
<1>2. ASSUME UNCHANGED <<lease, wpc, wjob>>, faults' = 0 => faults = 0
      PROVE  LeaseInv'
  BY <1>1, <1>2, LeaseKept
<1>3. ASSUME NEW i \in Job, ReleaseLease(i), UNCHANGED <<wpc, wjob>>, faults' = 0 => faults = 0
      PROVE  LeaseInv'
  BY <1>1, <1>3, LeaseKept DEF ReleaseLease
<1>4. ASSUME NEW w \in Worker, WorkerStep(w) \/ Stop(w) \/ Restart(w)
      PROVE  LeaseInv'
  <2> USE DEF Goto, Continue, LeaveJob
  <2>1. ASSUME NEW j \in Job, faults = 0, lease[j] = w
        PROVE  wjob[w] = j /\ wpc[w] \notin {"down", "idleBeat", "loop", "lease"}
    BY <2>1 DEF LeaseInv, LeaseNotLeaked
  <2>2. faults' = 0 => faults = 0 /\ faults' = faults
    BY <1>4
       DEF WorkerStep, IdleBeat, HeartbeatTick, Dequeue, DequeueError, Lease, LeaseError, Claim,
                ClaimError, Record, RecordError, Announce, AnnounceError, BusyBeat, Execute, Finish,
                FinishConflict, FinishError, Release, Stop, Restart, Fault, NoFault
  <2>3. CASE faults' # 0
    <3>1. lease' \in [Job -> Worker \cup {NoWorker}]
      BY <1>1, <1>4 DEF WorkerStep, IdleBeat, HeartbeatTick, Dequeue, DequeueError, DequeueJob,
                Lease, LeaseError, AcquireLease, Claim, ClaimError, Record, RecordError, Announce,
                AnnounceError, BusyBeat, Execute, Finish, FinishConflict, FinishError, Release,
                ReleaseLease, Stop, Restart, queueVars
    <3> QED  BY <2>3, <3>1 DEF LeaseInv, LeaseNotLeaked
  <2>4. ASSUME NEW label \in WorkerPC \ {"lease"}, Goto(w, label), UNCHANGED <<lease, wjob>>
        PROVE  LeaseInv'
    BY <1>1, <2>2, <2>4, LeaseKept DEF LeaseInv
  <2>5. CASE IdleBeat(w) \/ HeartbeatTick(w) \/ BusyBeat(w) \/ Execute(w) \/ Restart(w)
    BY <1>2, <2>2, <2>4, <2>5
       DEF IdleBeat, HeartbeatTick, BusyBeat, Execute, Restart, queueVars, WorkerPC
  <2>6. CASE \/ Claim(w) \/ ClaimError(w) \/ Record(w) \/ RecordError(w) \/ Announce(w)
             \/ AnnounceError(w) \/ Finish(w) \/ FinishConflict(w) \/ FinishError(w)
    BY <2>4, <2>6 DEF Claim, ClaimError, Record, RecordError, Announce, AnnounceError,
                      Finish, FinishConflict, FinishError, queueVars, WorkerPC
  <2>7. CASE Dequeue(w)
    <3>1. wpc[w] = "loop" /\ lease' = lease /\ \A v \in Worker \ {w} : wjob'[v] = wjob[v] /\ wpc'[v] = wpc[v]
      BY <2>7 DEF Dequeue, DequeueJob
    <3> QED  BY <1>1, <2>1, <2>2, <3>1, LeaseKept DEF LeaseInv
  <2>8. CASE Lease(w)
    <3>1. wpc[w] = "lease" /\ wjob[w] \in Job
      BY <2>8 DEF Lease
    <3>2. CASE AcquireLease(wjob[w], w) /\ Continue(w, "claim")
      BY <1>1, <2>1, <2>2, <3>1, <3>2 DEF AcquireLease, LeaseInv, LeaseNotLeaked
    <3>3. CASE LeaveJob(w, "loop") /\ UNCHANGED queueVars
      <4>1. lease' = lease /\ \A v \in Worker \ {w} : wjob'[v] = wjob[v] /\ wpc'[v] = wpc[v]
        BY <3>3 DEF queueVars
      <4> QED  BY <1>1, <2>1, <2>2, <3>1, <4>1, LeaseKept DEF LeaseInv
    <3> QED  BY <2>8, <3>2, <3>3 DEF Lease
  <2>9. CASE Release(w) /\ faults' = 0
    <3>1. ReleaseLease(wjob[w]) /\ wjob[w] \in Job
      BY <2>2, <2>9 DEF Release, NoFault, Fault
    <3>2. \A j \in Job : lease'[j] = IF j = wjob[w] THEN NoWorker ELSE lease[j]
      BY <1>1, <3>1 DEF ReleaseLease
    <3>3. lease' \in [Job -> Worker \cup {NoWorker}]
      BY <1>1, <3>1 DEF ReleaseLease
    <3>4. \A v \in Worker \ {w} : wjob'[v] = wjob[v] /\ wpc'[v] = wpc[v]
      BY <2>9 DEF Release
    <3> QED  BY <2>1, <2>2, <3>2, <3>3, <3>4, LeaseKept DEF LeaseInv
  <2>10. CASE DequeueError(w) \/ LeaseError(w) \/ Stop(w)
    BY <2>2, <2>3, <2>10 DEF DequeueError, LeaseError, Stop, Fault
  <2> QED
    BY <1>4, <2>3, <2>5, <2>6, <2>7, <2>8, <2>9, <2>10 DEF WorkerStep
<1>5. ASSUME NEW r \in Request, NewRequest(r) \/ RequestStep(r)
      PROVE  LeaseInv'
  <2>1. CASE CancelRelease(r)
    <3>1. rjob[r] \in Job
      BY <2>1 DEF CancelRelease, Proceed, InFlight
    <3> QED  BY <1>2, <1>3, <2>1, <3>1 DEF CancelRelease, workerVars, queueVars, Fault, NoFault
  <2> QED
    BY <1>2, <1>5, <2>1 DEF NewRequest, CreateJob, CreateError, StartCancel, StartRetry, StartError,
        RequestStep, CreateEvent, Push, EnqueueJob, Remove, RemoveQueuedJob, queueVars, workerVars,
        Fault, NoFault
<1>6. ASSUME NEW R \in SUBSET Request, Abandon(R)
      PROVE  LeaseInv'
  BY <1>2, <1>6 DEF Abandon, queueVars, workerVars, Fault
<1>7. ASSUME NEW j \in Job, Expire(j)
      PROVE  LeaseInv'
  BY <1>3, <1>7 DEF Expire, LeaseExpires, workerVars
<1>8. CASE UNCHANGED vars
  BY <1>2, <1>8 DEF vars, queueVars, workerVars
<1> QED  BY <1>4, <1>5, <1>6, <1>7, <1>8 DEF Next

\* Leases are typed, and while nothing has failed each has its worker.
THEOREM LeaseInvariant == Spec => []LeaseInv
<1>1. Init => LeaseInv
  BY DEF Init, QueueInit, LeaseInv, LeaseNotLeaked
<1>2. BaseInv /\ LeaseInv /\ [Next]_vars => LeaseInv'
  BY LeaseStep
<1> QED  BY <1>1, <1>2, BaseInvariant, PTL DEF Spec

\* While nothing has failed, no lease is left behind.
THEOREM LeasesReleased == Spec => []LeaseNotLeaked
<1>1. LeaseInv => LeaseNotLeaked
  BY DEF LeaseInv
<1> QED  BY <1>1, LeaseInvariant, PTL

(***************************************************************************)
(* Heartbeats.  A worker reports a job from the heartbeat after its start  *)
(* to the one after its end; by then the attempt row and the event are     *)
(* there, and nothing takes them away.                                     *)
(***************************************************************************)
Recorded(w) ==
    /\ wattempt[w] \in Attempt
    /\ attempts[wjob[w]][wattempt[w]] # "none"

BeatInv ==
    faults = 0 =>
        \A w \in Worker :
            /\ wpc[w] # "down"
            /\ wpc[w] \in {"announce", "busyBeat", "execute", "succeed", "fail", "release"}
                  => Recorded(w)
            /\ wpc[w] \in {"busyBeat", "execute", "succeed", "fail", "release"}
                  => "started" \in events[wjob[w]]
            /\ beat[w] # NoId /\ wpc[w] # "idleBeat" =>
                  /\ wpc[w] \in {"execute", "succeed", "fail", "release"}
                  /\ beat[w] = wjob[w]

\* An attempt row stays.
LEMMA RowsStay ==
    ASSUME StoreTypeOK, StoreInv, [StoreNext]_storeVars, NEW i \in Job, NEW a \in Attempt,
           attempts[i][a] # "none"
    PROVE  attempts'[i][a] # "none"
<1>1. CASE UNCHANGED storeVars
  BY <1>1 DEF storeVars
<1>2. ASSUME NEW j \in Job, JobStep(j)
      PROVE  attempts'[i][a] # "none"
  <2>1. CASE i # j
    BY <1>2, <2>1, OtherJobsKept
  <2>2. CASE i = j
    BY <1>2, <2>2 DEF JobStep, StoreTypeOK, InsertJob, AppendEvent, CancelJob, RetryJob,
        MarkJobRunning, InsertAttempt, MarkJobSucceeded, MarkJobFailed
  <2> QED  BY <2>1, <2>2
<1> QED  BY <1>1, <1>2 DEF StoreNext, JobStep

\* Each call of a worker finds what the call before it left.
LEMMA BeatStep ==
    ASSUME BaseInv, BeatInv, [Next]_vars
    PROVE  BeatInv'
<1> USE OrchestratorAssumption DEF BaseInv, ProcessTypeOK
<1>1. ASSUME NEW w \in Worker, wjob[w] \in Job, wattempt[w] \in Attempt
      PROVE  /\ attempts[wjob[w]][wattempt[w]] # "none" => attempts'[wjob[w]][wattempt[w]] # "none"
             /\ events[wjob[w]] \subseteq events'[wjob[w]]
  BY <1>1, NextIsStoreStep, RowsStay, JobMoves
<1> DEFINE Kept(v) == /\ wpc'[v] = wpc[v] /\ wjob'[v] = wjob[v]
                      /\ wattempt'[v] = wattempt[v] /\ beat'[v] = beat[v]
           Fine(v) == /\ wpc'[v] # "down"
                      /\ wpc'[v] \in {"announce", "busyBeat", "execute", "succeed", "fail", "release"} =>
                            /\ wattempt'[v] \in Attempt
                            /\ attempts'[wjob'[v]][wattempt'[v]] # "none"
                      /\ wpc'[v] \in {"busyBeat", "execute", "succeed", "fail", "release"}
                            => "started" \in events'[wjob'[v]]
                      /\ beat'[v] # NoId /\ wpc'[v] # "idleBeat" =>
                            /\ wpc'[v] \in {"execute", "succeed", "fail", "release"}
                            /\ beat'[v] = wjob'[v]
<1>2. ASSUME NEW v \in Worker, faults = 0, Kept(v)
      PROVE  Fine(v)
  <2>1. wpc[v] \in {"announce", "busyBeat", "execute", "succeed", "fail", "release"}
          => wjob[v] \in Job /\ Recorded(v)
    BY <1>2 DEF BeatInv
  <2> QED  BY <1>1, <1>2, <2>1 DEF BeatInv, Recorded
<1>3. (faults' = 0 => faults = 0 /\ \A v \in Worker : Fine(v)) => BeatInv'
  BY DEF BeatInv, Recorded
<1>4. ASSUME UNCHANGED workerVars, faults' = 0 => faults = 0
      PROVE  BeatInv'
  BY <1>2, <1>3, <1>4 DEF workerVars
<1>5. ASSUME NEW w \in Worker, WorkerStep(w) \/ Stop(w) \/ Restart(w), faults' = 0
      PROVE  faults = 0 /\ Fine(w) /\ \A v \in Worker \ {w} : Kept(v)
  <2> USE DEF Goto, Continue, LeaveJob
  <2>1. faults = 0
    BY <1>5
       DEF WorkerStep, IdleBeat, HeartbeatTick, Dequeue, DequeueError, Lease, LeaseError, Claim,
                ClaimError, Record, RecordError, Announce, AnnounceError, BusyBeat, Execute, Finish,
                FinishConflict, FinishError, Release, Stop, Restart, Fault, NoFault
  <2>2. /\ wpc[w] # "down"
        /\ beat[w] # NoId => wpc[w] \in {"idleBeat", "execute", "succeed", "fail", "release"}
        /\ beat[w] # NoId /\ wpc[w] # "idleBeat" => beat[w] = wjob[w]
    BY <2>1 DEF BeatInv
  <2>3. wpc[w] \in {"announce", "busyBeat", "execute", "succeed", "fail", "release"} =>
           /\ wjob[w] \in Job /\ wattempt[w] \in Attempt
           /\ attempts'[wjob[w]][wattempt[w]] # "none"
    BY <1>1, <2>1 DEF BeatInv, Recorded
  <2>4. wpc[w] \in {"busyBeat", "execute", "succeed", "fail", "release"} =>
           "started" \in events'[wjob[w]]
    BY <1>1, <2>1, <2>3 DEF BeatInv
  <2>5. CASE IdleBeat(w) \/ HeartbeatTick(w)
    BY <1>5, <2>1, <2>5 DEF IdleBeat, HeartbeatTick, Fault
  <2>6. CASE Dequeue(w) \/ Lease(w)
    BY <2>1, <2>2, <2>6 DEF Dequeue, Lease
  <2>7. CASE Claim(w)
    BY <2>1, <2>2, <2>7 DEF Claim
  <2>8. CASE Record(w)
    <3>1. wjob[w] \in Job /\ wattempt[w] \in Attempt
      <4>1. wjob[w] \in Job /\ wattempt[w] \in 1..jobs[wjob[w]].attempt
        BY <2>8 DEF Record, HandedOut, Executing
      <4> QED  BY <4>1, StoreAssumption DEF StoreTypeOK, JobRow, Attempt
    <3>2. attempts'[wjob[w]][wattempt[w]] # "none"
      BY <2>8, <3>1 DEF Record, InsertAttempt, StoreTypeOK
    <3> QED  BY <2>1, <2>2, <2>8, <3>1, <3>2 DEF Record
  <2>9. CASE Announce(w)
    <3>1. "started" \in events'[wjob[w]]
      BY <2>3, <2>9 DEF Announce, AppendEvent, Log, StoreTypeOK
    <3> QED  BY <2>1, <2>2, <2>3, <2>9, <3>1 DEF Announce
  <2>10. CASE BusyBeat(w)
    BY <1>5, <2>1, <2>2, <2>3, <2>4, <2>10 DEF BusyBeat, Fault
  <2>11. CASE Execute(w)
    BY <2>1, <2>2, <2>3, <2>4, <2>11 DEF Execute
  <2>12. CASE Finish(w) \/ FinishConflict(w)
    <3>1. wpc[w] \in {"succeed", "fail"} /\ Continue(w, "release")
      BY <2>12 DEF Finish, FinishConflict, StoreOutcome
    <3> QED  BY <2>1, <2>2, <2>3, <2>4, <3>1
  <2>13. CASE Release(w)
    BY <1>5, <2>1, <2>2, <2>13 DEF Release, Fault
  <2> QED
    BY <1>5, <2>1, <2>2, <2>5, <2>6, <2>7, <2>8, <2>9, <2>10, <2>11, <2>12, <2>13
       DEF WorkerStep, DequeueError, LeaseError, ClaimError, RecordError, AnnounceError,
           FinishError, Stop, Restart, Fault
<1>6. ASSUME NEW w \in Worker, WorkerStep(w) \/ Stop(w) \/ Restart(w)
      PROVE  BeatInv'
  BY <1>2, <1>3, <1>5, <1>6
<1>7. ASSUME NEW r \in Request, NewRequest(r) \/ RequestStep(r)
      PROVE  BeatInv'
  BY <1>4, <1>7 DEF NewRequest, CreateJob, CreateError, StartCancel, StartRetry, StartError,
      RequestStep, CreateEvent, Push, Remove, CancelRelease, Fault, NoFault
<1>8. ASSUME NEW R \in SUBSET Request, Abandon(R)
      PROVE  BeatInv'
  BY <1>4, <1>8 DEF Abandon, Fault
<1>9. ASSUME NEW j \in Job, Expire(j)
      PROVE  BeatInv'
  BY <1>4, <1>9 DEF Expire
<1>10. CASE UNCHANGED vars
  BY <1>4, <1>10 DEF vars
<1> QED  BY <1>6, <1>7, <1>8, <1>9, <1>10 DEF Next

\* While nothing has failed, the workers table tells the truth.
THEOREM BeatsAreCurrent == Spec => []BeatIsCurrent
<1>1. Init => BeatInv
  BY DEF Init, BeatInv
<1>2. BaseInv /\ BeatInv /\ [Next]_vars => BeatInv'
  BY BeatStep
<1>3. BaseInv /\ BeatInv => BeatIsCurrent
  BY DEF BaseInv, ProcessTypeOK, BeatInv, Recorded, BeatIsCurrent, Attempt
<1> QED  BY <1>1, <1>2, <1>3, BaseInvariant, PTL DEF Spec

(***************************************************************************)
(* One job for one key.  A create answers with the row it has inserted or  *)
(* with the one its key names already; rows keep their keys, and no two    *)
(* rows share one.                                                         *)
(***************************************************************************)
HoldsKey(r) ==
    rkey[r] # NoKey => rjob[r] \in Job /\ Exists(rjob[r]) /\ jobs[rjob[r]].key = rkey[r]

KeyNamed == \A r \in Request : HoldsKey(r)

\* A worker's step is not a request's.
LEMMA WorkerKeepsRequests ==
    ASSUME NEW w \in Worker, WorkerStep(w) \/ Stop(w) \/ Restart(w)
    PROVE  UNCHANGED requestVars
BY DEF WorkerStep, IdleBeat, HeartbeatTick, Dequeue, DequeueError, Lease, LeaseError, Claim,
       ClaimError, Record, RecordError, Announce, AnnounceError, BusyBeat, Execute, Finish,
       FinishConflict, FinishError, Release, Stop, Restart

\* Every step keeps it.
LEMMA KeyNamedStep ==
    ASSUME BaseInv, KeyNamed, [Next]_vars
    PROVE  KeyNamed'
<1>1. /\ rjob \in [Request -> Job \cup {NoId}] /\ rkey \in [Request -> IdemKey \cup {NoKey}]
      /\ StoreTypeOK /\ [StoreNext]_storeVars
  BY NextIsStoreStep DEF BaseInv, ProcessTypeOK
<1>2. ASSUME NEW j \in Job, Exists(j)
      PROVE  Exists(j)' /\ jobs'[j].key = jobs[j].key
  <2>1. CASE UNCHANGED storeVars
    BY <1>2, <2>1 DEF storeVars, Exists
  <2>2. ASSUME NEW i \in Job, JobStep(i)
        PROVE  Exists(j)' /\ jobs'[j].key = jobs[j].key
    BY <1>1, <1>2, <2>2, KeysKept, OtherJobsKept DEF Exists
  <2> QED  BY <1>1, <2>1, <2>2 DEF StoreNext, JobStep
<1>3. ASSUME NEW r \in Request, rkey'[r] = rkey[r], rjob'[r] = rjob[r]
      PROVE  HoldsKey(r)'
  BY <1>2, <1>3 DEF KeyNamed, HoldsKey, Exists
<1>4. CASE UNCHANGED <<rkey, rjob>>
  BY <1>3, <1>4 DEF KeyNamed
<1>5. ASSUME NEW r \in Request, NewRequest(r)
      PROVE  KeyNamed'
  <2>1. \A q \in Request \ {r} : rkey'[q] = rkey[q] /\ rjob'[q] = rjob[q]
    BY <1>1, <1>5 DEF NewRequest, CreateJob, CreateError, StartCancel, StartRetry, StartError, Begin
  <2>2. CASE rkey'[r] = NoKey
    BY <1>3, <2>1, <2>2 DEF KeyNamed, HoldsKey
  <2>3. ASSUME NEW j \in Job, NEW key \in IdemKey, InsertJob(j, key)
        PROVE  Exists(j)' /\ jobs'[j].key = key
    BY <1>1, <2>3 DEF InsertJob, SetJob, NoJob, StoreTypeOK, Exists
  <2>4. ASSUME rkey'[r] # NoKey
        PROVE  \E j \in Job : rjob'[r] = j /\ Exists(j)' /\ jobs'[j].key = rkey'[r]
    <3>1. PICK j \in Job, key \in IdemKey :
             /\ rjob'[r] = j /\ rkey'[r] = key
             /\ InsertJob(j, key) \/ (Exists(j) /\ jobs[j].key = key)
      BY <1>1, <1>5, <2>4
         DEF NewRequest, CreateJob, CreateError, StartCancel, StartRetry, StartError, Begin
    <3> QED  BY <1>2, <2>3, <3>1
  <2> QED  BY <1>3, <2>1, <2>2, <2>4 DEF KeyNamed, HoldsKey, Exists
<1>6. ASSUME NEW r \in Request, RequestStep(r)
      PROVE  KeyNamed'
  BY <1>4, <1>6 DEF RequestStep, CreateEvent, Push, Remove, CancelRelease, Proceed
<1> QED
  BY <1>4, <1>5, <1>6, WorkerKeepsRequests DEF Next, Abandon, Expire, vars, requestVars

SameKeySameJob ==
    \A q, r \in Request : rkey[q] # NoKey /\ rkey[q] = rkey[r] => rjob[q] = rjob[r]

\* Creates with one key, however they overlap, fail or are repeated, are all
\* about one job.
THEOREM CreatesAreIdempotent == Spec => []SameKeySameJob
<1>1. Init => KeyNamed
  BY DEF Init, KeyNamed, HoldsKey
<1>2. BaseInv /\ KeyNamed /\ [Next]_vars => KeyNamed'
  BY KeyNamedStep
<1>3. OneJobPerKey /\ KeyNamed => SameKeySameJob
  BY DEF OneJobPerKey, KeyNamed, HoldsKey, SameKeySameJob
<1> QED  BY <1>1, <1>2, <1>3, BaseInvariant, SystemKeepsStore, PTL DEF Spec
=============================================================================
