---------------------------- MODULE Orchestrator ----------------------------
(***************************************************************************)
(* The running system: workers (backend/internal/worker) and API requests  *)
(* (backend/internal/jobs) that change the Postgres tables of JobStore and *)
(* the Redis structures of ReadyQueue.  One action is one call to one of   *)
(* the two stores; whatever a process does between two calls is local to   *)
(* it, so any other process may act there.                                 *)
(*                                                                         *)
(* A call that fails, and a process that dies, is a fault; there are at    *)
(* most MaxFaults of them.  A call that fails may or may not have taken    *)
(* effect.  A lease running out is not a fault: it only takes time.        *)
(***************************************************************************)
EXTENDS JobStore

CONSTANTS Worker,       \* worker processes, each with a WORKER_ID of its own
          NoWorker,     \* the value of a lease nobody holds
          Request,      \* slots for API requests, one request each
          NoId,         \* the empty job id
          MaxFaults     \* bound on failed calls and dying processes

ASSUME OrchestratorAssumption == /\ NoWorker \notin Worker
                                 /\ NoId \notin Job
                                 /\ MaxFaults \in Nat

VARIABLES ready, lease, \* the Redis structures
          wpc,          \* wpc[w]: the call worker w makes next
          wjob,         \* wjob[w]: the job id it holds, or NoId
          wattempt,     \* wattempt[w]: the attempt it claimed
          beat,         \* beat[w]: running_job_id in its workers row
          rpc,          \* rpc[r]: the call request r makes next
          rjob,         \* rjob[r]: the job it is about
          rkey,         \* rkey[r]: the idempotency key it was sent with
          faults        \* faults so far

INSTANCE ReadyQueue

queueVars == <<ready, lease>>
workerVars == <<wpc, wjob, wattempt, beat>>
requestVars == <<rpc, rjob, rkey>>
vars == <<storeVars, queueVars, workerVars, requestVars, faults>>
-----------------------------------------------------------------------------
WorkerPC == {"down", "idleBeat", "loop", "lease", "claim", "record", "announce",
             "busyBeat", "execute", "succeed", "fail", "release", "drop"}

\* From the claim to the call that stores the outcome.
Executing(w) == wpc[w] \in {"record", "announce", "busyBeat", "execute", "succeed", "fail"}

RequestPC == {"new", "createEvent", "createPush", "cancelRemove", "cancelRelease",
              "retryRemove", "retryPush", "answered", "failed"}

InFlight(r) == rpc[r] \notin {"new", "answered", "failed"}

Init ==
    /\ StoreInit
    /\ QueueInit
    /\ wpc = [w \in Worker |-> "idleBeat"]
    /\ wjob = [w \in Worker |-> NoId]
    /\ wattempt = [w \in Worker |-> 0]
    /\ beat = [w \in Worker |-> NoId]
    /\ rpc = [r \in Request |-> "new"]
    /\ rjob = [r \in Request |-> NoId]
    /\ rkey = [r \in Request |-> NoKey]
    /\ faults = 0

Fault == faults < MaxFaults /\ faults' = faults + 1
NoFault == UNCHANGED faults

Goto(w, label) == wpc' = [wpc EXCEPT ![w] = label]

Continue(w, label) == Goto(w, label) /\ UNCHANGED <<wjob, wattempt, beat>>

\* The local variables of the loop body go out of scope.
LeaveJob(w, label) ==
    /\ Goto(w, label)
    /\ wjob' = [wjob EXCEPT ![w] = NoId]
    /\ wattempt' = [wattempt EXCEPT ![w] = 0]
    /\ UNCHANGED beat
-----------------------------------------------------------------------------
(* Runner.Run: the worker loop, one job at a time.                         *)

\* Mutant: the local state is not reset to idle before the heartbeat.
IdleBeat_StillBusy(w) ==
    /\ wpc[w] = "idleBeat"
    /\ Goto(w, "loop")
    /\ UNCHANGED <<storeVars, queueVars, wjob, wattempt, beat, requestVars, faults>>

\* emitHeartbeat at start and after a job; its failure is logged.
IdleBeat(w) ==
    /\ wpc[w] = "idleBeat"
    /\ Goto(w, "loop")
    /\ \/ NoFault /\ beat' = [beat EXCEPT ![w] = NoId]
       \/ Fault /\ UNCHANGED beat
    /\ UNCHANGED <<storeVars, queueVars, wjob, wattempt, requestVars>>

\* The ticker fires only between jobs.
HeartbeatTick(w) ==
    /\ wpc[w] = "loop"
    /\ beat' = [beat EXCEPT ![w] = NoId]
    /\ UNCHANGED <<storeVars, queueVars, wpc, wjob, wattempt, requestVars, faults>>

Dequeue(w) ==
    /\ wpc[w] = "loop"
    /\ \E j \in Job :
          /\ DequeueJob(j)
          /\ wjob' = [wjob EXCEPT ![w] = j]
    /\ Goto(w, "lease")
    /\ UNCHANGED <<storeVars, wattempt, beat, requestVars, faults>>

\* The reply to BRPOP is lost, and the entry with it.
DequeueError(w) ==
    /\ wpc[w] = "loop"
    /\ \E j \in Job : DequeueJob(j)
    /\ Fault
    /\ UNCHANGED <<storeVars, workerVars, requestVars>>

\* A job whose lease is taken is given up; its entry is not put back.
Lease(w) ==
    /\ wpc[w] = "lease"
    /\ \/ AcquireLease(wjob[w], w) /\ Continue(w, "claim")
       \/ lease[wjob[w]] # NoWorker /\ LeaveJob(w, "loop") /\ UNCHANGED queueVars
    /\ UNCHANGED <<storeVars, requestVars, faults>>

LeaseError(w) ==
    /\ wpc[w] = "lease"
    /\ \/ AcquireLease(wjob[w], w)
       \/ UNCHANGED queueVars
    /\ LeaveJob(w, "loop")
    /\ Fault
    /\ UNCHANGED <<storeVars, requestVars>>

\* Mutant: a refused claim goes back to the loop with the lease.
Claim_KeepsLease(w) ==
    /\ wpc[w] = "claim"
    /\ \/ /\ MarkJobRunning(wjob[w])
          /\ wattempt' = [wattempt EXCEPT ![w] = jobs'[wjob[w]].attempt]
          /\ Goto(w, "record")
          /\ UNCHANGED <<wjob, beat>>
       \/ /\ jobs[wjob[w]].status # "queued"
          /\ LeaveJob(w, "loop")
          /\ UNCHANGED storeVars
    /\ UNCHANGED <<queueVars, requestVars, faults>>

\* MarkJobRunning's first statement; a job that is not queued is given up.
Claim(w) ==
    /\ wpc[w] = "claim"
    /\ \/ /\ MarkJobRunning(wjob[w])
          /\ wattempt' = [wattempt EXCEPT ![w] = jobs'[wjob[w]].attempt]
          /\ Goto(w, "record")
       \/ /\ jobs[wjob[w]].status # "queued"
          /\ UNCHANGED <<storeVars, wattempt>>
          /\ Goto(w, "drop")
    /\ UNCHANGED <<queueVars, wjob, beat, requestVars, faults>>

ClaimError(w) ==
    /\ wpc[w] = "claim"
    /\ \/ MarkJobRunning(wjob[w])
       \/ UNCHANGED storeVars
    /\ Continue(w, "drop")
    /\ Fault
    /\ UNCHANGED <<queueVars, requestVars>>

\* Mutant: the attempt is counted twice.
Record_NextAttempt(w) ==
    /\ wpc[w] = "record"
    /\ wattempt[w] < MaxAttempt
    /\ InsertAttempt(wjob[w], wattempt[w] + 1)
    /\ Continue(w, "announce")
    /\ UNCHANGED <<queueVars, requestVars, faults>>

Record(w) ==
    /\ wpc[w] = "record"
    /\ InsertAttempt(wjob[w], wattempt[w])
    /\ Continue(w, "announce")
    /\ UNCHANGED <<queueVars, requestVars, faults>>

RecordError(w) ==
    /\ wpc[w] = "record"
    /\ \/ InsertAttempt(wjob[w], wattempt[w])
       \/ UNCHANGED storeVars
    /\ Continue(w, "drop")
    /\ Fault
    /\ UNCHANGED <<queueVars, requestVars>>

Announce(w) ==
    /\ wpc[w] = "announce"
    /\ AppendEvent(wjob[w], "started")
    /\ Continue(w, "busyBeat")
    /\ UNCHANGED <<queueVars, requestVars, faults>>

AnnounceError(w) ==
    /\ wpc[w] = "announce"
    /\ \/ AppendEvent(wjob[w], "started")
       \/ UNCHANGED storeVars
    /\ Continue(w, "drop")
    /\ Fault
    /\ UNCHANGED <<queueVars, requestVars>>

BusyBeat(w) ==
    /\ wpc[w] = "busyBeat"
    /\ Goto(w, "execute")
    /\ \/ NoFault /\ beat' = [beat EXCEPT ![w] = wjob[w]]
       \/ Fault /\ UNCHANGED beat
    /\ UNCHANGED <<storeVars, queueVars, wjob, wattempt, requestVars>>

\* executeJob returns nil or an error; both are always possible.
Execute(w) ==
    /\ wpc[w] = "execute"
    /\ \E outcome \in {"succeed", "fail"} : Continue(w, outcome)
    /\ UNCHANGED <<storeVars, queueVars, requestVars, faults>>

\* Mutant: a failed run returns without MarkJobFailed.
StoreOutcome_SuccessOnly(w) ==
    \/ wpc[w] = "succeed" /\ MarkJobSucceeded(wjob[w])
    \/ wpc[w] = "fail" /\ UNCHANGED storeVars
    \/ wpc[w] = "succeed" /\ ~Running(wjob[w]) /\ UNCHANGED storeVars

\* The outcome goes to the attempt the job is on now; a job that no longer runs
\* refuses it.
StoreOutcome(w) ==
    \/ wpc[w] = "succeed" /\ MarkJobSucceeded(wjob[w])
    \/ wpc[w] = "fail" /\ MarkJobFailed(wjob[w])
    \/ wpc[w] \in {"succeed", "fail"} /\ ~Running(wjob[w]) /\ UNCHANGED storeVars

Finish(w) ==
    /\ StoreOutcome(w)
    /\ Continue(w, "release")
    /\ UNCHANGED <<queueVars, requestVars, faults>>

\* The transaction found no attempt row and another worker's insert came between
\* its update and its insert: the primary key refuses the row, and it rolls back.
FinishConflict(w) ==
    /\ wpc[w] \in {"succeed", "fail"}
    /\ Running(wjob[w])
    /\ attempts[wjob[w]][jobs[wjob[w]].attempt] = "none"
    /\ \E v \in Worker \ {w} : /\ wpc[v] = "record"
                               /\ wjob[v] = wjob[w]
                               /\ wattempt[v] = jobs[wjob[w]].attempt
    /\ Continue(w, "release")
    /\ UNCHANGED <<storeVars, queueVars, requestVars, faults>>

FinishError(w) ==
    /\ wpc[w] \in {"succeed", "fail"}
    /\ StoreOutcome(w) \/ UNCHANGED storeVars
    /\ Continue(w, "release")
    /\ Fault
    /\ UNCHANGED <<queueVars, requestVars>>

\* ReleaseLease after an outcome ("release") or an abandoned claim ("drop").
Release(w) ==
    /\ \/ wpc[w] = "release" /\ LeaveJob(w, "idleBeat")
       \/ wpc[w] = "drop" /\ LeaveJob(w, "loop")
    /\ \/ NoFault /\ ReleaseLease(wjob[w])
       \/ Fault /\ UNCHANGED queueVars
    /\ UNCHANGED <<storeVars, requestVars>>

\* The process ends: it crashed, or a signal cancelled the context, after which
\* every call it makes fails.
Stop(w) ==
    /\ wpc[w] # "down"
    /\ LeaveJob(w, "down")
    /\ Fault
    /\ UNCHANGED <<storeVars, queueVars, requestVars>>

Restart(w) ==
    /\ wpc[w] = "down"
    /\ Continue(w, "idleBeat")
    /\ UNCHANGED <<storeVars, queueVars, requestVars, faults>>
-----------------------------------------------------------------------------
(* Service: the requests of the API, each in a goroutine of its own.       *)

Begin(r, label, j, key) ==
    /\ rpc[r] = "new"
    /\ rpc' = [rpc EXCEPT ![r] = label]
    /\ rjob' = [rjob EXCEPT ![r] = j]
    /\ rkey' = [rkey EXCEPT ![r] = key]

Proceed(r, from, to) ==
    /\ rpc[r] = from
    /\ rpc' = [rpc EXCEPT ![r] = to]
    /\ UNCHANGED <<rjob, rkey>>

\* CreateJob: a new row, or the row the key already names, returned as it is.
CreateJob(r, key) ==
    /\ \/ \E j \in Job : InsertJob(j, key) /\ Begin(r, "createEvent", j, key)
       \/ \E j \in Job : /\ KeyTaken(key)
                         /\ Exists(j)
                         /\ jobs[j].key = key
                         /\ Begin(r, "answered", j, key)
                         /\ UNCHANGED storeVars
    /\ UNCHANGED <<queueVars, workerVars, faults>>

CreateError(r, key) ==
    /\ \E j \in Job : InsertJob(j, key) /\ Begin(r, "failed", j, key)
    /\ Fault
    /\ UNCHANGED <<queueVars, workerVars>>

\* Mutant: the handler answers before it has pushed the job.
CreateEvent_Answers(r) ==
    /\ Proceed(r, "createEvent", "answered")
    /\ AppendEvent(rjob[r], "created")
    /\ UNCHANGED <<queueVars, workerVars, faults>>

\* CreateJob's job.created event, after the insert has committed.
CreateEvent(r) ==
    /\ \/ NoFault /\ Proceed(r, "createEvent", "createPush") /\ AppendEvent(rjob[r], "created")
       \/ Fault /\ Proceed(r, "createEvent", "failed") /\ AppendEvent(rjob[r], "created")
       \/ Fault /\ Proceed(r, "createEvent", "failed") /\ UNCHANGED storeVars
    /\ UNCHANGED <<queueVars, workerVars>>

\* The push that ends a create or a retry; its failure is answered with a 500.
Push(r) ==
    /\ \E push \in {"createPush", "retryPush"} :
          \/ NoFault /\ Proceed(r, push, "answered") /\ EnqueueJob(rjob[r])
          \/ Fault /\ Proceed(r, push, "failed") /\ EnqueueJob(rjob[r])
          \/ Fault /\ Proceed(r, push, "failed") /\ UNCHANGED queueVars
    /\ UNCHANGED <<storeVars, workerVars>>

\* CancelJob and RetryJob: the transaction, or the 404 or 409 that refuses it.
StartCancel(r, j) ==
    /\ \/ CancelJob(j) /\ Begin(r, "cancelRemove", j, NoKey)
       \/ ~Cancellable(j) /\ Begin(r, "failed", j, NoKey) /\ UNCHANGED storeVars
    /\ UNCHANGED <<queueVars, workerVars, faults>>

StartRetry(r, j) ==
    /\ \/ RetryJob(j) /\ Begin(r, "retryRemove", j, NoKey)
       \/ ~Retryable(j) /\ Begin(r, "failed", j, NoKey) /\ UNCHANGED storeVars
    /\ UNCHANGED <<queueVars, workerVars, faults>>

\* The transaction commits and the answer to the commit is lost: a 500.
StartError(r, j) ==
    /\ CancelJob(j) \/ RetryJob(j)
    /\ Begin(r, "failed", j, NoKey)
    /\ Fault
    /\ UNCHANGED <<queueVars, workerVars>>

\* Mutant: a retry does not remove stale entries.
Remove_CancelOnly(r) ==
    /\ \/ Proceed(r, "cancelRemove", "cancelRelease") /\ RemoveQueuedJob(rjob[r])
       \/ Proceed(r, "retryRemove", "retryPush") /\ UNCHANGED queueVars
    /\ UNCHANGED <<storeVars, workerVars, faults>>

\* The removal of stale entries, and in a cancel of the lease, is best effort.
Remove(r) ==
    /\ \/ Proceed(r, "cancelRemove", "cancelRelease")
       \/ Proceed(r, "retryRemove", "retryPush")
    /\ \/ NoFault /\ RemoveQueuedJob(rjob[r])
       \/ Fault /\ UNCHANGED queueVars
    /\ UNCHANGED <<storeVars, workerVars>>

CancelRelease(r) ==
    /\ Proceed(r, "cancelRelease", "answered")
    /\ \/ NoFault /\ ReleaseLease(rjob[r])
       \/ Fault /\ UNCHANGED queueVars
    /\ UNCHANGED <<storeVars, workerVars>>

\* The client goes away, which cancels the request's context, or the API dies:
\* requests in flight make no further call.
Abandon(R) ==
    /\ R # {} /\ \A r \in R : InFlight(r)
    /\ rpc' = [r \in Request |-> IF r \in R THEN "failed" ELSE rpc[r]]
    /\ Fault
    /\ UNCHANGED <<storeVars, queueVars, workerVars, rjob, rkey>>
-----------------------------------------------------------------------------
WorkerStep(w) ==
    \/ IdleBeat(w) \/ HeartbeatTick(w)
    \/ Dequeue(w) \/ DequeueError(w)
    \/ Lease(w) \/ LeaseError(w)
    \/ Claim(w) \/ ClaimError(w)
    \/ Record(w) \/ RecordError(w)
    \/ Announce(w) \/ AnnounceError(w)
    \/ BusyBeat(w)
    \/ Execute(w)
    \/ Finish(w) \/ FinishConflict(w) \/ FinishError(w)
    \/ Release(w)

RequestStep(r) == CreateEvent(r) \/ Push(r) \/ Remove(r) \/ CancelRelease(r)

NewRequest(r) ==
    \/ \E key \in IdemKey \cup {NoKey} : CreateJob(r, key) \/ CreateError(r, key)
    \/ \E j \in Job : StartCancel(r, j) \/ StartRetry(r, j) \/ StartError(r, j)

Expire(j) ==
    /\ LeaseExpires(j)
    /\ UNCHANGED <<storeVars, workerVars, requestVars, faults>>

Next ==
    \/ \E w \in Worker : WorkerStep(w) \/ Stop(w) \/ Restart(w)
    \/ \E r \in Request : NewRequest(r) \/ RequestStep(r)
    \/ \E R \in SUBSET Request : Abandon(R)
    \/ \E j \in Job : Expire(j)

Spec == Init /\ [][Next]_vars

\* A live process keeps making its calls; nobody has to start a request or a
\* worker, and no lease has to run out.
Fairness == /\ \A w \in Worker : WF_vars(WorkerStep(w))
            /\ \A r \in Request : WF_vars(RequestStep(r))

FairSpec == Spec /\ Fairness

\* An operator who waits for each answer before sending the next request.
OneInFlight == \A q, r \in Request : InFlight(q) /\ InFlight(r) => q = r

SerialSpec == Init /\ [][Next /\ OneInFlight']_vars /\ Fairness
-----------------------------------------------------------------------------
\* Where a process stands says whether it holds a job id and an attempt.
ProcessTypeOK ==
    /\ wpc \in [Worker -> WorkerPC]
    /\ wjob \in [Worker -> Job \cup {NoId}]
    /\ wattempt \in [Worker -> 0..MaxAttempt]
    /\ beat \in [Worker -> Job \cup {NoId}]
    /\ rpc \in [Request -> RequestPC]
    /\ rjob \in [Request -> Job \cup {NoId}]
    /\ rkey \in [Request -> IdemKey \cup {NoKey}]
    /\ faults \in 0..MaxFaults
    /\ \A w \in Worker : wjob[w] = NoId <=> wpc[w] \in {"down", "idleBeat", "loop"}
    /\ \A r \in Request : InFlight(r) => rjob[r] # NoId

\* Every variable has its type.
TypeOK == StoreTypeOK /\ QueueTypeOK /\ ProcessTypeOK

\* A worker runs an attempt number that its job's counter has reached.
HandedOut == \A w \in Worker : Executing(w) => wattempt[w] \in 1..jobs[wjob[w]].attempt

\* No two workers ever run the same attempt of a job: neither a lease that ran
\* out or was deleted, nor a cancel and a retry, nor any failed call lets the
\* same claim succeed twice.
ClaimedOnce ==
    \A v, w \in Worker :
        /\ v # w
        /\ Executing(v) /\ Executing(w)
        /\ wjob[v] = wjob[w]
        => wattempt[v] # wattempt[w]

\* A worker runs an attempt that is no longer the running attempt of its job only
\* if the job has been cancelled at some time: under this worker, or under an
\* earlier one whose late outcome has ended the attempt of this one.  In a job
\* never cancelled no failed call, expired or deleted lease or second entry in
\* the list does that.
StaleNeedsCancel ==
    \A w \in Worker :
        Executing(w) => \/ Running(wjob[w]) /\ jobs[wjob[w]].attempt = wattempt[w]
                        \/ "cancelled" \in events[wjob[w]]

\* An attempt row that is not the running attempt's is open only if the job has
\* been cancelled at some time: a cancel that comes between a claim and the insert
\* leaves a row open.  In a job never cancelled every outcome closes its row,
\* whatever calls fail and however they interleave.
OpenAttemptNeedsCancel ==
    \A j \in Job : \A a \in Attempt :
        attempts[j][a] = "open" => \/ Running(j) /\ jobs[j].attempt = a
                                   \/ "cancelled" \in events[j]

\* While no call has failed and no process has died, a job the database calls
\* running is being run, in that attempt, by a worker.
RunningHasWorker ==
    \A j \in Job :
        faults = 0 /\ Running(j) =>
            \E w \in Worker : Executing(w) /\ wjob[w] = j /\ wattempt[w] = jobs[j].attempt

\* While nothing has failed, every lease is held by a worker that will release
\* it: none is left to its time to live.
LeaseNotLeaked ==
    \A j \in Job :
        faults = 0 /\ lease[j] # NoWorker =>
            /\ wjob[lease[j]] = j
            /\ wpc[lease[j]] # "lease"

\* A worker that reports a job as running has claimed it, recorded the attempt
\* and logged its start; it reports none while it waits for work.
BeatIsCurrent ==
    \A w \in Worker :
        faults = 0 /\ beat[w] # NoId /\ wpc[w] # "idleBeat" =>
            /\ wjob[w] = beat[w]
            /\ wattempt[w] > 0
            /\ attempts[wjob[w]][wattempt[w]] # "none"
            /\ "started" \in events[wjob[w]]

\* The worker or the request that will bring a queued job to a claim.
Reachable(j) ==
    \/ InReady(j)
    \/ \E r \in Request :
          rjob[r] = j /\ rpc[r] \in {"createEvent", "createPush", "retryRemove", "retryPush"}
    \/ \E w \in Worker : wjob[w] = j /\ wpc[w] \in {"lease", "claim"}

\* While nothing has failed, a job that was never retried is not lost between
\* the table and the list, however many workers and requests there are.
FirstRunReachable ==
    \A j \in Job :
        /\ faults = 0
        /\ jobs[j].status = "queued"
        /\ "retry_scheduled" \notin events[j]
        => Reachable(j)

\* The same for every queued job: the worker process dequeues and executes jobs.
QueuedReachable ==
    \A j \in Job : faults = 0 /\ jobs[j].status = "queued" => Reachable(j)

\* While nothing has failed, a retry leaves no second entry of its job in the
\* ready list.
NoDuplicateEntries ==
    faults = 0 => \A i, k \in DOMAIN ready : ready[i] = ready[k] => i = k

\* Every step of the system is one of the statements the store accounts for, so
\* what StoreSpec guarantees holds of the running system.
ImplementsStore == StoreSpec

Settled(j) == jobs[j].status \in {"succeeded", "failed", "cancelled"}

\* While nothing fails, a job that exists ends, in whatever way: it is never
\* forgotten.
JobsSettle == \A j \in Job : Exists(j) ~> (Settled(j) \/ faults > 0)

\* A job that one failure has lost, be it an entry never pushed, one popped by a
\* worker that died, or a run without a worker, comes back with a retry: once no
\* more fails, a live worker brings it to its end, unless an old lease still
\* stands in the way.
RetryRecovers ==
    \A r \in Request : \A j \in Job :
        /\ rpc[r] = "retryRemove" /\ rjob[r] = j /\ jobs[j].status = "queued"
        /\ faults = MaxFaults
        /\ lease[j] = NoWorker
        /\ \E w \in Worker : wpc[w] # "down"
        ~> Settled(j)

\* No attempt runs for ever, however many workers and requests overlap: also when
\* a stale worker's outcome meets the insert of the new attempt and rolls back.
AttemptsEnd ==
    \A j \in Job : \A a \in Attempt :
        (Running(j) /\ jobs[j].attempt = a) ~> ~(Running(j) /\ jobs[j].attempt = a)
=============================================================================
