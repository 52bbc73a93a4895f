------------------------------ MODULE JobStore ------------------------------
(***************************************************************************)
(* The Postgres tables jobs, job_attempts and events, and the statements   *)
(* of backend/internal/store that change them.  One action is one atomic   *)
(* unit of the database: an auto-committed statement or a transaction.     *)
(* StoreSpec lets callers issue them in any order, so what holds here      *)
(* holds whatever the workers and the API do.                              *)
(*                                                                         *)
(* Abstractions: timestamps are kept as "is it null", a tenant and its     *)
(* idempotency key are one value of IdemKey (the code only ever uses the   *)
(* pair), and the event log is the set of kinds of event stored for a job. *)
(* Model, payload, priority, tokens and cost steer nothing and are left    *)
(* out.                                                                    *)
(***************************************************************************)
EXTENDS Naturals

CONSTANTS Job,          \* job identifiers
          IdemKey,      \* (tenant, idempotency key) pairs
          NoKey,        \* the null idempotency key
          MaxAttempt    \* bound on the attempts of one job

ASSUME StoreAssumption == /\ NoKey \notin IdemKey
                          /\ MaxAttempt \in Nat

VARIABLES jobs,         \* jobs[j]: the row of job j
          attempts,     \* attempts[j][a]: the job_attempts row (j, a)
          events        \* events[j]: kinds of event recorded for job j

storeVars == <<jobs, attempts, events>>
-----------------------------------------------------------------------------
JobStatus == {"queued", "running", "succeeded", "failed",
              "retry_scheduled", "dlq", "cancelled"}

Attempt == 1..MaxAttempt

JobRow == [status   : JobStatus \cup {"absent"},
           key      : IdemKey \cup {NoKey},
           attempt  : 0..MaxAttempt,
           started  : BOOLEAN,
           finished : BOOLEAN,
           error    : {"none", "CANCELLED", "PROVIDER_TIMEOUT"}]

\* "none": no row; "open": finished_at is null; otherwise how it finished.
AttemptRow == {"none", "open", "success", "failure", "cancelled"}

\* "cancelled" is the job.failed event of CancelJob, which names no worker;
\* "failed" is the job.failed event of MarkJobFailed.
EventKind == {"created", "started", "succeeded", "failed", "cancelled", "retry_scheduled"}

NoJob == [status |-> "absent", key |-> NoKey, attempt |-> 0,
          started |-> FALSE, finished |-> FALSE, error |-> "none"]

StoreInit ==
    /\ jobs = [j \in Job |-> NoJob]
    /\ attempts = [j \in Job |-> [a \in Attempt |-> "none"]]
    /\ events = [j \in Job |-> {}]

Exists(j) == jobs[j].status # "absent"

SetJob(j, row) == jobs' = [jobs EXCEPT ![j] = row]

Log(j, kind) == events' = [events EXCEPT ![j] = @ \cup {kind}]
-----------------------------------------------------------------------------
\* Mutant: the index covers running jobs only.
KeyTaken_Unfinished(key) ==
    key # NoKey /\ \E j \in Job : Exists(j) /\ jobs[j].key = key /\ ~jobs[j].finished

\* The unique index on (tenant_id, idempotency_key); null keys never collide.
KeyTaken(key) == key # NoKey /\ \E j \in Job : Exists(j) /\ jobs[j].key = key

\* CreateJob: INSERT ... ON CONFLICT DO NOTHING, with a fresh uuid.
InsertJob(j, key) ==
    /\ ~Exists(j)
    /\ ~KeyTaken(key)
    /\ SetJob(j, [NoJob EXCEPT !.status = "queued", !.key = key])
    /\ UNCHANGED <<attempts, events>>

\* appendEvent: an auto-committed insert, separate from the change it reports.
AppendEvent(j, kind) ==
    /\ Exists(j)
    /\ Log(j, kind)
    /\ UNCHANGED <<jobs, attempts>>

Cancellable(j) == jobs[j].status \in {"queued", "running", "retry_scheduled"}

\* Mutant: the attempt update lacks its "finished_at IS NULL" condition.
CancelJob_AllAttempts(j) ==
    /\ Cancellable(j)
    /\ SetJob(j, [jobs[j] EXCEPT !.status = "cancelled",
                                 !.finished = TRUE,
                                 !.error = "CANCELLED"])
    /\ attempts' = [attempts EXCEPT ![j] =
                       [a \in Attempt |-> IF @[a] # "none" THEN "cancelled" ELSE @[a]]]
    /\ Log(j, "cancelled")

\* CancelJob: one transaction over the three tables.
CancelJob(j) ==
    /\ Cancellable(j)
    /\ SetJob(j, [jobs[j] EXCEPT !.status = "cancelled",
                                 !.finished = TRUE,
                                 !.error = "CANCELLED"])
    /\ attempts' = [attempts EXCEPT ![j] =
                       [a \in Attempt |-> IF @[a] = "open" THEN "cancelled" ELSE @[a]]]
    /\ Log(j, "cancelled")

\* Mutant: a finished job may always be run again.
Retryable_AnyFinished(j) == jobs[j].status \notin {"absent", "running"}

Retryable(j) == jobs[j].status \in {"failed", "cancelled", "dlq", "retry_scheduled", "queued"}

\* Mutant: finished_at is not cleared.
RetryJob_KeepsFinished(j) ==
    /\ Retryable(j)
    /\ SetJob(j, [jobs[j] EXCEPT !.status = "queued",
                                 !.started = FALSE,
                                 !.error = "none"])
    /\ Log(j, "retry_scheduled")
    /\ UNCHANGED attempts

\* Mutant: a retry hands the attempt back.
RetryJob_RefundsAttempt(j) ==
    /\ Retryable(j)
    /\ SetJob(j, [jobs[j] EXCEPT !.status = "queued",
                                 !.started = FALSE,
                                 !.finished = FALSE,
                                 !.attempt = jobs[j].attempt - 1,
                                 !.error = "none"])
    /\ Log(j, "retry_scheduled")
    /\ UNCHANGED attempts

\* RetryJob: one transaction; the attempt counter keeps its value.
RetryJob(j) ==
    /\ Retryable(j)
    /\ SetJob(j, [jobs[j] EXCEPT !.status = "queued",
                                 !.started = FALSE,
                                 !.finished = FALSE,
                                 !.error = "none"])
    /\ Log(j, "retry_scheduled")
    /\ UNCHANGED attempts

\* Mutant: a claim does not open a new attempt number after a retry.
MarkJobRunning_ReusesAttempt(j) ==
    /\ jobs[j].status = "queued"
    /\ jobs[j].attempt < MaxAttempt
    /\ SetJob(j, [jobs[j] EXCEPT !.status = "running",
                                 !.started = TRUE,
                                 !.attempt = IF jobs[j].attempt = 0 THEN 1 ELSE jobs[j].attempt,
                                 !.error = "none"])
    /\ UNCHANGED <<attempts, events>>

\* Mutant: the update does not check that the job is still queued.
MarkJobRunning_Unchecked(j) ==
    /\ jobs[j].status \in {"queued", "running"}
    /\ jobs[j].attempt < MaxAttempt
    /\ SetJob(j, [jobs[j] EXCEPT !.status = "running",
                                 !.started = TRUE,
                                 !.attempt = jobs[j].attempt + 1,
                                 !.error = "none"])
    /\ UNCHANGED <<attempts, events>>

\* MarkJobRunning, first statement: the compare-and-set that claims a job.
MarkJobRunning(j) ==
    /\ jobs[j].status = "queued"
    /\ jobs[j].attempt < MaxAttempt
    /\ SetJob(j, [jobs[j] EXCEPT !.status = "running",
                                 !.started = TRUE,
                                 !.attempt = jobs[j].attempt + 1,
                                 !.error = "none"])
    /\ UNCHANGED <<attempts, events>>

\* MarkJobRunning, second statement: a row that exists only gets a new started_at.
InsertAttempt(j, a) ==
    /\ Exists(j)
    /\ attempts' = [attempts EXCEPT ![j][a] = IF @ = "none" THEN "open" ELSE @]
    /\ UNCHANGED <<jobs, events>>

Running(j) == jobs[j].status = "running"

\* Mutant: no insert when the update finds no attempt row.
MarkJobSucceeded_UpdateOnly(j) ==
    /\ Running(j)
    /\ SetJob(j, [jobs[j] EXCEPT !.status = "succeeded",
                                 !.finished = TRUE,
                                 !.error = "none"])
    /\ attempts' = [attempts EXCEPT ![j][jobs[j].attempt] =
                       IF @ = "none" THEN @ ELSE "success"]
    /\ Log(j, "succeeded")

\* MarkJobSucceeded: the transaction writes the row of the attempt the job is
\* on now, and inserts it when MarkJobRunning has not done so.
MarkJobSucceeded(j) ==
    /\ Running(j)
    /\ SetJob(j, [jobs[j] EXCEPT !.status = "succeeded",
                                 !.finished = TRUE,
                                 !.error = "none"])
    /\ attempts' = [attempts EXCEPT ![j][jobs[j].attempt] = "success"]
    /\ Log(j, "succeeded")

\* MarkJobFailed: the same transaction with the other outcome.
MarkJobFailed(j) ==
    /\ Running(j)
    /\ SetJob(j, [jobs[j] EXCEPT !.status = "failed",
                                 !.finished = TRUE,
                                 !.error = "PROVIDER_TIMEOUT"])
    /\ attempts' = [attempts EXCEPT ![j][jobs[j].attempt] = "failure"]
    /\ Log(j, "failed")

\* Callers only name attempts that MarkJobRunning has handed out.
StoreNext ==
    \E j \in Job :
        \/ \E key \in IdemKey \cup {NoKey} : InsertJob(j, key)
        \/ \E kind \in {"created", "started"} : AppendEvent(j, kind)
        \/ CancelJob(j)
        \/ RetryJob(j)
        \/ MarkJobRunning(j)
        \/ \E a \in 1..jobs[j].attempt : InsertAttempt(j, a)
        \/ MarkJobSucceeded(j)
        \/ MarkJobFailed(j)

StoreSpec == StoreInit /\ [][StoreNext]_storeVars
-----------------------------------------------------------------------------
\* The tables hold rows of the schema's types.
StoreTypeOK ==
    /\ jobs \in [Job -> JobRow]
    /\ attempts \in [Job -> [Attempt -> AttemptRow]]
    /\ events \in [Job -> SUBSET EventKind]

\* A (tenant, idempotency key) pair names at most one job, for ever: the promise
\* behind answering a repeated POST /v1/jobs with the first job.
OneJobPerKey ==
    \A i, j \in Job :
        Exists(i) /\ Exists(j) /\ jobs[i].key = jobs[j].key /\ jobs[i].key # NoKey => i = j

\* The two tables agree on the outcome: a succeeded or failed job has a closed
\* row of that outcome for its current attempt, even when the worker that
\* finished it came before the row was inserted.
OutcomeRecorded ==
    \A j \in Job :
        /\ jobs[j].status = "succeeded" => /\ jobs[j].attempt > 0
                                           /\ attempts[j][jobs[j].attempt] = "success"
        /\ jobs[j].status = "failed" => /\ jobs[j].attempt > 0
                                        /\ attempts[j][jobs[j].attempt] = "failure"

\* The attempt rows are exactly those of claims made: none is numbered past the
\* job's counter, and the row of the running attempt, if it is there, is open.
RowsMatchCounter ==
    \A j \in Job :
        /\ ~Exists(j) => jobs[j].attempt = 0
        /\ \A a \in Attempt : a > jobs[j].attempt => attempts[j][a] = "none"
        /\ Running(j) => /\ jobs[j].attempt > 0
                         /\ attempts[j][jobs[j].attempt] \in {"none", "open"}

\* A job has at most one successful attempt, its last, and then is succeeded.
SuccessIsLast ==
    \A j \in Job : \A a \in Attempt :
        attempts[j][a] = "success" => jobs[j].status = "succeeded" /\ jobs[j].attempt = a

\* finished_at is set exactly while the job is in a final status, and a job that
\* waits carries no start time or error of an earlier run: what the job page
\* builds its timeline from.
DatesMatchStatus ==
    \A j \in Job :
        /\ jobs[j].finished <=> jobs[j].status \in {"succeeded", "failed", "cancelled"}
        /\ jobs[j].status = "queued" => ~jobs[j].started /\ jobs[j].error = "none"
        /\ jobs[j].status \in {"running", "succeeded", "failed"} => jobs[j].started
        /\ jobs[j].status = "cancelled" <=> jobs[j].error = "CANCELLED"

\* A closed attempt keeps its verdict: no late worker, cancellation or retry
\* rewrites it.
ClosedAttemptKept ==
    [][\A j \in Job : \A a \in Attempt :
          attempts[j][a] \in {"success", "failure", "cancelled"}
              => attempts'[j][a] = attempts[j][a]]_storeVars

\* The row of a job that has succeeded never changes, and neither does the verdict of
\* any of its attempts, whichever of them succeeded: all that may still come is the row of an
\* earlier attempt, inserted late by the worker that claimed it.
SuccessIsFinal ==
    [][\A j \in Job :
          jobs[j].status = "succeeded" =>
              /\ jobs'[j] = jobs[j]
              /\ \A a \in Attempt :
                    \/ attempts'[j][a] = attempts[j][a]
                    \/ /\ a < jobs[j].attempt
                       /\ attempts[j][a] = "none"
                       /\ attempts'[j][a] = "open"]_storeVars

PhaseOf(status) ==
    CASE status = "absent" -> "absent"
      [] status \in {"queued", "retry_scheduled"} -> "waiting"
      [] status = "running" -> "active"
      [] status \in {"failed", "cancelled", "dlq"} -> "stopped"
      [] status = "succeeded" -> "succeeded"

VerdictOf(row) == IF row \in {"none", "open"} THEN "pending" ELSE row

Ledger == INSTANCE AttemptLedger WITH
    phase  <- [j \in Job |-> PhaseOf(jobs[j].status)],
    tries  <- [j \in Job |-> jobs[j].attempt],
    ledger <- [j \in Job |-> [a \in Attempt |-> VerdictOf(attempts[j][a])]]

\* The store implements the attempt ledger: every statement is one of its steps
\* or leaves it alone.
ImplementsLedger == Ledger!LedgerSpec
=============================================================================
