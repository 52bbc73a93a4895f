--------------------------- MODULE JobStoreProofs ---------------------------
(***************************************************************************)
(* What the tables of JobStore keep under any callers, for every set of    *)
(* jobs and keys and every bound on attempts.                              *)
(***************************************************************************)
EXTENDS JobStore, TLAPS

\* The step of one job, as StoreNext says it.
JobStep(j) ==
    \/ \E key \in IdemKey \cup {NoKey} : InsertJob(j, key)
    \/ \E kind \in {"created", "started"} : AppendEvent(j, kind)
    \/ CancelJob(j)
    \/ RetryJob(j)
    \/ MarkJobRunning(j)
    \/ \E a \in 1..jobs[j].attempt : InsertAttempt(j, a)
    \/ MarkJobSucceeded(j)
    \/ MarkJobFailed(j)

(***************************************************************************)
(* Type correctness.  It is inductive as it stands.                        *)
(***************************************************************************)

\* A row keeps the schema's type under every statement of the store.
LEMMA StoreTypeStep ==
    ASSUME StoreTypeOK, StoreNext
    PROVE  StoreTypeOK'
<1> USE StoreAssumption
<1>1. PICK j \in Job : JobStep(j)
  BY DEF StoreNext, JobStep
<1> USE DEF StoreTypeOK
<1>2. \A row \in JobRow : SetJob(j, row) => jobs' \in [Job -> JobRow]
  BY DEF SetJob
<1>3. \A kind \in EventKind : Log(j, kind) => events' \in [Job -> SUBSET EventKind]
  BY DEF Log
<1>4. ASSUME NEW key \in IdemKey \cup {NoKey}, InsertJob(j, key)
      PROVE  StoreTypeOK'
  <2>1. NoJob \in JobRow
    BY DEF NoJob, JobRow, JobStatus
  <2>2. [NoJob EXCEPT !.status = "queued", !.key = key] \in JobRow
    BY <2>1 DEF JobRow, JobStatus
  <2> QED  BY <1>2, <1>4, <2>2 DEF InsertJob
<1>5. ASSUME NEW kind \in {"created", "started"}, AppendEvent(j, kind)
      PROVE  StoreTypeOK'
  BY <1>3, <1>5 DEF AppendEvent, EventKind
<1>6. CASE CancelJob(j)
  <2>1. [jobs[j] EXCEPT !.status = "cancelled", !.finished = TRUE, !.error = "CANCELLED"] \in JobRow
    BY DEF JobRow, JobStatus
  <2>2. attempts' \in [Job -> [Attempt -> AttemptRow]]
    BY <1>6 DEF CancelJob, AttemptRow
  <2> QED  BY <1>2, <1>3, <1>6, <2>1, <2>2 DEF CancelJob, EventKind
<1>7. CASE RetryJob(j)
  <2>1. [jobs[j] EXCEPT !.status = "queued", !.started = FALSE,
                        !.finished = FALSE, !.error = "none"] \in JobRow
    BY DEF JobRow, JobStatus
  <2> QED  BY <1>2, <1>3, <1>7, <2>1 DEF RetryJob, EventKind
<1>8. CASE MarkJobRunning(j)
  <2>1. jobs[j] \in JobRow /\ jobs[j].attempt + 1 \in 0..MaxAttempt
    BY <1>8 DEF MarkJobRunning, JobRow
  <2>2. [jobs[j] EXCEPT !.status = "running", !.started = TRUE,
                        !.attempt = jobs[j].attempt + 1, !.error = "none"] \in JobRow
    BY <2>1 DEF JobRow, JobStatus
  <2> QED  BY <1>2, <1>8, <2>2 DEF MarkJobRunning
<1>9. ASSUME NEW a \in 1..jobs[j].attempt, InsertAttempt(j, a)
      PROVE  StoreTypeOK'
  <2>1. a \in Attempt
    BY DEF JobRow, Attempt
  <2> QED  BY <1>9, <2>1 DEF InsertAttempt, AttemptRow
<1>10. CASE MarkJobSucceeded(j)
  <2>1. [jobs[j] EXCEPT !.status = "succeeded", !.finished = TRUE, !.error = "none"] \in JobRow
    BY DEF JobRow, JobStatus
  <2>2. attempts' \in [Job -> [Attempt -> AttemptRow]]
    BY <1>10 DEF MarkJobSucceeded, AttemptRow
  <2> QED  BY <1>2, <1>3, <1>10, <2>1, <2>2 DEF MarkJobSucceeded, EventKind
<1>11. CASE MarkJobFailed(j)
  <2>1. [jobs[j] EXCEPT !.status = "failed", !.finished = TRUE, !.error = "PROVIDER_TIMEOUT"] \in JobRow
    BY DEF JobRow, JobStatus
  <2>2. attempts' \in [Job -> [Attempt -> AttemptRow]]
    BY <1>11 DEF MarkJobFailed, AttemptRow
  <2> QED  BY <1>2, <1>3, <1>11, <2>1, <2>2 DEF MarkJobFailed, EventKind
<1> QED
  BY <1>1, <1>4, <1>5, <1>6, <1>7, <1>8, <1>9, <1>10, <1>11 DEF JobStep

\* The empty tables have their types.
LEMMA StoreTypeInit == StoreInit => StoreTypeOK
BY StoreAssumption DEF StoreInit, StoreTypeOK, NoJob, JobRow, JobStatus, AttemptRow, EventKind

\* The tables hold rows of the schema's types, whoever calls the store.
THEOREM StoreTypeCorrect == StoreSpec => []StoreTypeOK
<1>1. StoreInit => StoreTypeOK
  BY StoreTypeInit
<1>2. StoreTypeOK /\ [StoreNext]_storeVars => StoreTypeOK'
  BY StoreTypeStep DEF StoreTypeOK, storeVars
<1> QED  BY <1>1, <1>2, PTL DEF StoreSpec

(***************************************************************************)
(* The outcome of a job is the verdict of its last attempt.  OutcomeRecorded*)
(* and SuccessIsLast need to know that the row of the running attempt has   *)
(* no verdict yet, which RowsMatchCounter says.                             *)
(***************************************************************************)
StoreInv == RowsMatchCounter /\ OutcomeRecorded /\ SuccessIsLast

\* The part of StoreInv about one job, over its rows.
RowInv(row, rows) ==
    /\ row.status = "absent" => row.attempt = 0
    /\ \A a \in Attempt : a > row.attempt => rows[a] = "none"
    /\ row.status = "running" => row.attempt > 0 /\ rows[row.attempt] \in {"none", "open"}
    /\ row.status = "succeeded" => row.attempt > 0 /\ rows[row.attempt] = "success"
    /\ row.status = "failed" => row.attempt > 0 /\ rows[row.attempt] = "failure"
    /\ \A a \in Attempt : rows[a] = "success" => row.status = "succeeded" /\ row.attempt = a

\* The strengthened invariant speaks of one job at a time.
LEMMA StoreInvByJob == StoreInv <=> \A j \in Job : RowInv(jobs[j], attempts[j])
BY DEF StoreInv, RowInv, RowsMatchCounter, OutcomeRecorded, SuccessIsLast, Exists, Running

\* A step of one job leaves the rows of the others alone.
LEMMA OtherJobsKept ==
    ASSUME StoreTypeOK, NEW j \in Job, JobStep(j), NEW i \in Job, i # j
    PROVE  jobs'[i] = jobs[i] /\ attempts'[i] = attempts[i]
BY DEF JobStep, StoreTypeOK, SetJob, InsertJob, AppendEvent, CancelJob, RetryJob, MarkJobRunning,
       InsertAttempt, MarkJobSucceeded, MarkJobFailed

\* Every statement about a job keeps the agreement of its row and its attempts.
LEMMA RowInvStep ==
    ASSUME StoreTypeOK, NEW j \in Job, JobStep(j), RowInv(jobs[j], attempts[j])
    PROVE  RowInv(jobs'[j], attempts'[j])
<1> USE StoreAssumption
<1> DEFINE row == jobs[j]  rows == attempts[j]
<1>1. row \in JobRow /\ rows \in [Attempt -> AttemptRow] /\ row.attempt \in 0..MaxAttempt
  BY DEF StoreTypeOK, JobRow
<1>2. ASSUME NEW key \in IdemKey \cup {NoKey}, InsertJob(j, key)
      PROVE  RowInv(jobs'[j], attempts'[j])
  BY <1>1, <1>2 DEF RowInv, InsertJob, SetJob, NoJob, Exists, StoreTypeOK
<1>3. ASSUME NEW kind \in {"created", "started"}, AppendEvent(j, kind)
      PROVE  RowInv(jobs'[j], attempts'[j])
  BY <1>3 DEF AppendEvent
<1>4. CASE CancelJob(j)
  <2>1. /\ jobs'[j].status = "cancelled"
        /\ jobs'[j].attempt = row.attempt
        /\ \A a \in Attempt : attempts'[j][a] = IF rows[a] = "open" THEN "cancelled" ELSE rows[a]
    BY <1>1, <1>4 DEF CancelJob, SetJob, StoreTypeOK, JobRow
  <2>2. row.status \in {"queued", "running", "retry_scheduled"}
    BY <1>4 DEF CancelJob, Cancellable
  <2> QED  BY <1>1, <2>1, <2>2 DEF RowInv
<1>5. CASE RetryJob(j)
  <2>1. /\ jobs'[j].status = "queued"
        /\ jobs'[j].attempt = row.attempt
        /\ attempts'[j] = rows
    BY <1>1, <1>5 DEF RetryJob, SetJob, StoreTypeOK, JobRow
  <2>2. row.status # "succeeded"
    BY <1>5 DEF RetryJob, Retryable
  <2> QED  BY <1>1, <2>1, <2>2 DEF RowInv
<1>6. CASE MarkJobRunning(j)
  <2>1. /\ jobs'[j].status = "running"
        /\ jobs'[j].attempt = row.attempt + 1
        /\ attempts'[j] = rows
    BY <1>1, <1>6 DEF MarkJobRunning, SetJob, StoreTypeOK, JobRow
  <2>2. row.status = "queued" /\ row.attempt + 1 \in Attempt
    BY <1>1, <1>6 DEF MarkJobRunning, Attempt
  <2> QED  BY <1>1, <2>1, <2>2 DEF RowInv, Attempt
<1>7. ASSUME NEW b \in 1..jobs[j].attempt, InsertAttempt(j, b)
      PROVE  RowInv(jobs'[j], attempts'[j])
  <2>1. /\ jobs'[j] = row
        /\ \A a \in Attempt : attempts'[j][a] = IF a = b /\ rows[a] = "none" THEN "open" ELSE rows[a]
    BY <1>1, <1>7 DEF InsertAttempt, StoreTypeOK
  <2>2. b \in Attempt /\ b <= row.attempt
    BY <1>1 DEF Attempt
  <2> QED  BY <1>1, <2>1, <2>2 DEF RowInv, Attempt
<1>8. CASE MarkJobSucceeded(j)
  <2>1. /\ jobs'[j].status = "succeeded"
        /\ jobs'[j].attempt = row.attempt
        /\ \A a \in Attempt : attempts'[j][a] = IF a = row.attempt THEN "success" ELSE rows[a]
    BY <1>1, <1>8 DEF MarkJobSucceeded, SetJob, StoreTypeOK, JobRow
  <2>2. row.status = "running"
    BY <1>8 DEF MarkJobSucceeded, Running
  <2> QED  BY <1>1, <2>1, <2>2 DEF RowInv, Attempt
<1>9. CASE MarkJobFailed(j)
  <2>1. /\ jobs'[j].status = "failed"
        /\ jobs'[j].attempt = row.attempt
        /\ \A a \in Attempt : attempts'[j][a] = IF a = row.attempt THEN "failure" ELSE rows[a]
    BY <1>1, <1>9 DEF MarkJobFailed, SetJob, StoreTypeOK, JobRow
  <2>2. row.status = "running"
    BY <1>9 DEF MarkJobFailed, Running
  <2> QED  BY <1>1, <2>1, <2>2 DEF RowInv, Attempt
<1> QED
  BY <1>2, <1>3, <1>4, <1>5, <1>6, <1>7, <1>8, <1>9 DEF JobStep

\* The inductive step, for the whole table.
LEMMA StoreInvStep ==
    ASSUME StoreTypeOK, StoreInv, [StoreNext]_storeVars
    PROVE  StoreInv'
<1>1. CASE UNCHANGED storeVars
  BY <1>1 DEF storeVars, StoreInv, RowsMatchCounter, OutcomeRecorded, SuccessIsLast, Exists, Running
<1>2. CASE StoreNext
  <2>1. PICK j \in Job : JobStep(j)
    BY <1>2 DEF StoreNext, JobStep
  <2>2. \A i \in Job : RowInv(jobs'[i], attempts'[i])
    BY <2>1, StoreInvByJob, OtherJobsKept, RowInvStep
  <2> QED
    BY <2>2 DEF StoreInv, RowInv, RowsMatchCounter, OutcomeRecorded, SuccessIsLast, Exists, Running
<1> QED  BY <1>1, <1>2

\* The empty tables agree.
LEMMA StoreInvInit == StoreInit => StoreInv
BY StoreAssumption DEF StoreInit, StoreInv, RowsMatchCounter, OutcomeRecorded, SuccessIsLast,
                       NoJob, Exists, Running, Attempt

\* The rows and the attempts of every job agree, whoever calls the store.
THEOREM StoreInvariant == StoreSpec => []StoreInv
<1>1. StoreTypeOK /\ StoreInv /\ [StoreNext]_storeVars => StoreInv'
  BY StoreInvStep
<1> QED  BY <1>1, StoreInvInit, StoreTypeCorrect, PTL DEF StoreSpec

\* The counter of the job row numbers the attempt rows: none is missing or ahead.
THEOREM RowsMatch == StoreSpec => []RowsMatchCounter
<1>1. StoreInv => RowsMatchCounter
  BY DEF StoreInv
<1> QED  BY <1>1, StoreInvariant, PTL

\* The two tables agree on the outcome of every finished job.
THEOREM OutcomesRecorded == StoreSpec => []OutcomeRecorded
<1>1. StoreInv => OutcomeRecorded
  BY DEF StoreInv
<1> QED  BY <1>1, StoreInvariant, PTL

\* A job succeeds at most once, in its last attempt.
THEOREM SuccessesAreLast == StoreSpec => []SuccessIsLast
<1>1. StoreInv => SuccessIsLast
  BY DEF StoreInv
<1> QED  BY <1>1, StoreInvariant, PTL

(***************************************************************************)
(* Dates, and the idempotency index: each is inductive as it stands.       *)
(***************************************************************************)

\* DatesMatchStatus, for one row.
DatesInv(row) ==
    /\ row.finished <=> row.status \in {"succeeded", "failed", "cancelled"}
    /\ row.status = "queued" => ~row.started /\ row.error = "none"
    /\ row.status \in {"running", "succeeded", "failed"} => row.started
    /\ row.status = "cancelled" <=> row.error = "CANCELLED"

\* Every statement sets or clears dates and error along with the status.
LEMMA DatesStep ==
    ASSUME StoreTypeOK, NEW j \in Job, JobStep(j), DatesInv(jobs[j])
    PROVE  DatesInv(jobs'[j])
<1>1. jobs[j] \in JobRow
  BY DEF StoreTypeOK
<1>2. ASSUME NEW key \in IdemKey \cup {NoKey}, InsertJob(j, key)
      PROVE  DatesInv(jobs'[j])
  BY <1>2 DEF InsertJob, SetJob, NoJob, DatesInv, StoreTypeOK
<1>3. CASE jobs' = jobs
  BY <1>3
<1>4. CASE CancelJob(j)
  BY <1>1, <1>4 DEF CancelJob, SetJob, DatesInv, StoreTypeOK, JobRow
<1>5. CASE RetryJob(j)
  BY <1>1, <1>5 DEF RetryJob, SetJob, DatesInv, StoreTypeOK, JobRow
<1>6. CASE MarkJobRunning(j)
  BY <1>1, <1>6 DEF MarkJobRunning, SetJob, DatesInv, StoreTypeOK, JobRow
<1>7. CASE MarkJobSucceeded(j)
  BY <1>1, <1>7 DEF MarkJobSucceeded, Running, SetJob, DatesInv, StoreTypeOK, JobRow
<1>8. CASE MarkJobFailed(j)
  BY <1>1, <1>8 DEF MarkJobFailed, Running, SetJob, DatesInv, StoreTypeOK, JobRow
<1> QED
  BY <1>2, <1>3, <1>4, <1>5, <1>6, <1>7, <1>8 DEF JobStep, AppendEvent, InsertAttempt

\* The dates, the error and the status of a job tell the same story.
THEOREM DatesMatch == StoreSpec => []DatesMatchStatus
<1>1. StoreInit => DatesMatchStatus
  <2>1. DatesInv(NoJob)
    BY Zenon DEF DatesInv, NoJob
  <2> QED  BY <2>1 DEF StoreInit, DatesMatchStatus, DatesInv
<1>2. DatesMatchStatus <=> \A j \in Job : DatesInv(jobs[j])
  BY DEF DatesMatchStatus, DatesInv
<1>3. ASSUME StoreTypeOK, DatesMatchStatus, [StoreNext]_storeVars
      PROVE  DatesMatchStatus'
  <2>1. CASE UNCHANGED storeVars
    BY <1>3, <2>1 DEF storeVars, DatesMatchStatus
  <2>2. CASE StoreNext
    <3>1. PICK j \in Job : JobStep(j)
      BY <2>2 DEF StoreNext, JobStep
    <3>2. \A i \in Job : DatesInv(jobs'[i])
      BY <1>2, <1>3, <3>1, OtherJobsKept, DatesStep
    <3> QED  BY <3>2 DEF DatesMatchStatus, DatesInv
  <2> QED  BY <1>3, <2>1, <2>2
<1> QED  BY <1>1, <1>3, StoreTypeCorrect, PTL DEF StoreSpec

\* Once a row exists it stays, with its key.
LEMMA KeysKept ==
    ASSUME StoreTypeOK, NEW j \in Job, JobStep(j), Exists(j)
    PROVE  Exists(j)' /\ jobs'[j].key = jobs[j].key
<1>1. jobs[j] \in JobRow
  BY DEF StoreTypeOK
<1>2. \A row : SetJob(j, row) => jobs'[j] = row
  BY DEF SetJob, StoreTypeOK
<1>3. CASE jobs' = jobs
  BY <1>3 DEF Exists
<1>4. CASE CancelJob(j)
  BY <1>1, <1>2, <1>4 DEF CancelJob, JobRow, Exists
<1>5. CASE RetryJob(j)
  BY <1>1, <1>2, <1>5 DEF RetryJob, JobRow, Exists
<1>6. CASE MarkJobRunning(j)
  BY <1>1, <1>2, <1>6 DEF MarkJobRunning, JobRow, Exists
<1>7. CASE MarkJobSucceeded(j)
  BY <1>1, <1>2, <1>7 DEF MarkJobSucceeded, JobRow, Exists
<1>8. CASE MarkJobFailed(j)
  BY <1>1, <1>2, <1>8 DEF MarkJobFailed, JobRow, Exists
<1> QED
  BY <1>3, <1>4, <1>5, <1>6, <1>7, <1>8 DEF JobStep, InsertJob, AppendEvent, InsertAttempt

\* Two jobs never share an idempotency key.
THEOREM KeysUnique == StoreSpec => []OneJobPerKey
<1>1. StoreInit => OneJobPerKey
  BY DEF StoreInit, OneJobPerKey, NoJob, Exists
<1>2. ASSUME StoreTypeOK, OneJobPerKey, [StoreNext]_storeVars
      PROVE  OneJobPerKey'
  <2>1. CASE UNCHANGED storeVars
    BY <1>2, <2>1 DEF storeVars, OneJobPerKey, Exists
  <2>2. ASSUME NEW j \in Job, JobStep(j), Exists(j)
        PROVE  OneJobPerKey'
    BY <1>2, <2>2, KeysKept, OtherJobsKept DEF OneJobPerKey, Exists
  <2>3. ASSUME NEW j \in Job, NEW key \in IdemKey \cup {NoKey}, InsertJob(j, key)
        PROVE  OneJobPerKey'
    <3>1. jobs'[j].key = key /\ \A i \in Job : i # j => jobs'[i] = jobs[i]
      BY <1>2, <2>3 DEF InsertJob, SetJob, NoJob, StoreTypeOK
    <3>2. key # NoKey => \A i \in Job : Exists(i) => jobs[i].key # key
      BY <2>3 DEF InsertJob, KeyTaken
    <3> QED  BY <1>2, <3>1, <3>2 DEF OneJobPerKey, Exists
  <2>4. ASSUME NEW j \in Job, JobStep(j), ~Exists(j)
        PROVE  \E key \in IdemKey \cup {NoKey} : InsertJob(j, key)
    <3>1. jobs[j].status = "absent" /\ \A a : a \notin 1..jobs[j].attempt \/ ~InsertAttempt(j, a)
      BY <2>4 DEF Exists, InsertAttempt
    <3> QED
      BY <2>4, <3>1 DEF JobStep, Exists, AppendEvent, CancelJob, Cancellable, RetryJob, Retryable,
                        MarkJobRunning, MarkJobSucceeded, MarkJobFailed, Running
  <2> QED
    BY <1>2, <2>1, <2>2, <2>3, <2>4 DEF StoreNext, JobStep
<1> QED  BY <1>1, <1>2, StoreTypeCorrect, PTL DEF StoreSpec

(***************************************************************************)
(* History: what no later step rewrites.                                   *)
(***************************************************************************)

\* No statement writes an attempt row that is closed.
LEMMA VerdictKept ==
    ASSUME StoreTypeOK, StoreInv, NEW j \in Job, JobStep(j), NEW a \in Attempt,
           attempts[j][a] \in {"success", "failure", "cancelled"}
    PROVE  attempts'[j][a] = attempts[j][a]
<1>1. attempts[j] \in [Attempt -> AttemptRow]
  BY DEF StoreTypeOK
<1>2. RowInv(jobs[j], attempts[j])
  BY StoreInvByJob
<1>3. CASE attempts' = attempts
  BY <1>3
<1>4. CASE CancelJob(j)
  BY <1>1, <1>4 DEF CancelJob, StoreTypeOK
<1>5. ASSUME NEW b \in 1..jobs[j].attempt, InsertAttempt(j, b)
      PROVE  attempts'[j][a] = attempts[j][a]
  BY <1>1, <1>5 DEF InsertAttempt, StoreTypeOK
<1>6. CASE MarkJobSucceeded(j)
  BY <1>1, <1>2, <1>6 DEF MarkJobSucceeded, Running, RowInv, StoreTypeOK
<1>7. CASE MarkJobFailed(j)
  BY <1>1, <1>2, <1>7 DEF MarkJobFailed, Running, RowInv, StoreTypeOK
<1> QED
  BY <1>3, <1>4, <1>5, <1>6, <1>7 DEF JobStep, InsertJob, AppendEvent, RetryJob, MarkJobRunning

\* A closed attempt keeps its verdict.
THEOREM VerdictsKept == StoreSpec => ClosedAttemptKept
<1>1. ASSUME StoreTypeOK, StoreInv, [StoreNext]_storeVars
      PROVE  [\A j \in Job : \A a \in Attempt :
                attempts[j][a] \in {"success", "failure", "cancelled"}
                    => attempts'[j][a] = attempts[j][a]]_storeVars
  <2>1. CASE UNCHANGED storeVars
    BY <2>1
  <2>2. CASE StoreNext
    <3>1. PICK i \in Job : JobStep(i)
      BY <2>2 DEF StoreNext, JobStep
    <3> QED  BY <1>1, <3>1, VerdictKept, OtherJobsKept
  <2> QED  BY <1>1, <2>1, <2>2
<1> QED  BY <1>1, StoreTypeCorrect, StoreInvariant, PTL DEF StoreSpec, ClosedAttemptKept

\* Of a succeeded job a statement may only insert a row that an earlier attempt lacks.
LEMMA SuccessStays ==
    ASSUME StoreTypeOK, StoreInv, NEW j \in Job, JobStep(j), jobs[j].status = "succeeded",
           NEW a \in Attempt, attempts'[j][a] # attempts[j][a]
    PROVE  a < jobs[j].attempt /\ attempts[j][a] = "none" /\ attempts'[j][a] = "open"
<1>1. attempts[j] \in [Attempt -> AttemptRow] /\ jobs[j].attempt \in Attempt
  BY StoreInvByJob, StoreAssumption DEF StoreTypeOK, RowInv, JobRow, Attempt
<1>2. attempts[j][jobs[j].attempt] = "success"
  BY StoreInvByJob DEF RowInv
<1>3. PICK b \in 1..jobs[j].attempt : InsertAttempt(j, b)
  BY DEF JobStep, Exists, InsertJob, AppendEvent, CancelJob, Cancellable, RetryJob, Retryable,
         MarkJobRunning, MarkJobSucceeded, MarkJobFailed, Running
<1>4. a = b /\ attempts[j][a] = "none" /\ attempts'[j][a] = "open"
  BY <1>1, <1>3 DEF InsertAttempt, StoreTypeOK
<1> QED  BY <1>1, <1>2, <1>3, <1>4, StoreAssumption DEF Attempt

\* The row of a job that has succeeded, and the verdicts of its attempts, never change.
THEOREM SuccessesFinal == StoreSpec => SuccessIsFinal
<1> DEFINE Final(j) ==
      /\ jobs'[j] = jobs[j]
      /\ \A a \in Attempt :
            \/ attempts'[j][a] = attempts[j][a]
            \/ /\ a < jobs[j].attempt
               /\ attempts[j][a] = "none"
               /\ attempts'[j][a] = "open"
<1>1. ASSUME StoreTypeOK, StoreInv, [StoreNext]_storeVars
      PROVE  [\A j \in Job : jobs[j].status = "succeeded" => Final(j)]_storeVars
  <2>1. CASE UNCHANGED storeVars
    BY <2>1
  <2>2. ASSUME NEW j \in Job, StoreNext, jobs[j].status = "succeeded"
        PROVE  Final(j)
    <3>1. PICK i \in Job : JobStep(i)
      BY <2>2 DEF StoreNext, JobStep
    <3>2. CASE i = j
      <4>1. jobs' = jobs
        BY <2>2, <3>1, <3>2 DEF JobStep, Exists, InsertJob, AppendEvent, CancelJob, Cancellable,
                                RetryJob, Retryable, MarkJobRunning, InsertAttempt,
                                MarkJobSucceeded, MarkJobFailed, Running
      <4> QED  BY <1>1, <2>2, <3>1, <3>2, <4>1, SuccessStays
    <3>3. CASE i # j
      BY <1>1, <3>1, <3>3, OtherJobsKept
    <3> QED  BY <3>2, <3>3
  <2> QED  BY <1>1, <2>1, <2>2
<1> QED  BY <1>1, StoreTypeCorrect, StoreInvariant, PTL DEF StoreSpec, SuccessIsFinal

(***************************************************************************)
(* Refinement: the store implements the attempt ledger.                    *)
(***************************************************************************)
phaseMap == [j \in Job |-> PhaseOf(jobs[j].status)]
triesMap == [j \in Job |-> jobs[j].attempt]
ledgerMap == [j \in Job |-> [a \in Attempt |-> VerdictOf(attempts[j][a])]]

\* Only the mapped state of the job that steps changes.
LEMMA MapsChange ==
    ASSUME StoreTypeOK, NEW j \in Job, JobStep(j)
    PROVE  /\ phaseMap' = [phaseMap EXCEPT ![j] = PhaseOf(jobs'[j].status)]
           /\ triesMap' = [triesMap EXCEPT ![j] = jobs'[j].attempt]
           /\ ledgerMap' = [ledgerMap EXCEPT ![j] = [a \in Attempt |-> VerdictOf(attempts'[j][a])]]
<1>1. \A i \in Job : i # j => jobs'[i] = jobs[i] /\ attempts'[i] = attempts[i]
  BY OtherJobsKept
<1> QED  BY <1>1 DEF phaseMap, triesMap, ledgerMap

\* Every statement is a step of the attempt ledger or leaves it alone.
LEMMA LedgerStep ==
    ASSUME StoreTypeOK, StoreInv, NEW j \in Job, JobStep(j)
    PROVE  Ledger!LedgerNext \/ UNCHANGED <<phaseMap, triesMap, ledgerMap>>
<1> USE StoreAssumption
<1>1. /\ jobs[j] \in JobRow
      /\ attempts[j] \in [Attempt -> AttemptRow]
      /\ RowInv(jobs[j], attempts[j])
  BY StoreInvByJob DEF StoreTypeOK
<1>2. \A row : SetJob(j, row) => jobs'[j] = row
  BY DEF SetJob, StoreTypeOK
<1>3. /\ phaseMap[j] = PhaseOf(jobs[j].status)
      /\ triesMap[j] = jobs[j].attempt
      /\ ledgerMap[j] = [a \in Attempt |-> VerdictOf(attempts[j][a])]
  BY DEF phaseMap, triesMap, ledgerMap
<1>4. CASE \E key \in IdemKey \cup {NoKey} : InsertJob(j, key)
  <2>1. /\ jobs[j].status = "absent" /\ jobs[j].attempt = 0
        /\ jobs'[j].status = "queued" /\ jobs'[j].attempt = 0
        /\ attempts' = attempts
    BY <1>1, <1>2, <1>4 DEF InsertJob, NoJob, Exists, RowInv
  <2>2. phaseMap[j] = "absent" /\ phaseMap' = [phaseMap EXCEPT ![j] = "waiting"]
    BY <1>3, <2>1, MapsChange DEF PhaseOf
  <2>3. triesMap' = triesMap
    <3>1. \A i \in Job : jobs'[i].attempt = jobs[i].attempt
      BY <2>1, OtherJobsKept
    <3> QED  BY <3>1 DEF triesMap
  <2>4. ledgerMap' = ledgerMap
    BY <2>1 DEF ledgerMap
  <2> QED  BY <2>2, <2>3, <2>4 DEF Ledger!LedgerNext, Ledger!Submit, phaseMap, triesMap, ledgerMap
<1>5. CASE jobs' = jobs /\ attempts' = attempts
  BY <1>5 DEF phaseMap, triesMap, ledgerMap
<1>6. CASE CancelJob(j)
  <2> DEFINE closed == {a \in Attempt : attempts[j][a] = "open"}
  <2>1. /\ jobs[j].status \in {"queued", "running", "retry_scheduled"}
        /\ jobs'[j].status = "cancelled" /\ jobs'[j].attempt = jobs[j].attempt
        /\ attempts'[j] = [a \in Attempt |-> IF a \in closed THEN "cancelled" ELSE attempts[j][a]]
    BY <1>1, <1>2, <1>6 DEF CancelJob, Cancellable, JobRow, StoreTypeOK
  <2>2. /\ phaseMap[j] \in {"waiting", "active"}
        /\ phaseMap' = [phaseMap EXCEPT ![j] = "stopped"]
        /\ UNCHANGED triesMap
    BY <1>3, <2>1, MapsChange DEF PhaseOf, phaseMap, triesMap
  <2>3. closed \in SUBSET {a \in Attempt : a <= triesMap[j] /\ ledgerMap[j][a] = "pending"}
    BY <1>1, <1>3 DEF RowInv, VerdictOf, Attempt, JobRow
  <2>4. ledgerMap' = [ledgerMap EXCEPT ![j] =
                        [a \in Attempt |-> IF a \in closed THEN "cancelled" ELSE @[a]]]
    <3>1. [a \in Attempt |-> VerdictOf(attempts'[j][a])]
             = [a \in Attempt |-> IF a \in closed THEN "cancelled" ELSE ledgerMap[j][a]]
      BY <1>3, <2>1 DEF VerdictOf
    <3> QED  BY <3>1, MapsChange DEF ledgerMap
  <2>5. Ledger!Stop(j)
    BY <2>2, <2>3, <2>4 DEF Ledger!Stop, Ledger!Attempt, Attempt, phaseMap, triesMap, ledgerMap
  <2> QED  BY <2>5 DEF Ledger!LedgerNext
<1>7. CASE RetryJob(j)
  <2>1. /\ jobs'[j].status = "queued" /\ jobs'[j].attempt = jobs[j].attempt
        /\ attempts' = attempts
        /\ jobs[j].status \in {"failed", "cancelled", "dlq", "retry_scheduled", "queued"}
    BY <1>1, <1>2, <1>7 DEF RetryJob, Retryable, JobRow
  <2>2. /\ phaseMap[j] \in {"stopped", "waiting"}
        /\ phaseMap' = [phaseMap EXCEPT ![j] = "waiting"]
        /\ UNCHANGED <<triesMap, ledgerMap>>
    BY <1>3, <2>1, MapsChange DEF PhaseOf, phaseMap, triesMap, ledgerMap
  <2>3. CASE phaseMap[j] = "stopped"
    BY <2>2, <2>3 DEF Ledger!LedgerNext, Ledger!Reopen, phaseMap, triesMap, ledgerMap
  <2>4. CASE phaseMap[j] = "waiting"
    BY <2>2, <2>4 DEF phaseMap
  <2> QED  BY <2>2, <2>3, <2>4
<1>8. CASE MarkJobRunning(j)
  <2>1. /\ jobs[j].status = "queued" /\ jobs[j].attempt < MaxAttempt
        /\ jobs'[j].status = "running" /\ jobs'[j].attempt = jobs[j].attempt + 1
        /\ attempts' = attempts
    BY <1>1, <1>2, <1>8 DEF MarkJobRunning, JobRow
  <2>2. /\ phaseMap[j] = "waiting" /\ phaseMap' = [phaseMap EXCEPT ![j] = "active"]
        /\ triesMap[j] < MaxAttempt /\ triesMap' = [triesMap EXCEPT ![j] = @ + 1]
        /\ UNCHANGED ledgerMap
    BY <1>3, <2>1, MapsChange DEF PhaseOf, phaseMap, triesMap, ledgerMap
  <2> QED  BY <2>2 DEF Ledger!LedgerNext, Ledger!Begin, phaseMap, triesMap, ledgerMap
<1>9. CASE \E a \in 1..jobs[j].attempt : InsertAttempt(j, a)
  <2>1. /\ jobs' = jobs
        /\ \A a \in Attempt : VerdictOf(attempts'[j][a]) = VerdictOf(attempts[j][a])
    BY <1>1, <1>9 DEF InsertAttempt, VerdictOf, StoreTypeOK
  <2>2. \A i \in Job : \A a \in Attempt : VerdictOf(attempts'[i][a]) = VerdictOf(attempts[i][a])
    BY <2>1, OtherJobsKept
  <2>3. ledgerMap' = ledgerMap
    BY <2>2 DEF ledgerMap
  <2> QED  BY <2>1, <2>3 DEF phaseMap, triesMap
<1>10. CASE MarkJobSucceeded(j)
  <2>1. /\ jobs[j].status = "running" /\ jobs'[j].status = "succeeded"
        /\ jobs'[j].attempt = jobs[j].attempt
        /\ jobs[j].attempt \in Attempt
        /\ attempts[j][jobs[j].attempt] \in {"none", "open"}
        /\ attempts'[j] = [attempts[j] EXCEPT ![jobs[j].attempt] = "success"]
    <3>1. jobs[j].status = "running"
      BY <1>10 DEF MarkJobSucceeded, Running
    <3>2. jobs'[j].status = "succeeded" /\ jobs'[j].attempt = jobs[j].attempt
      BY <1>1, <1>2, <1>10 DEF MarkJobSucceeded, JobRow
    <3>3. jobs[j].attempt \in Attempt /\ attempts[j][jobs[j].attempt] \in {"none", "open"}
      BY <1>1, <3>1 DEF RowInv, JobRow, Attempt
    <3>4. attempts'[j] = [attempts[j] EXCEPT ![jobs[j].attempt] = "success"]
      BY <1>10 DEF MarkJobSucceeded, StoreTypeOK
    <3> QED  BY <3>1, <3>2, <3>3, <3>4
  <2>2. /\ phaseMap[j] = "active" /\ phaseMap' = [phaseMap EXCEPT ![j] = "succeeded"]
        /\ UNCHANGED triesMap
    BY <1>3, <2>1, MapsChange DEF PhaseOf, phaseMap, triesMap
  <2>3. ledgerMap[j][triesMap[j]] = "pending"
    BY <1>3, <2>1 DEF VerdictOf
  <2>4. ledgerMap' = [ledgerMap EXCEPT ![j][triesMap[j]] = "success"]
    <3>1. [a \in Attempt |-> VerdictOf(attempts'[j][a])]
             = [ledgerMap[j] EXCEPT ![jobs[j].attempt] = "success"]
      BY <1>1, <1>3, <2>1 DEF VerdictOf
    <3> QED  BY <1>3, <3>1, MapsChange DEF ledgerMap
  <2>5. Ledger!Settle(j, "success")
    BY <2>2, <2>3, <2>4 DEF Ledger!Settle, phaseMap, triesMap, ledgerMap
  <2> QED  BY <2>5 DEF Ledger!LedgerNext
<1>11. CASE MarkJobFailed(j)
  <2>1. /\ jobs[j].status = "running" /\ jobs'[j].status = "failed"
        /\ jobs'[j].attempt = jobs[j].attempt
        /\ jobs[j].attempt \in Attempt
        /\ attempts[j][jobs[j].attempt] \in {"none", "open"}
        /\ attempts'[j] = [attempts[j] EXCEPT ![jobs[j].attempt] = "failure"]
    <3>1. jobs[j].status = "running"
      BY <1>11 DEF MarkJobFailed, Running
    <3>2. jobs'[j].status = "failed" /\ jobs'[j].attempt = jobs[j].attempt
      BY <1>1, <1>2, <1>11 DEF MarkJobFailed, JobRow
    <3>3. jobs[j].attempt \in Attempt /\ attempts[j][jobs[j].attempt] \in {"none", "open"}
      BY <1>1, <3>1 DEF RowInv, JobRow, Attempt
    <3>4. attempts'[j] = [attempts[j] EXCEPT ![jobs[j].attempt] = "failure"]
      BY <1>11 DEF MarkJobFailed, StoreTypeOK
    <3> QED  BY <3>1, <3>2, <3>3, <3>4
  <2>2. /\ phaseMap[j] = "active" /\ phaseMap' = [phaseMap EXCEPT ![j] = "stopped"]
        /\ UNCHANGED triesMap
    BY <1>3, <2>1, MapsChange DEF PhaseOf, phaseMap, triesMap
  <2>3. ledgerMap[j][triesMap[j]] = "pending"
    BY <1>3, <2>1 DEF VerdictOf
  <2>4. ledgerMap' = [ledgerMap EXCEPT ![j][triesMap[j]] = "failure"]
    <3>1. [a \in Attempt |-> VerdictOf(attempts'[j][a])]
             = [ledgerMap[j] EXCEPT ![jobs[j].attempt] = "failure"]
      BY <1>1, <1>3, <2>1 DEF VerdictOf
    <3> QED  BY <1>3, <3>1, MapsChange DEF ledgerMap
  <2>5. Ledger!Settle(j, "failure")
    BY <2>2, <2>3, <2>4 DEF Ledger!Settle, phaseMap, triesMap, ledgerMap
  <2> QED  BY <2>5 DEF Ledger!LedgerNext
<1> QED
  BY <1>4, <1>5, <1>6, <1>7, <1>8, <1>9, <1>10, <1>11 DEF JobStep, AppendEvent

\* Every behaviour of the store is one of the attempt ledger.
THEOREM StoreImplementsLedger == StoreSpec => ImplementsLedger
<1>1. StoreInit => Ledger!LedgerInit
  BY DEF StoreInit, NoJob, PhaseOf, VerdictOf, Ledger!LedgerInit, Ledger!Attempt, Attempt
<1>2. ASSUME StoreTypeOK, StoreInv, [StoreNext]_storeVars
      PROVE  [Ledger!LedgerNext]_(Ledger!ledgerVars)
  <2>1. CASE UNCHANGED storeVars
    BY <2>1 DEF storeVars, Ledger!ledgerVars
  <2>2. CASE StoreNext
    <3>1. PICK j \in Job : JobStep(j)
      BY <2>2 DEF StoreNext, JobStep
    <3> QED  BY <1>2, <3>1, LedgerStep DEF Ledger!ledgerVars, phaseMap, triesMap, ledgerMap
  <2> QED  BY <1>2, <2>1, <2>2
<1> QED
  BY <1>1, <1>2, StoreTypeCorrect, StoreInvariant, PTL
     DEF StoreSpec, ImplementsLedger, Ledger!LedgerSpec

(***************************************************************************)
(* The past is past: what the store did to a job, no statement takes back. *)
(***************************************************************************)

\* A job stays, its counter and its events only grow, and a success is its end.
LEMMA JobMoves ==
    ASSUME StoreTypeOK, StoreInv, [StoreNext]_storeVars, NEW j \in Job
    PROVE  /\ jobs[j].status # "absent" => jobs'[j].status # "absent"
           /\ jobs[j].attempt <= jobs'[j].attempt
           /\ events[j] \subseteq events'[j]
           /\ jobs[j].status = "succeeded" => jobs'[j] = jobs[j]
<1>1. jobs[j] \in JobRow /\ jobs[j].attempt \in Nat
  BY StoreAssumption DEF StoreTypeOK, JobRow
<1>2. CASE UNCHANGED storeVars
  BY <1>1, <1>2 DEF storeVars
<1>3. ASSUME NEW i \in Job, JobStep(i), i # j
      PROVE  jobs'[j] = jobs[j] /\ events'[j] = events[j]
  BY <1>3, OtherJobsKept DEF JobStep, StoreTypeOK, Log, InsertJob, AppendEvent, CancelJob, RetryJob,
        MarkJobRunning, InsertAttempt, MarkJobSucceeded, MarkJobFailed
<1>4. ASSUME JobStep(j)
      PROVE  events[j] \subseteq events'[j]
  BY <1>4 DEF JobStep, StoreTypeOK, Log, InsertJob, AppendEvent, CancelJob, RetryJob,
        MarkJobRunning, InsertAttempt, MarkJobSucceeded, MarkJobFailed
<1>5. ASSUME JobStep(j)
      PROVE  /\ jobs[j].status # "absent" => jobs'[j].status # "absent"
             /\ jobs[j].attempt <= jobs'[j].attempt
             /\ jobs[j].status = "succeeded" => jobs'[j] = jobs[j]
  <2>1. CASE jobs' = jobs
    BY <1>1, <2>1
  <2>2. CASE \E key \in IdemKey \cup {NoKey} : InsertJob(j, key)
    BY <1>1, <2>2 DEF InsertJob, Exists, SetJob, NoJob, StoreTypeOK, StoreInv, RowsMatchCounter
  <2>3. CASE CancelJob(j)
    BY <1>1, <2>3 DEF CancelJob, Cancellable, SetJob, StoreTypeOK, JobRow
  <2>4. CASE RetryJob(j)
    BY <1>1, <2>4 DEF RetryJob, Retryable, SetJob, StoreTypeOK, JobRow
  <2>5. CASE MarkJobRunning(j)
    BY <1>1, <2>5 DEF MarkJobRunning, SetJob, StoreTypeOK, JobRow
  <2>6. CASE MarkJobSucceeded(j)
    BY <1>1, <2>6 DEF MarkJobSucceeded, Running, SetJob, StoreTypeOK, JobRow
  <2>7. CASE MarkJobFailed(j)
    BY <1>1, <2>7 DEF MarkJobFailed, Running, SetJob, StoreTypeOK, JobRow
  <2> QED
    BY <1>5, <2>1, <2>2, <2>3, <2>4, <2>5, <2>6, <2>7 DEF JobStep, AppendEvent, InsertAttempt
<1>6. CASE StoreNext
  <2>1. PICK i \in Job : JobStep(i)
    BY <1>6 DEF StoreNext, JobStep
  <2>2. CASE i = j
    BY <2>1, <2>2, <1>4, <1>5
  <2>3. CASE i # j
    BY <1>1, <1>3, <2>1, <2>3
  <2> QED  BY <2>2, <2>3
<1> QED  BY <1>2, <1>6

(***************************************************************************)
(* Further runs.  Only a claim raises the counter, and a job is in the     *)
(* queue again only by a retry; so the log of a job that is past its first *)
(* attempt, or waits for a second one, tells of the retry.                 *)
(***************************************************************************)
RetriesTold ==
    \A j \in Job :
        jobs[j].attempt > 1 \/ (jobs[j].attempt > 0 /\ jobs[j].status = "queued")
            => "retry_scheduled" \in events[j]

\* Every statement keeps it.
LEMMA RetriesToldStep ==
    ASSUME StoreTypeOK, StoreInv, RetriesTold, [StoreNext]_storeVars
    PROVE  RetriesTold'
<1> SUFFICES ASSUME NEW j \in Job,
                    jobs'[j].attempt > 1 \/ (jobs'[j].attempt > 0 /\ jobs'[j].status = "queued")
             PROVE  "retry_scheduled" \in events'[j]
  BY DEF RetriesTold
<1>1. jobs[j] \in JobRow /\ jobs[j].attempt \in Nat
  BY StoreAssumption DEF StoreTypeOK, JobRow
<1>2. events[j] \subseteq events'[j]
  BY JobMoves
<1>3. CASE jobs'[j] = jobs[j]
  BY <1>2, <1>3 DEF RetriesTold
<1>4. CASE jobs'[j] # jobs[j]
  <2>1. PICK i \in Job : JobStep(i)
    BY <1>4 DEF StoreNext, JobStep, storeVars
  <2>2. i = j
    BY <1>4, <2>1, OtherJobsKept
  <2>3. \A row : SetJob(j, row) => jobs'[j] = row
    BY DEF SetJob, StoreTypeOK
  <2>4. CASE \E key \in IdemKey \cup {NoKey} : InsertJob(j, key)
    <3>1. jobs'[j].attempt = 0
      BY <2>3, <2>4 DEF InsertJob, NoJob
    <3> QED  BY <3>1
  <2>5. CASE RetryJob(j)
    BY <2>5 DEF RetryJob, Log, StoreTypeOK
  <2>6. CASE MarkJobRunning(j)
    <3>1. jobs'[j].attempt = jobs[j].attempt + 1 /\ jobs'[j].status = "running"
      BY <1>1, <2>3, <2>6 DEF MarkJobRunning, JobRow
    <3>2. jobs[j].status = "queued" /\ jobs[j].attempt > 0
      BY <1>1, <2>6, <3>1 DEF MarkJobRunning
    <3> QED  BY <1>2, <3>2 DEF RetriesTold
  <2>7. CASE CancelJob(j) \/ MarkJobSucceeded(j) \/ MarkJobFailed(j)
    <3>1. jobs'[j].attempt = jobs[j].attempt /\ jobs'[j].status # "queued"
      BY <1>1, <2>3, <2>7 DEF CancelJob, MarkJobSucceeded, MarkJobFailed, JobRow
    <3> QED  BY <1>2, <3>1 DEF RetriesTold
  <2> QED
    BY <1>4, <2>1, <2>2, <2>4, <2>5, <2>6, <2>7 DEF JobStep, AppendEvent, InsertAttempt
<1> QED  BY <1>3, <1>4

\* No job runs a second time, or waits to, without a retry in its log.
THEOREM SecondRunsAreRetries == StoreSpec => []RetriesTold
<1>1. StoreInit => RetriesTold
  BY DEF StoreInit, RetriesTold, NoJob
<1>2. StoreTypeOK /\ StoreInv /\ RetriesTold /\ [StoreNext]_storeVars => RetriesTold'
  BY RetriesToldStep
<1> QED  BY <1>1, <1>2, StoreTypeCorrect, StoreInvariant, PTL DEF StoreSpec
=============================================================================
