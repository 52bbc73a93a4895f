----------------------------- MODULE MockSystem -----------------------------
(***************************************************************************)
(* The in-memory job system of the frontend (MockSystemProvider of         *)
(* frontend/lib/mock-store.tsx), which the dashboard and the dead letter   *)
(* page drive.  One action is one call of setState: React applies its      *)
(* updater atomically to the latest state.                                 *)
(*                                                                         *)
(* Spec lets any component call any operation of the provider with any     *)
(* job; PagesSpec has the calls the pages make.  Dates are kept as "is it  *)
(* set", nextRunAt also as "has it passed".  Of the event list, of which    *)
(* the dashboard shows the head, a row keeps the type of the newest event  *)
(* about its job.  The workers' heartbeats and the tenant limits steer no  *)
(* job and are left out.                                                   *)
(***************************************************************************)
EXTENDS Naturals

CONSTANTS Job           \* the positions of the seeded list that are kept

VARIABLES queuePaused,
          jobs,         \* jobs[j]: the job at position j of the list
          runs          \* history: starts of j since it was created or replayed

vars == <<queuePaused, jobs, runs>>
-----------------------------------------------------------------------------
Settled == {"succeeded", "failed", "cancelled", "dlq"}
JobStatus == Settled \cup {"queued", "running", "retry_scheduled"}

EventType == {"none", "job.created", "job.started", "job.succeeded", "job.failed",
              "job.retry_scheduled", "job.moved_dlq"}

makeJob(status, attempt, maxAttempts, event) ==
    [status      |-> status,
     attempt     |-> attempt,
     maxAttempts |-> maxAttempts,
     nextRunAt   |-> IF status = "retry_scheduled" THEN "ahead" ELSE "none",
     finished    |-> status \in Settled,
     error       |-> status \in {"retry_scheduled", "failed", "dlq"},
     event       |-> event]

seedJobs == << makeJob("queued", 0, 3, "none"),
               makeJob("running", 1, 3, "job.started"),
               makeJob("succeeded", 1, 3, "none"),
               makeJob("retry_scheduled", 2, 4, "none"),
               makeJob("failed", 3, 3, "none"),
               makeJob("dlq", 3, 3, "job.moved_dlq"),
               makeJob("queued", 0, 3, "none"),
               makeJob("cancelled", 0, 3, "none"),
               makeJob("succeeded", 1, 3, "none"),
               makeJob("queued", 0, 3, "none") >>

ASSUME MockAssumption == Job \subseteq DOMAIN seedJobs

Init ==
    /\ queuePaused = FALSE
    /\ jobs = [j \in Job |-> seedJobs[j]]
    /\ runs = [j \in Job |-> IF seedJobs[j].status = "retry_scheduled"
                             THEN seedJobs[j].attempt - 1
                             ELSE seedJobs[j].attempt]

Has(rows, status) == \E j \in Job : rows[j].status = status

\* Array.find: the job of that status nearest the head of the list.
First(rows, status) ==
    CHOOSE j \in Job : /\ rows[j].status = status
                       /\ \A i \in Job : rows[i].status = status => j <= i
-----------------------------------------------------------------------------
pauseQueue == queuePaused' = TRUE /\ UNCHANGED <<jobs, runs>>

resumeQueue == queuePaused' = FALSE /\ UNCHANGED <<jobs, runs>>

\* Mutant: the finish date of the earlier run stays.
retryJob_KeepsFinished(j) ==
    /\ jobs' = [jobs EXCEPT ![j].status = "queued",
                            ![j].error = FALSE,
                            ![j].nextRunAt = "none",
                            ![j].event = "job.retry_scheduled"]
    /\ UNCHANGED <<queuePaused, runs>>

\* Whatever the status of the job.
retryJob(j) ==
    /\ jobs' = [jobs EXCEPT ![j].status = "queued",
                            ![j].error = FALSE,
                            ![j].nextRunAt = "none",
                            ![j].finished = FALSE,
                            ![j].event = "job.retry_scheduled"]
    /\ UNCHANGED <<queuePaused, runs>>

\* Mutant: the replayed job keeps its spent attempts.
replayDlq_KeepsAttempt(j) ==
    /\ jobs' = [jobs EXCEPT ![j].status = "queued",
                            ![j].error = FALSE,
                            ![j].finished = FALSE,
                            ![j].event = "job.created"]
    /\ runs' = [runs EXCEPT ![j] = 0]
    /\ UNCHANGED queuePaused

\* Whatever the status of the job; nextRunAt keeps its value.
replayDlq(j) ==
    /\ jobs' = [jobs EXCEPT ![j].status = "queued",
                            ![j].attempt = 0,
                            ![j].error = FALSE,
                            ![j].finished = FALSE,
                            ![j].event = "job.created"]
    /\ runs' = [runs EXCEPT ![j] = 0]
    /\ UNCHANGED queuePaused

\* The event comes even when the job is settled and stays as it is.
cancelJob(j) ==
    /\ jobs' = [jobs EXCEPT ![j] =
                   IF @.status \in Settled
                   THEN [@ EXCEPT !.event = "job.failed"]
                   ELSE [@ EXCEPT !.status = "cancelled",
                                  !.finished = TRUE,
                                  !.nextRunAt = "none",
                                  !.event = "job.failed"]]
    /\ UNCHANGED <<queuePaused, runs>>

\* The clock passes the date of a scheduled retry.
DelayElapses(j) ==
    /\ jobs[j].nextRunAt = "ahead"
    /\ jobs' = [jobs EXCEPT ![j].nextRunAt = "passed"]
    /\ UNCHANGED <<queuePaused, runs>>

\* The three parts of the interval's updater, each applied to the last one's rows.
Requeue(rows) ==
    [j \in Job |->
        IF rows[j].status = "retry_scheduled" /\ rows[j].nextRunAt = "passed"
        THEN [rows[j] EXCEPT !.status = "queued",
                             !.nextRunAt = "none",
                             !.event = "job.retry_scheduled"]
        ELSE rows[j]]

Start(row) ==
    [row EXCEPT !.status = "running",
                !.attempt = IF row.attempt = 0 THEN 1 ELSE row.attempt,
                !.event = "job.started"]

StartNext(rows) ==
    IF Has(rows, "queued")
    THEN [rows EXCEPT ![First(rows, "queued")] = Start(@)]
    ELSE rows

Succeed(row) ==
    [row EXCEPT !.status = "succeeded", !.finished = TRUE, !.event = "job.succeeded"]

\* Mutant: the limit is compared with <=.
Fail_OneMore(row) ==
    IF row.attempt <= row.maxAttempts
    THEN [row EXCEPT !.status = "retry_scheduled",
                     !.attempt = @ + 1,
                     !.error = TRUE,
                     !.nextRunAt = "ahead",
                     !.event = "job.retry_scheduled"]
    ELSE [row EXCEPT !.status = "dlq",
                     !.finished = TRUE,
                     !.error = TRUE,
                     !.event = "job.moved_dlq"]

\* Mutant: a retry is scheduled without a date.
Fail_NoDate(row) ==
    IF row.attempt < row.maxAttempts
    THEN [row EXCEPT !.status = "retry_scheduled",
                     !.attempt = @ + 1,
                     !.error = TRUE,
                     !.event = "job.retry_scheduled"]
    ELSE [row EXCEPT !.status = "dlq",
                     !.finished = TRUE,
                     !.error = TRUE,
                     !.event = "job.moved_dlq"]

\* Mutant: both outcomes log the same event.
Fail_LogsRetry(row) ==
    IF row.attempt < row.maxAttempts
    THEN [row EXCEPT !.status = "retry_scheduled",
                     !.attempt = @ + 1,
                     !.error = TRUE,
                     !.nextRunAt = "ahead",
                     !.event = "job.retry_scheduled"]
    ELSE [row EXCEPT !.status = "dlq",
                     !.finished = TRUE,
                     !.error = TRUE,
                     !.event = "job.retry_scheduled"]

Fail(row) ==
    IF row.attempt < row.maxAttempts
    THEN [row EXCEPT !.status = "retry_scheduled",
                     !.attempt = @ + 1,
                     !.error = TRUE,
                     !.nextRunAt = "ahead",
                     !.event = "job.retry_scheduled"]
    ELSE [row EXCEPT !.status = "dlq",
                     !.finished = TRUE,
                     !.error = TRUE,
                     !.event = "job.moved_dlq"]

FinishFirst(rows, outcome) ==
    IF Has(rows, "running") /\ outcome # "none"
    THEN [rows EXCEPT ![First(rows, "running")] =
             IF outcome = "success" THEN Succeed(@) ELSE Fail(@)]
    ELSE rows

\* The history stops counting one past the job's budget.
CountRuns(before, after) ==
    [j \in Job |-> IF /\ before[j].status = "queued" /\ after[j].status = "running"
                      /\ runs[j] <= before[j].maxAttempts
                   THEN runs[j] + 1
                   ELSE runs[j]]

Started == IF queuePaused THEN Requeue(jobs) ELSE StartNext(Requeue(jobs))

\* Mutant: a paused queue skips the whole updater.
Tick_SkipsPaused(outcome) ==
    /\ ~queuePaused
    /\ jobs' = FinishFirst(Started, outcome)
    /\ runs' = CountRuns(Requeue(jobs), Started)
    /\ UNCHANGED queuePaused

\* One interval; a pause holds the start and the finish, not the requeue.
Tick(outcome) ==
    /\ jobs' = IF queuePaused THEN Started ELSE FinishFirst(Started, outcome)
    /\ runs' = CountRuns(Requeue(jobs), Started)
    /\ UNCHANGED queuePaused

Unattended ==
    \/ \E outcome \in {"none", "success", "failure"} : Tick(outcome)
    \/ \E j \in Job : DelayElapses(j)

\* The buttons: the dead letter page offers a replay of the jobs it lists.
Operator ==
    \/ pauseQueue
    \/ resumeQueue
    \/ \E j \in Job : jobs[j].status = "dlq" /\ replayDlq(j)

Next ==
    \/ Unattended
    \/ pauseQueue
    \/ resumeQueue
    \/ \E j \in Job : retryJob(j) \/ replayDlq(j) \/ cancelJob(j)

Spec == Init /\ [][Next]_vars

PagesSpec == Init /\ [][Unattended \/ Operator]_vars

\* The interval keeps firing, one of its draws in the end finishes a job, and
\* time passes.
Fairness ==
    /\ WF_vars(\E outcome \in {"none", "success", "failure"} : Tick(outcome))
    /\ WF_vars(\E outcome \in {"success", "failure"} : Tick(outcome))
    /\ \A j \in Job : WF_vars(DelayElapses(j))

FairPagesSpec == PagesSpec /\ Fairness
-----------------------------------------------------------------------------
\* The rows have their types, and no attempt is numbered past the job's limit.
TypeOK ==
    /\ queuePaused \in BOOLEAN
    /\ \A j \in Job :
          /\ DOMAIN jobs[j] = DOMAIN seedJobs[j]
          /\ jobs[j].status \in JobStatus
          /\ jobs[j].maxAttempts = seedJobs[j].maxAttempts
          /\ jobs[j].attempt \in 0..jobs[j].maxAttempts
          /\ jobs[j].nextRunAt \in {"none", "ahead", "passed"}
          /\ jobs[j].finished \in BOOLEAN
          /\ jobs[j].error \in BOOLEAN
          /\ jobs[j].event \in EventType
          /\ runs[j] \in 0..jobs[j].maxAttempts + 1

\* Whoever calls the provider with whatever job, even one that waits or runs: a
\* job has a finish date exactly when it is settled, a scheduled retry has the
\* date without which the interval would never requeue it, and the dead letter
\* queue holds only jobs that have spent their last attempt, with an error to
\* group them by.
RowsConsistent ==
    \A j \in Job :
        /\ jobs[j].finished <=> jobs[j].status \in Settled
        /\ jobs[j].status = "retry_scheduled" => jobs[j].nextRunAt # "none"
        /\ jobs[j].status = "dlq" => jobs[j].attempt = jobs[j].maxAttempts /\ jobs[j].error

\* Under the pages' calls a job gets exactly its budget: the attempt it shows is
\* the run it is on, or will be on when its delay has passed, and it is dead only
\* after maxAttempts runs since it was created or last replayed.
BudgetKept ==
    \A j \in Job :
        /\ jobs[j].status \in {"running", "succeeded"} => runs[j] = jobs[j].attempt
        /\ jobs[j].status = "retry_scheduled" => runs[j] + 1 = jobs[j].attempt
        /\ jobs[j].status = "dlq" => runs[j] = jobs[j].maxAttempts

\* The badge of an event in the dashboard's list.
Badge(event) == CASE event = "job.succeeded" -> "succeeded"
                  [] event = "job.failed" -> "failed"
                  [] event = "job.moved_dlq" -> "dlq"
                  [] OTHER -> "running"

\* Under the pages' calls the newest badge the dashboard shows for a job tells how
\* the job ended, and that it has not ended when it has not: whichever of the
\* interval's three parts touched it last, also within one interval.
FeedTellsStatus ==
    \A j \in Job :
        jobs[j].event # "none" =>
            Badge(jobs[j].event) = IF jobs[j].status \in Settled THEN jobs[j].status
                                                                ELSE "running"

WaitsFor(j, a) == jobs[j].status = "retry_scheduled" /\ jobs[j].attempt = a

\* No retry waits for ever: when its delay has passed it goes back to the queue,
\* paused or not, whatever the operator does; it may start, and even fail into
\* the wait for the next attempt, within the same interval.
RetriesReturn ==
    \A j \in Job : \A a \in 1..seedJobs[j].maxAttempts : WaitsFor(j, a) ~> ~WaitsFor(j, a)

\* If the operator in the end leaves an unpaused queue alone, every job of the list succeeds
\* or dies: starting and finishing only the first one starves none.
Drains ==
    \/ []<><<Operator>>_vars
    \/ []<>queuePaused
    \/ <>[](\A j \in Job : jobs[j].status \in Settled)
=============================================================================
