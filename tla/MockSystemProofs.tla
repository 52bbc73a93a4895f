-------------------------- MODULE MockSystemProofs --------------------------
(***************************************************************************)
(* The mock system on every part of its seeded list.                       *)
(***************************************************************************)
EXTENDS MockSystem, TLAPS

Row == [status      : JobStatus,
        attempt     : Nat,
        maxAttempts : Nat,
        nextRunAt   : {"none", "ahead", "passed"},
        finished    : BOOLEAN,
        error       : BOOLEAN,
        event       : EventType]

\* What one row keeps: its part of TypeOK and RowsConsistent.
GoodRow(row) ==
    /\ row \in Row
    /\ row.maxAttempts > 0
    /\ row.attempt <= row.maxAttempts
    /\ row.finished <=> row.status \in Settled
    /\ row.status = "retry_scheduled" => row.nextRunAt # "none"
    /\ row.status = "dlq" => row.attempt = row.maxAttempts /\ row.error

\* makeJob makes such rows.
LEMMA MadeRow ==
    ASSUME NEW status \in JobStatus, NEW attempt \in Nat, NEW maxAttempts \in Nat,
           NEW event \in EventType, maxAttempts > 0, attempt <= maxAttempts,
           status = "dlq" => attempt = maxAttempts
    PROVE  GoodRow(makeJob(status, attempt, maxAttempts, event))
<1> DEFINE row == makeJob(status, attempt, maxAttempts, event)
<1>1. /\ row.status = status /\ row.attempt = attempt /\ row.maxAttempts = maxAttempts
      /\ row.event = event
      /\ row.nextRunAt = IF status = "retry_scheduled" THEN "ahead" ELSE "none"
  BY DEF makeJob
<1>2. row.finished <=> status \in Settled
  BY DEF makeJob
<1>3. row.error <=> status \in {"retry_scheduled", "failed", "dlq"}
  BY DEF makeJob
<1>4. row \in Row
  BY DEF makeJob, Row
<1> QED  BY <1>1, <1>2, <1>3, <1>4 DEF GoodRow

\* The seeded list is made of them.
LEMMA SeedRows ==
    ASSUME NEW j \in Job
    PROVE  GoodRow(seedJobs[j])
<1>1. /\ GoodRow(makeJob("queued", 0, 3, "none"))
      /\ GoodRow(makeJob("running", 1, 3, "job.started"))
      /\ GoodRow(makeJob("succeeded", 1, 3, "none"))
      /\ GoodRow(makeJob("retry_scheduled", 2, 4, "none"))
      /\ GoodRow(makeJob("failed", 3, 3, "none"))
      /\ GoodRow(makeJob("dlq", 3, 3, "job.moved_dlq"))
      /\ GoodRow(makeJob("cancelled", 0, 3, "none"))
  BY MadeRow DEF JobStatus, Settled, EventType
<1>2. j \in DOMAIN seedJobs
  BY MockAssumption
<1> QED  BY <1>1, <1>2 DEF seedJobs

\* A set of positions that is not empty has a least one.
LEMMA LeastPosition ==
    ASSUME NEW S \in SUBSET Job, S # {}
    PROVE  \E j \in S : \A i \in S : j <= i
<1>1. \A i \in S : i \in 1..10
  BY MockAssumption DEF seedJobs
<1> QED  BY <1>1

\* What First finds has the status it was asked for.
LEMMA FirstFound ==
    ASSUME NEW rows, NEW status, Has(rows, status)
    PROVE  First(rows, status) \in Job /\ rows[First(rows, status)].status = status
<1> DEFINE S == {j \in Job : rows[j].status = status}
<1>1. S \in SUBSET Job /\ S # {}
  BY DEF Has
<1>2. \E j \in S : \A i \in S : j <= i
  BY <1>1, LeastPosition
<1>3. \E j \in Job : /\ rows[j].status = status
                     /\ \A i \in Job : rows[i].status = status => j <= i
  BY <1>2
<1> QED  BY <1>3 DEF First

(***************************************************************************)
(* Any caller (Spec): the rows stay good.                                  *)
(***************************************************************************)
GoodList(rows) ==
    /\ rows \in [Job -> Row]
    /\ \A j \in Job : GoodRow(rows[j]) /\ rows[j].maxAttempts = seedJobs[j].maxAttempts

\* One row is replaced by a good one with the same limit.
LEMMA GoodChange ==
    ASSUME NEW rows, GoodList(rows), NEW i \in Job, NEW row, GoodRow(row),
           row.maxAttempts = rows[i].maxAttempts
    PROVE  GoodList([rows EXCEPT ![i] = row])
BY DEF GoodList, GoodRow

\* The three parts of the interval, and the two ways to finish.
LEMMA RequeueGood ==
    ASSUME NEW rows, GoodList(rows)
    PROVE  GoodList(Requeue(rows))
<1>1. ASSUME NEW j \in Job, rows[j].status = "retry_scheduled"
      PROVE  LET row == [rows[j] EXCEPT !.status = "queued", !.nextRunAt = "none",
                                        !.event = "job.retry_scheduled"]
             IN  GoodRow(row) /\ row.maxAttempts = rows[j].maxAttempts
  BY <1>1 DEF GoodList, GoodRow, Row, JobStatus, Settled, EventType
<1>2. ASSUME NEW j \in Job
      PROVE  GoodRow(Requeue(rows)[j]) /\ Requeue(rows)[j].maxAttempts = rows[j].maxAttempts
  BY <1>1 DEF Requeue, GoodList
<1> QED  BY <1>2 DEF GoodList, Requeue, GoodRow

\* The start of a queued job keeps the list good.
LEMMA StartGood ==
    ASSUME NEW rows, GoodList(rows)
    PROVE  GoodList(StartNext(rows))
<1>1. CASE ~Has(rows, "queued")
  BY <1>1 DEF StartNext
<1>2. CASE Has(rows, "queued")
  <2>1. PICK i \in Job : i = First(rows, "queued") /\ rows[i].status = "queued"
    BY <1>2, FirstFound
  <2>2. PICK row : row = Start(rows[i])
    OBVIOUS
  <2>3. GoodRow(row) /\ row.maxAttempts = rows[i].maxAttempts
    <3>1. rows[i] \in Row /\ GoodRow(rows[i])
      BY DEF GoodList, GoodRow
    <3>2. /\ row.status = "running" /\ row.event = "job.started"
          /\ row.attempt = IF rows[i].attempt = 0 THEN 1 ELSE rows[i].attempt
          /\ row.maxAttempts = rows[i].maxAttempts /\ row.nextRunAt = rows[i].nextRunAt
          /\ row.finished = rows[i].finished /\ row.error = rows[i].error
      BY <2>2, <3>1 DEF Start, Row
    <3>3. row \in Row
      BY <2>2, <3>1 DEF Start, Row, JobStatus, EventType
    <3> QED  BY <2>1, <3>1, <3>2, <3>3 DEF GoodRow, Row, Settled
  <2>4. StartNext(rows) = [rows EXCEPT ![i] = row]
    BY <1>2, <2>1, <2>2 DEF StartNext, GoodList
  <2>5. GoodList([rows EXCEPT ![i] = row])
    BY <2>3, GoodChange
  <2> QED  BY <2>4, <2>5
<1> QED  BY <1>1, <1>2

\* So does the end of a running one, whatever its outcome.
LEMMA FinishGood ==
    ASSUME NEW rows, GoodList(rows), NEW outcome
    PROVE  GoodList(FinishFirst(rows, outcome))
<1>1. CASE ~(Has(rows, "running") /\ outcome # "none")
  BY <1>1 DEF FinishFirst
<1>2. CASE Has(rows, "running") /\ outcome # "none"
  <2>1. PICK i \in Job : i = First(rows, "running") /\ rows[i].status = "running"
    BY <1>2, FirstFound
  <2>2. PICK row : row = IF outcome = "success" THEN Succeed(rows[i]) ELSE Fail(rows[i])
    OBVIOUS
  <2>3. /\ GoodRow(Succeed(rows[i]))
        /\ Succeed(rows[i]).maxAttempts = rows[i].maxAttempts
    BY <2>1 DEF Succeed, GoodList, GoodRow, Row, JobStatus, Settled, EventType
  <2>4. /\ GoodRow(Fail(rows[i]))
        /\ Fail(rows[i]).maxAttempts = rows[i].maxAttempts
    <3>1. rows[i] \in Row /\ GoodRow(rows[i])
      BY DEF GoodList, GoodRow
    <3>2. CASE rows[i].attempt < rows[i].maxAttempts
      <4>1. Fail(rows[i]) \in Row
        <5>1. rows[i].attempt + 1 \in Nat
          BY <3>1 DEF Row
        <5>2. [rows[i] EXCEPT !.status = "retry_scheduled", !.attempt = rows[i].attempt + 1,
                              !.error = TRUE, !.nextRunAt = "ahead",
                              !.event = "job.retry_scheduled"] \in Row
          BY <3>1, <5>1 DEF Row, JobStatus, EventType
        <5> QED  BY <3>2, <5>2 DEF Fail
      <4> QED  BY <2>1, <3>1, <3>2, <4>1 DEF Fail, GoodRow, Row, Settled
    <3>3. CASE ~(rows[i].attempt < rows[i].maxAttempts)
      <4>1. Fail(rows[i]) \in Row
        BY <3>1, <3>3 DEF Fail, Row, JobStatus, Settled, EventType
      <4> QED  BY <2>1, <3>1, <3>3, <4>1 DEF Fail, GoodRow, Row, Settled
    <3> QED  BY <3>2, <3>3
  <2>5. GoodRow(row) /\ row.maxAttempts = rows[i].maxAttempts
    BY <2>2, <2>3, <2>4
  <2>6. FinishFirst(rows, outcome) = [rows EXCEPT ![i] = row]
    BY <1>2, <2>1, <2>2 DEF FinishFirst
  <2>7. GoodList([rows EXCEPT ![i] = row])
    BY <2>5, GoodChange
  <2> QED  BY <2>6, <2>7
<1> QED  BY <1>1, <1>2

\* Good rows, and a history within its cap.
MockInv ==
    /\ queuePaused \in BOOLEAN
    /\ GoodList(jobs)
    /\ runs \in [Job -> Nat]
    /\ \A j \in Job : runs[j] <= seedJobs[j].maxAttempts + 1

\* The seeded list is good.
LEMMA MockInvInit == Init => MockInv
<1> SUFFICES ASSUME Init PROVE MockInv
  OBVIOUS
<1>1. \A j \in Job : GoodRow(seedJobs[j])
  BY SeedRows
<1>2. GoodList(jobs)
  BY <1>1 DEF Init, GoodList, GoodRow
<1>3. ASSUME NEW j \in Job
      PROVE  runs[j] \in Nat /\ runs[j] <= seedJobs[j].maxAttempts + 1
  <2>1. seedJobs[j].attempt \in Nat /\ seedJobs[j].maxAttempts \in Nat
        /\ seedJobs[j].attempt <= seedJobs[j].maxAttempts
    BY <1>1 DEF GoodRow, Row
  <2>2. seedJobs[j].status = "retry_scheduled" => seedJobs[j].attempt = 2
    BY MockAssumption DEF seedJobs, makeJob
  <2> QED  BY <2>1, <2>2 DEF Init
<1> QED  BY <1>2, <1>3 DEF Init, MockInv

\* No operation and no interval spoils it.
LEMMA MockInvStep ==
    ASSUME MockInv, [Next]_vars
    PROVE  MockInv'
<1>1. ASSUME NEW outcome, Tick(outcome)
      PROVE  MockInv'
  <2>1. GoodList(Requeue(jobs)) /\ GoodList(Started)
    BY RequeueGood, StartGood DEF MockInv, Started
  <2>2. GoodList(jobs')
    BY <1>1, <2>1, FinishGood DEF Tick
  <2>3. ASSUME NEW j \in Job
        PROVE  runs'[j] \in Nat /\ runs'[j] <= seedJobs[j].maxAttempts + 1
    <3>1. /\ Requeue(jobs)[j].maxAttempts = seedJobs[j].maxAttempts
          /\ seedJobs[j].maxAttempts \in Nat
          /\ runs[j] \in Nat /\ runs[j] <= seedJobs[j].maxAttempts + 1
      BY <2>1 DEF GoodList, GoodRow, Row, MockInv
    <3> QED  BY <1>1, <3>1 DEF Tick, CountRuns
  <2>4. runs' \in [Job -> Nat]
    BY <1>1, <2>3 DEF Tick, CountRuns
  <2> QED  BY <1>1, <2>2, <2>3, <2>4 DEF Tick, MockInv
<1>2. ASSUME NEW j \in Job, NEW row, GoodRow(row), row.maxAttempts = jobs[j].maxAttempts,
             jobs' = [jobs EXCEPT ![j] = row],
             queuePaused' = queuePaused, runs' = runs \/ runs' = [runs EXCEPT ![j] = 0]
      PROVE  MockInv'
  <2>1. GoodList(jobs')
    BY <1>2, GoodChange DEF MockInv
  <2>2. \A i \in Job : seedJobs[i].maxAttempts \in Nat
    BY SeedRows DEF GoodRow, Row
  <2> QED  BY <1>2, <2>1, <2>2 DEF MockInv
<1>3. ASSUME NEW j \in Job
      PROVE  jobs[j] \in Row /\ GoodRow(jobs[j]) /\ jobs \in [Job -> Row]
  BY DEF MockInv, GoodList, GoodRow
<1>4. ASSUME NEW j \in Job, retryJob(j)
      PROVE  MockInv'
  <2>1. PICK row : row = [jobs[j] EXCEPT !.status = "queued", !.error = FALSE, !.nextRunAt = "none",
                                         !.finished = FALSE, !.event = "job.retry_scheduled"]
    OBVIOUS
  <2>2. GoodRow(row) /\ row.maxAttempts = jobs[j].maxAttempts
    BY <1>3, <2>1 DEF GoodRow, Row, JobStatus, Settled, EventType
  <2>3. jobs' = [jobs EXCEPT ![j] = row]
    BY <1>3, <1>4, <2>1 DEF retryJob
  <2> QED  BY <1>2, <1>4, <2>2, <2>3 DEF retryJob
<1>5. ASSUME NEW j \in Job, replayDlq(j)
      PROVE  MockInv'
  <2>1. PICK row : row = [jobs[j] EXCEPT !.status = "queued", !.attempt = 0, !.error = FALSE,
                                         !.finished = FALSE, !.event = "job.created"]
    OBVIOUS
  <2>2. GoodRow(row) /\ row.maxAttempts = jobs[j].maxAttempts
    <3>1. row \in Row
      BY <1>3, <2>1 DEF Row, JobStatus, EventType
    <3> QED  BY <1>3, <2>1, <3>1 DEF GoodRow, Row, Settled
  <2>3. jobs' = [jobs EXCEPT ![j] = row]
    BY <1>3, <1>5, <2>1 DEF replayDlq
  <2> QED  BY <1>2, <1>5, <2>2, <2>3 DEF replayDlq
<1>6. ASSUME NEW j \in Job, cancelJob(j)
      PROVE  MockInv'
  <2>1. PICK row : row = IF jobs[j].status \in Settled
                         THEN [jobs[j] EXCEPT !.event = "job.failed"]
                         ELSE [jobs[j] EXCEPT !.status = "cancelled", !.finished = TRUE,
                                              !.nextRunAt = "none", !.event = "job.failed"]
    OBVIOUS
  <2>2. GoodRow(row) /\ row.maxAttempts = jobs[j].maxAttempts
    <3>1. CASE jobs[j].status \in Settled
      BY <1>3, <2>1, <3>1 DEF GoodRow, Row, EventType
    <3>2. CASE jobs[j].status \notin Settled
      BY <1>3, <2>1, <3>2 DEF GoodRow, Row, JobStatus, Settled, EventType
    <3> QED  BY <3>1, <3>2
  <2>3. jobs' = [jobs EXCEPT ![j] = row]
    BY <1>6, <2>1 DEF cancelJob
  <2> QED  BY <1>2, <1>6, <2>2, <2>3 DEF cancelJob
<1>7. ASSUME NEW j \in Job, DelayElapses(j)
      PROVE  MockInv'
  <2>1. PICK row : row = [jobs[j] EXCEPT !.nextRunAt = "passed"]
    OBVIOUS
  <2>2. GoodRow(row) /\ row.maxAttempts = jobs[j].maxAttempts
    BY <1>3, <2>1 DEF GoodRow, Row, Settled
  <2>3. jobs' = [jobs EXCEPT ![j] = row]
    BY <1>3, <1>7, <2>1 DEF DelayElapses
  <2> QED  BY <1>2, <1>7, <2>2, <2>3 DEF DelayElapses
<1>8. CASE pauseQueue \/ resumeQueue \/ UNCHANGED vars
  BY <1>8 DEF pauseQueue, resumeQueue, vars, MockInv
<1> QED
  BY <1>1, <1>4, <1>5, <1>6, <1>7, <1>8 DEF Next, Unattended

\* The invariant holds whoever calls the provider.
THEOREM MockInvariant == Spec => []MockInv
<1>1. MockInv /\ [Next]_vars => MockInv'
  BY MockInvStep
<1> QED  BY <1>1, MockInvInit, PTL DEF Spec

\* The rows have their types.
THEOREM MockTyped == Spec => []TypeOK
<1>1. ASSUME MockInv
      PROVE  TypeOK
  <2>1. ASSUME NEW j \in Job
        PROVE  DOMAIN jobs[j] = DOMAIN seedJobs[j]
    BY <1>1, SeedRows DEF MockInv, GoodList, GoodRow, Row
  <2> QED  BY <1>1, <2>1 DEF MockInv, GoodList, GoodRow, Row, TypeOK
<1> QED  BY <1>1, MockInvariant, PTL

\* Dates, retries and the dead letter queue stay consistent under any calls.
THEOREM MockConsistent == Spec => []RowsConsistent
<1>1. MockInv => RowsConsistent
  BY DEF MockInv, GoodList, GoodRow, RowsConsistent
<1> QED  BY <1>1, MockInvariant, PTL

(***************************************************************************)
(* The pages' calls only (PagesSpec): a row, the runs counted for it and   *)
(* its newest event tell the same story.  BudgetKept needs to know of a    *)
(* queued row that its attempt is the run to come, but for the 0 of a job  *)
(* that has not run yet.                                                   *)
(***************************************************************************)
PagedRow(row, n) ==
    /\ row.status = "queued" => (row.attempt = 0 /\ n = 0) \/ row.attempt = n + 1
    /\ row.status \in {"running", "succeeded"} => n = row.attempt
    /\ row.status = "retry_scheduled" => n + 1 = row.attempt
    /\ row.status = "dlq" => n = row.maxAttempts
    /\ row.event # "none" =>
          Badge(row.event) = IF row.status \in Settled THEN row.status ELSE "running"

\* The inductive invariant under the pages' calls: runs and attempt move together.
PagedInv == MockInv /\ \A j \in Job : PagedRow(jobs[j], runs[j])

\* What becomes of a row in the interval.
LEMMA PagedRequeue ==
    ASSUME NEW rows, GoodList(rows), NEW j \in Job, NEW n \in Nat, PagedRow(rows[j], n)
    PROVE  PagedRow(Requeue(rows)[j], n)
<1>1. rows[j] \in Row
  BY DEF GoodList
<1>2. CASE rows[j].status = "retry_scheduled" /\ rows[j].nextRunAt = "passed"
  <2>1. PICK row : row = [rows[j] EXCEPT !.status = "queued", !.nextRunAt = "none",
                                         !.event = "job.retry_scheduled"]
    OBVIOUS
  <2>2. Requeue(rows)[j] = row
    BY <1>2, <2>1 DEF Requeue
  <2>3. row.status = "queued" /\ row.attempt = rows[j].attempt /\ row.event = "job.retry_scheduled"
    BY <1>1, <2>1 DEF Row
  <2>4. PagedRow(row, n)
    BY <1>2, <2>3 DEF PagedRow, Badge, Settled
  <2> QED  BY <2>2, <2>4
<1>3. CASE ~(rows[j].status = "retry_scheduled" /\ rows[j].nextRunAt = "passed")
  BY <1>3 DEF Requeue
<1> QED  BY <1>2, <1>3

\* A start counts one run more.
LEMMA PagedStart ==
    ASSUME NEW row \in Row, NEW n \in Nat, PagedRow(row, n), row.status = "queued"
    PROVE  PagedRow(Start(row), n + 1)
<1>1. /\ Start(row).status = "running" /\ Start(row).event = "job.started"
      /\ Start(row).attempt = IF row.attempt = 0 THEN 1 ELSE row.attempt
  BY DEF Start, Row
<1> QED  BY <1>1 DEF PagedRow, Badge, Settled, Row

\* An end counts none, and its event fits the status.
LEMMA PagedFinish ==
    ASSUME NEW row, GoodRow(row), NEW n \in Nat, PagedRow(row, n), row.status = "running"
    PROVE  PagedRow(Succeed(row), n) /\ PagedRow(Fail(row), n)
<1>1. row \in Row /\ n = row.attempt /\ row.attempt <= row.maxAttempts
  BY DEF GoodRow, PagedRow
<1>2. PagedRow(Succeed(row), n)
  BY <1>1 DEF Succeed, PagedRow, Badge, Settled, Row
<1>3. CASE row.attempt < row.maxAttempts
  <2>1. /\ Fail(row).status = "retry_scheduled" /\ Fail(row).attempt = row.attempt + 1
        /\ Fail(row).event = "job.retry_scheduled"
    BY <1>1, <1>3 DEF Fail, Row
  <2> QED  BY <1>1, <1>2, <2>1 DEF PagedRow, Badge, Settled
<1>4. CASE ~(row.attempt < row.maxAttempts)
  <2>1. /\ Fail(row).status = "dlq" /\ Fail(row).maxAttempts = row.maxAttempts
        /\ Fail(row).event = "job.moved_dlq"
    BY <1>1, <1>4 DEF Fail, Row
  <2>2. n = row.maxAttempts
    BY <1>1, <1>4 DEF Row
  <2> QED  BY <1>2, <2>1, <2>2 DEF PagedRow, Badge, Settled
<1> QED  BY <1>3, <1>4

\* One interval: the parts in turn, with the run counted by the second.
LEMMA PagedTick ==
    ASSUME PagedInv, NEW outcome, Tick(outcome), NEW j \in Job
    PROVE  PagedRow(jobs'[j], runs'[j])
<1>1. GoodList(jobs) /\ GoodList(Requeue(jobs)) /\ GoodList(Started) /\ runs[j] \in Nat
  BY RequeueGood, StartGood DEF PagedInv, MockInv, Started
<1>2. PagedRow(Requeue(jobs)[j], runs[j])
  BY <1>1, PagedRequeue DEF PagedInv
<1>3. /\ runs'[j] \in Nat
      /\ PagedRow(Started[j], runs'[j])
  <2>1. PICK row, n : row = Requeue(jobs)[j] /\ n = runs[j]
    OBVIOUS
  <2>2. row \in Row /\ GoodRow(row) /\ n \in Nat /\ PagedRow(row, n)
    BY <1>1, <1>2, <2>1 DEF GoodList
  <2>3. runs'[j] = IF row.status = "queued" /\ Started[j].status = "running" /\ n <= row.maxAttempts
                   THEN n + 1
                   ELSE n
    BY <2>1 DEF Tick, CountRuns
  <2>4. CASE Started[j] = row
    BY <2>2, <2>3, <2>4
  <2>5. CASE row.status = "queued" /\ Started[j] = Start(row)
    <3>1. Start(row).status = "running" /\ n <= row.maxAttempts
      BY <2>2, <2>5 DEF Start, Row, GoodRow, PagedRow
    <3> QED  BY <2>2, <2>3, <2>5, <3>1, PagedStart
  <2>6. Started[j] = row \/ (row.status = "queued" /\ Started[j] = Start(row))
    <3>1. CASE queuePaused \/ ~Has(Requeue(jobs), "queued")
      BY <2>1, <3>1 DEF Started, StartNext
    <3>2. CASE ~queuePaused /\ Has(Requeue(jobs), "queued")
      <4>1. PICK i \in Job : i = First(Requeue(jobs), "queued") /\ Requeue(jobs)[i].status = "queued"
        BY <3>2, FirstFound
      <4>2. Started = [Requeue(jobs) EXCEPT ![i] = Start(Requeue(jobs)[i])]
        BY <3>2, <4>1 DEF Started, StartNext
      <4>3. Requeue(jobs) \in [Job -> Row]
        BY <1>1 DEF GoodList
      <4> QED  BY <2>1, <4>1, <4>2, <4>3
    <3> QED  BY <3>1, <3>2
  <2> QED  BY <2>4, <2>5, <2>6
<1>4. CASE jobs'[j] = Started[j]
  BY <1>3, <1>4
<1>5. CASE /\ Started[j].status = "running"
           /\ jobs'[j] = Succeed(Started[j]) \/ jobs'[j] = Fail(Started[j])
  <2>1. GoodRow(Started[j])
    BY <1>1 DEF GoodList
  <2> QED  BY <1>3, <1>5, <2>1, PagedFinish
<1>6. \/ jobs'[j] = Started[j]
      \/ /\ Started[j].status = "running"
         /\ jobs'[j] = Succeed(Started[j]) \/ jobs'[j] = Fail(Started[j])
  <2>1. CASE queuePaused \/ ~(Has(Started, "running") /\ outcome # "none")
    BY <2>1 DEF Tick, FinishFirst
  <2>2. CASE ~queuePaused /\ Has(Started, "running") /\ outcome # "none"
    <3>1. PICK i \in Job : i = First(Started, "running") /\ Started[i].status = "running"
      BY <2>2, FirstFound
    <3>2. jobs' = [Started EXCEPT ![i] = IF outcome = "success" THEN Succeed(Started[i])
                                         ELSE Fail(Started[i])]
      BY <2>2, <3>1 DEF Tick, FinishFirst
    <3>3. Started \in [Job -> Row]
      BY <1>1 DEF GoodList
    <3> QED  BY <3>1, <3>2, <3>3
  <2> QED  BY <2>1, <2>2
<1> QED  BY <1>4, <1>5, <1>6

\* The seeded list tells one story.
LEMMA PagedInit == Init => PagedInv
<1> SUFFICES ASSUME Init PROVE PagedInv
  OBVIOUS
<1>1. ASSUME NEW j \in Job
      PROVE  PagedRow(seedJobs[j], runs[j])
  <2>1. runs[j] = IF seedJobs[j].status = "retry_scheduled" THEN seedJobs[j].attempt - 1
                  ELSE seedJobs[j].attempt
    BY DEF Init
  <2>2. j \in DOMAIN seedJobs
    BY MockAssumption
  <2> QED  BY <2>1, <2>2 DEF seedJobs, makeJob, PagedRow, Badge, Settled
<1>2. ASSUME NEW j \in Job
      PROVE  PagedRow(jobs[j], runs[j])
  BY <1>1 DEF Init
<1> QED  BY <1>2, MockInvInit DEF PagedInv

\* And so do the rows after every call of the pages and every interval.
LEMMA PagedStep ==
    ASSUME PagedInv, [Unattended \/ Operator]_vars
    PROVE  PagedInv'
<1>1. [Next]_vars
  BY DEF Next, Unattended, Operator
<1>2. MockInv'
  BY <1>1, MockInvStep DEF PagedInv
<1>3. CASE \E outcome \in {"none", "success", "failure"} : Tick(outcome)
  BY <1>2, <1>3, PagedTick DEF PagedInv
<1>4. ASSUME NEW i \in Job, DelayElapses(i)
      PROVE  PagedInv'
  <2>1. jobs \in [Job -> Row]
    BY DEF PagedInv, MockInv, GoodList
  <2>2. ASSUME NEW j \in Job
        PROVE  /\ jobs'[j].status = jobs[j].status /\ jobs'[j].attempt = jobs[j].attempt
               /\ jobs'[j].maxAttempts = jobs[j].maxAttempts /\ jobs'[j].event = jobs[j].event
               /\ runs'[j] = runs[j]
    BY <1>4, <2>1 DEF DelayElapses, Row
  <2> QED  BY <1>2, <2>2 DEF PagedInv, PagedRow
<1>5. ASSUME NEW i \in Job, replayDlq(i)
      PROVE  PagedInv'
  <2>1. jobs \in [Job -> Row] /\ runs \in [Job -> Nat]
    BY DEF PagedInv, MockInv, GoodList
  <2>2. /\ jobs'[i].status = "queued" /\ jobs'[i].attempt = 0 /\ jobs'[i].event = "job.created"
        /\ runs'[i] = 0
    BY <1>5, <2>1 DEF replayDlq, Row
  <2>3. PagedRow(jobs'[i], runs'[i])
    BY <2>2 DEF PagedRow, Badge, Settled
  <2>4. \A j \in Job \ {i} : jobs'[j] = jobs[j] /\ runs'[j] = runs[j]
    BY <1>5, <2>1 DEF replayDlq
  <2>5. \A j \in Job : PagedRow(jobs'[j], runs'[j])
    BY <2>3, <2>4 DEF PagedInv
  <2> QED  BY <1>2, <2>5 DEF PagedInv
<1>6. CASE pauseQueue \/ resumeQueue \/ UNCHANGED vars
  BY <1>2, <1>6 DEF pauseQueue, resumeQueue, vars, PagedInv
<1> QED
  BY <1>3, <1>4, <1>5, <1>6 DEF Unattended, Operator

\* The invariant holds under the pages' calls.
THEOREM PagedInvariant == PagesSpec => []PagedInv
<1>1. PagedInv /\ [Unattended \/ Operator]_vars => PagedInv'
  BY PagedStep
<1> QED  BY <1>1, PagedInit, PTL DEF PagesSpec

\* Every job gets exactly its budget of runs.
THEOREM BudgetsKept == PagesSpec => []BudgetKept
<1>1. PagedInv => BudgetKept
  BY DEF PagedInv, PagedRow, BudgetKept
<1> QED  BY <1>1, PagedInvariant, PTL

\* The newest badge of a job tells its status.
THEOREM FeedIsRight == PagesSpec => []FeedTellsStatus
<1>1. PagedInv => FeedTellsStatus
  BY DEF PagedInv, PagedRow, FeedTellsStatus
<1> QED  BY <1>1, PagedInvariant, PTL
=============================================================================
