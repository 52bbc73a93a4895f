# A formal model of the LLM job queue

The repository is an orchestrator for LLM jobs: a Go backend (an HTTP API and
worker processes over Postgres and Redis) and a Next.js console, part of which
talks to the backend and part of which runs an in-memory mock. These modules
model what changes state, `PROJECT.json` maps each definition to the lines it
stands for, and the sections below say what is checked and what is proved.

## 1. Inventory

| Component | State | Operations | Correct when |
|---|---|---|---|
| Persistence layer, `backend/internal/store/postgres.go`, `migrations/001_init.sql` | tables `jobs`, `job_attempts`, `events`, `workers` | `CreateJob`, `CancelJob`, `RetryJob`, `MarkJobRunning`, `MarkJobSucceeded`, `MarkJobFailed`, `UpsertWorkerHeartbeat`, reads | the job row and the attempt rows agree; a key names one job; verdicts are final |
| Ready list and leases, `backend/internal/queue/redis.go` | list `queue:ready`, keys `job:lease:<id>` | LPUSH, LREM, BRPOP, SET NX with a time to live, DEL | a queued job has an entry; a lease has an owner who will release it |
| Worker loop, `backend/internal/worker/runner.go` | local `state`, `runningJobID`, the job in hand | dequeue, lease, claim, execute, store the outcome, release, heartbeat | no attempt is run twice; a running job is being run |
| Job service, `backend/internal/jobs/service.go` | none; one goroutine per request | create, cancel, retry: a transaction, then Redis calls | tables and list are changed together, or the job can still be brought back |
| HTTP API, `backend/internal/httpapi/server.go`, `cmd/api` | none | routing, validation, status codes; the context of a request ends with its client | stateless |
| Mock job system, `frontend/lib/mock-store.tsx`, `mock-data.ts` | pause flag, jobs, workers, limits, events | pause, resume, retry, replay, cancel, the 5 s interval | the attempt budget is kept; retries come back; the queue drains |
| API client and proxy routes, `frontend/lib/backend-api.ts`, `frontend/app/api` | the fetches in flight | list, get, create, cancel, retry | an answer, however late, says only what has happened |
| Jobs page and its table, `frontend/app/jobs/page.tsx`, `components/jobs-table.tsx` | the list last fetched; `loading`, `error`, `creating`, `actionBusy` | the 4 s interval, the form, the row buttons | the list catches up; nothing stays disabled |
| Job page, `frontend/app/jobs/[id]/page.tsx` | the job and attempt last fetched; `loading`, `error`, `actionBusy` | the 3.5 s interval, two buttons | a success has its cost, the timeline fits the badge, and all three catch up |
| Dashboard and dead letter page | none | the mock system's calls and a list of its events | the newest event tells a job's status |
| Other pages, layout, formatting, configuration | none | rendering, reading the environment | stateless |

How they interact: the API commits to Postgres and then changes Redis, in
separate calls; workers pop an entry from Redis, take a lease there, claim the
job in Postgres with a compare-and-set, and write the outcome to Postgres before
they release the lease. There is no transaction over both stores, no process that
repairs a difference between them, and no renewal of a lease. Nothing
relates an outcome to the attempt it came from: it goes to whatever attempt
the job is on. The jobs pages read by polling through the proxy routes, and do not
number their fetches: polls, actions and the refresh after an action are in flight
together, and the answer that comes last is shown. The mock system stands alone.

The hard behaviours are therefore: requests and workers interleaving between two
calls; calls that fail after they took effect; a worker or the API dying between
two calls; leases that run out or are deleted under their holder; late workers;
answers that overtake one another, and are acted on when they are old.
`PROJECT.json` lists them under `hazards`, each at its line.

## 2. Modules

| Module | Models |
|---|---|
| `AttemptLedger` | abstract specification: numbered attempts, each closed at most once, success final |
| `JobStore` | the tables and every statement that changes them; `StoreSpec` lets callers issue them in any order |
| `ReadyQueue` | the Redis commands |
| `Orchestrator` | workers and API requests as processes over `JobStore` and `ReadyQueue`, with faults |
| `ApiClient` | the fetches of a browser tab and the backend's answers to them, over `JobStore` |
| `JobsPage`, `JobPage` | the two pages that send these fetches and show the answers |
| `MockSystem` | the frontend's mock store and the event list made from it |
| `MCJobStore`, `MCOrchestrator`, `MCMockSystem` | symmetry and values for TLC |
| `JobStoreProofs`, `OrchestratorProofs`, `ReadyListProofs`, `ApiClientProofs`, `JobsPageProofs`, `JobPageProofs`, `MockSystemProofs` | theorems, lemmas and their proofs |

`Orchestrator` extends `JobStore`, instantiates `ReadyQueue`, and is shown to
implement `StoreSpec`; `JobStore` is shown to implement `AttemptLedger`.
What holds of the store under arbitrary callers thus holds of the
running system. `JobsPage` and `JobPage` extend `ApiClient`, which extends
`JobStore`: around the page they leave the store to arbitrary callers, of which the
workers and the API are, by the same refinement, some.

### JobStore

`jobs[j]`, `attempts[j][a]` and `events[j]` are the rows. One action is one
atomic unit of the database: an auto-committed statement (`InsertJob`,
`AppendEvent`, the two statements of `MarkJobRunning`, here `MarkJobRunning` and
`InsertAttempt`) or a whole transaction (`CancelJob`, `RetryJob`,
`MarkJobSucceeded`, `MarkJobFailed`). A transaction is one step because the first
statement locks the job row; the one overlap with a statement that does not take
that lock, the insert of the attempt row between a transaction's update and its
fallback insert, is `FinishConflict` of `Orchestrator`. Timestamps are kept as "is it null"; the pair of
tenant and key is one value, since the code only uses the pair; an event log is
the set of kinds stored. Model, payload, priority, tokens, cost and
max_attempts steer nothing in the backend and are left out.

### ReadyQueue and Orchestrator

`ready` is the list, `lease[j]` the worker named in the key. `Without`, what LREM
leaves of the list, is written without recursion, by numbering the positions that stay,
so that theorems can speak of it; `WithoutIsSelection` of `MCOrchestrator` compares it
with the library's `SelectSeq` on every list of up to four entries over three jobs. `wpc[w]` is the call
worker `w` makes next and follows `Runner.Run` line by line: `idleBeat`, `loop`,
`lease`, `claim`, `record`, `announce`, `busyBeat`, `execute`, `succeed` or
`fail`, `release`; `drop` is the release after an abandoned claim. `rpc[r]` does
the same for request `r`. Each call is an action, with a second action, or a
disjunct marked `Fault`, for its failure. A failed call may or may not have
taken effect, except a heartbeat and a best-effort Redis call, where
the two cases are a success and a failure without effect that the code treats alike. `Stop` is a crash, or a
signal after which every call on the cancelled context fails. `Abandon` is a
client that disconnects, which cancels `r.Context()`, or the API dying with every
request in flight. `LeaseExpires` may happen at any time. Each worker has
a WORKER_ID of its own.

`Begin` and `Proceed` move a request along; a request is one goroutine. The API
creates a job with a fresh id, so `InsertJob` picks any absent one.

### ApiClient

`call[c]` is the fetch in slot `c`; slots are one per fetch a page can have in
flight: `Timer` for the interval, `Click` for the row or page buttons, `Form` for the
create form. A fetch is sent (`listJobs`, `getJobSnapshot`, ...), takes effect at the
backend (`Serve`, one action per handler) and stays `answered` until the page's
handler takes it, so that answers may come in any order and however late.
`GetJobByID` is two selects and two steps (`ReadJob`, `ReadAttempt`), between which
any statement may run. `ServeCreate`, `ServeCancel` and `ServeRetry` are the
store's own actions with the status the handler and the proxy route make of them:
success, or the 4xx that `ensureOk` throws. `Fail` is a 500, the proxy's 502 or a
rejected fetch, before the call took effect or after it. A `View` keeps of a job
what the pages decide from; `tokens` stands for "cost and tokens above zero".
`World` is everybody else: the statements of workers and of other tabs, at any time.
`WorldAttempt`, the insert of an attempt row, is apart since only the job page reads
it. The queue does not appear: nothing shown is read from it.

### JobsPage and JobPage

One action runs a handler up to its next `await`: `Poll`, `Press`, `Submit`. The rest
of it is `Refreshed` (`Loaded` in `JobPage`) after a read, `Acknowledged` after a
successful action, which goes on to fetch in the same slot, or `Refused`, its
`catch`. `Finally` is its `finally`, which a poll does not have. `Screen` is the
branch of the job page that is rendered, `timelineEvents` its made-up timeline.
The job page's buttons are disabled while `actionBusy`; the table's are not, so
`Press` of `JobsPage` needs a free slot only. `id` of `JobPage` may name a job that
does not exist. Another id mounts the page anew.

### MockSystem

One action is one `setState` call, which React applies atomically to the latest
state. `Tick(outcome)` is the whole updater of the interval, in its order: requeue
what is due, start the first queued job, finish the first running one with the
drawn outcome. `event` of a job is the newest event the updaters have logged about
it, and `Badge` what the dashboard makes of it. `Spec` lets any component call
any operation of the provider on any job; `PagesSpec` has the calls the dashboard
and the dead letter page make. The pages call neither `retryJob` nor `cancelJob` of
this provider. `runs` is a history variable. The list is part of the real seed
(`Job` selects positions of `seedJobs`): the jobs left out do not matter to the
properties of the others, except that they take some of the interval's turns.

## 3. What is checked

| Run | Instance | Shows |
|---|---|---|
| `store_safety` | 2 jobs, 1 key, 2 attempts | types, unique keys, recorded outcomes, counters, last success, dates; verdicts are written once, and those of a succeeded job stay as they are; refinement of `AttemptLedger` |
| `orch_faults` | 2 workers, 3 requests, 1 job, 1 key, 2 faults | no attempt is run twice; only in a job that has been cancelled is a run stale or an attempt left open; refinement of `StoreSpec` |
| `orch_faultfree` | 2 workers, 3 requests, 1 job, no fault | running jobs have a worker, leases an owner, heartbeats a claim, first runs an entry; every attempt ends |
| `orch_serial` | 1 worker, 3 requests one after the other, 1 fault | before the fault no job is lost or queued twice and every job ends; after it a retry brings a lost job to its end |
| `jobs_page` | 1 job, 1 key, 1 attempt, 1 poll, 1 action, 1 creation, 1 failing call | the list says only what has happened and catches up; no flag outlives its call; actions end |
| `job_page` | 1 job, 2 attempts, 1 poll, 1 action, 1 failing call | answers and the page say only what has happened; a success has its cost and every badge its timeline; the page catches up |
| `mock_any` | 2 seeded jobs, any call | dates, limits and statuses agree |
| `mock_pages` | 3 seeded jobs, the pages' calls | the attempt budget, the newest badge, returning retries, draining |
| `late_cancel`, `two_workers`, `double_retry`, `not_found` | see below | four disagreements between code and comments or texts |

Bounds. `MaxAttempt` caps the attempts of a job and is at least the number of
requests in every run of `Orchestrator`, so it never blocks a claim: each attempt
has a create or a retry of its own (the theorem `BoundNeverBlocks`). Requests are one-shot slots; three are
the smallest number at which create, cancel and retry of one job overlap.
Two workers are enough for every property
about a pair of workers, and all but one job of a run of `Orchestrator` would
be idle context: jobs share only the list and the workers' time. `MaxFaults`
of 2 admits a lost claim and a lost outcome in one behaviour; `orch_serial` has one,
since `RetryRecovers` speaks of what comes after the last.
On the pages one slot of each kind lets a poll, an action with its refresh and a
creation overtake one another, and `World` and two attempts of `job_page` let a
fetch stay behind by a whole run; `jobs_page` needs one attempt only, because a list
has no attempt and a repeated retry already makes a view old. A second job would
share nothing with the first but the answer that carries both, of which rows are taken
together. `MaxFaults` of 1 loses any one answer, and `PageCatchesUp` and
`ListCatchesUp` ask for what holds after the last loss in any case. In
`MockSystem` the history stops counting one past the budget.

Fairness. `WF` for each live worker's next call and for each request in
flight: a goroutine goes on, and the code has no call that blocks for ever (BRPOP
has a timeout, the provider a deadline). Nobody is obliged to send a request, to restart
a worker or to let a lease run out; faults are never obliged. On the pages: the
interval goes on (`setInterval` is cleared only when the page goes), each call is
served or fails, and the page handles each answer, as the event loop does. The
operator owes no click and the world no statement; `PageCatchesUp` and
`ListCatchesUp` hold whenever the tables stop changing, and the job page's also
needs the operator to stop clicking, for each press takes a message away or puts one up. In
`MockSystem`: the interval fires, time passes, and one of its draws
(`Math.random() > 0.4`) in the end finishes a job; no outcome is assumed to be a
success. `Drains` asks nothing of a queue that is paused again and again or
replayed without end.

Where a property holds only in a part of the system it says so: those of
`orch_faultfree` and the first three of `orch_serial` speak of behaviours before the
first fault (`faults = 0` is in them), those of `orch_serial` of one worker and an
operator who waits for answers. `RetryRecovers` starts from a retry that has committed,
after the last fault, with no old lease in the way. Outside these parts the
properties fail, and the violation runs show how:

- `late_cancel`: a cancel commits; before its LREM, a retry of the same job
  commits, removes and pushes; the LREM then deletes the retry's entry. The job is
  queued and nobody will ever run it (`service.go:63`).
- `two_workers`: worker 1 has stored a failure and still holds the lease; the
  operator retries; worker 2 pops the entry, is refused the lease and drops the
  entry (`runner.go:82`).
- `double_retry`: two retries of one job both remove, then both push
  (`service.go:80`). The duplicate entry is harmless to the tables, since
  the claim is a compare-and-set, but costs a lease and a claim.
- `not_found`: a load of the job page fails, which takes the job off the page; the
  next poll clears the message before it has an answer, and until the answer comes
  the page says "No backend job exists with id ..." of a job that exists
  (`[id]/page.tsx:26`).

Seen while modelling, and contradicting nothing the repository says: the list always
shows a cost of zero, since `ListJobs` returns no attempt; "Applying job action..."
vanishes when the first of two overlapping actions ends (`FlagsHaveCall` is an
implication there, an equivalence for the form and in `BusyIsAction`); `ShownPast` is
the most one can say of the list, since a late answer may put back an older state.
`GetJobByID` selects the job and then its latest attempt: if the job succeeds in
between, the job page shows the tokens and the cost of that success under a badge that
still says running, or queued, until the next poll. `ShownPast` of `JobPage` therefore gives a
success its cost, but a cost only the promise that the job has succeeded by now.
A worker whose job was cancelled and retried under it stores its outcome for
the attempt that runs now, and the worker of that attempt, which nobody cancelled, is then
stale in its turn: `StaleNeedsCancel` can say no more than that the job has been
cancelled at some time.

## 4. What is proved

All for any sets of jobs, keys, workers, requests and slots, any bound on attempts and
faults, any selection of seeded jobs. Assumptions: `StoreAssumption` (the null key
is not a key, the bound is a natural number), `OrchestratorAssumption` (the null
values are not members of the sets they stand beside), `ApiClientAssumption` (the null
argument is no job, the three kinds of slot are disjoint), `JobPageAssumption`
(`id` is the id of a job, which may be absent) and `MockAssumption` (`Job` selects positions of the seed).

`JobStoreProofs`, of `StoreSpec`:

- `StoreTypeCorrect`: types, one step per statement.
- `StoreInvariant`: `StoreInv`, the conjunction of `RowsMatchCounter`,
  `OutcomeRecorded` and `SuccessIsLast`, over the types. None of the three is inductive
  alone: that a stored outcome belongs to the current attempt needs that no row is
  numbered past the counter, and that a running attempt's row is not yet closed.
  `StoreInvByJob` turns it into a statement about one job, so
  that each statement is treated once. `RowsMatch`, `OutcomesRecorded` and
  `SuccessesAreLast` follow.
- `DatesMatch`, `KeysUnique`: inductive over the types and the invariant.
- `VerdictsKept`, `SuccessesFinal`: the action properties, from the invariant. A job that
  has succeeded keeps its row and its verdicts; the one statement that still writes about
  it, besides the event log, is the late insert of an earlier attempt's row (`SuccessStays`).
- `StoreImplementsLedger`: each statement maps to a step of the ledger or a stutter.
- `SecondRunsAreRetries`: `RetriesTold`, that a job which has run and waits again, or
  has run twice, has a retry in its event log. It rests on `JobMoves`: a job stays, its
  counter and its events only grow, and a success is its end.

`OrchestratorProofs`, of `Spec`:

- `BaseInvariant`: types of tables and processes and `HandedOut` (a worker's
  attempt is at most its job's counter), which the insert of the attempt row
  needs in order to be a store step. A step is first classified by the shape of
  its effect (`WorkerShape`, `StepShape`), so that later proofs have a dozen
  cases instead of thirty.
- `SystemImplementsStore`: every step is a store step or leaves the tables. Hence
  `SystemKeepsStore`: each property proved of the store, the refinement of
  `AttemptLedger` included, holds of the running system.
- `AttemptsClaimedOnce`, `StaleOnlyByCancel`, `OpenOnlyByCancel`, `RunningIsRun`:
  the invariants of `orch_faults` and the first of `orch_faultfree`.
- `JobsNotShared`: two workers execute one job at a time only if it has been both cancelled
  and retried at some time. By `ClaimedOnce` they run different attempts, so one of them is stale
  (`StaleNeedsCancel`) and the job is past its first attempt (`RetriesTold`). Hence
  `ConflictsAreRare`: only then can an outcome collide with another worker's attempt row.
  `MisfiledOnlyAfterRetry`: only then is an outcome stored for an attempt that is not the
  worker's own.
- `LeasesReleased`: `LeaseInv` ties each lease to the job its holder has in hand.
- `BeatsAreCurrent`: `BeatInv` adds what the program counter says of the rows: past
  the insert the attempt row is there, past the announcement its event is, and
  `RowsStay` says that no statement takes either away.
- `CreatesAreIdempotent`: creates with one key are about one job, by `KeyNamed` (the job
  a create has in hand bears its key) and `OneJobPerKey`.

`ReadyListProofs`, of `Spec` and `SerialSpec`, is about the list. Its first lemmas say
what a push, a pop and a removal do to the entries and to their being distinct; that
`Place` numbers the remaining positions without a gap is a counting argument
(`PlaceTaken`). Then:

- `ReadyInvariant`: the list is a sequence of jobs, and every job it holds, or a worker
  or a request has in hand, has a row (`NamesExist`). With `LeaseInv` it gives
  `SystemTyped`.
- `OnlyTwoLoseJobs`: a queued job is within reach of a claim (`Reachable`) while a
  request is to push it, the list holds it or a worker has taken it to claim it. A step
  that is not itself a failure breaks this chain in two ways only: a cancel removes the
  entry of a later retry (`LateCancel`), or a worker finds the lease taken (`HeldLease`).
  These are the steps of the runs `late_cancel` and `two_workers`; that there is no third
  is the theorem.
- `OnlyOperatorRecovers`: a queued job out of reach stays queued and unclaimed until
  it is cancelled or retried. A worker, a restart, a lease that runs out, a failed
  call or a second create with its key does not bring it back.
- `FirstRunsReachable`: a job never retried is not lost while nothing fails. Neither
  losing step applies to it: `FirstRunInv` says that whoever is past a claim, a
  cancellation or a retry has a job that is no longer waiting for its first run (`Begun`), so a
  lease found taken is held by a worker that is about to claim.
- `QueuedJobsReachable`: with at most one worker and one request at a time no queued
  job is lost. `CancelEnds` rules out the late cancel, and one worker the held lease. The
  hypothesis on the workers is needed (`two_workers`), and so is waiting for
  answers (`late_cancel`).
- `EntriesDistinct`: with one request at a time, and any number of workers, no job is in
  the list twice: `PushesOnce` says that the job a request is about to push is not there.
  `double_retry` shows what two at a time do.
- `RunsAreAskedFor`, for a finite set of requests: a job's attempts, and one more while it
  is queued, are at most the requests that name it. `BoundNeverBlocks` follows.

`ApiClientProofs` holds what both pages rest on, as lemmas:

- `PastStable`: what is past stays past, by `JobMoves` of the store.
- `TablesInv`: the store's invariants and `EventsTell`, which relates a status to
  its event; hence `FreshView`, that what is read now is past.
- `ClientInv`: each fetch alone satisfies `FetchInv`: its rows are past, its dates fit
  its status, and an answer about a succeeded job has the tokens of its attempt. That
  the two selects of `GetJobByID` cannot tear a success is `LatestIsSuccess` with
  `PastStable`: a job that has succeeded does not change between them.
- `ServeStep`, `FailStep`, `OneCallStep`: each step of a call keeps them.

`JobsPageProofs` and `JobPageProofs`, of `Spec`, add what is shown (`ShownInv`) and
the flags. `FlagInv` and `ButtonInv` must say that there is at most one
creation, or one action of the job page, at a time: otherwise the first to end would
clear the flag of the other. `ListTyped`, `ListShowsPast`, `FlagsFollowCalls`,
`PageTyped`, `PageAnswersPast`, `PageShowsPast`, `TimelineFits` and `BusyFollowsCalls`
follow.

`MockSystemProofs`: `MockInv` (each row is good by itself, whatever is called) gives
`MockTyped` and `MockConsistent` of `Spec`; `PagedInv` relates each row to the runs
counted for it and to its newest event, and gives `BudgetsKept` and `FeedIsRight` of
`PagesSpec`. The lemmas follow one row through the interval's three parts.

Only model-checked is liveness, which is beyond the prover: `AttemptsEnd`, `JobsSettle`,
`RetryRecovers`, `ActionsEnd`, `ListCatchesUp`, `PageCatchesUp`, `RetriesReturn`,
`Drains`. Every other property of a passing run is a theorem.

## 5. Not modelled

- HTTP API: routing, `parsePathTail`, the parsing of bodies, the limit of a list and
  the health check: string handling that changes no state. What the
  handlers do is in `ApiClient` and `Orchestrator`.
- The filters of both lists and the limit of 200 jobs a page asks for: a list is
  taken to hold every job. The contents of the create form, but for the
  key and for being blank.
- Configuration. No duration is assumed: a lease (30 s by default) may run out during
  a job or outlast it. Each worker has a WORKER_ID of its own; two that share the
  default would share one heartbeat row.
- The mock's worker rows, tenant limits and the cap of its event list, which nothing
  reads back to change a job; the counters of the dashboard.
- Other pages, layout, formatting, URLs and headers of the proxy routes.

Losses that one failed call makes certain (a push that fails after the
commit, an entry popped by a worker that dies) are in the model but contradict no
statement of the repository; they are listed as hazards, and `RetryRecovers` says how
an operator undoes them. Attempts beyond `max_attempts` are possible in the backend,
which stores the limit and never reads it; no property is stated about them.

## 6. Plan

Done: the store, the queue, the running system, the pages with their client, the mock
system; every safety property of a passing run is proved.

What a further round could add, in this order:

1. The safety half of the liveness properties: which step each waits for, as an
   invariant (a fetch that is answered has a handler that takes it; a retry that has
   committed after the last fault is within reach until it is claimed).
2. What `AttemptLedger` promises as theorems of that module alone.
3. `HttpApi`: `parsePathTail` and the defaults and limits of the handlers as pure
   operators against a reference definition.
4. The list's limit and filters, so that a row can leave a list it was in.
