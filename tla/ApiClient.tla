------------------------------ MODULE ApiClient ------------------------------
(***************************************************************************)
(* The fetches of one browser tab: the API client of the console           *)
(* (frontend/lib/backend-api.ts), the proxy routes of frontend/app/api and *)
(* the handlers of the backend, over the tables of JobStore.  A call is    *)
(* sent, takes effect at the backend, and is answered, in separate steps,  *)
(* and calls overtake one another.  JobsPage and JobPage say who sends     *)
(* them and what becomes of the answers.                                   *)
(*                                                                         *)
(* A view of a job keeps what the pages decide from; tokens stands for     *)
(* "tokens and cost are above zero", which only a successful attempt has.  *)
(* A list is taken to hold every job: the page asks for 200.               *)
(***************************************************************************)
EXTENDS JobStore

CONSTANTS Timer,        \* slots for the fetches of a page's interval
          Click,        \* slots for those of its retry and cancel buttons
          Form,         \* slots for those of its create form
          NoArg,        \* the argument of a call that has none
          MaxFaults     \* bound on calls that fail

ASSUME ApiClientAssumption == /\ NoArg \notin Job
                              /\ Timer \cap Click = {}
                              /\ Timer \cap Form = {}
                              /\ Click \cap Form = {}
                              /\ MaxFaults \in Nat

VARIABLES call,         \* call[c]: the fetch in slot c
          faults        \* calls that have failed so far

callVars == <<call, faults>>
-----------------------------------------------------------------------------
Call == Timer \cup Click \cup Form

View == [status     : JobStatus \cup {"absent"},
         attempt    : 0..MaxAttempt,
         startedAt  : BOOLEAN,
         finishedAt : BOOLEAN,
         tokens     : BOOLEAN]

\* Without an attempt, as in a list, tokens and cost are 0.
mapBackendJob(row, success) ==
    [status     |-> row.status,
     attempt    |-> row.attempt,
     startedAt  |-> row.started,
     finishedAt |-> row.finished,
     tokens     |-> success]

NoView == mapBackendJob(NoJob, FALSE)
NoViews == [j \in Job |-> NoView]

FetchState == [pc   : {"free", "sent", "read", "answered"},
               op   : {"none", "list", "get", "create", "cancel", "retry"},
               arg  : Job \cup IdemKey \cup {NoKey, NoArg},
               ok   : BOOLEAN,
               rows : [Job -> View]]

Free == [pc |-> "free", op |-> "none", arg |-> NoArg, ok |-> FALSE, rows |-> NoViews]

ClientInit ==
    /\ call = [c \in Call |-> Free]
    /\ faults = 0

InFlight(c) == call[c].pc # "free"
Answered(c, op) == call[c].pc = "answered" /\ call[c].op = op
Sent(c, op) == call[c].pc = "sent" /\ call[c].op = op

Fetch(c, op, arg) ==
    call' = [call EXCEPT ![c] = [Free EXCEPT !.pc = "sent", !.op = op, !.arg = arg]]

\* The functions of the client, up to their await.
listJobs(c) == Fetch(c, "list", NoArg)
createJob(c, key) == Fetch(c, "create", key)
getJobSnapshot(c, j) == Fetch(c, "get", j)
cancelJob(c, j) == Fetch(c, "cancel", j)
retryJob(c, j) == Fetch(c, "retry", j)

Done(c) == call' = [call EXCEPT ![c] = Free]

\* ensureOk turns every answer that is not a 2xx into an error.
Answer(c, ok, rows) ==
    call' = [call EXCEPT ![c].pc = "answered", ![c].arg = NoArg, ![c].ok = ok, ![c].rows = rows]
-----------------------------------------------------------------------------
(* The backend's side of a call.                                           *)

\* GET /v1/jobs, forwarded by its proxy route; ListJobs is one select.
ServeList(c) ==
    /\ Sent(c, "list")
    /\ Answer(c, TRUE, [j \in Job |-> mapBackendJob(jobs[j], FALSE)])
    /\ UNCHANGED <<storeVars, faults>>

\* Mutant: the rows are sorted the other way.
LatestSucceeded_First(j) ==
    \E a \in Attempt : /\ attempts[j][a] = "success"
                       /\ \A b \in Attempt : attempts[j][b] # "none" => b >= a

\* getLatestAttempt: the row with the highest number has the tokens of a success.
LatestSucceeded(j) ==
    \E a \in Attempt : /\ attempts[j][a] = "success"
                       /\ \A b \in Attempt : attempts[j][b] # "none" => b <= a

\* GetJobByID, first select; a job that is not there is a 404.
ReadJob(c) ==
    /\ Sent(c, "get")
    /\ \/ /\ Exists(call[c].arg)
          /\ call' = [call EXCEPT ![c].pc = "read",
                                  ![c].rows[call[c].arg] = mapBackendJob(jobs[call[c].arg], FALSE)]
       \/ ~Exists(call[c].arg) /\ Answer(c, FALSE, NoViews)
    /\ UNCHANGED <<storeVars, faults>>

\* GetJobByID, second select, of the latest attempt.
ReadAttempt(c) ==
    /\ call[c].pc = "read"
    /\ Answer(c, TRUE, [call[c].rows EXCEPT ![call[c].arg].tokens = LatestSucceeded(call[c].arg)])
    /\ UNCHANGED <<storeVars, faults>>

\* POST /v1/jobs: 201 for a new job, 200 for the job the key names already, 400
\* for a blank tenant or model, which the form lets through.
ServeCreate(c) ==
    /\ Sent(c, "create")
    /\ \/ /\ \E j \in Job : InsertJob(j, call[c].arg)
          /\ Answer(c, TRUE, NoViews)
       \/ /\ KeyTaken(call[c].arg)
          /\ Answer(c, TRUE, NoViews)
          /\ UNCHANGED storeVars
       \/ Answer(c, FALSE, NoViews) /\ UNCHANGED storeVars
    /\ UNCHANGED faults

\* 200, or the 404 or 409 of a job that is gone or past cancelling; the proxy
\* routes hand the status on.
ServeCancel(c) ==
    /\ Sent(c, "cancel")
    /\ \/ CancelJob(call[c].arg) /\ Answer(c, TRUE, NoViews)
       \/ ~Cancellable(call[c].arg) /\ Answer(c, FALSE, NoViews) /\ UNCHANGED storeVars
    /\ UNCHANGED faults

ServeRetry(c) ==
    /\ Sent(c, "retry")
    /\ \/ RetryJob(call[c].arg) /\ Answer(c, TRUE, NoViews)
       \/ ~Retryable(call[c].arg) /\ Answer(c, FALSE, NoViews) /\ UNCHANGED storeVars
    /\ UNCHANGED faults

Serve(c) ==
    \/ ServeList(c) \/ ReadJob(c) \/ ReadAttempt(c)
    \/ ServeCreate(c) \/ ServeCancel(c) \/ ServeRetry(c)

\* A 500, the proxy's 502 or a fetch that rejects: before the call has taken
\* effect, or after, when only its answer is lost.
Fail(c) ==
    /\ InFlight(c)
    /\ faults < MaxFaults
    /\ faults' = faults + 1
    /\ Answer(c, FALSE, NoViews)
    /\ UNCHANGED storeVars

\* Workers, and requests of other tabs: the statements that change the jobs table.
World ==
    /\ \E j \in Job :
          \/ \E key \in IdemKey \cup {NoKey} : InsertJob(j, key)
          \/ CancelJob(j) \/ RetryJob(j)
          \/ MarkJobRunning(j)
          \/ MarkJobSucceeded(j) \/ MarkJobFailed(j)
    /\ UNCHANGED callVars

\* A worker's insert of the attempt row, which only the job page reads.  No page
\* reads the events.
WorldAttempt ==
    /\ \E j \in Job : \E a \in 1..jobs[j].attempt : InsertAttempt(j, a)
    /\ UNCHANGED callVars

\* Every slot holds a fetch, and a fetch about a job names one.
ClientTypeOK ==
    /\ call \in [Call -> FetchState]
    /\ faults \in 0..MaxFaults
    /\ \A c \in Call : /\ call[c].pc \in {"sent", "read"}
                      /\ call[c].op \in {"get", "cancel", "retry"}
                      => call[c].arg \in Job

\* What a view says of job j has happened, as the tables and the event log tell,
\* and a success it tells of is the job's last word.
Past(view, j) ==
    /\ view.status # "absent" => Exists(j)
    /\ view.attempt <= jobs[j].attempt
    /\ view.status = "queued" /\ view.attempt > 0 => "retry_scheduled" \in events[j]
    /\ view.status = "cancelled" => "cancelled" \in events[j]
    /\ view.status = "failed" => "failed" \in events[j]
    /\ view.status = "succeeded" =>
          jobs[j].status = "succeeded" /\ jobs[j].attempt = view.attempt
    /\ view.tokens => jobs[j].status = "succeeded"

\* However long an answer has been on its way, what it says has happened.
AnswersPast == \A c \in Call : \A j \in Job : Past(call[c].rows[j], j)
=============================================================================
