-------------------------- MODULE ApiClientProofs --------------------------
(***************************************************************************)
(* What the calls of a tab keep, whatever page sends them and however they *)
(* overtake one another, for every set of jobs, keys and slots.  JobsPage  *)
(* and JobPage rest on it.                                                 *)
(***************************************************************************)
EXTENDS ApiClient, JobStoreProofs

(***************************************************************************)
(* The tables a page reads.                                                *)
(***************************************************************************)

\* What the event log says of the status a job has now: a job was put back, failed
\* or cancelled only with the event that says so.
EventsTell ==
    \A j \in Job :
        /\ jobs[j].status = "queued" /\ jobs[j].attempt > 0 => "retry_scheduled" \in events[j]
        /\ jobs[j].status = "cancelled" => "cancelled" \in events[j]
        /\ jobs[j].status = "failed" => "failed" \in events[j]

\* The statement that changes the status appends its event in the same transaction.
LEMMA EventsTellStep ==
    ASSUME StoreTypeOK, StoreInv, EventsTell, [StoreNext]_storeVars
    PROVE  EventsTell'
<1>1. CASE UNCHANGED storeVars
  BY <1>1 DEF storeVars, EventsTell
<1>2. CASE StoreNext
  <2>1. PICK i \in Job : JobStep(i)
    BY <1>2 DEF StoreNext, JobStep
  <2>2. ASSUME NEW j \in Job, j # i
        PROVE  jobs'[j] = jobs[j]
    BY <2>1, <2>2, OtherJobsKept
  <2>3. \A j \in Job : events[j] \subseteq events'[j]
    BY JobMoves
  <2>4. /\ jobs'[i].status = "queued" /\ jobs'[i].attempt > 0 => "retry_scheduled" \in events'[i]
        /\ jobs'[i].status = "cancelled" => "cancelled" \in events'[i]
        /\ jobs'[i].status = "failed" => "failed" \in events'[i]
    <3>1. jobs[i] \in JobRow
      BY DEF StoreTypeOK
    <3>2. \A row : SetJob(i, row) => jobs'[i] = row
      BY DEF SetJob, StoreTypeOK
    <3>3. \A kind : Log(i, kind) => kind \in events'[i]
      BY DEF Log, StoreTypeOK
    <3>4. CASE jobs' = jobs
      BY <2>3, <3>4 DEF EventsTell
    <3>5. CASE \E key \in IdemKey \cup {NoKey} : InsertJob(i, key)
      <4>1. jobs'[i].status = "queued" /\ jobs'[i].attempt = 0
        BY <3>2, <3>5 DEF InsertJob, NoJob
      <4> QED  BY <4>1
    <3>6. CASE CancelJob(i)
      BY <3>1, <3>2, <3>3, <3>6 DEF CancelJob, JobRow
    <3>7. CASE RetryJob(i)
      BY <3>1, <3>2, <3>3, <3>7 DEF RetryJob, JobRow
    <3>8. CASE MarkJobRunning(i)
      BY <3>1, <3>2, <3>8 DEF MarkJobRunning, JobRow
    <3>9. CASE MarkJobSucceeded(i)
      BY <3>1, <3>2, <3>9 DEF MarkJobSucceeded, JobRow
    <3>10. CASE MarkJobFailed(i)
      BY <3>1, <3>2, <3>3, <3>10 DEF MarkJobFailed, JobRow
    <3> QED
      BY <2>1, <3>4, <3>5, <3>6, <3>7, <3>8, <3>9, <3>10 DEF JobStep, AppendEvent, InsertAttempt
  <2> QED  BY <2>2, <2>3, <2>4 DEF EventsTell
<1> QED  BY <1>1, <1>2

\* All that the pages need to know of the tables; each part is inductive given
\* those before it.
TablesInv == StoreTypeOK /\ StoreInv /\ DatesMatchStatus /\ EventsTell

\* The empty tables have it.
LEMMA TablesInit == StoreInit => TablesInv
<1>1. StoreInit => DatesMatchStatus /\ EventsTell
  BY DEF StoreInit, DatesMatchStatus, EventsTell, NoJob
<1> QED  BY <1>1, StoreTypeInit, StoreInvInit DEF TablesInv

\* And every statement keeps it.
LEMMA TablesStep ==
    ASSUME TablesInv, [StoreNext]_storeVars
    PROVE  TablesInv'
<1>1. StoreTypeOK /\ StoreInv /\ DatesMatchStatus /\ EventsTell
  BY DEF TablesInv
<1>2. StoreTypeOK'
  BY <1>1, StoreTypeStep DEF storeVars, StoreTypeOK
<1>3. DatesMatchStatus'
  <2>1. CASE UNCHANGED storeVars
    BY <1>1, <2>1 DEF storeVars, DatesMatchStatus
  <2>2. ASSUME NEW i \in Job, JobStep(i)
        PROVE  DatesMatchStatus'
    <3>1. \A j \in Job : DatesInv(jobs[j])
      BY <1>1 DEF DatesMatchStatus, DatesInv
    <3>2. \A j \in Job : DatesInv(jobs'[j])
      BY <1>1, <2>2, <3>1, DatesStep, OtherJobsKept
    <3> QED  BY <3>2 DEF DatesMatchStatus, DatesInv
  <2> QED  BY <2>1, <2>2 DEF StoreNext, JobStep
<1> QED  BY <1>1, <1>2, <1>3, StoreInvStep, EventsTellStep DEF TablesInv

(***************************************************************************)
(* Views: what a page is told of a job.                                    *)
(***************************************************************************)

\* What has happened stays so: no statement makes a view wrong that was right.
LEMMA PastStable ==
    ASSUME TablesInv, [StoreNext]_storeVars, NEW j \in Job, NEW view \in View, Past(view, j)
    PROVE  Past(view, j)'
<1>1. StoreTypeOK /\ StoreInv
  BY DEF TablesInv
<1>2. jobs[j].attempt \in Nat /\ view.attempt \in Nat /\ jobs'[j].attempt \in Nat
  BY <1>1, TablesStep, StoreAssumption DEF TablesInv, StoreTypeOK, JobRow, View
<1>3. /\ jobs[j].status # "absent" => jobs'[j].status # "absent"
      /\ jobs[j].attempt <= jobs'[j].attempt
      /\ events[j] \subseteq events'[j]
      /\ jobs[j].status = "succeeded" => jobs'[j] = jobs[j]
  BY <1>1, JobMoves
<1> QED  BY <1>2, <1>3 DEF Past, Exists

\* The shape of a view.
LEMMA ViewType ==
    ASSUME StoreTypeOK, NEW j \in Job, NEW success \in BOOLEAN
    PROVE  /\ mapBackendJob(jobs[j], success) \in View
           /\ NoView \in View
           /\ NoViews \in [Job -> View]
BY StoreAssumption DEF StoreTypeOK, JobRow, mapBackendJob, View, NoView, NoViews, NoJob

\* A view read now tells what has happened, its dates are those of the row, and
\* its tokens are those of a success.
LEMMA FreshView ==
    ASSUME TablesInv, NEW j \in Job, NEW success \in BOOLEAN,
           success => jobs[j].status = "succeeded"
    PROVE  Past(mapBackendJob(jobs[j], success), j)
<1>1. jobs[j] \in JobRow /\ jobs[j].attempt \in Nat
  BY StoreAssumption DEF TablesInv, StoreTypeOK, JobRow
<1> DEFINE view == mapBackendJob(jobs[j], success)
<1>2. /\ view.status = jobs[j].status
      /\ view.attempt = jobs[j].attempt
      /\ view.tokens => jobs[j].status = "succeeded"
  BY DEF mapBackendJob
<1> HIDE DEF view
<1>3. Past(view, j)
  BY <1>1, <1>2 DEF TablesInv, EventsTell, Past, Exists
<1> QED  BY <1>3 DEF view

\* No view says nothing.
LEMMA EmptyViewPast ==
    ASSUME StoreTypeOK, NEW j \in Job
    PROVE  Past(NoView, j)
<1>1. jobs[j].attempt \in Nat
  BY StoreAssumption DEF StoreTypeOK, JobRow
<1> QED  BY <1>1 DEF Past, NoView, NoJob, mapBackendJob

\* The latest attempt is a successful one exactly when the job has succeeded.
LEMMA LatestIsSuccess ==
    ASSUME StoreTypeOK, StoreInv, NEW j \in Job
    PROVE  LatestSucceeded(j) <=> jobs[j].status = "succeeded"
<1>1. RowInv(jobs[j], attempts[j])
  BY StoreInvByJob
<1>2. jobs[j].attempt \in 0..MaxAttempt
  BY DEF StoreTypeOK, JobRow
<1>3. LatestSucceeded(j) => jobs[j].status = "succeeded"
  BY <1>1 DEF LatestSucceeded, RowInv
<1>4. ASSUME jobs[j].status = "succeeded"
      PROVE  LatestSucceeded(j)
  <2>1. jobs[j].attempt \in Attempt /\ attempts[j][jobs[j].attempt] = "success"
    BY <1>1, <1>2, <1>4, StoreAssumption DEF RowInv, Attempt
  <2>2. \A b \in Attempt : attempts[j][b] # "none" => b <= jobs[j].attempt
    BY <1>1, <1>2, StoreAssumption DEF RowInv, Attempt
  <2> QED  BY <2>1, <2>2 DEF LatestSucceeded
<1> QED  BY <1>3, <1>4

\* The dates of a view fit its status.
DatesFit(view) ==
    /\ view.status = "queued" => ~view.startedAt /\ ~view.finishedAt
    /\ view.status = "running" => view.startedAt /\ ~view.finishedAt
    /\ view.status \in {"succeeded", "failed"} => view.startedAt /\ view.finishedAt
    /\ view.status = "cancelled" => view.finishedAt

\* Those of a row do, and a view takes them from the row.
LEMMA FreshDates ==
    ASSUME TablesInv, NEW j \in Job, NEW success \in BOOLEAN
    PROVE  DatesFit(mapBackendJob(jobs[j], success))
<1>1. /\ jobs[j].status = "queued" => ~jobs[j].started /\ ~jobs[j].finished
      /\ jobs[j].status = "running" => jobs[j].started /\ ~jobs[j].finished
      /\ jobs[j].status \in {"succeeded", "failed"} => jobs[j].started /\ jobs[j].finished
      /\ jobs[j].status = "cancelled" => jobs[j].finished
  BY DEF TablesInv, DatesMatchStatus
<1> QED  BY <1>1 DEF DatesFit, mapBackendJob

(***************************************************************************)
(* Calls.  FetchInv is what one slot keeps, and strengthens AnswersPast:   *)
(* a fetch that has read nothing holds nothing, one between its two reads  *)
(* holds one job, and a job that was read as succeeded is answered with    *)
(* its tokens.                                                             *)
(***************************************************************************)
FetchInv(f) ==
    /\ f \in FetchState
    /\ f.pc \in {"sent", "read"} /\ f.op \in {"get", "cancel", "retry"} => f.arg \in Job
    /\ f.pc = "sent" /\ f.op = "create" => f.arg \in IdemKey \cup {NoKey}
    /\ f.pc \in {"free", "sent"} => f.rows = NoViews
    /\ f.pc = "read" => f.op = "get" /\ \A j \in Job : j # f.arg => f.rows[j] = NoView
    /\ \A j \in Job : Past(f.rows[j], j) /\ DatesFit(f.rows[j])
    /\ f.pc = "answered" /\ f.op = "get" =>
          \A j \in Job : f.rows[j].status = "succeeded" => f.rows[j].tokens

ClientInv ==
    /\ call \in [Call -> FetchState]
    /\ faults \in 0..MaxFaults
    /\ \A c \in Call : FetchInv(call[c])

\* It gives the type of the calls, and what their answers say.
LEMMA ClientInvGives == ClientInv => ClientTypeOK /\ AnswersPast
BY DEF ClientInv, FetchInv, ClientTypeOK, AnswersPast

\* Whatever the store does, a fetch that waits keeps it.
LEMMA FetchInvStable ==
    ASSUME TablesInv, [StoreNext]_storeVars, NEW f, FetchInv(f)
    PROVE  FetchInv(f)'
<1>1. ASSUME NEW j \in Job
      PROVE  Past(f.rows[j], j)'
  <2>1. f.rows[j] \in View /\ Past(f.rows[j], j)
    BY DEF FetchInv, FetchState
  <2> QED  BY <2>1, PastStable
<1> QED  BY <1>1 DEF FetchInv

\* A step that changes one slot at most: enough that its new fetch is in order
\* before the step.
LEMMA OneCallStep ==
    ASSUME TablesInv, ClientInv, [StoreNext]_storeVars, faults' \in 0..MaxFaults,
           NEW c \in Call, NEW f, FetchInv(f), call' = [call EXCEPT ![c] = f]
    PROVE  ClientInv'
<1>1. FetchInv(f)'
  BY FetchInvStable
<1>2. ASSUME NEW d \in Call
      PROVE  FetchInv(call[d])'
  <2>1. CASE d = c
    <3>1. call'[d] = f
      BY <2>1 DEF ClientInv
    <3> QED  BY <1>1, <3>1 DEF FetchInv
  <2>2. CASE d # c
    <3>1. call'[d] = call[d] /\ FetchInv(call[d])
      BY <2>2 DEF ClientInv
    <3>2. \A g : g = call[d] => FetchInv(g)'
      BY <3>1, FetchInvStable
    <3> QED  BY <3>1, <3>2 DEF FetchInv
  <2> QED  BY <2>1, <2>2
<1>3. call' \in [Call -> FetchState]
  BY DEF ClientInv, FetchInv
<1> QED  BY <1>2, <1>3 DEF ClientInv

\* A step that touches no slot.
LEMMA NoCallStep ==
    ASSUME TablesInv, ClientInv, [StoreNext]_storeVars, UNCHANGED callVars
    PROVE  ClientInv'
<1>1. ASSUME NEW d \in Call
      PROVE  FetchInv(call[d])'
  <2>1. call'[d] = call[d] /\ FetchInv(call[d])
    BY DEF ClientInv, callVars
  <2>2. \A g : g = call[d] => FetchInv(g)'
    BY <2>1, FetchInvStable
  <2> QED  BY <2>1, <2>2 DEF FetchInv
<1> QED  BY <1>1 DEF ClientInv, callVars

\* A fetch that carries no view is in order.
LEMMA BlankFetch ==
    ASSUME TablesInv, NEW f \in FetchState, f.rows = NoViews, f.pc # "read",
           f.pc = "sent" /\ f.op \in {"get", "cancel", "retry"} => f.arg \in Job,
           f.pc = "sent" /\ f.op = "create" => f.arg \in IdemKey \cup {NoKey}
    PROVE  FetchInv(f)
<1>1. \A j \in Job : f.rows[j] = NoView /\ Past(NoView, j)
  BY EmptyViewPast DEF TablesInv, NoViews
<1>2. DatesFit(NoView) /\ NoView.status # "succeeded"
  BY DEF DatesFit, NoView, NoJob, mapBackendJob
<1> QED  BY <1>1, <1>2 DEF FetchInv

\* A slot is a fetch at rest to begin with.
LEMMA FreeType == Free \in FetchState /\ Free.pc = "free" /\ Free.rows = NoViews
<1>1. NoView \in View
  BY StoreAssumption DEF NoView, NoJob, mapBackendJob, View
<1> QED  BY <1>1 DEF Free, FetchState, NoViews

\* Nothing has been sent to begin with.
LEMMA ClientInvInit ==
    ASSUME TablesInv, ClientInit
    PROVE  ClientInv
<1>1. FetchInv(Free)
  BY FreeType, BlankFetch
<1> QED  BY <1>1, FreeType, ApiClientAssumption DEF ClientInit, ClientInv

\* Sending a call.
LEMMA FetchStep ==
    ASSUME TablesInv, ClientInv, UNCHANGED <<storeVars, faults>>, NEW c \in Call,
           NEW op \in {"list", "get", "create", "cancel", "retry"},
           NEW arg \in Job \cup IdemKey \cup {NoKey, NoArg},
           op \in {"get", "cancel", "retry"} => arg \in Job,
           op = "create" => arg \in IdemKey \cup {NoKey},
           Fetch(c, op, arg)
    PROVE  ClientInv'
<1>1. PICK f : f = [Free EXCEPT !.pc = "sent", !.op = op, !.arg = arg]
  OBVIOUS
<1>2. f \in FetchState /\ f.rows = NoViews /\ f.pc = "sent" /\ f.op = op /\ f.arg = arg
  BY <1>1, FreeType DEF FetchState
<1>3. FetchInv(f)
  BY <1>2, BlankFetch
<1> QED  BY <1>1, <1>3, OneCallStep DEF Fetch, ClientInv

\* Taking an answer and going no further.
LEMMA DoneStep ==
    ASSUME TablesInv, ClientInv, UNCHANGED <<storeVars, faults>>, NEW c \in Call, Done(c)
    PROVE  ClientInv'
<1>1. FetchInv(Free)
  BY FreeType, BlankFetch
<1> QED  BY <1>1, OneCallStep DEF Done, ClientInv

\* An answer without views.
LEMMA BlankAnswerStep ==
    ASSUME TablesInv, ClientInv, [StoreNext]_storeVars, faults' \in 0..MaxFaults,
           NEW c \in Call, NEW ok \in BOOLEAN, Answer(c, ok, NoViews)
    PROVE  ClientInv'
<1>1. PICK f : f = [call[c] EXCEPT !.pc = "answered", !.arg = NoArg, !.ok = ok, !.rows = NoViews]
  OBVIOUS
<1>2. call[c] \in FetchState /\ NoViews \in [Job -> View]
  BY FreeType DEF ClientInv, FetchState
<1>3. f \in FetchState /\ f.rows = NoViews /\ f.pc = "answered"
  BY <1>1, <1>2 DEF FetchState
<1>4. FetchInv(f)
  BY <1>3, BlankFetch
<1>5. call' = [call EXCEPT ![c] = f]
  BY <1>1, <1>2 DEF Answer, ClientInv
<1> QED  BY <1>4, <1>5, OneCallStep

\* GET /v1/jobs answers with the rows as they are.
LEMMA ServeListStep ==
    ASSUME TablesInv, ClientInv, NEW c \in Call, ServeList(c)
    PROVE  ClientInv'
<1> DEFINE rows == [j \in Job |-> mapBackendJob(jobs[j], FALSE)]
<1>1. PICK f : f = [call[c] EXCEPT !.pc = "answered", !.arg = NoArg, !.ok = TRUE, !.rows = rows]
  OBVIOUS
<1>2. call[c] \in FetchState /\ call[c].op = "list"
  BY DEF ClientInv, ServeList, Sent
<1>3. rows \in [Job -> View]
  BY ViewType DEF TablesInv
<1>4. f \in FetchState /\ f.pc = "answered" /\ f.op = "list" /\ f.rows = rows
  BY <1>1, <1>2, <1>3 DEF FetchState
<1>5. \A j \in Job : Past(rows[j], j) /\ DatesFit(rows[j])
  BY FreshView, FreshDates
<1>6. FetchInv(f)
  BY <1>4, <1>5 DEF FetchInv
<1>7. call' = [call EXCEPT ![c] = f]
  BY <1>1, <1>2 DEF ServeList, Answer, ClientInv
<1> QED  BY <1>6, <1>7, OneCallStep DEF ServeList, ClientInv

\* The first read of GetJobByID.
LEMMA ReadJobStep ==
    ASSUME TablesInv, ClientInv, NEW c \in Call, ReadJob(c)
    PROVE  ClientInv'
<1>1. /\ call[c] \in FetchState /\ call[c].pc = "sent" /\ call[c].op = "get"
      /\ call[c].arg \in Job /\ call[c].rows = NoViews
  BY DEF ClientInv, FetchInv, ReadJob, Sent
<1>2. CASE ~Exists(call[c].arg) /\ Answer(c, FALSE, NoViews)
  BY <1>2, BlankAnswerStep DEF ReadJob, ClientInv
<1>3. CASE call' = [call EXCEPT ![c].pc = "read",
                                ![c].rows[call[c].arg] = mapBackendJob(jobs[call[c].arg], FALSE)]
  <2>1. PICK i, view : i = call[c].arg /\ view = mapBackendJob(jobs[call[c].arg], FALSE)
    OBVIOUS
  <2>2. i \in Job /\ view \in View /\ Past(view, i) /\ DatesFit(view)
    BY <1>1, <2>1, ViewType, FreshView, FreshDates DEF TablesInv
  <2>3. PICK f : f = [call[c] EXCEPT !.pc = "read", !.rows = [NoViews EXCEPT ![i] = view]]
    OBVIOUS
  <2>4. /\ f \in FetchState /\ f.pc = "read" /\ f.op = "get" /\ f.arg = i
        /\ \A j \in Job : f.rows[j] = IF j = i THEN view ELSE NoView
    BY <1>1, <2>1, <2>2, <2>3, FreeType DEF FetchState, NoViews
  <2>5. \A j \in Job : Past(NoView, j) /\ DatesFit(NoView)
    BY EmptyViewPast DEF TablesInv, DatesFit, NoView, NoJob, mapBackendJob
  <2>6. FetchInv(f)
    BY <2>2, <2>4, <2>5 DEF FetchInv
  <2>7. call' = [call EXCEPT ![c] = f]
    BY <1>1, <1>3, <2>1, <2>3 DEF ClientInv
  <2> QED  BY <2>6, <2>7, OneCallStep DEF ReadJob, ClientInv
<1> QED  BY <1>2, <1>3 DEF ReadJob

\* The second read: a job that the first read found succeeded is still so, and its
\* latest attempt is the successful one.
LEMMA ReadAttemptStep ==
    ASSUME TablesInv, ClientInv, NEW c \in Call, ReadAttempt(c)
    PROVE  ClientInv'
<1>1. PICK g, i, success : g = call[c] /\ i = call[c].arg /\ success = LatestSucceeded(call[c].arg)
  OBVIOUS
<1>2. FetchInv(g) /\ g \in FetchState /\ g.pc = "read" /\ g.op = "get" /\ i = g.arg /\ i \in Job
  BY <1>1 DEF ClientInv, FetchInv, ReadAttempt
<1>3. success \in BOOLEAN /\ (success <=> jobs[i].status = "succeeded")
  BY <1>1, <1>2, LatestIsSuccess DEF TablesInv, LatestSucceeded
<1>4. PICK view : view = [g.rows[i] EXCEPT !.tokens = success]
  OBVIOUS
<1>5. /\ view \in View /\ view.tokens = success
      /\ view.status = g.rows[i].status /\ view.attempt = g.rows[i].attempt
      /\ view.startedAt = g.rows[i].startedAt /\ view.finishedAt = g.rows[i].finishedAt
  BY <1>2, <1>3, <1>4 DEF FetchState, View
<1>6. Past(g.rows[i], i) /\ DatesFit(g.rows[i])
  BY <1>2 DEF FetchInv
<1>7. Past(view, i) /\ DatesFit(view)
  BY <1>3, <1>5, <1>6 DEF Past, DatesFit
<1>8. view.status = "succeeded" => view.tokens
  BY <1>3, <1>5, <1>6 DEF Past
<1>9. PICK f : f = [g EXCEPT !.pc = "answered", !.arg = NoArg, !.ok = TRUE,
                            !.rows = [g.rows EXCEPT ![i] = view]]
  OBVIOUS
<1>10. /\ f \in FetchState /\ f.pc = "answered" /\ f.op = "get"
       /\ \A j \in Job : f.rows[j] = IF j = i THEN view ELSE g.rows[j]
  BY <1>2, <1>5, <1>9 DEF FetchState
<1>11. \A j \in Job : j # i => g.rows[j] = NoView /\ NoView.status # "succeeded"
  BY <1>2 DEF FetchInv, NoView, NoJob, mapBackendJob
<1>12. \A j \in Job : f.rows[j].status = "succeeded" => f.rows[j].tokens
  BY <1>8, <1>10, <1>11
<1>13. FetchInv(f)
  <2>1. \A j \in Job : Past(f.rows[j], j) /\ DatesFit(f.rows[j])
    BY <1>2, <1>7, <1>10 DEF FetchInv
  <2> QED  BY <1>10, <1>12, <2>1 DEF FetchInv
<1>14. call' = [call EXCEPT ![c] = f]
  BY <1>1, <1>4, <1>9 DEF ReadAttempt, Answer, ClientInv
<1> QED  BY <1>13, <1>14, OneCallStep DEF ReadAttempt, ClientInv

\* What the backend does for a call is a statement of the store or none.
LEMMA ServeIsStore ==
    ASSUME ClientInv, NEW c \in Call, Serve(c)
    PROVE  [StoreNext]_storeVars /\ UNCHANGED faults
<1>1. /\ call[c].op \in {"cancel", "retry"} /\ call[c].pc = "sent" => call[c].arg \in Job
      /\ call[c].op = "create" /\ call[c].pc = "sent" => call[c].arg \in IdemKey \cup {NoKey}
  BY DEF ClientInv, FetchInv
<1>2. CASE ServeCreate(c)
  BY <1>1, <1>2 DEF ServeCreate, Sent, StoreNext
<1>3. CASE ServeCancel(c) \/ ServeRetry(c)
  BY <1>1, <1>3 DEF ServeCancel, ServeRetry, Sent, StoreNext
<1> QED
  BY <1>2, <1>3 DEF Serve, ServeList, ReadJob, ReadAttempt

\* Serving a call.
LEMMA ServeStep ==
    ASSUME TablesInv, ClientInv, NEW c \in Call, Serve(c)
    PROVE  ClientInv'
<1>1. [StoreNext]_storeVars /\ UNCHANGED faults
  BY ServeIsStore
<1>2. CASE ServeList(c)
  BY <1>2, ServeListStep
<1>3. CASE ReadJob(c)
  BY <1>3, ReadJobStep
<1>4. CASE ReadAttempt(c)
  BY <1>4, ReadAttemptStep
<1>5. CASE ServeCreate(c) \/ ServeCancel(c) \/ ServeRetry(c)
  <2>1. \E ok \in BOOLEAN : Answer(c, ok, NoViews)
    BY <1>5 DEF ServeCreate, ServeCancel, ServeRetry
  <2>2. faults' \in 0..MaxFaults
    BY <1>1 DEF ClientInv
  <2> QED  BY <1>1, <2>1, <2>2, BlankAnswerStep
<1> QED  BY <1>2, <1>3, <1>4, <1>5 DEF Serve

\* Failing one.
LEMMA FailStep ==
    ASSUME TablesInv, ClientInv, NEW c \in Call, Fail(c)
    PROVE  ClientInv'
<1>1. faults' \in 0..MaxFaults
  BY ApiClientAssumption DEF Fail, ClientInv
<1> QED  BY <1>1, BlankAnswerStep DEF Fail

\* The world takes steps of the store.
LEMMA WorldIsStore ==
    ASSUME World \/ WorldAttempt
    PROVE  [StoreNext]_storeVars /\ UNCHANGED callVars
BY DEF World, WorldAttempt, StoreNext
=============================================================================
