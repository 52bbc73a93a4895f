------------------------------ MODULE JobPage -------------------------------
(***************************************************************************)
(* The job page of the console (frontend/app/jobs/[id]/page.tsx): one job  *)
(* with its latest attempt, fetched every three and a half seconds, and a  *)
(* retry and a cancel button.  One action runs a handler up to its next    *)
(* await.  The router mounts the page anew for another id, so id is a      *)
(* constant; it may name no job.                                           *)
(*                                                                         *)
(* job is NoView for null; latestAttempt is part of it, being set from     *)
(* the same answer.                                                        *)
(***************************************************************************)
EXTENDS ApiClient

CONSTANT id             \* params.id

ASSUME JobPageAssumption == id \in Job

VARIABLES job, loading, error, actionBusy

pageVars == <<job, loading, error, actionBusy>>
vars == <<storeVars, callVars, pageVars>>
-----------------------------------------------------------------------------
Init ==
    /\ StoreInit
    /\ ClientInit
    /\ job = NoView
    /\ loading = TRUE
    /\ error = FALSE
    /\ actionBusy = FALSE

\* The branch of the page that is rendered.
Screen == IF loading THEN "loading"
          ELSE IF error THEN "error"
          ELSE IF job = NoView THEN "notFound"
          ELSE "job"

RetryOffered == job.status \in {"failed", "retry_scheduled", "cancelled", "dlq"}
CancelOffered == job.status \in {"queued", "running", "retry_scheduled"}

\* loadJob up to its await: on mount and by the interval.
Poll(c) ==
    /\ c \in Timer /\ ~InFlight(c)
    /\ error' = FALSE
    /\ getJobSnapshot(c, id)
    /\ UNCHANGED <<storeVars, faults, job, loading, actionBusy>>

\* handleRetryJob and handleCancelJob; both buttons are disabled meanwhile.
Press(c) ==
    /\ c \in Click /\ ~InFlight(c)
    /\ Screen = "job" /\ ~actionBusy
    /\ \/ RetryOffered /\ retryJob(c, id)
       \/ CancelOffered /\ cancelJob(c, id)
    /\ actionBusy' = TRUE
    /\ error' = FALSE
    /\ UNCHANGED <<storeVars, faults, job, loading>>

\* The finally of the handler that sent the call, if one did.
Finally(c) == actionBusy' = (actionBusy /\ c \notin Click)

\* Mutant: an answer is not taken over while a job is shown.
Loaded_KeepsFirst(c) ==
    /\ Answered(c, "get")
    /\ Done(c)
    /\ job' = IF call[c].ok /\ job = NoView THEN call[c].rows[id] ELSE job
    /\ error' = (error \/ ~call[c].ok)
    /\ loading' = FALSE
    /\ Finally(c)
    /\ UNCHANGED <<storeVars, faults>>

\* The rest of loadJob; a failure takes the job off the page.
Loaded(c) ==
    /\ Answered(c, "get")
    /\ Done(c)
    /\ job' = IF call[c].ok THEN call[c].rows[id] ELSE NoView
    /\ error' = (error \/ ~call[c].ok)
    /\ loading' = FALSE
    /\ Finally(c)
    /\ UNCHANGED <<storeVars, faults>>

Acted(c) == \E op \in {"cancel", "retry"} : Answered(c, op)

\* The handler goes on to load the job, in the same slot.
Acknowledged(c) ==
    /\ Acted(c) /\ call[c].ok
    /\ error' = FALSE
    /\ getJobSnapshot(c, id)
    /\ UNCHANGED <<storeVars, faults, job, loading, actionBusy>>

\* Mutant: the catch returns without the finally.
Refused_StaysBusy(c) ==
    /\ Acted(c) /\ ~call[c].ok
    /\ error' = TRUE
    /\ Done(c)
    /\ UNCHANGED <<storeVars, faults, job, loading, actionBusy>>

\* The handler's catch and finally.
Refused(c) ==
    /\ Acted(c) /\ ~call[c].ok
    /\ error' = TRUE
    /\ Done(c)
    /\ Finally(c)
    /\ UNCHANGED <<storeVars, faults, job, loading>>

Handle(c) == Loaded(c) \/ Acknowledged(c) \/ Refused(c)

Next ==
    \/ World /\ UNCHANGED pageVars
    \/ WorldAttempt /\ UNCHANGED pageVars
    \/ \E c \in Call : Serve(c) /\ UNCHANGED pageVars
    \/ \E c \in Call : Fail(c) /\ UNCHANGED pageVars
    \/ \E c \in Call : Handle(c)
    \/ \E c \in Timer : Poll(c)
    \/ \E c \in Click : Press(c)

Spec == Init /\ [][Next]_vars

\* The interval goes on, calls are served, and the page handles every answer.
Fairness ==
    /\ \A c \in Timer : WF_vars(Poll(c))
    /\ \A c \in Call : WF_vars(Serve(c) /\ UNCHANGED pageVars)
    /\ \A c \in Call : WF_vars(Handle(c))

FairSpec == Spec /\ Fairness
-----------------------------------------------------------------------------
\* Every variable has its type.
TypeOK ==
    /\ StoreTypeOK
    /\ ClientTypeOK
    /\ job \in View
    /\ {loading, error, actionBusy} \subseteq BOOLEAN

\* Whatever order answers come in, the page never says more than has happened; and
\* although the job and its attempt are read one after the other, it shows a success
\* always with its cost.  The converse fails: the cost of a success that came between
\* the two reads stands under the badge read before it, so a cost shown says only that
\* the job has succeeded by now (Past).
ShownPast ==
    /\ Past(job, id)
    /\ job.status = "succeeded" => job.tokens

\* The kinds of event in the timeline, made up from the job's dates.
timelineEvents ==
    IF job = NoView THEN {}
    ELSE {"job.created"}
         \cup (IF job.startedAt THEN {"job.started"} ELSE {})
         \cup (IF ~job.finishedAt THEN {}
               ELSE IF job.status = "succeeded" THEN {"job.succeeded"}
               ELSE IF job.status = "dlq" THEN {"job.moved_dlq"}
               ELSE {"job.failed"})

\* The timeline fits the badge above it, whatever earlier runs left in the row.
TimelineTellsStatus ==
    /\ job.status = "queued" => timelineEvents = {"job.created"}
    /\ job.status = "running" => timelineEvents = {"job.created", "job.started"}
    /\ job.status = "succeeded" =>
          timelineEvents = {"job.created", "job.started", "job.succeeded"}
    /\ job.status = "failed" => timelineEvents = {"job.created", "job.started", "job.failed"}
    /\ job.status = "cancelled" => "job.failed" \in timelineEvents

\* The buttons are disabled exactly while an action is under way.
BusyIsAction == actionBusy <=> \E c \in Click : InFlight(c)

\* When the job stops changing and the operator stops clicking, the page comes to
\* show the job as it is, with its attempt, and no message, if there is such a job.
PageCatchesUp ==
    \/ []<><<TRUE>>_storeVars
    \/ []<><<\E c \in Click : Press(c)>>_vars
    \/ <>[](Exists(id) => /\ Screen = "job"
                          /\ job = mapBackendJob(jobs[id], LatestSucceeded(id)))

\* The page says that no such job exists only when there is none.
NotFoundIsTrue == Screen = "notFound" => ~Exists(id)
=============================================================================
