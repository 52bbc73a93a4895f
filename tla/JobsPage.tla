------------------------------ MODULE JobsPage ------------------------------
(***************************************************************************)
(* The jobs page of the console (frontend/app/jobs/page.tsx) with its      *)
(* table (frontend/components/jobs-table.tsx): a list fetched every four   *)
(* seconds, a create form, and a retry and a cancel button in each row.    *)
(* One action runs a handler up to its next await; what the handler does   *)
(* with the answer is an action of its own.                                *)
(*                                                                         *)
(* The page does not number its fetches, so the answer that comes last is  *)
(* shown.  Filters only hide rows, and what is typed into the form is      *)
(* arbitrary: both are left out.  error is "a message is shown".           *)
(***************************************************************************)
EXTENDS ApiClient

VARIABLES shown,        \* shown[j]: the row of j in the list, NoView if none
          loading, error, creating, actionBusy

pageVars == <<shown, loading, error, creating, actionBusy>>
vars == <<storeVars, callVars, pageVars>>
-----------------------------------------------------------------------------
Init ==
    /\ StoreInit
    /\ ClientInit
    /\ shown = NoViews
    /\ loading = TRUE
    /\ error = FALSE
    /\ creating = FALSE
    /\ actionBusy = FALSE

\* JobsTable offers each button by the status it shows.
RetryOffered(j) == shown[j].status \in {"failed", "retry_scheduled", "cancelled", "dlq"}
CancelOffered(j) == shown[j].status \in {"queued", "running", "retry_scheduled"}

\* refreshJobs up to its await: on mount, by the interval or by the Refresh button.
Poll(c) ==
    /\ c \in Timer /\ ~InFlight(c)
    /\ error' = FALSE
    /\ listJobs(c)
    /\ UNCHANGED <<storeVars, faults, shown, loading, creating, actionBusy>>

\* Mutant: the row is marked cancelled before the backend has said so.
Press_Optimistic(c, j) ==
    /\ c \in Click /\ ~InFlight(c)
    /\ \/ RetryOffered(j) /\ retryJob(c, j) /\ UNCHANGED shown
       \/ /\ CancelOffered(j)
          /\ cancelJob(c, j)
          /\ shown' = [shown EXCEPT ![j].status = "cancelled"]
    /\ actionBusy' = TRUE
    /\ error' = FALSE
    /\ UNCHANGED <<storeVars, faults, loading, creating>>

\* handleRetryJob and handleCancelJob; the buttons stay enabled meanwhile.
Press(c, j) ==
    /\ c \in Click /\ ~InFlight(c)
    /\ \/ RetryOffered(j) /\ retryJob(c, j)
       \/ CancelOffered(j) /\ cancelJob(c, j)
    /\ actionBusy' = TRUE
    /\ error' = FALSE
    /\ UNCHANGED <<storeVars, faults, shown, loading, creating>>

\* handleCreateJob; the form cannot be submitted again meanwhile.
Submit(c, key) ==
    /\ c \in Form /\ ~InFlight(c)
    /\ ~creating
    /\ creating' = TRUE
    /\ error' = FALSE
    /\ createJob(c, key)
    /\ UNCHANGED <<storeVars, faults, shown, loading, actionBusy>>

\* handleCreateJob with a blank prompt.
SubmitBlank ==
    /\ ~creating
    /\ error' = TRUE
    /\ UNCHANGED <<storeVars, callVars, shown, loading, creating, actionBusy>>

\* The finally of the handler that sent the call, if one did.
Finally(c) ==
    /\ actionBusy' = (actionBusy /\ c \notin Click)
    /\ creating' = (creating /\ c \notin Form)

\* Mutant: the flags are cleared only when the refresh succeeds.
Refreshed_FlagsOnSuccess(c) ==
    /\ Answered(c, "list")
    /\ Done(c)
    /\ shown' = IF call[c].ok THEN call[c].rows ELSE shown
    /\ error' = (error \/ ~call[c].ok)
    /\ loading' = FALSE
    /\ \/ call[c].ok /\ Finally(c)
       \/ ~call[c].ok /\ UNCHANGED <<creating, actionBusy>>
    /\ UNCHANGED <<storeVars, faults>>

\* Mutant: only the first answer is shown.
Refreshed_KeepsFirst(c) ==
    /\ Answered(c, "list")
    /\ Done(c)
    /\ shown' = IF call[c].ok /\ loading THEN call[c].rows ELSE shown
    /\ error' = (error \/ ~call[c].ok)
    /\ loading' = FALSE
    /\ Finally(c)
    /\ UNCHANGED <<storeVars, faults>>

\* The rest of refreshJobs; it catches its own failure.
Refreshed(c) ==
    /\ Answered(c, "list")
    /\ Done(c)
    /\ shown' = IF call[c].ok THEN call[c].rows ELSE shown
    /\ error' = (error \/ ~call[c].ok)
    /\ loading' = FALSE
    /\ Finally(c)
    /\ UNCHANGED <<storeVars, faults>>

Acted(c) == \E op \in {"create", "cancel", "retry"} : Answered(c, op)

\* The handler goes on to refresh the list, in the same slot.
Acknowledged(c) ==
    /\ Acted(c) /\ call[c].ok
    /\ error' = FALSE
    /\ listJobs(c)
    /\ UNCHANGED <<storeVars, faults, shown, loading, creating, actionBusy>>

\* Mutant: the catch returns without the finally.
Refused_StaysBusy(c) ==
    /\ Acted(c) /\ ~call[c].ok
    /\ error' = TRUE
    /\ Done(c)
    /\ UNCHANGED <<storeVars, faults, shown, loading, creating, actionBusy>>

\* The handler's catch and finally.
Refused(c) ==
    /\ Acted(c) /\ ~call[c].ok
    /\ error' = TRUE
    /\ Done(c)
    /\ Finally(c)
    /\ UNCHANGED <<storeVars, faults, shown, loading>>

Handle(c) == Refreshed(c) \/ Acknowledged(c) \/ Refused(c)

\* What the operator does.
Operate ==
    \/ \E c \in Click : \E j \in Job : Press(c, j)
    \/ \E c \in Form : \E key \in IdemKey \cup {NoKey} : Submit(c, key)
    \/ SubmitBlank

Next ==
    \/ World /\ UNCHANGED pageVars
    \/ \E c \in Call : Serve(c) /\ UNCHANGED pageVars
    \/ \E c \in Call : Fail(c) /\ UNCHANGED pageVars
    \/ \E c \in Call : Handle(c)
    \/ \E c \in Timer : Poll(c)
    \/ Operate

Spec == Init /\ [][Next]_vars

\* The interval goes on, calls are served, and the page handles every answer;
\* nobody has to press a button, and the world owes nothing.
Fairness ==
    /\ \A c \in Timer : WF_vars(Poll(c))
    /\ \A c \in Call : WF_vars(Serve(c) /\ UNCHANGED pageVars)
    /\ \A c \in Call : WF_vars(Handle(c))

FairSpec == Spec /\ Fairness
-----------------------------------------------------------------------------
\* Every variable has its type.
TypeOK ==
    /\ StoreTypeOK
    /\ ClientTypeOK
    /\ shown \in [Job -> View]
    /\ {loading, error, creating, actionBusy} \subseteq BOOLEAN

\* However polls, refreshes and actions overtake one another, a row of the list
\* never says more than has happened, and a job it shows as succeeded is final.
ShownPast == \A j \in Job : Past(shown[j], j)

\* "Creating..." is shown exactly while a creation is under way, and "Applying
\* job action..." never without one: no failed call leaves a flag set.
FlagsHaveCall ==
    /\ creating <=> \E c \in Form : InFlight(c)
    /\ actionBusy => \E c \in Click : InFlight(c)

\* Every creation and every action ends, so the page cannot be left with its
\* form or its Refresh button disabled.
ActionsEnd == []<>~creating /\ []<>~actionBusy

\* When the jobs stop changing, the list comes to show them as they are, and goes
\* on doing so: answers that are late or lost, and clicks, only delay it.
ListCatchesUp ==
    \/ []<><<TRUE>>_storeVars
    \/ <>[](\A j \in Job : shown[j] = mapBackendJob(jobs[j], FALSE))
=============================================================================
