--------------------------- MODULE JobPageProofs ---------------------------
(***************************************************************************)
(* What the job page may claim, for every set of jobs, keys and slots, and *)
(* every bound on attempts and failures.                                   *)
(***************************************************************************)
EXTENDS JobPage, ApiClientProofs

(***************************************************************************)
(* The inductive invariant.  What is shown must have happened, fit its     *)
(* dates and have its tokens; what is on its way must too, for it will be  *)
(* shown (ClientInv); and the tables must be in order, for they will be    *)
(* read (TablesInv).                                                       *)
(***************************************************************************)
ShownInv ==
    /\ job \in View
    /\ Past(job, id)
    /\ DatesFit(job)
    /\ job.status = "succeeded" => job.tokens

\* One action at a time: the button that could start a second one is disabled.
ButtonInv ==
    /\ {loading, error, actionBusy} \subseteq BOOLEAN
    /\ BusyIsAction
    /\ \A c, d \in Click : InFlight(c) /\ InFlight(d) => c = d

PageInv == TablesInv /\ ClientInv /\ ShownInv /\ ButtonInv

\* It holds of the page as it is mounted.
LEMMA PageInit == Init => PageInv
<1> SUFFICES ASSUME Init PROVE PageInv
  OBVIOUS
<1>1. TablesInv /\ ClientInv
  BY TablesInit, ClientInvInit DEF Init
<1>2. ShownInv
  <2>1. NoView \in View /\ Past(NoView, id)
    BY <1>1, JobPageAssumption, ViewType, EmptyViewPast DEF TablesInv
  <2>2. DatesFit(NoView) /\ NoView.status # "succeeded"
    BY DEF DatesFit, NoView, NoJob, mapBackendJob
  <2> QED  BY <2>1, <2>2 DEF Init, ShownInv
<1>3. ButtonInv
  <2>1. \A c \in Click : ~InFlight(c)
    BY DEF Init, ClientInit, InFlight, Free, Call
  <2>2. actionBusy = FALSE /\ {loading, error, actionBusy} \subseteq BOOLEAN
    BY DEF Init
  <2> QED  BY <2>1, <2>2 DEF ButtonInv, BusyIsAction
<1> QED  BY <1>1, <1>2, <1>3 DEF PageInv

\* The tables and the calls, under every step of the page and around it.
LEMMA BackendStep ==
    ASSUME PageInv, Next
    PROVE  [StoreNext]_storeVars /\ ClientInv'
<1> USE DEF PageInv
<1>1. CASE World \/ WorldAttempt
  BY <1>1, WorldIsStore, NoCallStep
<1>2. ASSUME NEW c \in Call, Serve(c)
      PROVE  [StoreNext]_storeVars /\ ClientInv'
  BY <1>2, ServeIsStore, ServeStep
<1>3. ASSUME NEW c \in Call, Fail(c)
      PROVE  [StoreNext]_storeVars /\ ClientInv'
  BY <1>3, FailStep DEF Fail
<1>4. ASSUME NEW c \in Call, Loaded(c) \/ Refused(c)
      PROVE  [StoreNext]_storeVars /\ ClientInv'
  BY <1>4, DoneStep DEF Loaded, Refused
<1>5. ASSUME NEW c \in Call, Acknowledged(c) \/ Poll(c) \/ Press(c)
      PROVE  [StoreNext]_storeVars /\ ClientInv'
  BY <1>5, FetchStep, JobPageAssumption
     DEF Acknowledged, Poll, Press, getJobSnapshot, retryJob, cancelJob
<1> QED
  BY <1>1, <1>2, <1>3, <1>4, <1>5 DEF Next, Handle, Call

\* What is shown.
LEMMA ShownStep ==
    ASSUME PageInv, Next
    PROVE  ShownInv'
<1> USE DEF PageInv
<1>1. [StoreNext]_storeVars
  BY BackendStep
<1>2. ASSUME NEW view \in View, Past(view, id), job' = view, DatesFit(view),
             view.status = "succeeded" => view.tokens
      PROVE  ShownInv'
  <2>1. Past(view, id)'
    BY <1>1, <1>2, JobPageAssumption, PastStable
  <2> QED  BY <1>2, <2>1 DEF ShownInv, DatesFit, Past
<1>3. CASE job' = job
  BY <1>2, <1>3 DEF ShownInv
<1>4. ASSUME NEW c \in Call, Loaded(c)
      PROVE  ShownInv'
  <2>1. CASE call[c].ok
    <3>1. call[c].pc = "answered" /\ call[c].op = "get" /\ job' = call[c].rows[id]
      BY <1>4, <2>1 DEF Loaded, Answered
    <3>2. FetchInv(call[c])
      BY DEF ClientInv
    <3>3. call[c].rows[id] \in View
      BY <3>2, JobPageAssumption DEF FetchInv, FetchState
    <3> QED  BY <1>2, <3>1, <3>2, <3>3, JobPageAssumption DEF FetchInv
  <2>2. CASE ~call[c].ok
    <3>1. job' = NoView
      BY <1>4, <2>2 DEF Loaded
    <3>2. NoView \in View /\ Past(NoView, id)
      BY JobPageAssumption, ViewType, EmptyViewPast DEF TablesInv
    <3>3. DatesFit(NoView) /\ NoView.status # "succeeded"
      BY DEF DatesFit, NoView, NoJob, mapBackendJob
    <3> QED  BY <1>2, <3>1, <3>2, <3>3
  <2> QED  BY <2>1, <2>2
<1> QED
  BY <1>3, <1>4 DEF Next, pageVars, Handle, Acknowledged, Refused, Poll, Press

\* The buttons.
LEMMA ButtonStep ==
    ASSUME PageInv, Next
    PROVE  ButtonInv'
<1> USE ApiClientAssumption DEF PageInv
<1> DEFINE Flying(d) == call'[d].pc # "free"
<1>1. \A d \in Call : call[d] \in FetchState
  BY DEF ClientInv
<1>2. ASSUME UNCHANGED pageVars, \A d \in Click : Flying(d) <=> InFlight(d)
      PROVE  ButtonInv'
  BY <1>2 DEF ButtonInv, BusyIsAction, InFlight, pageVars
<1>3. CASE (World \/ WorldAttempt) /\ UNCHANGED pageVars
  BY <1>2, <1>3 DEF World, WorldAttempt, callVars, InFlight
<1>4. ASSUME NEW c \in Call, (Serve(c) \/ Fail(c)) /\ UNCHANGED pageVars
      PROVE  ButtonInv'
  <2>1. InFlight(c)
    BY <1>4 DEF Serve, ServeList, ReadJob, ReadAttempt, ServeCreate, ServeCancel, ServeRetry,
                Fail, Sent, InFlight
  <2>2. Flying(c)
    <3>1. \A ok, rows : Answer(c, ok, rows) => Flying(c)
      BY <1>1 DEF Answer, ClientInv, FetchState
    <3>2. CASE ReadJob(c)
      BY <1>1, <3>1, <3>2 DEF ReadJob, ClientInv, FetchState
    <3> QED
      BY <1>4, <3>1, <3>2 DEF Serve, ServeList, ReadAttempt, ServeCreate, ServeCancel, ServeRetry,
                              Fail
  <2>3. \A d \in Call : d # c => call'[d] = call[d]
    BY <1>4 DEF Serve, ServeList, ReadJob, ReadAttempt, ServeCreate, ServeCancel, ServeRetry,
                Fail, Answer, ClientInv
  <2> QED  BY <1>2, <1>4, <2>1, <2>2, <2>3 DEF InFlight, Call
<1>5. ASSUME NEW c \in Call, Loaded(c) \/ Refused(c)
      PROVE  ButtonInv'
  <2>1. ~Flying(c) /\ \A d \in Call : d # c => call'[d] = call[d]
    BY <1>5 DEF Loaded, Refused, Done, ClientInv, Free
  <2>2. /\ actionBusy' = (actionBusy /\ c \notin Click)
        /\ {loading', error'} \subseteq BOOLEAN
    BY <1>1, <1>5 DEF Loaded, Refused, Finally, ButtonInv, FetchState
  <2>3. InFlight(c)
    BY <1>5 DEF Loaded, Refused, Acted, Answered, InFlight
  <2>4. CASE c \in Click
    BY <2>1, <2>2, <2>3, <2>4 DEF ButtonInv, BusyIsAction, InFlight, Call
  <2>5. CASE c \notin Click
    <3>1. actionBusy' = actionBusy
      BY <2>2, <2>5 DEF ButtonInv
    <3> QED  BY <2>1, <2>2, <2>5, <3>1 DEF ButtonInv, BusyIsAction, InFlight, Call
  <2> QED  BY <2>4, <2>5
<1>6. ASSUME NEW c \in Call, Acknowledged(c)
      PROVE  ButtonInv'
  <2>1. InFlight(c) /\ Flying(c) /\ \A d \in Call : d # c => call'[d] = call[d]
    BY <1>6 DEF Acknowledged, Acted, Answered, InFlight, getJobSnapshot, Fetch, ClientInv, Free
  <2>2. actionBusy' = actionBusy /\ {loading', error'} \subseteq BOOLEAN
    BY <1>6 DEF Acknowledged, ButtonInv
  <2> QED  BY <2>1, <2>2 DEF ButtonInv, BusyIsAction, InFlight, Call
<1>7. ASSUME NEW c \in Timer, Poll(c)
      PROVE  ButtonInv'
  <2>1. \A d \in Click : call'[d] = call[d]
    BY <1>7 DEF Poll, getJobSnapshot, Fetch, ClientInv, Call
  <2>2. actionBusy' = actionBusy /\ {loading', error'} \subseteq BOOLEAN
    BY <1>7 DEF Poll, ButtonInv
  <2> QED  BY <2>1, <2>2 DEF ButtonInv, BusyIsAction, InFlight
<1>8. ASSUME NEW c \in Click, Press(c)
      PROVE  ButtonInv'
  <2>1. Flying(c) /\ \A d \in Call : d # c => call'[d] = call[d]
    BY <1>8 DEF Press, retryJob, cancelJob, Fetch, ClientInv, Call, Free
  <2>2. \A d \in Click : ~InFlight(d)
    BY <1>8 DEF Press, ButtonInv, BusyIsAction
  <2>3. actionBusy' = TRUE /\ {loading', error'} \subseteq BOOLEAN
    BY <1>8 DEF Press, ButtonInv
  <2> QED  BY <2>1, <2>2, <2>3 DEF ButtonInv, BusyIsAction, InFlight, Call
<1> QED
  BY <1>3, <1>4, <1>5, <1>6, <1>7, <1>8 DEF Next, Handle

\* The invariant holds for ever.
THEOREM PageInvariant == Spec => []PageInv
<1>1. ASSUME PageInv, [Next]_vars
      PROVE  PageInv'
  <2>1. CASE Next
    <3>1. TablesInv'
      BY <1>1, <2>1, BackendStep, TablesStep DEF PageInv
    <3> QED  BY <1>1, <2>1, <3>1, BackendStep, ShownStep, ButtonStep DEF PageInv
  <2>2. CASE UNCHANGED vars
    <3>1. TablesInv'
      BY <1>1, <2>2, TablesStep DEF PageInv, vars
    <3>2. ClientInv'
      BY <1>1, <2>2, NoCallStep DEF PageInv, vars
    <3>3. ShownInv'
      BY <1>1, <2>2 DEF PageInv, vars, pageVars, storeVars, ShownInv, Past, DatesFit, Exists
    <3>4. ButtonInv'
      BY <1>1, <2>2 DEF PageInv, vars, pageVars, callVars, ButtonInv, BusyIsAction, InFlight
    <3> QED  BY <3>1, <3>2, <3>3, <3>4 DEF PageInv
  <2> QED  BY <1>1, <2>1, <2>2
<1> QED  BY <1>1, PageInit, PTL DEF Spec

\* Every variable of the page, its calls and the tables has its type.
THEOREM PageTyped == Spec => []TypeOK
<1>1. PageInv => TypeOK
  BY ClientInvGives DEF PageInv, TablesInv, ShownInv, ButtonInv, TypeOK
<1> QED  BY <1>1, PageInvariant, PTL

\* No answer, however late, says what has not happened.
THEOREM PageAnswersPast == Spec => []AnswersPast
<1>1. PageInv => AnswersPast
  BY ClientInvGives DEF PageInv
<1> QED  BY <1>1, PageInvariant, PTL

\* Nor does the page; a success is shown with its cost, and a cost, whatever badge was
\* read before it, only of a job that has succeeded by now.
THEOREM PageShowsPast == Spec => []ShownPast
<1>1. PageInv => ShownPast
  BY DEF PageInv, ShownInv, ShownPast
<1> QED  BY <1>1, PageInvariant, PTL

\* The timeline fits the badge.
THEOREM TimelineFits == Spec => []TimelineTellsStatus
<1>1. ShownInv => TimelineTellsStatus
  <2> SUFFICES ASSUME ShownInv PROVE TimelineTellsStatus
    OBVIOUS
  <2>1. DatesFit(job)
    BY DEF ShownInv
  <2>2. job.status # "absent" => job # NoView
    BY DEF NoView, NoJob, mapBackendJob
  <2> QED  BY <2>1, <2>2 DEF TimelineTellsStatus, timelineEvents, DatesFit
<1>2. PageInv => TimelineTellsStatus
  BY <1>1 DEF PageInv
<1> QED  BY <1>2, PageInvariant, PTL

\* The buttons are disabled exactly while an action is under way.
THEOREM BusyFollowsCalls == Spec => []BusyIsAction
<1>1. PageInv => BusyIsAction
  BY DEF PageInv, ButtonInv
<1> QED  BY <1>1, PageInvariant, PTL
=============================================================================
