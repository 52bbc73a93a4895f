--------------------------- MODULE JobsPageProofs ---------------------------
(***************************************************************************)
(* What the list may claim and which flags it may leave set, for every set *)
(* of jobs, keys and slots, and every bound on attempts and failures.      *)
(***************************************************************************)
EXTENDS JobsPage, ApiClientProofs

(***************************************************************************)
(* The inductive invariant.  ShownPast needs to know of the answers on     *)
(* their way (ClientInv) and of the tables they are read from (TablesInv); *)
(* FlagsHaveCall that there is one creation at a time, for the first to    *)
(* end clears the flag.                                                    *)
(***************************************************************************)
ShownInv == shown \in [Job -> View] /\ ShownPast

FlagInv ==
    /\ {loading, error, creating, actionBusy} \subseteq BOOLEAN
    /\ FlagsHaveCall
    /\ \A c, d \in Form : InFlight(c) /\ InFlight(d) => c = d

ListInv == TablesInv /\ ClientInv /\ ShownInv /\ FlagInv

\* It holds of the page as it is mounted.
LEMMA ListInit == Init => ListInv
<1> SUFFICES ASSUME Init PROVE ListInv
  OBVIOUS
<1>1. TablesInv /\ ClientInv
  BY TablesInit, ClientInvInit DEF Init
<1>2. ShownInv
  <2>1. NoViews \in [Job -> View] /\ \A j \in Job : NoViews[j] = NoView
    BY FreeType DEF FetchState, NoViews
  <2> QED  BY <1>1, <2>1, EmptyViewPast DEF Init, ShownInv, ShownPast, TablesInv
<1>3. FlagInv
  <2>1. \A c \in Call : ~InFlight(c)
    BY DEF Init, ClientInit, InFlight, Free
  <2>2. /\ creating = FALSE /\ actionBusy = FALSE
        /\ {loading, error, creating, actionBusy} \subseteq BOOLEAN
    BY DEF Init
  <2> QED  BY <2>1, <2>2 DEF FlagInv, FlagsHaveCall, Call
<1> QED  BY <1>1, <1>2, <1>3 DEF ListInv

\* The tables and the calls, under every step of the page and around it.
LEMMA BackendStep ==
    ASSUME ListInv, Next
    PROVE  [StoreNext]_storeVars /\ ClientInv'
<1> USE DEF ListInv
<1>1. CASE World
  BY <1>1, WorldIsStore, NoCallStep
<1>2. ASSUME NEW c \in Call, Serve(c)
      PROVE  [StoreNext]_storeVars /\ ClientInv'
  BY <1>2, ServeIsStore, ServeStep
<1>3. ASSUME NEW c \in Call, Fail(c)
      PROVE  [StoreNext]_storeVars /\ ClientInv'
  BY <1>3, FailStep DEF Fail
<1>4. ASSUME NEW c \in Call, Refreshed(c) \/ Refused(c)
      PROVE  [StoreNext]_storeVars /\ ClientInv'
  BY <1>4, DoneStep DEF Refreshed, Refused
<1>5. ASSUME NEW c \in Call, Acknowledged(c) \/ Poll(c)
      PROVE  [StoreNext]_storeVars /\ ClientInv'
  BY <1>5, FetchStep DEF Acknowledged, Poll, listJobs
<1>6. ASSUME NEW c \in Call, NEW j \in Job, Press(c, j)
      PROVE  [StoreNext]_storeVars /\ ClientInv'
  BY <1>6, FetchStep DEF Press, retryJob, cancelJob
<1>7. ASSUME NEW c \in Call, NEW key \in IdemKey \cup {NoKey}, Submit(c, key)
      PROVE  [StoreNext]_storeVars /\ ClientInv'
  BY <1>7, FetchStep DEF Submit, createJob
<1>8. CASE SubmitBlank
  BY <1>8, NoCallStep DEF SubmitBlank
<1> QED
  BY <1>1, <1>2, <1>3, <1>4, <1>5, <1>6, <1>7, <1>8 DEF Next, Handle, Operate, Call

\* The list.
LEMMA ShownStep ==
    ASSUME ListInv, Next
    PROVE  ShownInv'
<1> USE DEF ListInv
<1>1. [StoreNext]_storeVars
  BY BackendStep
<1>2. ASSUME NEW views \in [Job -> View], \A j \in Job : Past(views[j], j), shown' = views
      PROVE  ShownInv'
  <2>1. ASSUME NEW j \in Job
        PROVE  Past(views[j], j)'
    BY <1>1, <1>2, PastStable
  <2> QED  BY <1>2, <2>1 DEF ShownInv, ShownPast, Past
<1>3. CASE shown' = shown
  BY <1>2, <1>3 DEF ShownInv, ShownPast
<1>4. ASSUME NEW c \in Call, Refreshed(c), call[c].ok
      PROVE  ShownInv'
  <2>1. shown' = call[c].rows
    BY <1>4 DEF Refreshed
  <2>2. FetchInv(call[c])
    BY DEF ClientInv
  <2>3. call[c].rows \in [Job -> View] /\ \A j \in Job : Past(call[c].rows[j], j)
    BY <2>2 DEF FetchInv, FetchState
  <2> QED  BY <1>2, <2>1, <2>3
<1>5. ASSUME NEW c \in Call, Refreshed(c), ~call[c].ok
      PROVE  ShownInv'
  BY <1>3, <1>5 DEF Refreshed
<1> QED
  BY <1>3, <1>4, <1>5 DEF Next, pageVars, Handle, Acknowledged, Refused, Poll, Operate, Press,
                          Submit, SubmitBlank

\* The flags.
LEMMA FlagStep ==
    ASSUME ListInv, Next
    PROVE  FlagInv'
<1> USE ApiClientAssumption DEF ListInv
<1> DEFINE Flying(d) == call'[d].pc # "free"
<1> DEFINE Flags == {loading', error', creating', actionBusy'}
<1>1. \A d \in Call : call[d] \in FetchState
  BY DEF ClientInv
<1>2. ASSUME \A d \in Call : Flying(d) <=> InFlight(d),
             creating' = creating, actionBusy' = actionBusy, Flags \subseteq BOOLEAN
      PROVE  FlagInv'
  BY <1>2 DEF FlagInv, FlagsHaveCall, InFlight, Call
<1>3. CASE World /\ UNCHANGED pageVars
  BY <1>2, <1>3 DEF World, callVars, pageVars, InFlight, FlagInv
<1>4. ASSUME NEW c \in Call, (Serve(c) \/ Fail(c)) /\ UNCHANGED pageVars
      PROVE  FlagInv'
  <2>1. InFlight(c)
    BY <1>4 DEF Serve, ServeList, ReadJob, ReadAttempt, ServeCreate, ServeCancel, ServeRetry,
                Fail, Sent, InFlight
  <2>2. Flying(c)
    <3>1. \A ok, rows : Answer(c, ok, rows) => Flying(c)
      BY <1>1 DEF Answer, ClientInv, FetchState
    <3>2. CASE ReadJob(c)
      BY <1>1, <3>1, <3>2 DEF ReadJob, ClientInv, FetchState
    <3> QED
      BY <1>4, <3>1, <3>2 DEF Serve, ServeList, ReadAttempt, ServeCreate, ServeCancel, ServeRetry,
                              Fail
  <2>3. \A d \in Call : d # c => call'[d] = call[d]
    BY <1>4 DEF Serve, ServeList, ReadJob, ReadAttempt, ServeCreate, ServeCancel, ServeRetry,
                Fail, Answer, ClientInv
  <2> QED  BY <1>2, <1>4, <2>1, <2>2, <2>3 DEF InFlight, FlagInv, pageVars
<1>5. ASSUME NEW c \in Call, Refreshed(c) \/ Refused(c)
      PROVE  FlagInv'
  <2>1. ~Flying(c) /\ \A d \in Call : d # c => call'[d] = call[d]
    BY <1>5 DEF Refreshed, Refused, Done, ClientInv, Free
  <2>2. InFlight(c)
    BY <1>5 DEF Refreshed, Refused, Acted, Answered, InFlight
  <2>3. /\ actionBusy' = (actionBusy /\ c \notin Click)
        /\ creating' = (creating /\ c \notin Form)
        /\ {loading', error'} \subseteq BOOLEAN
    BY <1>1, <1>5 DEF Refreshed, Refused, Finally, FlagInv, FetchState
  <2>4. CASE c \in Click
    <3>1. actionBusy' = FALSE /\ creating' = creating
      BY <2>3, <2>4 DEF FlagInv
    <3> QED  BY <2>1, <2>3, <2>4, <3>1 DEF FlagInv, FlagsHaveCall, InFlight, Call
  <2>5. CASE c \in Form
    <3>1. actionBusy' = actionBusy /\ creating' = FALSE
      BY <2>3, <2>5 DEF FlagInv
    <3> QED  BY <2>1, <2>2, <2>3, <2>5, <3>1 DEF FlagInv, FlagsHaveCall, InFlight, Call
  <2>6. CASE c \in Timer
    <3>1. actionBusy' = actionBusy /\ creating' = creating
      BY <2>3, <2>6 DEF FlagInv
    <3> QED  BY <2>1, <2>3, <2>6, <3>1 DEF FlagInv, FlagsHaveCall, InFlight, Call
  <2> QED  BY <2>4, <2>5, <2>6 DEF Call
<1>6. ASSUME NEW c \in Call, Acknowledged(c)
      PROVE  FlagInv'
  <2>1. InFlight(c) /\ Flying(c) /\ \A d \in Call : d # c => call'[d] = call[d]
    BY <1>6 DEF Acknowledged, Acted, Answered, InFlight, listJobs, Fetch, ClientInv, Free
  <2> QED  BY <1>2, <1>6, <2>1 DEF Acknowledged, FlagInv, InFlight
<1>7. ASSUME NEW c \in Timer, Poll(c)
      PROVE  FlagInv'
  <2>1. \A d \in Click \cup Form : call'[d] = call[d]
    BY <1>7 DEF Poll, listJobs, Fetch, ClientInv, Call
  <2> QED  BY <1>7, <2>1 DEF Poll, FlagInv, FlagsHaveCall, InFlight
<1>8. ASSUME NEW c \in Click, NEW j \in Job, Press(c, j)
      PROVE  FlagInv'
  <2>1. Flying(c) /\ \A d \in Call : d # c => call'[d] = call[d]
    BY <1>8 DEF Press, retryJob, cancelJob, Fetch, ClientInv, Call, Free
  <2>2. creating' = creating /\ actionBusy' = TRUE /\ Flags \subseteq BOOLEAN
    BY <1>8 DEF Press, FlagInv
  <2> QED  BY <2>1, <2>2 DEF FlagInv, FlagsHaveCall, InFlight, Call
<1>9. ASSUME NEW c \in Form, NEW key \in IdemKey \cup {NoKey}, Submit(c, key)
      PROVE  FlagInv'
  <2>1. Flying(c) /\ \A d \in Call : d # c => call'[d] = call[d]
    BY <1>9 DEF Submit, createJob, Fetch, ClientInv, Call, Free
  <2>2. \A d \in Form : ~InFlight(d)
    BY <1>9 DEF Submit, FlagInv, FlagsHaveCall
  <2>3. creating' = TRUE /\ actionBusy' = actionBusy /\ Flags \subseteq BOOLEAN
    BY <1>9 DEF Submit, FlagInv
  <2> QED  BY <2>1, <2>2, <2>3 DEF FlagInv, FlagsHaveCall, InFlight, Call
<1>10. CASE SubmitBlank
  BY <1>2, <1>10 DEF SubmitBlank, callVars, InFlight, FlagInv
<1> QED
  BY <1>3, <1>4, <1>5, <1>6, <1>7, <1>8, <1>9, <1>10 DEF Next, Handle, Operate

\* The invariant holds for ever.
THEOREM ListInvariant == Spec => []ListInv
<1>1. ASSUME ListInv, [Next]_vars
      PROVE  ListInv'
  <2>1. CASE Next
    <3>1. TablesInv'
      BY <1>1, <2>1, BackendStep, TablesStep DEF ListInv
    <3> QED  BY <1>1, <2>1, <3>1, BackendStep, ShownStep, FlagStep DEF ListInv
  <2>2. CASE UNCHANGED vars
    <3>1. TablesInv'
      BY <1>1, <2>2, TablesStep DEF ListInv, vars
    <3>2. ClientInv'
      BY <1>1, <2>2, NoCallStep DEF ListInv, vars
    <3>3. ShownInv'
      BY <1>1, <2>2 DEF ListInv, vars, pageVars, storeVars, ShownInv, ShownPast, Past, Exists
    <3>4. FlagInv'
      BY <1>1, <2>2 DEF ListInv, vars, pageVars, callVars, FlagInv, FlagsHaveCall, InFlight
    <3> QED  BY <3>1, <3>2, <3>3, <3>4 DEF ListInv
  <2> QED  BY <1>1, <2>1, <2>2
<1> QED  BY <1>1, ListInit, PTL DEF Spec

\* Every variable of the page, its calls and the tables has its type.
THEOREM ListTyped == Spec => []TypeOK
<1>1. ListInv => TypeOK
  BY ClientInvGives DEF ListInv, TablesInv, ShownInv, FlagInv, TypeOK
<1> QED  BY <1>1, ListInvariant, PTL

\* The list never says more than has happened.
THEOREM ListShowsPast == Spec => []ShownPast
<1>1. ListInv => ShownPast
  BY DEF ListInv, ShownInv
<1> QED  BY <1>1, ListInvariant, PTL

\* No flag is set without a call that will clear it.
THEOREM FlagsFollowCalls == Spec => []FlagsHaveCall
<1>1. ListInv => FlagsHaveCall
  BY DEF ListInv, FlagInv
<1> QED  BY <1>1, ListInvariant, PTL
=============================================================================
