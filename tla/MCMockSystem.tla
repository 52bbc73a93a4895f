---------------------------- MODULE MCMockSystem ----------------------------
(* The mock system on parts of its seeded list. *)
EXTENDS MockSystem

\* One job that runs, one that waits for its retry and one that is dead.
OneOfEach == {2, 4, 6}

\* One job that runs and one that waits for its retry.
RunningAndWaiting == {2, 4}
=============================================================================
