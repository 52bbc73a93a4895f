--------------------------- MODULE MCOrchestrator ---------------------------
(* The running system on small instances. *)
EXTENDS Orchestrator, TLC

\* Without against a reference definition, on every list of up to four entries:
\* the function of the library that selects the entries of other jobs.
ASSUME WithoutIsSelection ==
    \A n \in 0..4 : \A list \in [1..n -> 1..3] :
        Without(list, 1) = SelectSeq(list, LAMBDA i : i # 1)

Symmetry == Permutations(Worker) \cup Permutations(Request) \cup Permutations(Job)
=============================================================================
