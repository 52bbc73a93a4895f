----------------------------- MODULE MCJobStore -----------------------------
(* The store under arbitrary callers, on small instances. *)
EXTENDS JobStore, TLC

Symmetry == Permutations(Job) \cup Permutations(IdemKey)
=============================================================================
