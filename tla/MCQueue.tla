------------------------------ MODULE MCQueue ------------------------------
(* Instances of Queue for TLC. *)
EXTENDS Queue, TLC

\* Tenants and workers are interchangeable (safety runs only).
Symmetry == Permutations(Tenants) \cup Permutations(Workers)
=============================================================================
