---------------------------- MODULE MCAdmission ----------------------------
(* Admission for TLC: tenants and requests are interchangeable.            *)
EXTENDS Admission, TLC

Symmetry == Permutations(Tenants) \cup Permutations(Requests)
=============================================================================
