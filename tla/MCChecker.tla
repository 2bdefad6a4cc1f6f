----------------------------- MODULE MCChecker -----------------------------
\* Checker for TLC: the workers are interchangeable.
EXTENDS Checker, TLC

Symmetry == Permutations(Workers)
=============================================================================
