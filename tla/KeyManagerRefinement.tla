------------------------ MODULE KeyManagerRefinement ------------------------
(* KeyManager seen by the customer: the refinement mapping to the contract. *)
EXTENDS KeyManager

\* A goroutine is about to apply a denial.
DenialPending == \E p \in Procs : proc[p].pc = "apply" /\ proc[p].res = "deny"

Contract == INSTANCE RevocationContract WITH
    denied <- DenialPending,
    parked <- state = "REVOKED",
    parkedAt <- deniedAt

\* The key manager implements the contract: every step of every goroutine is
\* a step the customer was promised, or none.  In particular only apply's Deny
\* row parks a tenant, only on an answer given while the key was disabled, and
\* only its OK row un-parks one (manager.go, fetcher.go apply).
ImplementsContract == Contract!Spec
=============================================================================
