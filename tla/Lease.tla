------------------------------- MODULE Lease -------------------------------
(***************************************************************************)
(* The lease arithmetic of internal/cmek/lease.go, on discrete instants.   *)
(* Instant 0 is Go's zero time.Time ("never"); the clock starts at 1, so a *)
(* lease whose SentAt is 0 is "no lease".                                  *)
(***************************************************************************)
EXTENDS Integers

CONSTANTS
    TTL,         \* cfg.Lease: how long one successful KMS call authorizes
    SoftTTL,     \* cfg.SoftTTL: age at which a renewal may start
    Early,       \* cfg.EarlyExpiry: the lease stops being usable this early
    BackoffMin,  \* cfg.BackoffMin, the first retry delay
    BackoffMax,  \* cfg.BackoffMax, the cap of the doubling
    JitterPct    \* cfg.BackoffJitter, in per cent of the delay

ASSUME LeaseAssumption ==
    /\ TTL \in Nat /\ SoftTTL \in Nat /\ Early \in Nat
    /\ 0 < Early /\ Early < TTL
ASSUME BackoffAssumption ==
    /\ BackoffMin \in Nat \ {0} /\ BackoffMax \in Nat
    /\ BackoffMin <= BackoffMax /\ JitterPct \in 0 .. 100

Time == Nat

\* Mutant of Until: the safety margin is added instead of taken off.
UntilLate(sentAt) == sentAt + (TTL + Early)

\* The instant from which the lease is no longer usable.
Until(sentAt) == sentAt + (TTL - Early)

Usable(sentAt, t) == sentAt # 0 /\ t < Until(sentAt)

\* The zero time lies far in the past, so an absent lease is always due.
SoftDue(sentAt, t) == sentAt = 0 \/ t >= sentAt + SoftTTL

\* SentAt only ever moves forward.
Renewed(sentAt, t) == IF t > sentAt THEN t ELSE sentAt

\* The base delay of attempt n, and the delays the jitter can make of it.
BackoffBase(n) ==
    LET doubled == BackoffMin * 2^((IF n < 1 THEN 1 ELSE n) - 1)
    IN  IF doubled > BackoffMax THEN BackoffMax ELSE doubled

Backoff(n) ==
    {b \in 0 .. 2 * BackoffMax :
        /\ (BackoffBase(n) * (100 - JitterPct)) \div 100 <= b
        /\ b <= (BackoffBase(n) * (100 + JitterPct)) \div 100}
=============================================================================
