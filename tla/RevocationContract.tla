------------------------- MODULE RevocationContract -------------------------
(***************************************************************************)
(* What the service promises a customer about one key, and nothing of how: *)
(* no leases, no cache, no calls.  The customer disables and enables the   *)
(* key; plaintext is used; the service parks the tenant on a denial and    *)
(* takes it back.                                                          *)
(***************************************************************************)
EXTENDS Naturals

CONSTANT TTL     \* cfg.Lease, the promised bound

VARIABLES
    now,
    enabled,     \* the customer's key
    revokedAt,   \* since when it has been disabled (0: it is enabled)
    denied,      \* the service has a denial it has not acted upon
    parked,      \* the tenant is refused service
    parkedAt,    \* when the latest denial was acted upon
    lastUse      \* the last use of plaintext since the key was disabled

cvars == <<now, enabled, revokedAt, denied, parked, parkedAt, lastUse>>

Init ==
    /\ now = 1 /\ enabled = TRUE /\ revokedAt = 0
    /\ denied = FALSE /\ parked = FALSE /\ parkedAt = 0 /\ lastUse = 0

Advance ==
    /\ now' = now + 1
    /\ UNCHANGED <<enabled, revokedAt, denied, parked, parkedAt, lastUse>>

Revoke ==
    /\ enabled /\ enabled' = FALSE /\ revokedAt' = now
    /\ UNCHANGED <<now, denied, parked, parkedAt, lastUse>>

Restore ==
    /\ ~enabled /\ enabled' = TRUE /\ revokedAt' = 0 /\ lastUse' = 0
    /\ UNCHANGED <<now, denied, parked, parkedAt>>

\* Plaintext of a disabled key is used for at most TTL.
Use ==
    /\ ~enabled => now <= revokedAt + TTL
    /\ lastUse' = IF enabled THEN 0 ELSE now
    /\ UNCHANGED <<now, enabled, revokedAt, denied, parked, parkedAt>>

\* Only a disabled key is denied.
Deny ==
    /\ ~enabled /\ denied' = TRUE
    /\ UNCHANGED <<now, enabled, revokedAt, parked, parkedAt, lastUse>>

\* The tenant is parked because of a denial, and of nothing else; other
\* denials may be on their way.
Park ==
    /\ denied /\ denied' \in BOOLEAN
    /\ parked' = TRUE /\ parkedAt' <= now
    /\ UNCHANGED <<now, enabled, revokedAt, lastUse>>

\* It is taken back only if the key was enabled at some instant since.
Unpark ==
    /\ parked /\ parked' = FALSE
    /\ enabled \/ parkedAt <= revokedAt
    /\ UNCHANGED <<now, enabled, revokedAt, denied, parkedAt, lastUse>>

Next == Advance \/ Revoke \/ Restore \/ Use \/ Deny \/ Park \/ Unpark

Spec == Init /\ [][Next]_cvars
=============================================================================
