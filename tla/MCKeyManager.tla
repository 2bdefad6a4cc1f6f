---------------------------- MODULE MCKeyManager ----------------------------
(***************************************************************************)
(* KeyManager for TLC.  The clock of the model has no end: Relative        *)
(* identifies the states that differ only in how long ago something        *)
(* happened that no guard and no property can still tell apart, and in     *)
(* which goroutine is which, so the runs cover every instant.              *)
(***************************************************************************)
EXTENDS KeyManagerRefinement

AtMost(n, bound) == IF n < bound THEN n ELSE bound

\* How long ago t was, as far as anything depends on it.
Age(t, bound) == IF t = 0 THEN 0 - 1 ELSE AtMost(now - t, bound)

\* Authorizations older than this are lapsed for every clock reading.
Lapsed == TTL - Early + ClockLag

\* How far ahead t is; instants a clock reading has surely passed are alike.
Ahead(t) == IF t = 0 THEN 0 - 2 * ClockLag - 1
            ELSE 0 - AtMost(now - t, ClockLag)

\* A stamped call: its age, and whether apply will find its OK stale.
Stamp(p) ==
    IF proc[p].pc \in {"sent", "put", "apply"}
    THEN <<Age(proc[p].sentAt, Lapsed), proc[p].sentAt < deniedAt>>
    ELSE <<0 - 1, FALSE>>

Goroutine(p) ==
    <<[proc[p] EXCEPT !.sentAt = 0, !.at = 0], Stamp(p), Ahead(proc[p].at)>>

\* The state as a view sees it that knows n of the DEKs numbered.  The set of
\* goroutines says how many are alike, as there are never more than two.
ASSUME AtMostTwo == Cardinality(Procs) <= 2

Seen(n) ==
    <<enabled, state, deks, hot, active, worn, n, stored, probing, countVars, fetch,
      sealed, attempt,
      Age(revokedAt, TTL + 1),
      lastUse <= revokedAt + TTL, enabled \/ deniedAt <= revokedAt,
      Age(leaseSentAt, Lapsed),
      [d \in DEKs |-> Ahead(pending[d])],
      IF state = "ACTIVE" THEN 0 ELSE Ahead(nextProbeAt),
      {[h EXCEPT !.until = 0 - AtMost(now - @, 0), !.at = Age(@, Early)] : h \in handles},
      {Goroutine(p) : p \in Procs}>>

Relative == Seen(seq)
=============================================================================
