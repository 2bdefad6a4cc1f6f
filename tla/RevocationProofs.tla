-------------------------- MODULE RevocationProofs --------------------------
(***************************************************************************)
(* Bounded revocation (S3) and sticky denies, for every configuration.     *)
(*                                                                         *)
(* BoundedRevocation is not inductive: it speaks of uses that happened,    *)
(* while what must be bounded are the authorizations still on their way.   *)
(* RevocationInv follows an authorization through its whole life: an OK    *)
(* that apply has not seen yet, the lease, the handles callers hold, the   *)
(* plaintext between Open and the sink.                                    *)
(***************************************************************************)
EXTENDS KeyManagerProofs, KeyManagerRefinement

\* No recorded instant is in the future, and a lease of a disabled key was
\* authorized before the key was disabled.
ClockOK ==
    /\ revokedAt <= now /\ deniedAt <= now /\ leaseSentAt <= now /\ lastUse <= now
    /\ ~enabled => leaseSentAt <= revokedAt

\* An OK that waits to be stored or applied was sent before the revoke.
StampOK(r) ==
    /\ r.sentAt <= now
    /\ r.pc \in {"put", "apply"} /\ r.res = "ok" /\ ~enabled => r.sentAt <= revokedAt

\* A handle outlives no lease that could have been granted before the revoke;
\* plaintext was opened in time and is at most OpenSlack old.
HandleOK(h) ==
    /\ h.until <= now + (TTL - Early)
    /\ ~enabled => h.until <= revokedAt + (TTL - Early)
    /\ h.use = "sink" => h.at < h.until /\ now <= h.at + OpenSlack

RevocationInv ==
    /\ ClockOK
    /\ \A p \in Procs : StampOK(proc[p])
    /\ \A h \in handles : HandleOK(h)
    /\ DenySticks
    /\ BoundedRevocation

-----------------------------------------------------------------------------
\* Most steps leave the clock, the key and the lease alone and un-park nobody.
LEMMA Quiet ==
    ASSUME RevocationInv,
           UNCHANGED <<now, kmsVars, leaseSentAt, deniedAt, lastUse>>,
           state' # "REVOKED" => state # "REVOKED",
           \A q \in Procs : StampOK(proc'[q]),
           \A h \in handles' : HandleOK(h)
    PROVE  RevocationInv'
  BY DEF RevocationInv, ClockOK, StampOK, HandleOK, DenySticks, BoundedRevocation,
     kmsVars

\* A handle that is given out ends with the current lease.
LEMMA IssueBound ==
    ASSUME TypeOK, RevocationInv, NEW d, NEW use \in {"seal", "open"}, Issue(d, use)
    PROVE  /\ \A h \in handles' : HandleOK(h)
           /\ lastUse' = lastUse
  BY LeaseAssumption DEF TypeOK, Time, RevocationInv, ClockOK, HandleOK, Issue, Until

LEMMA StampIdle ==
    ASSUME TypeOK
    PROVE  /\ StampOK(Idle)
           /\ \A job, then, want, d : StampOK(Started(job, then, want, d))
  BY DEF StampOK, Idle, Started, TypeOK, Time

\* One goroutine moves.
LEMMA StampFrame ==
    ASSUME TypeOK, RevocationInv, NEW p \in Procs, NEW r, StampOK(r), Become(p, r)
    PROVE  \A q \in Procs : StampOK(proc'[q])
  BY DEF TypeOK, RevocationInv, Become

\* A goroutine that moves on with the stamp and the result it has.
LEMMA StampMove ==
    ASSUME TypeOK, NEW r \in ProcRec, StampOK(r), NEW r2,
           r2.sentAt = r.sentAt \/ r2.sentAt = 0,
           r2.pc \in {"put", "apply"} /\ r2.res = "ok" =>
               r.pc \in {"put", "apply"} /\ r.res = "ok"
    PROVE  StampOK(r2)
  BY DEF StampOK, TypeOK, Time

LEMMA StampSpawn ==
    ASSUME TypeOK, RevocationInv, NEW ps,
           ps = proc \/ \E p \in Procs : ps = [proc EXCEPT ![p] = Idle],
           NEW job, NEW d, Spawn(ps, job, d)
    PROVE  \A q \in Procs : StampOK(proc'[q])
  <1>1. ps \in [Procs -> ProcRec] /\ \A q \in Procs : StampOK(ps[q])
    BY IdleType, StampIdle DEF TypeOK, RevocationInv
  <1> QED
    BY <1>1, StampIdle DEF Spawn

-----------------------------------------------------------------------------
LEMMA EnvironmentRevocation ==
    ASSUME TypeOK, RevocationInv, Environment
    PROVE  RevocationInv'
  <1> USE DEF kmsVars, tenantVars, cacheVars, retryVars, countVars, useVars
  <1>0. /\ \A p \in Procs : proc[p].sentAt \in Time
        /\ \A h \in handles : h.until \in Time /\ h.at \in Time
    BY DEF TypeOK, ProcRec, Handle
  <1>1. CASE Advance
    BY <1>0, <1>1, LeaseAssumption, ManagerAssumption
    DEF Advance, RevocationInv, ClockOK, StampOK, HandleOK, DenySticks,
        BoundedRevocation, TypeOK, Time
  <1>2. CASE Revoke
    BY <1>0, <1>2, LeaseAssumption
    DEF Revoke, RevocationInv, ClockOK, StampOK, HandleOK, DenySticks,
        BoundedRevocation, TypeOK, Time
  <1>3. CASE Restore
    BY <1>0, <1>3
    DEF Restore, RevocationInv, ClockOK, StampOK, HandleOK, DenySticks,
        BoundedRevocation, TypeOK, Time
  <1>4. CASE Wear
    BY <1>4, Quiet DEF Wear, RevocationInv
  <1> QED
    BY <1>1, <1>2, <1>3, <1>4 DEF Environment

LEMMA UseRevocation ==
    ASSUME TypeOK, RevocationInv, Use
    PROVE  RevocationInv'
  <1> USE DEF kmsVars, tenantVars, cacheVars, retryVars, countVars, useVars
  <1> PICK h \in handles : Seal(h) \/ Open(h) \/ Deliver(h) \/ Refuse(h)
    BY DEF Use
  <1>1. h \in Handle /\ HandleOK(h) /\ h.until \in Time /\ h.at \in Time
    BY DEF TypeOK, Handle, RevocationInv
  <1>2. UNCHANGED <<now, kmsVars, leaseSentAt, deniedAt, state, proc>>
    BY DEF Seal, Open, Deliver, Refuse
  <1>3. \A g \in handles' : HandleOK(g)
    <2>1. HandleOK([h EXCEPT !.use = "sink", !.at = now]) \/ ~Open(h)
      BY <1>1, ManagerAssumption DEF Open, HandleOK, Handle, TypeOK, Time
    <2> QED
      BY <2>1 DEF Seal, Open, Deliver, Refuse, RevocationInv
  <1>4. lastUse' <= now /\ (~enabled => lastUse' <= revokedAt + TTL)
    BY <1>1, LeaseAssumption, ManagerAssumption
    DEF Seal, Open, Deliver, Refuse, RevocationInv, ClockOK, HandleOK,
        BoundedRevocation, TypeOK, Time
  <1> QED
    BY <1>2, <1>3, <1>4
    DEF RevocationInv, ClockOK, StampOK, HandleOK, DenySticks, BoundedRevocation

\* The Manager's operations: what they leave is an idle or a fresh goroutine.
LEMMA ManagerRevocation ==
    ASSUME TypeOK, RevocationInv,
           \/ \E mode \in Modes : SetFetch(mode)
           \/ \E p \in Procs : Encrypt(p) \/ Decrypt(p)
           \/ Sweep
    PROVE  RevocationInv'
  <1> USE DEF kmsVars, tenantVars, cacheVars, retryVars, countVars, useVars
  <1>0. /\ \A q \in Procs : StampOK(proc[q])
        /\ \A h \in handles : HandleOK(h)
    BY DEF RevocationInv
  <1>1. ASSUME NEW mode \in Modes, SetFetch(mode) PROVE RevocationInv'
    BY <1>0, <1>1, Quiet DEF SetFetch
  <1>2. ASSUME NEW p \in Procs, Encrypt(p) PROVE RevocationInv'
    <2>1. UNCHANGED <<now, kmsVars, leaseSentAt, deniedAt, state>>
      BY <1>2 DEF Encrypt, EncryptProbe, EncryptRefused, EncryptHot, EncryptCold,
         EncryptDirect, Inline
    <2>2. (\A h \in handles' : HandleOK(h)) /\ lastUse' = lastUse
      <3>1. CASE EncryptHot(p)
        BY <3>1, IssueBound DEF EncryptHot
      <3> QED
        BY <1>0, <1>2, <3>1 DEF Encrypt, EncryptProbe, EncryptRefused, EncryptCold,
           EncryptDirect, Inline
    <2>3. \A q \in Procs : StampOK(proc'[q])
      <3>1. CASE EncryptHot(p)
        BY <3>1, StampSpawn, StampFrame, StampIdle DEF EncryptHot
      <3> QED
        BY <1>2, <3>1, StampFrame, StampIdle DEF Encrypt, EncryptProbe,
           EncryptRefused, EncryptCold, EncryptDirect, Inline
    <2> QED
      BY <2>1, <2>2, <2>3, Quiet
  <1>3. ASSUME NEW p \in Procs, Decrypt(p) PROVE RevocationInv'
    <2>1. UNCHANGED <<now, kmsVars, leaseSentAt, deniedAt, state>>
      BY <1>3 DEF Decrypt, DecryptInline, DecryptRefused, DecryptHot, DecryptDirect,
         Inline
    <2>2. (\A h \in handles' : HandleOK(h)) /\ lastUse' = lastUse
      <3>1. ASSUME NEW d \in DEKs, DecryptHot(p, d)
            PROVE  (\A h \in handles' : HandleOK(h)) /\ lastUse' = lastUse
        BY <3>1, IssueBound DEF DecryptHot
      <3> QED
        BY <1>0, <1>3, <3>1 DEF Decrypt, DecryptInline, DecryptRefused,
           DecryptDirect, Inline
    <2>3. \A q \in Procs : StampOK(proc'[q])
      <3>1. ASSUME NEW d \in DEKs, DecryptDirect(p, d)
            PROVE  \A q \in Procs : StampOK(proc'[q])
        <4>1. StampOK([Started("open", "none", 0, d) EXCEPT !.pc = "call"])
          BY DEF StampOK, Started, TypeOK, Time
        <4> QED
          BY <3>1, <4>1, StampFrame DEF DecryptDirect
      <3> QED
        BY <1>3, <3>1, StampFrame, StampIdle DEF Decrypt, DecryptInline,
           DecryptRefused, DecryptHot, Inline
    <2> QED
      BY <2>1, <2>2, <2>3, Quiet
  <1>4. CASE Sweep
    <2>1. /\ UNCHANGED <<now, kmsVars, leaseSentAt, deniedAt, useVars>>
          /\ state' # "REVOKED" => state # "REVOKED"
      BY <1>4 DEF Sweep, Tick, HotKick, Warm
    <2>2. \A q \in Procs : StampOK(proc'[q])
      <3>1. \/ proc' = proc
            \/ \E job, d : Spawn(proc, job, d)
        BY <1>4 DEF Sweep, Tick, HotKick, Warm
      <3> QED
        BY <1>0, <3>1, StampSpawn
    <2> QED
      BY <1>0, <2>1, <2>2, Quiet
  <1> QED
    BY <1>1, <1>2, <1>3, <1>4

\* The flight: stamps and results travel with the goroutine, or are dropped.
LEMMA FlightRevocation ==
    ASSUME TypeOK, FetchInv, RevocationInv, NEW p \in Procs, Flight(p)
    PROVE  RevocationInv'
  <1> USE DEF kmsVars, tenantVars, cacheVars, retryVars, countVars, useVars
  <1>0. /\ \A q \in Procs : proc[q] \in ProcRec /\ StampOK(proc[q])
        /\ \A h \in handles : HandleOK(h)
    BY DEF RevocationInv, TypeOK
  <1>1. UNCHANGED <<now, kmsVars, leaseSentAt, deniedAt, state>>
    BY DEF Flight, Renew, Do, RecheckRenew, RecheckWarm, RecheckSeal, Land, BackProbe,
       BackCold, BackDirect
  <1>2. (\A h \in handles' : HandleOK(h)) /\ lastUse' = lastUse
    <2>1. CASE BackCold(p)
      BY <1>0, <2>1, IssueBound DEF BackCold
    <2>2. CASE BackDirect(p)
      BY <1>0, <2>2, IssueBound DEF BackDirect
    <2> QED
      BY <1>0, <2>1, <2>2 DEF Flight, Renew, Do, RecheckRenew, RecheckWarm, RecheckSeal,
         Land, BackProbe
  <1>3. \A q \in Procs : StampOK(proc'[q])
    <2>1. CASE Renew(p) \/ Do(p) \/ RecheckRenew(p) \/ RecheckWarm(p) \/ RecheckSeal(p)
      <3>0. \A c : /\ [proc[p] EXCEPT !.pc = c].sentAt = proc[p].sentAt
                   /\ [proc[p] EXCEPT !.pc = c].pc = c
        BY <1>0 DEF ProcRec
      <3>1. CASE Renew(p)
        <4>1. PICK d, o, k, c :
                /\ Become(p, [proc[p] EXCEPT !.d = d, !.op = o, !.key = k, !.pc = c])
                /\ c \in {"call", "do"}
          BY <3>1 DEF Renew
        <4> DEFINE r == [proc[p] EXCEPT !.d = d, !.op = o, !.key = k, !.pc = c]
        <4>2. r.sentAt = proc[p].sentAt /\ r.pc = c
          BY <1>0 DEF ProcRec
        <4>3. StampOK(r)
          BY <1>0, <4>1, <4>2, StampMove
        <4> QED
          BY <4>1, <4>3, StampFrame
      <3>2. CASE Do(p) \/ RecheckRenew(p) \/ RecheckWarm(p)
        <4>1. PICK c : Become(p, [proc[p] EXCEPT !.pc = c])
                       /\ c \in {"join", "recheck", "land", "call"}
          BY <3>2 DEF Do, RecheckRenew, RecheckWarm, Goto, Become
        <4>2. StampOK([proc[p] EXCEPT !.pc = c])
          BY <1>0, <3>0, <4>1, StampMove
        <4> QED
          BY <4>1, <4>2, StampFrame
      <3>3. CASE RecheckSeal(p)
        <4>1. PICK d, o : Become(p, [proc[p] EXCEPT !.d = d, !.pc = "call", !.op = o])
          BY <3>3 DEF RecheckSeal
        <4> DEFINE r == [proc[p] EXCEPT !.d = d, !.pc = "call", !.op = o]
        <4>2. r.sentAt = proc[p].sentAt /\ r.pc = "call"
          BY <1>0 DEF ProcRec
        <4>3. StampOK(r)
          BY <1>0, <4>2, StampMove
        <4> QED
          BY <4>1, <4>3, StampFrame
      <3> QED
        BY <2>1, <3>1, <3>2, <3>3
    <2>2. CASE Land(p)
      <3>1. \A q \in Procs : /\ proc'[q].sentAt = proc[q].sentAt
                             /\ proc'[q].pc \in {"put", "apply"} => proc'[q] = proc[q]
        BY <1>0, <2>2 DEF Land, ProcRec
      <3> QED
        BY <1>0, <3>1, StampMove
    <2>3. CASE BackProbe(p)
      <3>1. StampOK([Idle EXCEPT !.pc = "resume", !.then = proc[p].then,
                                 !.want = proc[p].want, !.at = now])
        BY DEF StampOK, Idle, TypeOK, Time
      <3> QED
        BY <2>3, <3>1, StampFrame, StampIdle DEF BackProbe
    <2>4. CASE BackCold(p) \/ BackDirect(p)
      BY <2>4, StampFrame, StampIdle DEF BackCold, BackDirect
    <2> QED
      BY <2>1, <2>2, <2>3, <2>4 DEF Flight
  <1> QED
    BY <1>1, <1>2, <1>3, Quiet

\* The call: an OK is only ever made of a key that is enabled at that moment.
LEMMA KMSCallRevocation ==
    ASSUME TypeOK, FetchInv, RevocationInv, NEW p \in Procs, KMSCall(p)
    PROVE  RevocationInv'
  <1> USE DEF kmsVars, tenantVars, cacheVars, retryVars, countVars, useVars
  <1>0. /\ proc[p] \in ProcRec /\ StampOK(proc[p]) /\ FetchOK(proc[p])
        /\ \A h \in handles : HandleOK(h)
        /\ now \in Nat /\ proc[p].sentAt \in Nat
    BY DEF RevocationInv, TypeOK, FetchInv, Time, ProcRec
  <1>1. UNCHANGED <<now, kmsVars, leaseSentAt, deniedAt, state, useVars>>
    BY DEF KMSCall, Call, Acquire, BulkheadTimeout, Reply, Return, PutDEK
  <1>2. \A q \in Procs : StampOK(proc'[q])
    <2>1. CASE Call(p)
      <3>1. \/ Become(p, [proc[p] EXCEPT !.res = "busy", !.at = now, !.pc = "apply"])
            \/ Become(p, [proc[p] EXCEPT !.sentAt = now, !.pc = "sent"])
            \/ \E f : Become(p, [proc[p] EXCEPT !.counted = f, !.pc = "bulkhead"])
        BY <2>1 DEF Call
      <3>2. /\ StampOK([proc[p] EXCEPT !.res = "busy", !.at = now, !.pc = "apply"])
            /\ StampOK([proc[p] EXCEPT !.sentAt = now, !.pc = "sent"])
            /\ \A f : StampOK([proc[p] EXCEPT !.counted = f, !.pc = "bulkhead"])
        BY <1>0 DEF StampOK, ProcRec
      <3> QED
        BY <3>1, <3>2, StampFrame
    <2>2. CASE Acquire(p)
      <3>1. StampOK([proc[p] EXCEPT !.sentAt = now, !.pc = "sent"])
        BY <1>0 DEF StampOK, ProcRec
      <3> QED
        BY <2>2, <3>1, StampFrame DEF Acquire
    <2>3. CASE BulkheadTimeout(p) \/ Reply(p)
      <3>1. PICK v, a, c : /\ Return(p, v, a, c) /\ a \in {now, proc[p].sentAt}
                           /\ v = "ok" => enabled
        BY <2>3 DEF BulkheadTimeout, Reply
      <3>2. StampOK([proc[p] EXCEPT !.res = v, !.sentAt = a, !.at = now,
                                    !.counted = FALSE, !.pc = c])
        BY <1>0, <3>1 DEF StampOK, ProcRec
      <3> QED
        BY <3>1, <3>2, StampFrame DEF Return
    <2>4. CASE PutDEK(p)
      <3>1. \/ Become(p, [proc[p] EXCEPT !.d = seq + 1, !.pc = "apply"])
            \/ Become(p, [proc[p] EXCEPT !.res = "store", !.pc = "apply"])
        BY <2>4 DEF PutDEK
      <3>2. /\ StampOK([proc[p] EXCEPT !.d = seq + 1, !.pc = "apply"])
            /\ StampOK([proc[p] EXCEPT !.res = "store", !.pc = "apply"])
        BY <1>0, <2>4 DEF StampOK, ProcRec, PutDEK
      <3> QED
        BY <3>1, <3>2, StampFrame
    <2> QED
      BY <2>1, <2>2, <2>3, <2>4 DEF KMSCall
  <1> QED
    BY <1>0, <1>1, <1>2, Quiet

\* apply: an OK that is not stale was sent after the latest deny and before the
\* revoke, so it un-parks the tenant only if that deny was an earlier revoke's.
LEMMA ApplyRevocation ==
    ASSUME TypeOK, RevocationInv, NEW p \in Procs, Apply(p)
    PROVE  RevocationInv'
  <1> USE DEF kmsVars, tenantVars, cacheVars, retryVars, countVars, useVars
  <1>0. /\ proc[p] \in ProcRec /\ StampOK(proc[p])
        /\ now \in Nat /\ revokedAt \in Nat /\ deniedAt \in Nat /\ leaseSentAt \in Nat
        /\ proc[p].sentAt \in Nat /\ proc[p].at \in Time
        /\ \A h \in handles : HandleOK(h)
    BY DEF RevocationInv, TypeOK, ProcRec, Time
  <1>1. /\ UNCHANGED <<now, kmsVars, useVars>>
        /\ Applied(p) /\ proc[p].pc = "apply"
    BY DEF Apply, ApplyNone, ApplyStale, ApplyOK, ApplyDeny, ApplyTransient
  <1>2. \A q \in Procs : StampOK(proc'[q])
    <2>1. PICK r : Become(p, r) /\ r.sentAt = 0 /\ r.pc \in {"land", "back"}
      <3> DEFINE r == [proc[p] EXCEPT
            !.pc = IF proc[p].key = NoKey THEN "back" ELSE "land",
            !.sentAt = 0, !.at = 0, !.op = "unwrap",
            !.d = IF proc[p].job \in {"seal", "open"} THEN @ ELSE 0,
            !.res = IF proc[p].job \in {"seal", "open"} THEN @ ELSE "none"]
      <3>1. Become(p, r)
        BY <1>1 DEF Applied
      <3>2. r.sentAt = 0 /\ r.pc \in {"land", "back"}
        BY <1>0 DEF ProcRec
      <3> QED
        BY <3>1, <3>2
    <2> QED
      BY <1>0, <2>1, StampMove, StampFrame
  <1>3. CASE ApplyNone(p) \/ ApplyStale(p) \/ ApplyTransient(p)
    <2>1. UNCHANGED <<leaseSentAt, deniedAt>> /\ (state' # "REVOKED" => state # "REVOKED")
      BY <1>3 DEF ApplyNone, ApplyStale, ApplyTransient
    <2> QED
      BY <1>0, <1>1, <1>2, <2>1, Quiet
  <1>4. CASE ApplyOK(p)
    <2>1. /\ deniedAt' = deniedAt /\ deniedAt <= proc[p].sentAt
          /\ leaseSentAt' \in {leaseSentAt, proc[p].sentAt}
          /\ proc[p].sentAt <= now
          /\ ~enabled => proc[p].sentAt <= revokedAt
      BY <1>0, <1>1, <1>4 DEF ApplyOK, Renewed, Stale, StampOK
    <2> QED
      BY <1>0, <1>1, <1>2, <2>1
      DEF RevocationInv, ClockOK, StampOK, HandleOK, DenySticks, BoundedRevocation
  <1>5. CASE ApplyDeny(p)
    <2>1. leaseSentAt' = 0 /\ state' = "REVOKED" /\ deniedAt' <= now
      BY <1>0, <1>5, ReadingTypes DEF ApplyDeny, Time
    <2> QED
      BY <1>0, <1>1, <1>2, <2>1
      DEF RevocationInv, ClockOK, StampOK, HandleOK, DenySticks, BoundedRevocation
  <1> QED
    BY <1>3, <1>4, <1>5 DEF Apply

-----------------------------------------------------------------------------
LEMMA RevocationInductive == Spec => []RevocationInv
  <1>1. Init => RevocationInv
    <2> SUFFICES ASSUME Init PROVE RevocationInv
      OBVIOUS
    <2>1. \A p \in Procs : StampOK(proc[p])
      BY DEF Init, StampOK, Idle
    <2> QED
      BY <2>1 DEF Init, RevocationInv, ClockOK, DenySticks, BoundedRevocation
  <1>2. TypeOK /\ FetchInv /\ RevocationInv /\ [Next]_vars => RevocationInv'
    <2> SUFFICES ASSUME TypeOK, FetchInv, RevocationInv, [Next]_vars
                 PROVE  RevocationInv'
      OBVIOUS
    <2>1. CASE Next
      BY <2>1, EnvironmentRevocation, ManagerRevocation, FlightRevocation,
         KMSCallRevocation, ApplyRevocation, UseRevocation DEF Next
    <2>2. CASE UNCHANGED vars
      BY <2>2, Quiet DEF vars, kmsVars, tenantVars, retryVars, useVars, RevocationInv
    <2> QED
      BY <2>1, <2>2
  <1> QED
    BY <1>1, <1>2, TypeCorrect, PTL DEF Spec

\* S3 for every lease length, reprobe period, clock lag, number of goroutines and
\* fetch design: nothing is sealed or delivered later than one lease after the
\* key was disabled, provided the sink stamps within the early-expiry margin.
THEOREM RevocationBounded == Spec => []BoundedRevocation
  <1>1. RevocationInv => BoundedRevocation
    BY DEF RevocationInv
  <1> QED
    BY <1>1, RevocationInductive, PTL

\* apply's "stale ok ignored" row is enough: no answer, however late it comes
\* home, un-parks a tenant after the deny of a key that is still disabled.
THEOREM DenyIsSticky == Spec => []DenySticks
  <1>1. RevocationInv => DenySticks
    BY DEF RevocationInv
  <1> QED
    BY <1>1, RevocationInductive, PTL

-----------------------------------------------------------------------------
(***************************************************************************)
(* The key manager implements RevocationContract.  The contract sees of    *)
(* the goroutines only whether one of them is about to apply a denial.     *)
(***************************************************************************)
Denial(r) == r.pc = "apply" /\ r.res = "deny"

\* A step in which no goroutine gets or applies a denial.
LEMMA DenialsKept ==
    ASSUME \A q \in Procs : Denial(proc'[q]) <=> Denial(proc[q])
    PROVE  DenialPending' = DenialPending
<1>1. DenialPending' <=> DenialPending
  BY DEF DenialPending, Denial
<1> QED  BY <1>1, Zenon DEF DenialPending

LEMMA DenialFrame ==
    ASSUME TypeOK, NEW p \in Procs, NEW r, Become(p, r), ~Denial(proc[p]), ~Denial(r)
    PROVE  DenialPending' = DenialPending
<1>1. \A q \in Procs : Denial(proc'[q]) <=> Denial(proc[q])
  BY DEF Become, TypeOK
<1> QED  BY <1>1, DenialsKept

LEMMA DenialSame ==
    ASSUME proc' = proc
    PROVE  DenialPending' = DenialPending
  BY DenialsKept

LEMMA DenialSpawn ==
    ASSUME TypeOK, NEW ps, NEW job, NEW d, Spawn(ps, job, d),
           \/ ps = proc
           \/ \E p \in Procs : ~Denial(proc[p]) /\ ps = [proc EXCEPT ![p] = Idle]
    PROVE  DenialPending' = DenialPending
<1>1. ~Denial(Idle) /\ ~Denial(Started(job, "none", 0, d))
  BY DEF Denial, Idle, Started
<1>2. ps \in [Procs -> ProcRec] /\ \A q \in Procs : Denial(ps[q]) <=> Denial(proc[q])
  BY <1>1, IdleType DEF TypeOK
<1>3. \A q \in Procs : proc[q].pc = "idle" => ~Denial(proc[q])
  BY DEF Denial
<1>4. \A q \in Procs : Denial(proc'[q]) <=> Denial(proc[q])
  BY <1>1, <1>2, <1>3 DEF Spawn
<1> QED  BY <1>4, DenialsKept

\* What the customer cannot see.
Unseen ==
    /\ UNCHANGED <<now, enabled, revokedAt, deniedAt, lastUse>>
    /\ state' = "REVOKED" <=> state = "REVOKED"
    /\ DenialPending' = DenialPending

LEMMA UnseenStutters == Unseen => UNCHANGED Contract!cvars
  BY DEF Unseen, Contract!cvars

\* The clock and the customer.
LEMMA EnvironmentRefines ==
    ASSUME TypeOK, Environment
    PROVE  [Contract!Next]_(Contract!cvars)
<1> USE DEF kmsVars, tenantVars, cacheVars, retryVars, countVars, useVars
<1>1. DenialPending' = DenialPending
  BY DenialSame DEF Environment, Advance, Revoke, Restore, Wear
<1>2. CASE Advance
  BY <1>1, <1>2 DEF Advance, Contract!Next, Contract!Advance
<1>3. CASE Revoke
  BY <1>1, <1>3 DEF Revoke, Contract!Next, Contract!Revoke
<1>4. CASE Restore
  BY <1>1, <1>4 DEF Restore, Contract!Next, Contract!Restore
<1>5. CASE Wear
  BY <1>1, <1>5, UnseenStutters DEF Wear, Unseen
<1> QED  BY <1>2, <1>3, <1>4, <1>5 DEF Environment

\* Plaintext: a handle that is still valid was granted before the revoke, and
\* what it opened reaches the sink within the early-expiry margin.
LEMMA UseRefines ==
    ASSUME TypeOK, RevocationInv, Use
    PROVE  [Contract!Next]_(Contract!cvars)
<1> USE DEF kmsVars, tenantVars, cacheVars, retryVars, countVars
<1> PICK h \in handles : Seal(h) \/ Open(h) \/ Deliver(h) \/ Refuse(h)
  BY DEF Use
<1>1. h \in Handle /\ HandleOK(h) /\ h.until \in Time /\ h.at \in Time
  BY DEF TypeOK, Handle, RevocationInv
<1>2. UNCHANGED <<now, enabled, revokedAt, deniedAt, state>> /\ DenialPending' = DenialPending
  BY DenialSame DEF Seal, Open, Deliver, Refuse
<1>3. CASE Open(h) \/ Refuse(h)
  BY <1>2, <1>3, UnseenStutters DEF Open, Refuse, Unseen
<1>4. CASE Seal(h) \/ Deliver(h)
  <2>1. ~enabled => now <= revokedAt + TTL
    BY <1>1, <1>4, LeaseAssumption, ManagerAssumption
       DEF Seal, Deliver, HandleOK, TypeOK, Time
  <2>2. lastUse' = IF enabled THEN 0 ELSE now
    BY <1>4 DEF Seal, Deliver
  <2> QED  BY <1>2, <2>1, <2>2 DEF Contract!Next, Contract!Use
<1> QED  BY <1>3, <1>4

\* The Manager's operations start and end goroutines.
LEMMA ManagerRefines ==
    ASSUME TypeOK,
           \/ \E mode \in Modes : SetFetch(mode)
           \/ \E p \in Procs : Encrypt(p) \/ Decrypt(p)
           \/ Sweep
    PROVE  Unseen
<1> USE DEF kmsVars, tenantVars, cacheVars, retryVars, countVars, useVars
<1>0. /\ ~Denial(Idle)
      /\ \A job, then, want, d : /\ ~Denial(Started(job, then, want, d))
                                 /\ ~Denial([Started(job, then, want, d) EXCEPT !.pc = "call"])
  BY DEF Denial, Idle, Started
<1>1. \A p \in Procs : proc[p].pc \in {"idle", "resume"} => ~Denial(proc[p])
  BY DEF Denial
<1>2. CASE \E mode \in Modes : SetFetch(mode)
  BY <1>2, DenialSame DEF SetFetch, Unseen
<1>3. ASSUME NEW p \in Procs, Encrypt(p)
      PROVE  Unseen
  <2>1. UNCHANGED <<now, enabled, revokedAt, deniedAt, lastUse, state>>
    BY <1>3 DEF Encrypt, EncryptProbe, Inline, EncryptRefused, EncryptHot, EncryptCold,
                EncryptDirect, Issue
  <2>2. ~Denial(proc[p])
    BY <1>1, <1>3 DEF Encrypt, EncryptProbe, Inline, EncryptRefused, EncryptHot, EncryptCold,
                      EncryptDirect, AtEncrypt
  <2>3. \/ \E r : Become(p, r) /\ ~Denial(r)
        \/ Spawn([proc EXCEPT ![p] = Idle], "probe", 0)
    BY <1>0, <1>3 DEF Encrypt, EncryptProbe, Inline, EncryptRefused, EncryptHot, EncryptCold,
                      EncryptDirect
  <2>4. DenialPending' = DenialPending
    BY <2>2, <2>3, DenialFrame, DenialSpawn
  <2> QED  BY <2>1, <2>4 DEF Unseen
<1>4. ASSUME NEW p \in Procs, Decrypt(p)
      PROVE  Unseen
  <2>1. UNCHANGED <<now, enabled, revokedAt, deniedAt, lastUse, state>>
    BY <1>4 DEF Decrypt, DecryptRefused, DecryptInline, Inline, DecryptHot, DecryptDirect, Issue
  <2>2. ~Denial(proc[p])
    BY <1>1, <1>4 DEF Decrypt, DecryptRefused, DecryptInline, Inline, DecryptHot,
                      DecryptDirect, AtDecrypt
  <2>3. \E r : Become(p, r) /\ ~Denial(r)
    BY <1>0, <1>4 DEF Decrypt, DecryptRefused, DecryptInline, Inline, DecryptHot, DecryptDirect
  <2>4. DenialPending' = DenialPending
    BY <2>2, <2>3, DenialFrame
  <2> QED  BY <2>1, <2>4 DEF Unseen
<1>5. CASE Sweep
  <2>1. /\ UNCHANGED <<now, enabled, revokedAt, deniedAt, lastUse>>
        /\ state' = "REVOKED" <=> state = "REVOKED"
    BY <1>5 DEF Sweep, Tick, HotKick, Warm
  <2>2. proc' = proc \/ \E job, d : Spawn(proc, job, d)
    BY <1>5 DEF Sweep, Tick, HotKick, Warm
  <2>3. DenialPending' = DenialPending
    BY <2>2, DenialSame, DenialSpawn
  <2> QED  BY <2>1, <2>3 DEF Unseen
<1> QED  BY <1>2, <1>3, <1>4, <1>5

\* A flight carries no denial: what it hands on is a finished result.
LEMMA FlightRefines ==
    ASSUME TypeOK, NEW p \in Procs, Flight(p)
    PROVE  Unseen
<1> USE DEF kmsVars, tenantVars, cacheVars, retryVars, countVars, useVars
<1>0. \A q \in Procs : proc[q] \in ProcRec
  BY DEF TypeOK
<1>1. UNCHANGED <<now, enabled, revokedAt, deniedAt, lastUse, state>>
  BY DEF Flight, Renew, Do, RecheckRenew, RecheckWarm, RecheckSeal, Land, BackProbe,
         BackCold, BackDirect, Issue
<1>2. CASE Land(p)
  <2>1. \A q \in Procs : Denial(proc'[q]) <=> Denial(proc[q])
    BY <1>0, <1>2 DEF Land, Denial, ProcRec
  <2> QED  BY <1>1, <2>1, DenialsKept DEF Unseen
<1>3. CASE ~Land(p)
  <2>1. ~Denial(proc[p])
    BY <1>3 DEF Flight, Renew, Do, RecheckRenew, RecheckWarm, RecheckSeal, BackProbe,
                BackCold, BackDirect, Denial
  <2>2. PICK r : Become(p, r) /\ r.pc # "apply"
    <3>1. CASE Renew(p)
      <4>1. PICK d, o, k, c :
              /\ Become(p, [proc[p] EXCEPT !.d = d, !.op = o, !.key = k, !.pc = c])
              /\ c \in {"call", "do"}
        BY <3>1 DEF Renew
      <4>2. [proc[p] EXCEPT !.d = d, !.op = o, !.key = k, !.pc = c].pc = c
        BY <1>0 DEF ProcRec
      <4> QED  BY <4>1, <4>2
    <3>2. CASE Do(p) \/ RecheckRenew(p) \/ RecheckWarm(p)
      <4>1. PICK c : Become(p, [proc[p] EXCEPT !.pc = c])
                     /\ c \in {"join", "recheck", "land", "call"}
        BY <3>2 DEF Do, RecheckRenew, RecheckWarm, Goto, Become
      <4>2. [proc[p] EXCEPT !.pc = c].pc = c
        BY <1>0 DEF ProcRec
      <4> QED  BY <4>1, <4>2
    <3>3. CASE RecheckSeal(p)
      <4>1. PICK d, o : Become(p, [proc[p] EXCEPT !.d = d, !.pc = "call", !.op = o])
        BY <3>3 DEF RecheckSeal
      <4>2. [proc[p] EXCEPT !.d = d, !.pc = "call", !.op = o].pc = "call"
        BY <1>0 DEF ProcRec
      <4> QED  BY <4>1, <4>2
    <3>4. CASE BackProbe(p)
      <4>1. Idle.pc = "idle"
            /\ [Idle EXCEPT !.pc = "resume", !.then = proc[p].then,
                            !.want = proc[p].want, !.at = now].pc = "resume"
        BY DEF Idle
      <4> QED  BY <3>4, <4>1 DEF BackProbe
    <3>5. CASE BackCold(p) \/ BackDirect(p)
      <4>1. Idle.pc = "idle"
        BY DEF Idle
      <4> QED  BY <3>5, <4>1 DEF BackCold, BackDirect
    <3> QED  BY <1>3, <3>1, <3>2, <3>3, <3>4, <3>5 DEF Flight
  <2>3. DenialPending' = DenialPending
    BY <2>1, <2>2, DenialFrame DEF Denial
  <2> QED  BY <1>1, <2>3 DEF Unseen
<1> QED  BY <1>2, <1>3

\* The KMS answers: only the answer of a disabled key is a denial, and the
\* customer sees the first of several that are on their way.
LEMMA KMSCallRefines ==
    ASSUME TypeOK, FetchInv, NEW p \in Procs, KMSCall(p)
    PROVE  [Contract!Next]_(Contract!cvars)
<1> USE DEF kmsVars, tenantVars, cacheVars, retryVars, countVars, useVars
<1>0. proc[p] \in ProcRec /\ FetchOK(proc[p])
  BY DEF TypeOK, FetchInv
<1>1. UNCHANGED <<now, enabled, revokedAt, deniedAt, lastUse, state>>
  BY DEF KMSCall, Call, Acquire, BulkheadTimeout, Reply, Return, PutDEK
<1>2. ~Denial(proc[p])
  BY DEF KMSCall, Call, Acquire, BulkheadTimeout, Reply, PutDEK, Denial
<1>3. ASSUME NEW r, Become(p, r), ~Denial(r)
      PROVE  [Contract!Next]_(Contract!cvars)
  <2>1. DenialPending' = DenialPending
    BY <1>2, <1>3, DenialFrame
  <2> QED  BY <1>1, <2>1, UnseenStutters DEF Unseen
<1>4. CASE Call(p)
  <2>1. \/ Become(p, [proc[p] EXCEPT !.res = "busy", !.at = now, !.pc = "apply"])
        \/ Become(p, [proc[p] EXCEPT !.sentAt = now, !.pc = "sent"])
        \/ \E f : Become(p, [proc[p] EXCEPT !.counted = f, !.pc = "bulkhead"])
    BY <1>4 DEF Call
  <2>2. /\ ~Denial([proc[p] EXCEPT !.res = "busy", !.at = now, !.pc = "apply"])
        /\ ~Denial([proc[p] EXCEPT !.sentAt = now, !.pc = "sent"])
        /\ \A f : ~Denial([proc[p] EXCEPT !.counted = f, !.pc = "bulkhead"])
    BY <1>0 DEF Denial, ProcRec
  <2> QED  BY <1>3, <2>1, <2>2
<1>5. CASE Acquire(p)
  <2>1. ~Denial([proc[p] EXCEPT !.sentAt = now, !.pc = "sent"])
    BY <1>0 DEF Denial, ProcRec
  <2> QED  BY <1>3, <1>5, <2>1 DEF Acquire
<1>6. ASSUME NEW v, NEW a, NEW c, Return(p, v, a, c), v = "deny" => ~enabled
      PROVE  [Contract!Next]_(Contract!cvars)
  <2> DEFINE r == [proc[p] EXCEPT !.res = v, !.sentAt = a, !.at = now,
                                  !.counted = FALSE, !.pc = c]
  <2>1. Become(p, r) /\ r.res = v /\ r.pc = c
    BY <1>0, <1>6 DEF Return, ProcRec
  <2>2. CASE ~Denial(r)
    BY <1>3, <2>1, <2>2
  <2>3. CASE Denial(r)
    <3>1. Denial(proc'[p])
      BY <2>1, <2>3 DEF Become, TypeOK
    <3>2. DenialPending' = TRUE
      BY <3>1 DEF DenialPending, Denial
    <3>3. ~enabled
      BY <1>6, <2>1, <2>3 DEF Denial
    <3> QED  BY <1>1, <3>2, <3>3 DEF Contract!Next, Contract!Deny
  <2> QED  BY <2>2, <2>3
<1>7. CASE BulkheadTimeout(p) \/ Reply(p)
  BY <1>6, <1>7 DEF BulkheadTimeout, Reply
<1>8. CASE PutDEK(p)
  <2>1. proc[p].res = "ok"
    BY <1>0, <1>8 DEF PutDEK, FetchOK
  <2>2. /\ ~Denial([proc[p] EXCEPT !.d = seq + 1, !.pc = "apply"])
        /\ ~Denial([proc[p] EXCEPT !.res = "store", !.pc = "apply"])
    BY <1>0, <2>1 DEF Denial, ProcRec
  <2> QED  BY <1>3, <1>8, <2>2 DEF PutDEK
<1> QED  BY <1>4, <1>5, <1>7, <1>8 DEF KMSCall

\* apply: its Deny row parks, its OK row un-parks, the others do neither.
LEMMA ApplyRefines ==
    ASSUME TypeOK, RevocationInv, NEW p \in Procs, Apply(p)
    PROVE  [Contract!Next]_(Contract!cvars)
<1> USE DEF kmsVars, tenantVars, cacheVars, retryVars, countVars, useVars
<1>0. /\ proc[p] \in ProcRec /\ StampOK(proc[p])
      /\ now \in Nat /\ revokedAt \in Nat /\ deniedAt \in Nat
      /\ proc[p].sentAt \in Nat /\ proc[p].at \in Time
  BY DEF RevocationInv, TypeOK, ProcRec, Time
<1>1. /\ UNCHANGED <<now, enabled, revokedAt, lastUse>>
      /\ Applied(p) /\ proc[p].pc = "apply"
  BY DEF Apply, ApplyNone, ApplyStale, ApplyOK, ApplyDeny, ApplyTransient
<1>2. PICK r : Become(p, r) /\ r.pc # "apply"
  <2> DEFINE c == IF proc[p].key = NoKey THEN "back" ELSE "land"
             r == [proc[p] EXCEPT !.pc = c, !.sentAt = 0, !.at = 0, !.op = "unwrap",
                     !.d = IF proc[p].job \in {"seal", "open"} THEN @ ELSE 0,
                     !.res = IF proc[p].job \in {"seal", "open"} THEN @ ELSE "none"]
  <2>1. Become(p, r)
    BY <1>1 DEF Applied
  <2>2. r.pc # "apply"
    BY <1>0 DEF ProcRec
  <2> QED  BY <2>1, <2>2
<1>3. proc[p].res # "deny" => DenialPending' = DenialPending
  BY <1>2, DenialFrame DEF Denial
<1>4. CASE ApplyNone(p) \/ ApplyStale(p) \/ ApplyTransient(p)
  <2>1. /\ deniedAt' = deniedAt /\ proc[p].res # "deny"
        /\ state' = "REVOKED" <=> state = "REVOKED"
    BY <1>4 DEF ApplyNone, ApplyStale, ApplyTransient
  <2> QED  BY <1>1, <1>3, <2>1, UnseenStutters DEF Unseen
<1>5. CASE ApplyOK(p)
  <2>1. /\ deniedAt' = deniedAt /\ proc[p].res = "ok" /\ state' = "ACTIVE"
        /\ deniedAt <= proc[p].sentAt
    BY <1>0, <1>5 DEF ApplyOK, Stale
  <2>2. enabled \/ deniedAt <= revokedAt
    BY <1>0, <1>1, <2>1 DEF StampOK
  <2>3. CASE state = "REVOKED"
    BY <1>1, <1>3, <2>1, <2>2, <2>3 DEF Contract!Next, Contract!Unpark
  <2>4. CASE state # "REVOKED"
    BY <1>1, <1>3, <2>1, <2>4, UnseenStutters DEF Unseen
  <2> QED  BY <2>3, <2>4
<1>6. CASE ApplyDeny(p)
  <2>1. state' = "REVOKED" /\ deniedAt' <= now
    BY <1>0, <1>6, ReadingTypes DEF ApplyDeny, Time
  <2>2. DenialPending
    BY <1>6 DEF ApplyDeny, DenialPending
  <2>3. DenialPending' \in BOOLEAN
    BY DEF DenialPending
  <2> QED  BY <1>1, <2>1, <2>2, <2>3 DEF Contract!Next, Contract!Park
<1> QED  BY <1>4, <1>5, <1>6 DEF Apply

\* The refinement, for every configuration: whatever goroutines, leases, caches
\* and fetch designs do underneath, the customer sees the contract - plaintext of
\* a disabled key is used for at most one lease, a tenant is parked only on a
\* denial, and it is taken back only if the key was enabled again since.
THEOREM KeyManagerImplements == Spec => ImplementsContract
<1>1. Init => Contract!Init
  <2> SUFFICES ASSUME Init PROVE Contract!Init
    OBVIOUS
  <2>1. DenialPending = FALSE
    BY DEF Init, DenialPending, Idle
  <2> QED  BY <2>1 DEF Init, Contract!Init
<1>2. TypeOK /\ FetchInv /\ RevocationInv /\ [Next]_vars => [Contract!Next]_(Contract!cvars)
  <2> SUFFICES ASSUME TypeOK, FetchInv, RevocationInv, [Next]_vars
               PROVE  [Contract!Next]_(Contract!cvars)
    OBVIOUS
  <2>1. CASE UNCHANGED vars
    <3>1. Unseen
      BY <2>1, DenialSame DEF vars, kmsVars, tenantVars, retryVars, useVars, Unseen
    <3> QED  BY <3>1, UnseenStutters
  <2>2. CASE Environment
    BY <2>2, EnvironmentRefines
  <2>3. CASE \E mode \in Modes : SetFetch(mode)
    BY <2>3, ManagerRefines, UnseenStutters
  <2>4. ASSUME NEW p \in Procs, Encrypt(p) \/ Decrypt(p) \/ Flight(p) \/ KMSCall(p) \/ Apply(p)
        PROVE  [Contract!Next]_(Contract!cvars)
    BY <2>4, ManagerRefines, FlightRefines, UnseenStutters, KMSCallRefines, ApplyRefines
  <2>5. CASE Sweep
    BY <2>5, ManagerRefines, UnseenStutters
  <2>6. CASE Use
    BY <2>6, UseRefines
  <2> QED  BY <2>1, <2>2, <2>3, <2>4, <2>5, <2>6 DEF Next
<1> QED
  BY <1>1, <1>2, TypeCorrect, RevocationInductive, PTL DEF Spec, ImplementsContract, Contract!Spec
=============================================================================
