----------------------------- MODULE KeyManager -----------------------------
(***************************************************************************)
(* The key manager of internal/cmek, seen by one tenant.  A tenant is its  *)
(* own mutex, its own KEK and its own cached DEKs, and a method locks at   *)
(* most one tenant, so one tenant is the whole story of the key state.     *)
(*                                                                         *)
(* Every critical section (t.mu held) is one action.  A goroutine that     *)
(* fetches is a process of Procs that moves through renew / sf.Do / call / *)
(* PutDEK / apply one step at a time, so that revokes, restores, sweeps,   *)
(* other fetches and the clock fall between any two of those steps.        *)
(***************************************************************************)
EXTENDS Lease, FiniteSets

CONSTANTS
    Procs,           \* goroutines that may be inside the fetcher at once
    Modes,           \* the fetch designs SetFetch may choose from
    RevokedReprobe,  \* cfg.RevokedReprobe: period of probes after a deny
    SweepInterval,   \* cfg.SweepInterval
    TenantInflight,  \* cfg.TenantInflight: cap on calls (0 = none)
    IngestWaiters,   \* cfg.IngestWaiters: cap on cold EncryptKeys
    OpenSlack,       \* longest time from Open's check to the sink's stamp
    ClockLag,        \* oldest clock reading a critical section may act on
    MaxDEKs,         \* bound: DEKs a tenant may ever store
    MaxHandles,      \* bound: handles outstanding at once
    AttemptCap       \* attempts are counted up to here (delays are maximal)

AllModes == {"async", "sync", "passthrough", "naive"}

ASSUME ManagerAssumption ==
    /\ Modes \subseteq AllModes /\ Modes # {}
    /\ RevokedReprobe \in Nat /\ SweepInterval \in Nat
    /\ TenantInflight \in Nat /\ IngestWaiters \in Nat \ {0}
    /\ OpenSlack \in Nat /\ OpenSlack <= Early
    /\ ClockLag \in Nat
    /\ MaxDEKs \in Nat /\ MaxHandles \in Nat /\ AttemptCap \in Nat

VARIABLES
    now,          \* the clock every component reads
    enabled,      \* the KEK's flag inside the KMS
    revokedAt,    \* ground truth: when the key was disabled (0: it is enabled)
    state,        \* t.state
    leaseSentAt,  \* t.lease.SentAt
    deks,         \* t.deks: the DEKs the tenant knows
    hot,          \* those of deks whose primitive is cached
    active,       \* t.active (0: none)
    worn,         \* DEKs that reached their message or age bound
    seq,          \* t.seq
    stored,       \* DEKs in the deks table
    pending,      \* t.pending: dek -> due instant (0: not pending)
    attempt,      \* t.attempt
    nextProbeAt,  \* t.nextProbeAt
    deniedAt,     \* t.deniedAt
    probing,      \* t.probing
    waiters,      \* t.waiters
    inflight,     \* t.inflight
    fetch,        \* t.fetch
    proc,         \* the goroutines
    handles,      \* Handles given out and not yet used up
    sealed,       \* DEK ids that accepted messages carry
    lastUse       \* ground truth: when a handle last sealed or delivered
                  \* since the key was disabled (0: not since then)

kmsVars    == <<enabled, revokedAt>>
cacheVars  == <<deks, hot, active, worn, seq, stored>>
retryVars  == <<attempt, nextProbeAt, deniedAt>>
countVars  == <<waiters, inflight>>
useVars    == <<handles, sealed, lastUse>>
tenantVars == <<state, leaseSentAt, cacheVars, pending, retryVars, probing, fetch>>
vars == <<now, kmsVars, tenantVars, countVars, proc, useVars>>

States == {"ACTIVE", "RIDING_THROUGH", "KEY_UNAVAILABLE", "REVOKED"}
DEKs   == 1 .. MaxDEKs
\* The keys of the singleflight group; a warm flight's key is its DEK.
NoKey == 0 - 2
GenerateKey == 0 - 1
ActiveKey == 0
Keys == NoKey .. MaxDEKs

PCs == {"idle", "renew", "do", "join", "recheck", "call", "bulkhead", "sent",
        "put", "apply", "land", "back", "resume", "panicked"}
Jobs == {"none", "probe", "warm", "cold", "seal", "open"}
Results == {"none", "ok", "transient", "deny", "busy", "store"}

ProcRec ==
    [pc : PCs, job : Jobs,
     then : {"none", "encrypt", "decrypt"},  \* what an inline probe goes on to
     want : 0 .. MaxDEKs,                    \* the DEK that DecryptKey is for
     key : Keys, op : {"unwrap", "generate"},
     d : 0 .. MaxDEKs,                       \* the DEK of the call
     counted : BOOLEAN,                      \* the call holds a t.inflight unit
     sentAt : Time, at : Time, res : Results]

Idle == [pc |-> "idle", job |-> "none", then |-> "none", want |-> 0,
         key |-> NoKey, op |-> "unwrap", d |-> 0, counted |-> FALSE,
         sentAt |-> 0, at |-> 0, res |-> "none"]

Handle == [dek : DEKs, until : Time, use : {"seal", "open", "sink"}, at : Time]

TypeOK ==
    /\ now \in Time \ {0} /\ enabled \in BOOLEAN /\ revokedAt \in Time
    /\ state \in States /\ leaseSentAt \in Time
    /\ deks \subseteq DEKs /\ hot \subseteq deks /\ worn \subseteq deks
    /\ active \in deks \cup {0} /\ seq \in 0 .. MaxDEKs /\ stored \subseteq DEKs
    /\ pending \in [DEKs -> Time]
    /\ attempt \in 0 .. AttemptCap /\ nextProbeAt \in Time /\ deniedAt \in Time
    /\ probing \in BOOLEAN /\ fetch \in AllModes
    /\ waiters \in Int /\ inflight \in Int
    /\ proc \in [Procs -> ProcRec]
    /\ handles \subseteq Handle /\ sealed \subseteq DEKs /\ lastUse \in Time

Init ==
    /\ now = 1 /\ enabled = TRUE /\ revokedAt = 0
    /\ state = "ACTIVE" /\ leaseSentAt = 0
    /\ deks = {} /\ hot = {} /\ active = 0 /\ worn = {} /\ seq = 0
    /\ stored = {} /\ pending = [d \in DEKs |-> 0]
    /\ attempt = 0 /\ nextProbeAt = 0 /\ deniedAt = 0
    /\ probing = FALSE /\ waiters = 0 /\ inflight = 0
    /\ fetch \in Modes
    /\ proc = [p \in Procs |-> Idle]
    /\ handles = {} /\ sealed = {} /\ lastUse = 0

-----------------------------------------------------------------------------
(* Predicates and small state changes the handlers share.                  *)

Direct == fetch \in {"passthrough", "naive"}
Cold   == [d \in DEKs |-> 0]         \* pending after a purge

\* Most methods read the clock before they take t.mu: a reading is not newer
\* than now, at most ClockLag old, and not older than the goroutine's last step.
Reading(from) == {t \in from .. now : now <= t + ClockLag /\ t > 0}

\* handle(): the active DEK may seal at instant t.
CanSeal(t) ==
    /\ active # 0 /\ active \in hot /\ ~Direct
    /\ Usable(leaseSentAt, t)
    /\ ~(state = "ACTIVE" /\ active \in worn)

Satisfied(cold, t) ==
    LET fresh == /\ active # 0 /\ active \in hot /\ Usable(leaseSentAt, t)
                 /\ ~(state = "ACTIVE" /\ active \in worn)
    IN  IF cold THEN fresh
                ELSE state = "ACTIVE" /\ fresh /\ ~SoftDue(leaseSentAt, t)

Issue(d, use) ==
    /\ Cardinality(handles) < MaxHandles
    /\ handles' = handles \cup
         {[dek |-> d, until |-> Until(leaseSentAt), use |-> use, at |-> 0]}
    /\ UNCHANGED <<sealed, lastUse>>

Started(job, then, want, d) ==
    [pc |-> IF job = "warm" THEN "do" ELSE "renew", job |-> job,
     then |-> then, want |-> want,
     key |-> IF job = "warm" THEN d ELSE NoKey, op |-> "unwrap",
     d |-> d, counted |-> FALSE, sentAt |-> 0, at |-> 0, res |-> "none"]

Become(p, r) == proc' = [proc EXCEPT ![p] = r]
Goto(p, pc)  == proc' = [proc EXCEPT ![p].pc = pc]

\* Mutant of Spawn: the kicker forgets to set probing.
SpawnUnmarked(ps, job, d) ==
    /\ ~probing /\ UNCHANGED probing
    /\ \E q \in Procs :
          /\ proc[q].pc = "idle"
          /\ proc' = [ps EXCEPT ![q] = Started(job, "none", 0, d)]

\* m.cfg.Spawn of a probe or a warm by a caller that found probing clear;
\* ps is what the caller itself leaves in proc.
Spawn(ps, job, d) ==
    /\ ~probing /\ probing' = TRUE
    /\ \E q \in Procs :
          /\ proc[q].pc = "idle"
          /\ proc' = [ps EXCEPT ![q] = Started(job, "none", 0, d)]

-----------------------------------------------------------------------------
(* The world outside: the clock, the customer's key, wear of the DEK.      *)

\* Plaintext that Open returned reaches the sink within OpenSlack.
Advance ==
    /\ \A h \in handles : h.use = "sink" => now < h.at + OpenSlack
    /\ now' = now + 1
    /\ UNCHANGED <<kmsVars, tenantVars, countVars, proc, useVars>>

\* Fake.flip: flag and ground truth change in one critical section.
Revoke ==
    /\ enabled /\ enabled' = FALSE /\ revokedAt' = now
    /\ UNCHANGED <<now, tenantVars, countVars, proc, useVars>>

Restore ==
    /\ ~enabled /\ enabled' = TRUE /\ revokedAt' = 0 /\ lastUse' = 0
    /\ UNCHANGED <<now, tenantVars, countVars, proc, handles, sealed>>

\* d.msgs or the DEK's age reaches its bound (exhausted() turns true).  The
\* last DEK that MaxDEKs allows lasts.
Wear ==
    /\ active # 0 /\ seq < MaxDEKs
    /\ worn' = worn \cup {active}
    /\ UNCHANGED <<now, kmsVars, state, leaseSentAt, deks, hot, active, seq,
                   stored, pending, retryVars, probing, fetch, countVars, proc,
                   useVars>>

-----------------------------------------------------------------------------
(* The Manager's operations.  An operation that would only answer an error *)
(* and change nothing (a parked tenant, a full waiter list) is a stutter.  *)

SetFetch(mode) ==
    /\ mode # fetch /\ fetch' = mode
    /\ LET off == Direct' /\ ~Direct      \* entering a mode without the cache
       IN  /\ hot' = IF off THEN {} ELSE hot
           /\ pending' = IF off THEN Cold ELSE pending
    /\ UNCHANGED <<now, kmsVars, state, leaseSentAt, deks, active, worn, seq,
                   stored, retryVars, probing, countVars, proc, useVars>>

\* The goroutine p may run the part of EncryptKey that follows the inline
\* probe of sync fetch: a fresh call that needs no probe, or one back from it.
SyncProbeDue(t) ==
    fetch = "sync" /\ ~probing /\ state # "ACTIVE" /\ t >= nextProbeAt

AtEncrypt(p, t) ==
    \/ proc[p].pc = "idle" /\ ~SyncProbeDue(t)
    \/ proc[p].pc = "resume" /\ proc[p].then = "encrypt"

\* An inline operation of sync fetch: probing is set, the caller runs it.
Inline(p, job, then, want) ==
    /\ proc[p].pc = "idle" /\ ~probing /\ probing' = TRUE
    /\ Become(p, Started(job, then, want, want))
    /\ UNCHANGED <<now, kmsVars, state, leaseSentAt, cacheVars, pending,
                   retryVars, fetch, countVars, useVars>>

EncryptProbe(p) ==
    \E t \in Reading(1) :
        SyncProbeDue(t) /\ Inline(p, "probe", "encrypt", 0)

\* A resumed call that finds the tenant parked, or no room, answers an error.
EncryptRefused(p) ==
    /\ proc[p].pc = "resume" /\ proc[p].then = "encrypt"
    /\ \E t \in Reading(proc[p].at) :
          \/ state \in {"REVOKED", "KEY_UNAVAILABLE"}
          \/ ~Direct /\ ~CanSeal(t) /\ waiters >= IngestWaiters
    /\ Become(p, Idle)
    /\ UNCHANGED <<now, kmsVars, tenantVars, countVars, useVars>>

EncryptHot(p) ==
    /\ state \in {"ACTIVE", "RIDING_THROUGH"}
    /\ \E t \in Reading(proc[p].at) :
        /\ AtEncrypt(p, t) /\ CanSeal(t)
        /\ Issue(active, "seal")
        /\ IF /\ state = "ACTIVE" /\ SoftDue(leaseSentAt, t)
              /\ ~probing /\ fetch # "sync"
           THEN Spawn([proc EXCEPT ![p] = Idle], "probe", 0)
           ELSE Become(p, Idle) /\ UNCHANGED probing
    /\ UNCHANGED <<now, kmsVars, state, leaseSentAt, cacheVars, pending,
                   retryVars, fetch, countVars>>

EncryptCold(p) ==
    /\ state \in {"ACTIVE", "RIDING_THROUGH"} /\ ~Direct
    /\ \E t \in Reading(proc[p].at) : AtEncrypt(p, t) /\ ~CanSeal(t)
    /\ waiters < IngestWaiters /\ waiters' = waiters + 1
    /\ Become(p, Started("cold", "none", 0, 0))
    /\ UNCHANGED <<now, kmsVars, tenantVars, inflight, useVars>>

EncryptDirect(p) ==
    /\ state \in {"ACTIVE", "RIDING_THROUGH"} /\ Direct
    /\ \E t \in Reading(proc[p].at) : AtEncrypt(p, t)
    /\ Become(p, Started("seal", "none", 0, 0))
    /\ UNCHANGED <<now, kmsVars, tenantVars, countVars, useVars>>

\* The inline work DecryptKey of DEK d does first in sync fetch, at instant t.
DecryptJob(d, t) ==
    IF fetch # "sync" \/ probing THEN "none"
    ELSE IF IF state = "ACTIVE" THEN SoftDue(leaseSentAt, t) ELSE t >= nextProbeAt
         THEN "probe"
    ELSE IF /\ state \in {"ACTIVE", "RIDING_THROUGH"}
            /\ Usable(leaseSentAt, t) /\ d \notin hot
         THEN "warm"
    ELSE "none"

AtDecrypt(p, d, t) ==
    \/ proc[p].pc = "idle" /\ DecryptJob(d, t) = "none"
    \/ proc[p].pc = "resume" /\ proc[p].then = "decrypt" /\ proc[p].want = d

DecryptInline(p, d) ==
    /\ d \in sealed \cap deks
    /\ \E t \in Reading(1) : /\ DecryptJob(d, t) # "none"
                             /\ Inline(p, DecryptJob(d, t), "decrypt", d)

\* ErrKeyRevoked, ErrLeaseExpired or ErrDEKCold after the inline work.
DecryptRefused(p) ==
    /\ proc[p].pc = "resume" /\ proc[p].then = "decrypt"
    /\ \E t \in Reading(proc[p].at) :
          \/ state \in {"REVOKED", "KEY_UNAVAILABLE"}
          \/ ~Direct /\ (~Usable(leaseSentAt, t) \/ proc[p].want \notin hot)
    /\ Become(p, Idle)
    /\ UNCHANGED <<now, kmsVars, tenantVars, countVars, useVars>>

DecryptHot(p, d) ==
    /\ d \in sealed \cap deks
    /\ state \in {"ACTIVE", "RIDING_THROUGH"} /\ ~Direct /\ d \in hot
    /\ \E t \in Reading(proc[p].at) : AtDecrypt(p, d, t) /\ Usable(leaseSentAt, t)
    /\ Issue(d, "open") /\ Become(p, Idle)
    /\ UNCHANGED <<now, kmsVars, tenantVars, countVars>>

DecryptDirect(p, d) ==
    /\ d \in sealed \cap deks
    /\ state \in {"ACTIVE", "RIDING_THROUGH"} /\ Direct
    /\ \E t \in Reading(proc[p].at) : AtDecrypt(p, d, t)
    /\ Become(p, [Started("open", "none", 0, d) EXCEPT !.pc = "call"])
    /\ UNCHANGED <<now, kmsVars, tenantVars, countVars, useVars>>

\* Hot's lazy renewal of an ACTIVE tenant (its answer changes nothing).
HotKick ==
    /\ ~Direct /\ fetch # "sync" /\ state = "ACTIVE"
    /\ \E t \in Reading(1) :
          ~Usable(leaseSentAt, t) \/ SoftDue(leaseSentAt, t)
    /\ Spawn(proc, "probe", 0)
    /\ UNCHANGED <<now, kmsVars, state, leaseSentAt, cacheVars, pending,
                   retryVars, fetch, countVars, useVars>>

\* A worker whose DecryptKey found the DEK cold asks for it, however late.
Warm(d) ==
    /\ d \in sealed \cap deks /\ ~Direct /\ pending[d] = 0
    /\ \E t \in Reading(1) :
        /\ pending' = [pending EXCEPT ![d] = t]
        /\ IF /\ ~probing /\ state \in {"ACTIVE", "RIDING_THROUGH"}
              /\ Usable(leaseSentAt, t)
           THEN Spawn(proc, "warm", d)
           ELSE UNCHANGED <<probing, proc>>
    /\ UNCHANGED <<now, kmsVars, state, leaseSentAt, cacheVars, retryVars,
                   fetch, countVars, useVars>>

\* One sweep over the tenant: lapse, ageing of non-active DEKs, due work.
Tick ==
    \E t \in Reading(1) :
    LET lapsed == leaseSentAt # 0 /\ ~Usable(leaseSentAt, t) /\ hot # {}
        kept   == IF lapsed THEN {} ELSE hot
        st     == IF lapsed /\ state = "RIDING_THROUGH"
                  THEN "KEY_UNAVAILABLE" ELSE state
        pend   == IF lapsed THEN Cold ELSE pending
        probeDue == /\ st # "ACTIVE" /\ ~probing /\ t >= nextProbeAt
                    /\ fetch # "sync"
        warmDue  == IF /\ st \in {"ACTIVE", "RIDING_THROUGH"} /\ ~probing
                       /\ Usable(leaseSentAt, t)
                    THEN {d \in deks : pend[d] # 0 /\ t >= pend[d]} ELSE {}
    IN  /\ \E aged \in SUBSET (kept \ {active}) : hot' = kept \ aged
        /\ state' = st /\ pending' = pend
        /\ \/ probeDue /\ Spawn(proc, "probe", 0)
           \/ /\ ~probeDue
              /\ \E d \in warmDue : Spawn(proc, "warm", d)
           \/ ~probeDue /\ warmDue = {} /\ UNCHANGED <<probing, proc>>
        /\ UNCHANGED <<now, kmsVars, leaseSentAt, deks, active, worn, seq,
                       stored, retryVars, fetch, countVars, useVars>>

-----------------------------------------------------------------------------
(* The fetcher.                                                            *)

\* renew's first critical section, or needGen of passThroughEncrypt.
Renew(p) ==
    /\ proc[p].pc = "renew"
    /\ LET gen == \/ active = 0
                  \/ /\ proc[p].job # "probe" /\ state = "ACTIVE"
                     /\ active \in worn
       IN  Become(p, [proc[p] EXCEPT
             !.d = active,
             !.op = IF gen THEN "generate" ELSE "unwrap",
             !.key = IF gen THEN GenerateKey
                     ELSE IF proc[p].job = "seal" THEN NoKey ELSE ActiveKey,
             !.pc = IF proc[p].job = "seal" /\ ~gen THEN "call" ELSE "do"])
    /\ UNCHANGED <<now, kmsVars, tenantVars, countVars, useVars>>

\* p runs the function of the singleflight key; the key is dropped only by
\* Land, after the function has returned.
InFlight(p) ==
    /\ proc[p].pc \in {"recheck", "call", "bulkhead", "sent", "put", "apply",
                       "land"}
    /\ proc[p].key # NoKey

Do(p) ==
    /\ proc[p].pc = "do"
    /\ Goto(p, IF \E q \in Procs : InFlight(q) /\ proc[q].key = proc[p].key
               THEN "join" ELSE "recheck")
    /\ UNCHANGED <<now, kmsVars, tenantVars, countVars, useVars>>

\* Is the need behind the flight still there?  renew asks satisfied(), ...
RecheckRenew(p) ==
    /\ proc[p].pc = "recheck" /\ proc[p].job \in {"probe", "cold"}
    /\ \E t \in Reading(1) :
          Goto(p, IF Satisfied(proc[p].job = "cold", t) THEN "land" ELSE "call")
    /\ UNCHANGED <<now, kmsVars, tenantVars, countVars, useVars>>

\* ... warm asks whether the DEK is hot by now, ...
RecheckWarm(p) ==
    /\ proc[p].pc = "recheck" /\ proc[p].job = "warm"
    /\ IF proc[p].d \in hot
       THEN /\ Goto(p, "land")
            /\ pending' = [pending EXCEPT ![proc[p].d] = 0]
       ELSE Goto(p, "call") /\ UNCHANGED pending
    /\ UNCHANGED <<now, kmsVars, state, leaseSentAt, cacheVars, retryVars,
                   probing, fetch, countVars, useVars>>

\* ... and passThroughEncrypt asks needGen again.
RecheckSeal(p) ==
    /\ proc[p].pc = "recheck" /\ proc[p].job = "seal"
    /\ LET still == active = 0 \/ (state = "ACTIVE" /\ active \in worn)
       IN  Become(p, [proc[p] EXCEPT
             !.d = active, !.pc = "call",
             !.op = IF still THEN "generate" ELSE "unwrap"])
    /\ UNCHANGED <<now, kmsVars, tenantVars, countVars, useVars>>

\* call(): the tenant cap, then the provider bulkhead, then the KMS.
Call(p) ==
    /\ proc[p].pc = "call"
    /\ IF fetch # "naive" /\ TenantInflight > 0 /\ inflight >= TenantInflight
       THEN /\ Become(p, [proc[p] EXCEPT !.res = "busy", !.at = now,
                                         !.pc = "apply"])
            /\ UNCHANGED inflight
       ELSE LET counted == fetch # "naive" /\ TenantInflight > 0
            IN  /\ inflight' = IF counted THEN inflight + 1 ELSE inflight
                /\ Become(p, IF fetch = "naive"
                             THEN [proc[p] EXCEPT !.sentAt = now, !.pc = "sent"]
                             ELSE [proc[p] EXCEPT !.counted = counted,
                                                  !.pc = "bulkhead"])
    /\ UNCHANGED <<now, kmsVars, tenantVars, waiters, useVars>>

Acquire(p) ==
    /\ proc[p].pc = "bulkhead"
    /\ Become(p, [proc[p] EXCEPT !.sentAt = now, !.pc = "sent"])
    /\ UNCHANGED <<now, kmsVars, tenantVars, countVars, useVars>>

\* Mutant of GiveBack: the deferred decrement is forgotten.
KeepUnit(p) == inflight

\* call()'s deferred function gives the t.inflight unit back.
GiveBack(p) == IF proc[p].counted THEN inflight - 1 ELSE inflight

Return(p, res, sentAt, pc) ==
    /\ Become(p, [proc[p] EXCEPT !.res = res, !.sentAt = sentAt, !.at = now,
                                 !.counted = FALSE, !.pc = pc])
    /\ inflight' = GiveBack(p)
    /\ UNCHANGED <<now, kmsVars, tenantVars, waiters, useVars>>

\* The wait for the provider's semaphore used up KMSTimeout.
BulkheadTimeout(p) ==
    proc[p].pc = "bulkhead" /\ Return(p, "transient", now, "apply")

\* Mutant of Reply: an outage is classified as a denial.
ReplyMisread(p) ==
    /\ proc[p].pc = "sent"
    /\ \/ Return(p, "deny", proc[p].sentAt, "apply")
       \/ enabled /\ Return(p, "ok", proc[p].sentAt,
                            IF proc[p].op = "generate" THEN "put" ELSE "apply")

\* The KMS reads its enabled flag and answers; a fault or KMSTimeout may
\* instead leave the question unanswered.
Reply(p) ==
    /\ proc[p].pc = "sent"
    /\ \/ Return(p, "transient", proc[p].sentAt, "apply")
       \/ ~enabled /\ Return(p, "deny", proc[p].sentAt, "apply")
       \/ enabled /\ Return(p, "ok", proc[p].sentAt,
                            IF proc[p].op = "generate" THEN "put" ELSE "apply")

\* Mutant of PutDEK: the error of the store is dropped, the DEK is used anyway.
PutDEKUnchecked(p) ==
    /\ proc[p].pc = "put" /\ seq < MaxDEKs /\ seq' = seq + 1
    /\ \/ stored' = stored \cup {seq + 1}
       \/ UNCHANGED stored
    /\ Become(p, [proc[p] EXCEPT !.d = seq + 1, !.pc = "apply"])
    /\ UNCHANGED <<now, kmsVars, state, leaseSentAt, deks, hot, active, worn,
                   pending, retryVars, probing, fetch, countVars, useVars>>

\* generate: number the new DEK and persist it; the store may fail.
PutDEK(p) ==
    /\ proc[p].pc = "put"
    /\ seq' = IF seq < MaxDEKs THEN seq + 1 ELSE seq
    /\ \/ /\ seq < MaxDEKs /\ stored' = stored \cup {seq + 1}
          /\ Become(p, [proc[p] EXCEPT !.d = seq + 1, !.pc = "apply"])
       \/ /\ Become(p, [proc[p] EXCEPT !.res = "store", !.pc = "apply"])
          /\ UNCHANGED stored
    /\ UNCHANGED <<now, kmsVars, state, leaseSentAt, deks, hot, active, worn,
                   pending, retryVars, probing, fetch, countVars, useVars>>

\* The function of the flight returns, or the direct call does.  Only a
\* pass-through caller looks at the call's DEK and result again.
Applied(p) ==
    LET direct == proc[p].job \in {"seal", "open"}
    IN  Become(p, [proc[p] EXCEPT
          !.pc = IF proc[p].key = NoKey THEN "back" ELSE "land",
          !.sentAt = 0, !.at = 0, !.op = "unwrap",
          !.d = IF direct THEN @ ELSE 0,
          !.res = IF direct THEN @ ELSE "none"])

\* apply, row errBusy / errStore: only a warm's retry is rescheduled.
ApplyNone(p) ==
    /\ proc[p].pc = "apply" /\ proc[p].res \in {"busy", "store"}
    /\ IF proc[p].job = "warm"
       THEN \E t \in Reading(proc[p].at) :
               pending' = [pending EXCEPT ![proc[p].d] = t + SweepInterval]
       ELSE UNCHANGED pending
    /\ Applied(p)
    /\ UNCHANGED <<now, kmsVars, state, leaseSentAt, cacheVars, retryVars,
                   probing, fetch, countVars, useVars>>

\* Mutant of Stale: an OK is never stale.
NeverStale(p) == FALSE

\* The call was sent before the latest deny was applied.
Stale(p) == proc[p].sentAt < deniedAt

\* apply, row OK, sent before the latest deny: audited and ignored.
ApplyStale(p) ==
    /\ proc[p].pc = "apply" /\ proc[p].res = "ok"
    /\ Stale(p)
    /\ Applied(p)
    /\ UNCHANGED <<now, kmsVars, tenantVars, countVars, useVars>>

\* Mutant of Cached: a mode without the cache fills it all the same.
CachedAlways(d) == hot \cup {d}

\* The primitive is kept, except in the modes without the cache.
Cached(d) == IF Direct THEN hot ELSE hot \cup {d}

\* Mutant of Registered: a generated DEK is made active but not recorded.
NotRegistered(p) == deks

\* t.deks after an OK: a generated DEK is added.
Registered(p) ==
    IF proc[p].op = "generate" THEN deks \cup {proc[p].d} ELSE deks

\* apply, row OK.
ApplyOK(p) ==
    LET d == proc[p].d
    IN  /\ proc[p].pc = "apply" /\ proc[p].res = "ok"
        /\ ~Stale(p)
        /\ leaseSentAt' = Renewed(leaseSentAt, proc[p].sentAt)
        /\ deks' = Registered(p)
        /\ active' = IF proc[p].op = "generate" THEN d ELSE active
        /\ hot' = Cached(d)
        /\ attempt' = 0
        /\ pending' = [pending EXCEPT ![d] = 0]
        /\ state' = "ACTIVE"
        /\ Applied(p)
        /\ UNCHANGED <<now, kmsVars, worn, seq, stored, nextProbeAt, deniedAt,
                       probing, fetch, countVars, useVars>>

\* apply, row Deny: purge, drop the lease, park.
ApplyDeny(p) ==
    /\ proc[p].pc = "apply" /\ proc[p].res = "deny"
    /\ \E t \in Reading(proc[p].at) :
          /\ deniedAt' = t
          /\ nextProbeAt' = t + RevokedReprobe
    /\ hot' = {} /\ pending' = Cold
    /\ leaseSentAt' = 0 /\ state' = "REVOKED"
    /\ Applied(p)
    /\ UNCHANGED <<now, kmsVars, deks, active, worn, seq, stored, attempt,
                   probing, fetch, countVars, useVars>>

\* apply, row Transient: ride through on a usable lease, else fail closed.
ApplyTransient(p) ==
    /\ proc[p].pc = "apply" /\ proc[p].res = "transient"
    /\ attempt' = IF attempt < AttemptCap THEN attempt + 1 ELSE attempt
    /\ \E t \in Reading(proc[p].at), b \in Backoff(attempt') :
        LET usable == Usable(leaseSentAt, t) /\ ~Direct
            park   == ~usable /\ state \in {"ACTIVE", "RIDING_THROUGH"}
        IN  /\ nextProbeAt' = t + b
            /\ state' = IF park THEN "KEY_UNAVAILABLE"
                        ELSE IF state = "ACTIVE" THEN "RIDING_THROUGH"
                        ELSE state
            /\ hot' = IF park THEN {} ELSE hot
            /\ pending' = IF park THEN Cold
                          ELSE [d \in DEKs |-> IF pending[d] = 0 THEN 0
                                               ELSE nextProbeAt']
    /\ Applied(p)
    /\ UNCHANGED <<now, kmsVars, leaseSentAt, deks, active, worn, seq, stored,
                   deniedAt, probing, fetch, countVars, useVars>>

\* sf.Do ends: the key is dropped and every joiner gets the leader's value.
\* A pass-through joiner expects a (dek, result) pair: the value of a renew
\* flight is nil and its type assertion v.(generated) panics.
Land(p) ==
    /\ proc[p].pc = "land"
    /\ proc' = [q \in Procs |->
         IF q = p THEN [proc[p] EXCEPT !.pc = "back"]
         ELSE IF ~(proc[q].pc = "join" /\ proc[q].key = proc[p].key)
         THEN proc[q]
         ELSE IF proc[q].job = "seal" /\ proc[p].job # "seal"
         THEN [proc[q] EXCEPT !.pc = "panicked"]
         ELSE [proc[q] EXCEPT !.pc = "back", !.d = proc[p].d,
                              !.res = proc[p].res, !.op = "unwrap"]]
    /\ UNCHANGED <<now, kmsVars, tenantVars, countVars, useVars>>

\* probe and warm clear probing in the kicker's goroutine, after the flight.
BackProbe(p) ==
    /\ proc[p].pc = "back" /\ proc[p].job \in {"probe", "warm"}
    /\ probing' = FALSE
    /\ Become(p, IF proc[p].then = "none" THEN Idle
                 ELSE [Idle EXCEPT !.pc = "resume", !.then = proc[p].then,
                                   !.want = proc[p].want, !.at = now])
    /\ UNCHANGED <<now, kmsVars, state, leaseSentAt, cacheVars, pending,
                   retryVars, fetch, countVars, useVars>>

\* The rest of EncryptKey's cold path.
BackCold(p) ==
    /\ proc[p].pc = "back" /\ proc[p].job = "cold"
    /\ waiters' = waiters - 1
    /\ \E t \in Reading(proc[p].at) :
          IF state # "REVOKED" /\ CanSeal(t) THEN Issue(active, "seal")
                                             ELSE UNCHANGED useVars
    /\ Become(p, Idle)
    /\ UNCHANGED <<now, kmsVars, tenantVars, inflight>>

\* passThroughHandle: the caller may use the primitive of its own call.
BackDirect(p) ==
    /\ proc[p].pc = "back" /\ proc[p].job \in {"seal", "open"}
    /\ \E t \in Reading(proc[p].at) :
          IF proc[p].res = "ok" /\ state # "REVOKED" /\ Usable(leaseSentAt, t)
          THEN Issue(proc[p].d, proc[p].job) ELSE UNCHANGED useVars
    /\ Become(p, Idle)
    /\ UNCHANGED <<now, kmsVars, tenantVars, countVars>>

-----------------------------------------------------------------------------
(* The callers use the handles they hold, whatever the Manager did since.  *)

\* Seal, then the row is inserted: a message under h.dek is accepted.
Seal(h) ==
    /\ h.use = "seal" /\ now < h.until
    /\ handles' = handles \ {h} /\ sealed' = sealed \cup {h.dek}
    /\ lastUse' = IF enabled THEN 0 ELSE now
    /\ UNCHANGED <<now, kmsVars, tenantVars, countVars, proc>>

\* Open returns the plaintext ...
Open(h) ==
    /\ h.use = "open" /\ now < h.until
    /\ handles' = (handles \ {h}) \cup {[h EXCEPT !.use = "sink", !.at = now]}
    /\ UNCHANGED <<now, kmsVars, tenantVars, countVars, proc, sealed, lastUse>>

\* ... and the sink stamps the delivery.
Deliver(h) ==
    /\ h.use = "sink"
    /\ handles' = handles \ {h} /\ lastUse' = IF enabled THEN 0 ELSE now
    /\ UNCHANGED <<now, kmsVars, tenantVars, countVars, proc, sealed>>

\* Seal and Open refuse a handle at or past its ValidUntil (ErrLeaseExpired).
Refuse(h) ==
    /\ h.use \in {"seal", "open"} /\ ~(now < h.until)
    /\ handles' = handles \ {h}
    /\ UNCHANGED <<now, kmsVars, tenantVars, countVars, proc, sealed, lastUse>>

-----------------------------------------------------------------------------
Environment == Advance \/ Revoke \/ Restore \/ Wear

Encrypt(p) ==
    \/ EncryptProbe(p) \/ EncryptRefused(p) \/ EncryptHot(p) \/ EncryptCold(p)
    \/ EncryptDirect(p)

Decrypt(p) ==
    \/ DecryptRefused(p)
    \/ \E d \in DEKs : DecryptInline(p, d) \/ DecryptHot(p, d) \/ DecryptDirect(p, d)

Sweep == Tick \/ HotKick \/ \E d \in DEKs : Warm(d)

Flight(p) ==
    \/ Renew(p) \/ Do(p) \/ RecheckRenew(p) \/ RecheckWarm(p) \/ RecheckSeal(p)
    \/ Land(p) \/ BackProbe(p) \/ BackCold(p) \/ BackDirect(p)

KMSCall(p) ==
    \/ Call(p) \/ Acquire(p) \/ BulkheadTimeout(p) \/ Reply(p) \/ PutDEK(p)

Apply(p) ==
    \/ ApplyNone(p) \/ ApplyStale(p) \/ ApplyOK(p) \/ ApplyDeny(p)
    \/ ApplyTransient(p)

Use == \E h \in handles : Seal(h) \/ Open(h) \/ Deliver(h) \/ Refuse(h)

Next ==
    \/ Environment
    \/ \E mode \in Modes : SetFetch(mode)
    \/ \E p \in Procs : Encrypt(p) \/ Decrypt(p) \/ Flight(p) \/ KMSCall(p) \/ Apply(p)
    \/ Sweep
    \/ Use

Spec == Init /\ [][Next]_vars

-----------------------------------------------------------------------------
(* What the code promises.                                                 *)

\* S3, bounded revocation: once the key is disabled nothing is sealed or
\* delivered later than one lease after the revoke, although handles given out
\* before the deny stay in callers' hands (lease.go Until, envelope.go Open).
BoundedRevocation == ~enabled => lastUse <= revokedAt + TTL

\* A deny sticks: a tenant that is not REVOKED while its key is disabled has
\* not yet seen this revoke; no answer sent before the latest deny un-parks it
\* (fetcher.go apply, "stale ok ignored").
DenySticks == ~enabled /\ state # "REVOKED" => deniedAt <= revokedAt

\* Fail closed: a parked tenant, or one whose mode has no cache, holds no
\* plaintext DEK, and a cached DEK always has a lease that can expire it.
ParkedIsCold ==
    hot # {} => /\ state \in {"ACTIVE", "RIDING_THROUGH"}
                /\ ~Direct
                /\ leaseSentAt # 0

\* Every accepted message can be opened again: its DEK is one the tenant knows
\* and its wrapped form was persisted before it was used (generate: PutDEK
\* before apply; DecryptKey answers ErrPoison for an unknown DEK).
NoOrphanMessage == sealed \subseteq (deks \cap stored)

\* probing is set exactly while one goroutine runs a probe or a warm: it is
\* never stuck and there are never two (fetcher.go probe).
Probers == {p \in Procs : proc[p].job \in {"probe", "warm"}}
OneProbe == Cardinality(Probers) = IF probing THEN 1 ELSE 0

\* The caps are counted exactly: a unit is never leaked or returned twice.
ColdCallers == {p \in Procs : proc[p].job = "cold"}
Calling == {p \in Procs : proc[p].counted}
CountersExact ==
    /\ waiters = Cardinality(ColdCallers) /\ waiters <= IngestWaiters
    /\ inflight = Cardinality(Calling)
    /\ TenantInflight > 0 => inflight <= TenantInflight

\* Concurrent first events of a pass-through tenant share one generate: "the
\* joiners use that call's primitive" (manager.go passThroughEncrypt), whoever
\* leads the flight they join.
JoinersShareTheCall == \A p \in Procs : proc[p].pc # "panicked"
=============================================================================
