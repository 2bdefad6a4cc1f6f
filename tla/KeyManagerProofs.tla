-------------------------- MODULE KeyManagerProofs --------------------------
(***************************************************************************)
(* Proofs about KeyManager, for every number of goroutines, every choice   *)
(* of durations and every set of fetch modes.                              *)
(***************************************************************************)
EXTENDS KeyManager, TLAPS

-----------------------------------------------------------------------------
(* Facts about the building blocks.                                        *)

\* The lease arithmetic stays within the instants.
LEMMA LeaseTypes ==
    ASSUME NEW s \in Time, NEW t \in Time
    PROVE  /\ Until(s) \in Time
           /\ Renewed(s, t) \in Time
  BY LeaseAssumption DEF Time, Until, Renewed

LEMMA BackoffType == \A n : Backoff(n) \subseteq Nat
  BY BackoffAssumption DEF Backoff

\* A clock reading is an instant that is not in the future.
LEMMA ReadingTypes ==
    ASSUME now \in Time, NEW from \in Time, NEW t \in Reading(from)
    PROVE  t \in Time \ {0} /\ from <= t /\ t <= now
  BY DEF Reading, Time

LEMMA IdleType == Idle \in ProcRec /\ NoKey \in Keys /\ GenerateKey \in Keys
                  /\ ActiveKey \in Keys /\ 0 \in 0 .. MaxDEKs
                  /\ \A d \in 0 .. MaxDEKs : d \in Keys
  BY ManagerAssumption DEF Idle, ProcRec, PCs, Jobs, Results, Keys, NoKey,
     GenerateKey, ActiveKey, Time

LEMMA StartedType ==
    ASSUME NEW job \in Jobs, NEW then \in {"none", "encrypt", "decrypt"},
           NEW want \in 0 .. MaxDEKs, NEW d \in 0 .. MaxDEKs
    PROVE  Started(job, then, want, d) \in ProcRec
  BY IdleType DEF Started, ProcRec, Time, Results, PCs

\* The updates of a goroutine's record that the actions make.
LEMMA UpdateTypes ==
    ASSUME NEW r \in ProcRec
    PROVE  /\ \A c \in PCs : [r EXCEPT !.pc = c] \in ProcRec
           /\ \A d \in 0 .. MaxDEKs, o \in {"unwrap", "generate"}, k \in Keys, c \in PCs :
                [r EXCEPT !.d = d, !.op = o, !.key = k, !.pc = c] \in ProcRec
           /\ \A d \in 0 .. MaxDEKs, o \in {"unwrap", "generate"}, c \in PCs :
                [r EXCEPT !.d = d, !.pc = c, !.op = o] \in ProcRec
           /\ \A v \in Results, a \in Time, c \in PCs :
                [r EXCEPT !.res = v, !.at = a, !.pc = c] \in ProcRec
           /\ \A a \in Time, c \in PCs :
                [r EXCEPT !.sentAt = a, !.pc = c] \in ProcRec
           /\ \A f \in BOOLEAN, c \in PCs :
                [r EXCEPT !.counted = f, !.pc = c] \in ProcRec
           /\ \A v \in Results, a \in Time, b \in Time, c \in PCs :
                [r EXCEPT !.res = v, !.sentAt = a, !.at = b, !.counted = FALSE,
                          !.pc = c] \in ProcRec
           /\ \A d \in 0 .. MaxDEKs, c \in PCs : [r EXCEPT !.d = d, !.pc = c] \in ProcRec
           /\ \A v \in Results, c \in PCs : [r EXCEPT !.res = v, !.pc = c] \in ProcRec
           /\ \A d \in 0 .. MaxDEKs, v \in Results, c \in PCs :
                [r EXCEPT !.pc = c, !.sentAt = 0, !.at = 0, !.op = "unwrap",
                          !.d = d, !.res = v] \in ProcRec
           /\ \A d \in 0 .. MaxDEKs, v \in Results, c \in PCs :
                [r EXCEPT !.pc = c, !.d = d, !.res = v, !.op = "unwrap"] \in ProcRec
  BY DEF ProcRec, Time

-----------------------------------------------------------------------------
(***************************************************************************)
(* What a call in progress carries.  An unwrap is of a DEK the tenant      *)
(* knows; a generated DEK is in the store before apply sees it, and so is  *)
(* whatever a pass-through caller is given.                                *)
(***************************************************************************)
Fetching == {"do", "join", "recheck", "call", "bulkhead", "sent", "put", "apply"}

FetchOK(r) ==
    /\ r.pc \in (Fetching \ {"put", "apply"}) \cup {"renew"} => r.res = "none"
    /\ r.pc \in Fetching /\ r.op = "unwrap" => r.d \in deks
    /\ r.pc = "put" => r.op = "generate" /\ r.res = "ok"
    /\ r.pc = "apply" /\ r.op = "generate" /\ r.res = "ok" => r.d \in stored
    /\ r.pc \in {"land", "back"} /\ r.res = "ok" => r.d \in stored

FetchInv ==
    /\ deks \subseteq stored
    /\ \A p \in Procs : FetchOK(proc[p])

(* Type correctness, one step per action.                                  *)

LEMMA InitType == Init => TypeOK
  <1> SUFFICES ASSUME Init PROVE TypeOK
    OBVIOUS
  <1>1. proc \in [Procs -> ProcRec]
    BY IdleType DEF Init
  <1>2. fetch \in AllModes
    BY ManagerAssumption DEF Init
  <1>3. attempt \in 0 .. AttemptCap /\ seq \in 0 .. MaxDEKs
    BY ManagerAssumption DEF Init
  <1>4. pending \in [DEKs -> Time]
    BY DEF Init, Time
  <1>5. enabled \in BOOLEAN /\ probing \in BOOLEAN
    BY DEF Init
  <1>6. now \in Time \ {0} /\ revokedAt \in Time /\ leaseSentAt \in Time
        /\ nextProbeAt \in Time /\ deniedAt \in Time /\ lastUse \in Time
        /\ waiters \in Int /\ inflight \in Int
    BY DEF Init, Time
  <1>7. deks \subseteq DEKs /\ hot \subseteq deks /\ worn \subseteq deks
        /\ active \in deks \cup {0} /\ stored \subseteq DEKs
        /\ handles \subseteq Handle /\ sealed \subseteq DEKs /\ state \in States
    BY DEF Init, States
  <1> QED
    BY <1>1, <1>2, <1>3, <1>4, <1>5, <1>6, <1>7 DEF TypeOK

LEMMA EnvironmentType == TypeOK /\ Environment => TypeOK'
  <1>1. TypeOK /\ Advance => TypeOK'
    BY DEF TypeOK, Advance, Time, kmsVars, tenantVars, cacheVars,
       retryVars, countVars, useVars
  <1>2. TypeOK /\ Revoke => TypeOK'
    BY DEF TypeOK, Revoke, Time, kmsVars, tenantVars, cacheVars,
       retryVars, countVars, useVars
  <1>3. TypeOK /\ Restore => TypeOK'
    BY DEF TypeOK, Restore, Time, kmsVars, tenantVars, cacheVars,
       retryVars, countVars, useVars
  <1>4. TypeOK /\ Wear => TypeOK'
    BY DEF TypeOK, Wear, kmsVars, tenantVars, cacheVars,
       retryVars, countVars, useVars
  <1> QED
    BY <1>1, <1>2, <1>3, <1>4 DEF Environment

LEMMA SetFetchType ==
    ASSUME NEW mode \in Modes, TypeOK, SetFetch(mode)
    PROVE  TypeOK'
  <1>1. fetch' \in AllModes
    BY ManagerAssumption DEF SetFetch
  <1>2. pending' \in [DEKs -> Time]
    BY DEF SetFetch, TypeOK, Cold, Time
  <1>3. hot' \subseteq deks
    BY DEF SetFetch, TypeOK
  <1> QED
    BY <1>1, <1>2, <1>3
  DEF TypeOK, SetFetch, kmsVars, tenantVars, cacheVars, retryVars, countVars,
      useVars

LEMMA IssueType ==
    ASSUME TypeOK, NEW d \in DEKs, NEW use \in {"seal", "open"}, Issue(d, use)
    PROVE  handles' \subseteq Handle /\ sealed' = sealed /\ lastUse' = lastUse
  <1> DEFINE h == [dek |-> d, until |-> Until(leaseSentAt), use |-> use, at |-> 0]
  <1>1. h \in Handle
    BY LeaseTypes DEF TypeOK, Handle, Time
  <1> QED
    BY <1>1 DEF TypeOK, Issue

LEMMA SpawnType ==
    ASSUME TypeOK, NEW ps \in [Procs -> ProcRec], NEW job \in {"probe", "warm"},
           NEW d \in 0 .. MaxDEKs, Spawn(ps, job, d)
    PROVE  proc' \in [Procs -> ProcRec] /\ probing' \in BOOLEAN
  BY StartedType, IdleType DEF TypeOK, Spawn, Jobs

LEMMA EncryptType ==
    ASSUME NEW p \in Procs, TypeOK, Encrypt(p)
    PROVE  TypeOK'
  <1> USE IdleType DEF TypeOK, kmsVars, tenantVars, cacheVars, retryVars,
      countVars, useVars, Become
  <1>1. CASE EncryptProbe(p)
    BY <1>1, StartedType DEF EncryptProbe, Inline, Jobs
  <1>2. CASE EncryptRefused(p)
    BY <1>2 DEF EncryptRefused
  <1>3. CASE EncryptHot(p)
    <2>1. active \in DEKs
      BY <1>3 DEF EncryptHot, CanSeal
    <2>2. [proc EXCEPT ![p] = Idle] \in [Procs -> ProcRec]
      OBVIOUS
    <2>3. handles' \subseteq Handle /\ sealed' = sealed /\ lastUse' = lastUse
      BY <1>3, <2>1, IssueType DEF EncryptHot
    <2>4. proc' \in [Procs -> ProcRec] /\ probing' \in BOOLEAN
      BY <1>3, <2>2, SpawnType DEF EncryptHot
    <2> QED
      BY <1>3, <2>3, <2>4 DEF EncryptHot
  <1>4. CASE EncryptCold(p)
    BY <1>4, StartedType DEF EncryptCold, Jobs
  <1>5. CASE EncryptDirect(p)
    BY <1>5, StartedType DEF EncryptDirect, Jobs
  <1> QED
    BY <1>1, <1>2, <1>3, <1>4, <1>5 DEF Encrypt

LEMMA DecryptType ==
    ASSUME NEW p \in Procs, TypeOK, Decrypt(p)
    PROVE  TypeOK'
  <1> USE IdleType DEF TypeOK, kmsVars, tenantVars, cacheVars, retryVars,
      countVars, useVars, Become
  <1>1. CASE DecryptRefused(p)
    BY <1>1 DEF DecryptRefused
  <1>2. ASSUME NEW d \in DEKs, DecryptInline(p, d) PROVE TypeOK'
    <2>1. PICK t \in Reading(1) : Inline(p, DecryptJob(d, t), "decrypt", d)
                                /\ DecryptJob(d, t) # "none"
      BY <1>2 DEF DecryptInline
    <2>2. DecryptJob(d, t) \in Jobs /\ d \in 0 .. MaxDEKs
      BY ManagerAssumption DEF DecryptJob, Jobs, DEKs
    <2>3. Started(DecryptJob(d, t), "decrypt", d, d) \in ProcRec
      BY <2>2, StartedType
    <2> QED
      BY <2>1, <2>3 DEF Inline
  <1>3. ASSUME NEW d \in DEKs, DecryptHot(p, d) PROVE TypeOK'
    <2>1. handles' \subseteq Handle /\ sealed' = sealed /\ lastUse' = lastUse
      BY <1>3, IssueType DEF DecryptHot
    <2> QED
      BY <1>3, <2>1 DEF DecryptHot
  <1>4. ASSUME NEW d \in DEKs, DecryptDirect(p, d) PROVE TypeOK'
    <2>1. Started("open", "none", 0, d) \in ProcRec
      BY StartedType DEF Jobs, DEKs
    <2>2. [Started("open", "none", 0, d) EXCEPT !.pc = "call"] \in ProcRec
      BY <2>1, UpdateTypes DEF PCs
    <2> QED
      BY <1>4, <2>2 DEF DecryptDirect
  <1> QED
    BY <1>1, <1>2, <1>3, <1>4 DEF Decrypt

LEMMA SweepType ==
    ASSUME TypeOK, Sweep
    PROVE  TypeOK'
  <1> USE DEF kmsVars, tenantVars, cacheVars, retryVars, countVars, useVars
  <1>1. CASE HotKick
    <2>1. proc' \in [Procs -> ProcRec] /\ probing' \in BOOLEAN
      BY <1>1, SpawnType, IdleType DEF HotKick, TypeOK
    <2> QED
      BY <1>1, <2>1 DEF HotKick, TypeOK
  <1>2. ASSUME NEW d \in DEKs, Warm(d) PROVE TypeOK'
    <2>1. proc' \in [Procs -> ProcRec] /\ probing' \in BOOLEAN
      BY <1>2, SpawnType DEF Warm, TypeOK, DEKs
    <2>2. pending' \in [DEKs -> Time]
      BY <1>2, ReadingTypes DEF Warm, TypeOK, Time
    <2> QED
      BY <1>2, <2>1, <2>2 DEF Warm, TypeOK
  <1>3. CASE Tick
    <2>1. proc' \in [Procs -> ProcRec] /\ probing' \in BOOLEAN
      BY <1>3, SpawnType, IdleType DEF Tick, TypeOK, DEKs
    <2>2. pending' \in [DEKs -> Time]
      BY <1>3 DEF Tick, TypeOK, Time, Cold
    <2>3. hot' \subseteq deks /\ state' \in States
      BY <1>3 DEF Tick, TypeOK, States
    <2> QED
      BY <1>3, <2>1, <2>2, <2>3 DEF Tick, TypeOK
  <1> QED
    BY <1>1, <1>2, <1>3 DEF Sweep

LEMMA FlightType ==
    ASSUME NEW p \in Procs, TypeOK, FetchInv, Flight(p)
    PROVE  TypeOK'
  <1> USE IdleType DEF TypeOK, kmsVars, tenantVars, cacheVars, retryVars,
      countVars, useVars, Become, Goto
  <1>1. CASE Renew(p)
    <2>1. active \in 0 .. MaxDEKs
      BY DEF DEKs
    <2>2. PICK c \in PCs, o \in {"unwrap", "generate"}, k \in Keys :
             proc' = [proc EXCEPT ![p] =
                        [proc[p] EXCEPT !.d = active, !.op = o, !.key = k, !.pc = c]]
      BY <1>1 DEF Renew, PCs
    <2>3. [proc[p] EXCEPT !.d = active, !.op = o, !.key = k, !.pc = c] \in ProcRec
      BY <2>1, UpdateTypes
    <2> QED
      BY <1>1, <2>2, <2>3 DEF Renew
  <1>2. CASE Do(p)
    BY <1>2 DEF Do, ProcRec, PCs
  <1>3. CASE RecheckRenew(p)
    BY <1>3 DEF RecheckRenew, ProcRec, PCs
  <1>4. CASE RecheckWarm(p)
    <2>1. proc' \in [Procs -> ProcRec]
      BY <1>4 DEF RecheckWarm, ProcRec, PCs
    <2>2. pending' \in [DEKs -> Time]
      BY <1>4 DEF RecheckWarm, Time
    <2> QED
      BY <1>4, <2>1, <2>2 DEF RecheckWarm
  <1>5. CASE RecheckSeal(p)
    <2>1. active \in 0 .. MaxDEKs
      BY DEF DEKs
    <2>2. PICK o \in {"unwrap", "generate"} :
             proc' = [proc EXCEPT ![p] =
                        [proc[p] EXCEPT !.d = active, !.pc = "call", !.op = o]]
      BY <1>5 DEF RecheckSeal
    <2>3. [proc[p] EXCEPT !.d = active, !.pc = "call", !.op = o] \in ProcRec
      BY <2>1, UpdateTypes DEF PCs
    <2> QED
      BY <1>5, <2>2, <2>3 DEF RecheckSeal
  <1>6. CASE Land(p)
    <2>0. \A q \in Procs : proc[q] \in ProcRec /\ proc[q].res \in Results
                             /\ proc[q].d \in 0 .. MaxDEKs
      BY DEF ProcRec
    <2>a. {"back", "panicked"} \subseteq PCs /\ 0 \in Time
      BY DEF PCs, Time
    <2>1. proc' \in [Procs -> ProcRec]
      <3>1. \A q \in Procs :
              /\ [proc[q] EXCEPT !.pc = "back"] \in ProcRec
              /\ [proc[q] EXCEPT !.pc = "panicked"] \in ProcRec
              /\ [proc[q] EXCEPT !.pc = "back", !.d = proc[p].d,
                                 !.res = proc[p].res, !.op = "unwrap"] \in ProcRec
        BY <2>0, <2>a, UpdateTypes
      <3> QED
        BY <1>6, <3>1 DEF Land
    <2> QED
      BY <1>6, <2>1 DEF Land
  <1>7. CASE BackProbe(p)
    <2>1. proc' \in [Procs -> ProcRec]
      BY <1>7 DEF BackProbe, ProcRec, PCs, Time
    <2> QED
      BY <1>7, <2>1 DEF BackProbe
  <1>8. CASE BackCold(p)
    <2>1. handles' \subseteq Handle /\ sealed' = sealed /\ lastUse' = lastUse
      BY <1>8, IssueType DEF BackCold, CanSeal
    <2> QED
      BY <1>8, <2>1 DEF BackCold
  <1>9. CASE BackDirect(p)
    <2>1. proc[p].res = "ok" => proc[p].d \in DEKs
      BY <1>9 DEF BackDirect, FetchInv, FetchOK
    <2>2. handles' \subseteq Handle /\ sealed' = sealed /\ lastUse' = lastUse
      BY <1>9, <2>1, IssueType DEF BackDirect
    <2> QED
      BY <1>9, <2>2 DEF BackDirect
  <1> QED
    BY <1>1, <1>2, <1>3, <1>4, <1>5, <1>6, <1>7, <1>8, <1>9 DEF Flight

LEMMA ReturnType ==
    ASSUME NEW p \in Procs, TypeOK, NEW v \in Results, NEW a \in Time,
           NEW c \in PCs, Return(p, v, a, c)
    PROVE  TypeOK'
  <1>1. [proc[p] EXCEPT !.res = v, !.sentAt = a, !.at = now,
                        !.counted = FALSE, !.pc = c] \in ProcRec
    BY UpdateTypes DEF TypeOK
  <1>2. inflight' \in Int
    BY DEF Return, GiveBack, TypeOK
  <1> QED
    BY <1>1, <1>2 DEF Return, Become, TypeOK, kmsVars, tenantVars, cacheVars,
       retryVars, useVars

LEMMA KMSCallType ==
    ASSUME NEW p \in Procs, TypeOK, KMSCall(p)
    PROVE  TypeOK'
  <1> USE DEF kmsVars, tenantVars, cacheVars, retryVars, countVars, useVars, Become
  <1>1. proc[p] \in ProcRec /\ proc[p].sentAt \in Time /\ now \in Time
    BY DEF TypeOK, ProcRec
  <1>2. CASE Call(p)
    <2>1. /\ [proc[p] EXCEPT !.res = "busy", !.at = now, !.pc = "apply"] \in ProcRec
          /\ [proc[p] EXCEPT !.sentAt = now, !.pc = "sent"] \in ProcRec
          /\ \A f \in BOOLEAN :
                [proc[p] EXCEPT !.counted = f, !.pc = "bulkhead"] \in ProcRec
      BY <1>1, UpdateTypes DEF PCs, Results
    <2>2. PICK r \in ProcRec : proc' = [proc EXCEPT ![p] = r]
      <3>1. CASE fetch = "naive"
        BY <1>2, <2>1, <3>1 DEF Call
      <3>2. CASE fetch # "naive" /\ TenantInflight > 0
        <4>1. \/ proc' = [proc EXCEPT ![p] =
                    [proc[p] EXCEPT !.res = "busy", !.at = now, !.pc = "apply"]]
              \/ proc' = [proc EXCEPT ![p] =
                    [proc[p] EXCEPT !.counted = TRUE, !.pc = "bulkhead"]]
          BY <1>2, <3>2 DEF Call
        <4> QED
          BY <2>1, <4>1
      <3>3. CASE fetch # "naive" /\ ~(TenantInflight > 0)
        <4>1. proc' = [proc EXCEPT ![p] =
                    [proc[p] EXCEPT !.counted = FALSE, !.pc = "bulkhead"]]
          BY <1>2, <3>3 DEF Call
        <4> QED
          BY <2>1, <4>1
      <3> QED
        BY <3>1, <3>2, <3>3
    <2>3. proc' \in [Procs -> ProcRec] /\ inflight' \in Int
      BY <1>2, <2>2 DEF Call, TypeOK
    <2> QED
      BY <1>2, <2>3 DEF Call, TypeOK
  <1>3. CASE Acquire(p)
    <2>1. [proc[p] EXCEPT !.sentAt = now, !.pc = "sent"] \in ProcRec
      BY <1>1, UpdateTypes DEF PCs
    <2> QED
      BY <1>3, <2>1 DEF Acquire, TypeOK
  <1>4. CASE BulkheadTimeout(p)
    BY <1>1, <1>4, ReturnType DEF BulkheadTimeout, Results, PCs
  <1>5. CASE Reply(p)
    BY <1>1, <1>5, ReturnType DEF Reply, Results, PCs
  <1>6. CASE PutDEK(p)
    <2>1. seq' \in 0 .. MaxDEKs /\ (seq < MaxDEKs => seq + 1 \in DEKs /\ seq + 1 \in 0 .. MaxDEKs)
      BY <1>6, ManagerAssumption DEF PutDEK, TypeOK, DEKs
    <2>2. /\ seq < MaxDEKs => [proc[p] EXCEPT !.d = seq + 1, !.pc = "apply"] \in ProcRec
          /\ [proc[p] EXCEPT !.res = "store", !.pc = "apply"] \in ProcRec
      BY <1>1, <2>1, UpdateTypes DEF PCs, Results
    <2> QED
      BY <1>6, <2>1, <2>2 DEF PutDEK, TypeOK
  <1> QED
    BY <1>2, <1>3, <1>4, <1>5, <1>6 DEF KMSCall

LEMMA AppliedType ==
    ASSUME NEW p \in Procs, TypeOK, Applied(p)
    PROVE  proc' \in [Procs -> ProcRec]
  <1>1. proc[p] \in ProcRec /\ proc[p].d \in 0 .. MaxDEKs /\ proc[p].res \in Results
    BY DEF TypeOK, ProcRec
  <1> DEFINE c == IF proc[p].key = NoKey THEN "back" ELSE "land"
             d == IF proc[p].job \in {"seal", "open"} THEN proc[p].d ELSE 0
             v == IF proc[p].job \in {"seal", "open"} THEN proc[p].res ELSE "none"
  <1>2. c \in PCs /\ d \in 0 .. MaxDEKs /\ v \in Results
    BY <1>1, IdleType DEF PCs, Results
  <1>3. proc' = [proc EXCEPT ![p] =
             [proc[p] EXCEPT !.pc = c, !.sentAt = 0, !.at = 0, !.op = "unwrap",
                             !.d = d, !.res = v]]
    BY <1>1 DEF Applied, Become, ProcRec
  <1> HIDE DEF c, d, v
  <1>4. [proc[p] EXCEPT !.pc = c, !.sentAt = 0, !.at = 0, !.op = "unwrap",
                        !.d = d, !.res = v] \in ProcRec
    BY <1>1, <1>2, UpdateTypes
  <1> QED
    BY <1>3, <1>4 DEF TypeOK

LEMMA ApplyType ==
    ASSUME NEW p \in Procs, TypeOK, FetchInv, Apply(p)
    PROVE  TypeOK'
  <1> USE DEF kmsVars, tenantVars, cacheVars, retryVars, countVars, useVars
  <1>1. proc' \in [Procs -> ProcRec]
    BY AppliedType DEF Apply, ApplyNone, ApplyStale, ApplyOK, ApplyDeny, ApplyTransient
  <1>2. proc[p].sentAt \in Time /\ proc[p].at \in Time /\ now \in Time
    BY DEF TypeOK, ProcRec
  <1>3. CASE ApplyNone(p)
    <2>1. pending' \in [DEKs -> Time]
      BY <1>2, <1>3, ReadingTypes, ManagerAssumption DEF ApplyNone, TypeOK, Time
    <2> QED
      BY <1>1, <1>3, <2>1 DEF ApplyNone, TypeOK
  <1>4. CASE ApplyStale(p)
    BY <1>1, <1>4 DEF ApplyStale, TypeOK
  <1>5. CASE ApplyOK(p)
    <2>1. proc[p].d \in DEKs /\ (proc[p].op # "generate" => proc[p].d \in deks)
      BY <1>5 DEF ApplyOK, FetchInv, FetchOK, Fetching, TypeOK, ProcRec
    <2>2. deks' \subseteq DEKs /\ deks \subseteq deks' /\ proc[p].d \in deks'
      BY <1>5, <2>1 DEF ApplyOK, Registered, TypeOK
    <2>3. hot' \subseteq deks' /\ active' \in deks' \cup {0} /\ worn' \subseteq deks'
      BY <1>5, <2>2 DEF ApplyOK, Cached, TypeOK
    <2>4. pending' \in [DEKs -> Time] /\ leaseSentAt' \in Time /\ state' \in States
      BY <1>2, <1>5, LeaseTypes DEF ApplyOK, TypeOK, Time, States
    <2>5. attempt' \in 0 .. AttemptCap
      BY <1>5, ManagerAssumption DEF ApplyOK
    <2> QED
      BY <1>1, <1>5, <2>2, <2>3, <2>4, <2>5 DEF ApplyOK, TypeOK
  <1>6. CASE ApplyDeny(p)
    <2>1. deniedAt' \in Time /\ nextProbeAt' \in Time
      BY <1>2, <1>6, ReadingTypes, ManagerAssumption DEF ApplyDeny, Time
    <2>2. pending' \in [DEKs -> Time] /\ leaseSentAt' \in Time
          /\ state' \in States /\ hot' \subseteq deks
      BY <1>6 DEF ApplyDeny, Cold, Time, States
    <2> QED
      BY <1>1, <1>6, <2>1, <2>2 DEF ApplyDeny, TypeOK
  <1>7. CASE ApplyTransient(p)
    <2>1. attempt' \in 0 .. AttemptCap
      BY <1>7, ManagerAssumption DEF ApplyTransient, TypeOK
    <2>2. nextProbeAt' \in Time
      BY <1>2, <1>7, ReadingTypes, BackoffType DEF ApplyTransient, Time
    <2>3. pending' \in [DEKs -> Time]
      BY <1>7, <2>2 DEF ApplyTransient, Cold, TypeOK, Time
    <2>4. state' \in States /\ hot' \subseteq deks
      BY <1>7 DEF ApplyTransient, TypeOK, States
    <2> QED
      BY <1>1, <1>7, <2>1, <2>2, <2>3, <2>4 DEF ApplyTransient, TypeOK
  <1> QED
    BY <1>3, <1>4, <1>5, <1>6, <1>7 DEF Apply

LEMMA UseType ==
    ASSUME TypeOK, Use
    PROVE  TypeOK'
  <1> PICK h \in handles : Seal(h) \/ Open(h) \/ Deliver(h) \/ Refuse(h)
    BY DEF Use
  <1>1. h \in Handle
    BY DEF TypeOK
  <1>2. [h EXCEPT !.use = "sink", !.at = now] \in Handle
    BY <1>1 DEF Handle, TypeOK
  <1>3. handles' \subseteq Handle
    BY <1>2 DEF Seal, Open, Deliver, Refuse, TypeOK
  <1>4. sealed' \subseteq DEKs
    BY <1>1 DEF Seal, Open, Deliver, Refuse, TypeOK, Handle
  <1>5. lastUse' \in Time
    BY DEF Seal, Open, Deliver, Refuse, TypeOK, Time
  <1> QED
    BY <1>3, <1>4, <1>5 DEF Seal, Open, Deliver, Refuse, TypeOK, kmsVars, tenantVars, cacheVars,
       retryVars, countVars, useVars

-----------------------------------------------------------------------------
(* FetchInv is preserved.                                                  *)

\* The common case: nothing is installed or stored, one goroutine moves.
LEMMA FetchFrame ==
    ASSUME TypeOK, FetchInv, UNCHANGED <<deks, stored>>,
           NEW p \in Procs, NEW r, FetchOK(r), Become(p, r)
    PROVE  FetchInv'
  BY DEF TypeOK, FetchInv, FetchOK, Become

LEMMA FetchSame ==
    ASSUME FetchInv, UNCHANGED <<deks, stored, proc>>
    PROVE  FetchInv'
  BY DEF FetchInv, FetchOK

LEMMA StartedFetch ==
    FetchOK(Idle) /\ \A job, then, want, d :
        (job = "warm" => d \in deks) => FetchOK(Started(job, then, want, d))
  BY DEF FetchOK, Idle, Started, Fetching

LEMMA SpawnFetch ==
    ASSUME TypeOK, FetchInv, UNCHANGED <<deks, stored>>, NEW ps,
           ps = proc \/ \E p \in Procs : ps = [proc EXCEPT ![p] = Idle],
           NEW job, NEW d, job = "warm" => d \in deks, Spawn(ps, job, d)
    PROVE  FetchInv'
  <1>1. ps \in [Procs -> ProcRec] /\ \A q \in Procs : FetchOK(ps[q])
    BY IdleType, StartedFetch DEF FetchInv, TypeOK
  <1>2. FetchOK(Started(job, "none", 0, d))
    BY StartedFetch
  <1> QED
    BY <1>1, <1>2 DEF Spawn, FetchInv, FetchOK

LEMMA FetchStep ==
    ASSUME TypeOK, FetchInv, Next
    PROVE  FetchInv'
  <1> USE DEF kmsVars, tenantVars, cacheVars, retryVars, countVars, useVars
  <1>1. CASE Environment
    BY <1>1, FetchSame DEF Environment, Advance, Revoke, Restore, Wear
  <1>2. CASE \E mode \in Modes : SetFetch(mode)
    BY <1>2, FetchSame DEF SetFetch
  <1>3. ASSUME NEW p \in Procs, Encrypt(p) PROVE FetchInv'
    <2>1. CASE EncryptHot(p)
      <3>1. UNCHANGED <<deks, stored>>
        BY <2>1 DEF EncryptHot
      <3>2. CASE Become(p, Idle)
        BY <3>1, <3>2, FetchFrame, StartedFetch
      <3>3. CASE Spawn([proc EXCEPT ![p] = Idle], "probe", 0)
        BY <3>1, <3>3, SpawnFetch
      <3> QED
        BY <2>1, <3>2, <3>3 DEF EncryptHot
    <2>2. CASE EncryptProbe(p) \/ EncryptRefused(p) \/ EncryptCold(p) \/ EncryptDirect(p)
      <3>1. UNCHANGED <<deks, stored>>
        BY <2>2 DEF EncryptProbe, Inline, EncryptRefused, EncryptCold, EncryptDirect
      <3>2. \/ Become(p, Idle) \/ Become(p, Started("probe", "encrypt", 0, 0))
            \/ Become(p, Started("cold", "none", 0, 0))
            \/ Become(p, Started("seal", "none", 0, 0))
        BY <2>2 DEF EncryptProbe, Inline, EncryptRefused, EncryptCold, EncryptDirect
      <3>3. FetchOK(Idle) /\ FetchOK(Started("probe", "encrypt", 0, 0))
            /\ FetchOK(Started("cold", "none", 0, 0))
            /\ FetchOK(Started("seal", "none", 0, 0))
        BY StartedFetch
      <3> QED
        BY <3>1, <3>2, <3>3, FetchFrame
    <2> QED
      BY <1>3, <2>1, <2>2 DEF Encrypt
  <1>4. ASSUME NEW p \in Procs, Decrypt(p) PROVE FetchInv'
    <2>1. CASE DecryptRefused(p)
      BY <2>1, FetchFrame, StartedFetch DEF DecryptRefused
    <2>2. ASSUME NEW d \in DEKs, DecryptInline(p, d) PROVE FetchInv'
      <3>1. PICK t \in Reading(1) : Inline(p, DecryptJob(d, t), "decrypt", d)
        BY <2>2 DEF DecryptInline
      <3>2. d \in deks /\ UNCHANGED <<deks, stored>>
        BY <2>2, <3>1 DEF DecryptInline, Inline
      <3>3. FetchOK(Started(DecryptJob(d, t), "decrypt", d, d))
        BY <3>2, StartedFetch
      <3> QED
        BY <3>1, <3>2, <3>3, FetchFrame DEF Inline
    <2>3. ASSUME NEW d \in DEKs, DecryptHot(p, d) PROVE FetchInv'
      BY <2>3, FetchFrame, StartedFetch DEF DecryptHot
    <2>4. ASSUME NEW d \in DEKs, DecryptDirect(p, d) PROVE FetchInv'
      <3>1. d \in deks /\ UNCHANGED <<deks, stored>>
        BY <2>4 DEF DecryptDirect
      <3>2. FetchOK([Started("open", "none", 0, d) EXCEPT !.pc = "call"])
        BY <3>1 DEF FetchOK, Started
      <3> QED
        BY <2>4, <3>1, <3>2, FetchFrame DEF DecryptDirect
    <2> QED
      BY <1>4, <2>1, <2>2, <2>3, <2>4 DEF Decrypt
  <1>5. CASE Sweep
    <2>1. CASE HotKick
      BY <2>1, SpawnFetch DEF HotKick
    <2>2. ASSUME NEW d \in DEKs, Warm(d) PROVE FetchInv'
      <3>1. d \in deks /\ UNCHANGED <<deks, stored>>
        BY <2>2 DEF Warm
      <3> QED
        BY <2>2, <3>1, SpawnFetch, FetchSame DEF Warm
    <2>3. CASE Tick
      <3>1. UNCHANGED <<deks, stored>>
        BY <2>3 DEF Tick
      <3>2. \/ Spawn(proc, "probe", 0) \/ UNCHANGED proc
            \/ \E d \in deks : Spawn(proc, "warm", d)
        BY <2>3 DEF Tick
      <3> QED
        BY <3>1, <3>2, SpawnFetch, FetchSame
    <2> QED
      BY <1>5, <2>1, <2>2, <2>3 DEF Sweep
  <1>6. ASSUME NEW p \in Procs, Flight(p) PROVE FetchInv'
    <2>0. proc[p] \in ProcRec /\ FetchOK(proc[p]) /\ deks \subseteq stored
      BY DEF TypeOK, FetchInv
    <2>1. CASE Renew(p)
      <3>1. UNCHANGED <<deks, stored>>
        BY <2>1 DEF Renew
      <3>2. PICK c \in {"do", "call"}, o \in {"unwrap", "generate"},
                 k \in {NoKey, GenerateKey, ActiveKey} :
              /\ Become(p, [proc[p] EXCEPT !.d = active, !.op = o, !.key = k, !.pc = c])
              /\ o = "unwrap" => active # 0
        BY <2>1 DEF Renew
      <3>3. o = "unwrap" => active \in deks
        BY <3>2 DEF TypeOK
      <3>4. proc[p].pc = "renew"
        BY <2>1 DEF Renew
      <3>5. FetchOK([proc[p] EXCEPT !.d = active, !.op = o, !.key = k, !.pc = c])
        BY <2>0, <3>3, <3>4 DEF FetchOK, ProcRec, Fetching
      <3> QED
        BY <3>1, <3>2, <3>5, FetchFrame
    <2>2. CASE Do(p) \/ RecheckRenew(p) \/ RecheckWarm(p)
      <3>1. UNCHANGED <<deks, stored>>
        BY <2>2 DEF Do, RecheckRenew, RecheckWarm
      <3>2. PICK c \in {"join", "recheck", "land", "call"} :
               Become(p, [proc[p] EXCEPT !.pc = c]) /\ proc[p].pc \in {"do", "recheck"}
        BY <2>0, <2>2 DEF Do, RecheckRenew, RecheckWarm, Goto, Become, TypeOK
      <3>3. FetchOK([proc[p] EXCEPT !.pc = c])
        BY <2>0, <3>2 DEF FetchOK, ProcRec, Fetching
      <3> QED
        BY <3>1, <3>2, <3>3, FetchFrame
    <2>3. CASE RecheckSeal(p)
      <3>1. UNCHANGED <<deks, stored>>
        BY <2>3 DEF RecheckSeal
      <3>2. PICK o \in {"unwrap", "generate"} :
              /\ Become(p, [proc[p] EXCEPT !.d = active, !.pc = "call", !.op = o])
              /\ o = "unwrap" => active # 0
              /\ proc[p].pc = "recheck"
        BY <2>3 DEF RecheckSeal
      <3>3. o = "unwrap" => active \in deks
        BY <3>2 DEF TypeOK
      <3>4. FetchOK([proc[p] EXCEPT !.d = active, !.pc = "call", !.op = o])
        BY <2>0, <3>2, <3>3 DEF FetchOK, ProcRec, Fetching
      <3> QED
        BY <3>1, <3>2, <3>4, FetchFrame
    <2>4. CASE Land(p)
      <3>1. UNCHANGED <<deks, stored>> /\ proc[p].pc = "land"
        BY <2>4 DEF Land
      <3>2. ASSUME NEW q \in Procs PROVE FetchOK(proc'[q])
        <4>1. proc[q] \in ProcRec /\ FetchOK(proc[q])
          BY DEF TypeOK, FetchInv
        <4> QED
          BY <2>0, <2>4, <3>1, <4>1 DEF Land, FetchOK, ProcRec, Fetching
      <3> QED
        BY <2>0, <3>1, <3>2 DEF FetchInv, FetchOK
    <2>5. CASE BackProbe(p)
      <3>1. UNCHANGED <<deks, stored>>
        BY <2>5 DEF BackProbe
      <3> DEFINE back == [Idle EXCEPT !.pc = "resume", !.then = proc[p].then,
                                      !.want = proc[p].want, !.at = now]
      <3>a. back.pc = "resume"
        BY DEF Idle
      <3>2. PICK r : Become(p, r) /\ (r = Idle \/ r.pc = "resume")
        BY <2>5, <3>a DEF BackProbe
      <3>3. FetchOK(r)
        BY <3>2, StartedFetch DEF FetchOK, Fetching
      <3> QED
        BY <3>1, <3>2, <3>3, FetchFrame
    <2>6. CASE BackCold(p) \/ BackDirect(p)
      BY <2>6, FetchFrame, StartedFetch DEF BackCold, BackDirect
    <2> QED
      BY <1>6, <2>1, <2>2, <2>3, <2>4, <2>5, <2>6 DEF Flight
  <1>7. ASSUME NEW p \in Procs, KMSCall(p) PROVE FetchInv'
    <2>0. proc[p] \in ProcRec /\ FetchOK(proc[p]) /\ deks \subseteq stored
      BY DEF TypeOK, FetchInv
    <2>1. CASE Call(p)
      <3>1. UNCHANGED <<deks, stored>> /\ proc[p].pc = "call"
        BY <2>1 DEF Call
      <3>2. \/ Become(p, [proc[p] EXCEPT !.res = "busy", !.at = now, !.pc = "apply"])
            \/ Become(p, [proc[p] EXCEPT !.sentAt = now, !.pc = "sent"])
            \/ \E f : Become(p, [proc[p] EXCEPT !.counted = f, !.pc = "bulkhead"])
        BY <2>1 DEF Call
      <3>3. /\ FetchOK([proc[p] EXCEPT !.res = "busy", !.at = now, !.pc = "apply"])
            /\ FetchOK([proc[p] EXCEPT !.sentAt = now, !.pc = "sent"])
            /\ \A f : FetchOK([proc[p] EXCEPT !.counted = f, !.pc = "bulkhead"])
        BY <2>0, <3>1 DEF FetchOK, ProcRec, Fetching
      <3> QED
        BY <3>1, <3>2, <3>3, FetchFrame
    <2>2. CASE Acquire(p)
      <3>1. FetchOK([proc[p] EXCEPT !.sentAt = now, !.pc = "sent"])
        BY <2>0, <2>2 DEF Acquire, FetchOK, ProcRec, Fetching
      <3> QED
        BY <2>2, <3>1, FetchFrame DEF Acquire
    <2>3. CASE BulkheadTimeout(p) \/ Reply(p)
      <3>1. PICK v, a, c :
              /\ Return(p, v, a, c)
              /\ c \in {"apply", "put"}
              /\ c = "put" => proc[p].op = "generate" /\ v = "ok"
              /\ v = "ok" /\ c = "apply" => proc[p].op # "generate"
              /\ proc[p].pc \in {"bulkhead", "sent"}
        BY <2>3 DEF BulkheadTimeout, Reply
      <3>2. FetchOK([proc[p] EXCEPT !.res = v, !.sentAt = a, !.at = now,
                                    !.counted = FALSE, !.pc = c])
        BY <2>0, <3>1 DEF FetchOK, ProcRec, Fetching
      <3> QED
        BY <3>1, <3>2, FetchFrame DEF Return
    <2>4. CASE PutDEK(p)
      <3>1. deks' = deks /\ stored \subseteq stored' /\ proc[p].op = "generate"
        BY <2>0, <2>4 DEF PutDEK, FetchOK
      <3> DEFINE new == [proc[p] EXCEPT !.d = seq + 1, !.pc = "apply"]
                 failed == [proc[p] EXCEPT !.res = "store", !.pc = "apply"]
      <3>a. /\ new.pc = "apply" /\ new.op = "generate" /\ new.d = seq + 1
            /\ failed.pc = "apply" /\ failed.op = "generate" /\ failed.res = "store"
        BY <2>0, <3>1 DEF ProcRec
      <3>2. PICK r : /\ Become(p, r) /\ r.pc = "apply" /\ r.op = "generate"
                     /\ r.res = "ok" => r.d \in stored'
        <4>0. \/ Become(p, new) /\ stored' = stored \cup {seq + 1}
              \/ Become(p, failed)
          BY <2>4 DEF PutDEK
        <4> HIDE DEF new, failed
        <4>1. CASE Become(p, new) /\ stored' = stored \cup {seq + 1}
          BY <3>a, <4>1
        <4>2. CASE Become(p, failed)
          BY <3>a, <4>2
        <4> QED
          BY <4>0, <4>1, <4>2
      <3> QED
        BY <3>1, <3>2 DEF FetchInv, FetchOK, Become, TypeOK, Fetching
    <2> QED
      BY <1>7, <2>1, <2>2, <2>3, <2>4 DEF KMSCall
  <1>8. ASSUME NEW p \in Procs, Apply(p) PROVE FetchInv'
    <2>0. proc[p] \in ProcRec /\ FetchOK(proc[p]) /\ proc[p].pc = "apply"
      BY <1>8 DEF TypeOK, FetchInv, Apply, ApplyNone, ApplyStale, ApplyOK, ApplyDeny,
         ApplyTransient
    <2>1. stored' = stored /\ deks \subseteq deks' /\ deks' \subseteq stored
      BY <1>8, <2>0 DEF FetchInv, FetchOK, Apply, ApplyNone, ApplyStale, ApplyOK,
         Registered, ApplyDeny, ApplyTransient, ProcRec
    <2>2. PICK r : /\ Become(p, r) /\ r.pc \in {"land", "back"}
                   /\ r.res = "ok" => proc[p].res = "ok" /\ r.d = proc[p].d
      <3> DEFINE r == [proc[p] EXCEPT
            !.pc = IF proc[p].key = NoKey THEN "back" ELSE "land",
            !.sentAt = 0, !.at = 0, !.op = "unwrap",
            !.d = IF proc[p].job \in {"seal", "open"} THEN @ ELSE 0,
            !.res = IF proc[p].job \in {"seal", "open"} THEN @ ELSE "none"]
      <3>1. Become(p, r)
        BY <1>8 DEF Apply, ApplyNone, ApplyStale, ApplyOK, ApplyDeny, ApplyTransient,
           Applied
      <3>2. /\ r.pc \in {"land", "back"}
            /\ r.res = "ok" => proc[p].res = "ok" /\ r.d = proc[p].d
        BY <2>0 DEF ProcRec
      <3> QED
        BY <3>1, <3>2
    <2>3. proc[p].res = "ok" => proc[p].d \in stored
      BY <2>0 DEF FetchOK, Fetching, FetchInv, ProcRec
    <2> QED
      BY <2>0, <2>1, <2>2, <2>3 DEF FetchInv, FetchOK, Become, TypeOK, Fetching
  <1>9. CASE Use
    BY <1>9, FetchSame DEF Use, Seal, Open, Deliver, Refuse
  <1> QED
    BY <1>1, <1>2, <1>3, <1>4, <1>5, <1>6, <1>7, <1>8, <1>9 DEF Next

-----------------------------------------------------------------------------
\* Type correctness of the key manager, for every configuration: whatever the
\* interleaving of callers, sweeps, KMS answers and flips of the key, cached
\* DEKs are DEKs the tenant owns and every DEK it owns is in the store.
THEOREM TypeCorrect == Spec => [](TypeOK /\ FetchInv)
  <1>1. Init => TypeOK /\ FetchInv
    BY InitType, StartedFetch DEF Init, FetchInv
  <1>2. TypeOK /\ FetchInv /\ [Next]_vars => TypeOK' /\ FetchInv'
    <2> SUFFICES ASSUME TypeOK, FetchInv, [Next]_vars PROVE TypeOK' /\ FetchInv'
      OBVIOUS
    <2>1. CASE Next
      BY <2>1, FetchStep, EnvironmentType, SetFetchType, EncryptType, DecryptType,
         SweepType, FlightType, KMSCallType, ApplyType, UseType DEF Next
    <2>2. CASE UNCHANGED vars
      BY <2>2 DEF vars, kmsVars, tenantVars, cacheVars, retryVars, countVars, useVars,
         TypeOK, FetchInv, FetchOK
    <2> QED
      BY <2>1, <2>2
  <1> QED
    BY <1>1, <1>2, PTL DEF Spec
=============================================================================
