--------------------------- MODULE FetcherProofs ----------------------------
(***************************************************************************)
(* The fetcher's book-keeping, for every configuration: the probing flag,  *)
(* the two caps, the cold cache of a parked tenant, and the DEKs that      *)
(* accepted messages carry.                                                *)
(*                                                                         *)
(* The counters are not inductive by themselves.  JobOK says where in the  *)
(* fetcher a goroutine can hold the flag or a unit; the effect of a step   *)
(* on flag and counters is then one of six small shapes.                   *)
(***************************************************************************)
EXTENDS KeyManagerProofs, FiniteSetTheorems

JobOK(r) ==
    /\ r.pc \in {"idle", "resume"} => r.job = "none"
    /\ r.counted => r.pc \in {"bulkhead", "sent"}
    /\ r.pc = "sent" \/ (r.pc \in {"put", "apply"} /\ r.res = "ok") => r.sentAt # 0

JobInv == \A p \in Procs : JobOK(proc[p])

\* The flag and the goroutine that will clear it.
ProbeInv ==
    /\ probing => \E p \in Procs : Probers = {p}
    /\ ~probing => Probers = {}

CountInv == IsFiniteSet(ColdCallers) /\ IsFiniteSet(Calling) /\ CountersExact

FetcherInv == JobInv /\ ProbeInv /\ CountInv /\ ParkedIsCold

\* A tenant that never leaves the designs with a cache: no pass-through call,
\* and a handle is always of a DEK the tenant knows.
CachedOnly == Modes \subseteq {"async", "sync"}

KnownInv ==
    /\ fetch \in Modes
    /\ \A p \in Procs : proc[p].job \notin {"seal", "open"}
    /\ \A h \in handles : h.dek \in deks
    /\ sealed \subseteq deks

-----------------------------------------------------------------------------
(* Where a goroutine is: JobInv.                                           *)

\* One goroutine moves.
LEMMA JobFrame ==
    ASSUME TypeOK, JobInv, NEW p \in Procs, NEW r, JobOK(r), Become(p, r)
    PROVE  JobInv'
  BY DEF TypeOK, JobInv, Become, JobOK

LEMMA JobSame ==
    ASSUME JobInv, proc' = proc
    PROVE  JobInv'
  BY DEF JobInv, JobOK

LEMMA StartedJob ==
    JobOK(Idle) /\ \A job, then, want, d :
        /\ JobOK(Started(job, then, want, d))
        /\ JobOK([Started(job, then, want, d) EXCEPT !.pc = "call"])
  BY DEF JobOK, Idle, Started

LEMMA SpawnJob ==
    ASSUME TypeOK, JobInv, NEW ps,
           ps = proc \/ \E p \in Procs : ps = [proc EXCEPT ![p] = Idle],
           NEW job, NEW d, Spawn(ps, job, d)
    PROVE  JobInv'
<1>1. ps \in [Procs -> ProcRec] /\ \A q \in Procs : JobOK(ps[q])
  BY IdleType, StartedJob DEF JobInv, TypeOK
<1>2. JobOK(Started(job, "none", 0, d))
  BY StartedJob
<1> QED  BY <1>1, <1>2 DEF Spawn, JobInv, JobOK

LEMMA JobStep ==
    ASSUME TypeOK, FetchInv, JobInv, Next
    PROVE  JobInv'
<1> USE DEF kmsVars, tenantVars, cacheVars, retryVars, countVars, useVars
<1>1. CASE Environment
  BY <1>1, JobSame DEF Environment, Advance, Revoke, Restore, Wear
<1>2. CASE \E mode \in Modes : SetFetch(mode)
  BY <1>2, JobSame DEF SetFetch
<1>3. ASSUME NEW p \in Procs, Encrypt(p) PROVE JobInv'
  <2>1. \/ \E r : Become(p, r) /\ JobOK(r)
        \/ Spawn([proc EXCEPT ![p] = Idle], "probe", 0)
    BY <1>3, StartedJob DEF Encrypt, EncryptProbe, Inline, EncryptRefused, EncryptHot,
                            EncryptCold, EncryptDirect
  <2> QED  BY <2>1, JobFrame, SpawnJob
<1>4. ASSUME NEW p \in Procs, Decrypt(p) PROVE JobInv'
  <2>1. \E r : Become(p, r) /\ JobOK(r)
    BY <1>4, StartedJob DEF Decrypt, DecryptRefused, DecryptInline, Inline, DecryptHot,
                            DecryptDirect
  <2> QED  BY <2>1, JobFrame
<1>5. CASE Sweep
  <2>1. proc' = proc \/ \E job, d : Spawn(proc, job, d)
    BY <1>5 DEF Sweep, Tick, HotKick, Warm
  <2> QED  BY <2>1, JobSame, SpawnJob
<1>6. ASSUME NEW p \in Procs, Flight(p) PROVE JobInv'
  <2>0. \A q \in Procs : proc[q] \in ProcRec /\ JobOK(proc[q])
    BY DEF TypeOK, JobInv
  <2>1. CASE Renew(p)
    <3>1. PICK o, k, c :
            /\ Become(p, [proc[p] EXCEPT !.d = active, !.op = o, !.key = k, !.pc = c])
            /\ c \in {"call", "do"}
      BY <2>1 DEF Renew
    <3>2. JobOK([proc[p] EXCEPT !.d = active, !.op = o, !.key = k, !.pc = c])
      BY <2>0, <2>1, <3>1 DEF Renew, JobOK, ProcRec
    <3> QED  BY <3>1, <3>2, JobFrame
  <2>2. CASE Do(p) \/ RecheckRenew(p) \/ RecheckWarm(p)
    <3>1. PICK c : /\ Become(p, [proc[p] EXCEPT !.pc = c])
                   /\ c \in {"join", "recheck", "land", "call"}
                   /\ proc[p].pc \in {"do", "recheck"}
      BY <2>2 DEF Do, RecheckRenew, RecheckWarm, Goto, Become
    <3>2. JobOK([proc[p] EXCEPT !.pc = c])
      BY <2>0, <3>1 DEF JobOK, ProcRec
    <3> QED  BY <3>1, <3>2, JobFrame
  <2>3. CASE RecheckSeal(p)
    <3>1. PICK o : Become(p, [proc[p] EXCEPT !.d = active, !.pc = "call", !.op = o])
      BY <2>3 DEF RecheckSeal
    <3>2. JobOK([proc[p] EXCEPT !.d = active, !.pc = "call", !.op = o])
      BY <2>0, <2>3 DEF RecheckSeal, JobOK, ProcRec
    <3> QED  BY <3>1, <3>2, JobFrame
  <2>4. CASE Land(p)
    <3>1. ASSUME NEW q \in Procs PROVE JobOK(proc'[q])
      BY <2>0, <2>4 DEF Land, JobOK, ProcRec
    <3> QED  BY <3>1 DEF JobInv, JobOK
  <2>5. CASE BackProbe(p)
    <3>1. JobOK([Idle EXCEPT !.pc = "resume", !.then = proc[p].then,
                             !.want = proc[p].want, !.at = now])
      BY DEF JobOK, Idle
    <3> QED  BY <2>5, <3>1, StartedJob, JobFrame DEF BackProbe
  <2>6. CASE BackCold(p) \/ BackDirect(p)
    BY <2>6, StartedJob, JobFrame DEF BackCold, BackDirect
  <2> QED  BY <1>6, <2>1, <2>2, <2>3, <2>4, <2>5, <2>6 DEF Flight
<1>7. ASSUME NEW p \in Procs, KMSCall(p) PROVE JobInv'
  <2>0. proc[p] \in ProcRec /\ JobOK(proc[p]) /\ FetchOK(proc[p]) /\ now # 0
    BY DEF TypeOK, JobInv, FetchInv
  <2>1. CASE Call(p)
    <3>1. \/ Become(p, [proc[p] EXCEPT !.res = "busy", !.at = now, !.pc = "apply"])
          \/ Become(p, [proc[p] EXCEPT !.sentAt = now, !.pc = "sent"])
          \/ \E f : Become(p, [proc[p] EXCEPT !.counted = f, !.pc = "bulkhead"])
      BY <2>1 DEF Call
    <3>2. /\ JobOK([proc[p] EXCEPT !.res = "busy", !.at = now, !.pc = "apply"])
          /\ JobOK([proc[p] EXCEPT !.sentAt = now, !.pc = "sent"])
          /\ \A f : JobOK([proc[p] EXCEPT !.counted = f, !.pc = "bulkhead"])
      BY <2>0, <2>1 DEF Call, JobOK, ProcRec
    <3> QED  BY <3>1, <3>2, JobFrame
  <2>2. CASE Acquire(p)
    <3>1. JobOK([proc[p] EXCEPT !.sentAt = now, !.pc = "sent"])
      BY <2>0, <2>2 DEF Acquire, JobOK, ProcRec
    <3> QED  BY <2>2, <3>1, JobFrame DEF Acquire
  <2>3. CASE BulkheadTimeout(p) \/ Reply(p)
    <3>1. PICK v, a, c : /\ Return(p, v, a, c)
                         /\ c \in {"put", "apply"}
                         /\ v = "ok" => a # 0
      BY <2>0, <2>3 DEF BulkheadTimeout, Reply, JobOK
    <3>2. JobOK([proc[p] EXCEPT !.res = v, !.sentAt = a, !.at = now,
                                !.counted = FALSE, !.pc = c])
      BY <2>0, <3>1 DEF JobOK, ProcRec
    <3> QED  BY <3>1, <3>2, JobFrame DEF Return
  <2>4. CASE PutDEK(p)
    <3>1. /\ JobOK([proc[p] EXCEPT !.d = seq + 1, !.pc = "apply"])
          /\ JobOK([proc[p] EXCEPT !.res = "store", !.pc = "apply"])
      BY <2>0, <2>4 DEF PutDEK, JobOK, FetchOK, ProcRec
    <3> QED  BY <2>4, <3>1, JobFrame DEF PutDEK
  <2> QED  BY <1>7, <2>1, <2>2, <2>3, <2>4 DEF KMSCall
<1>8. ASSUME NEW p \in Procs, Apply(p) PROVE JobInv'
  <2>0. proc[p] \in ProcRec /\ JobOK(proc[p]) /\ proc[p].pc = "apply" /\ Applied(p)
    BY <1>8 DEF TypeOK, JobInv, Apply, ApplyNone, ApplyStale, ApplyOK, ApplyDeny,
                ApplyTransient
  <2>1. PICK c, d, v :
          /\ Become(p, [proc[p] EXCEPT !.pc = c, !.sentAt = 0, !.at = 0,
                                       !.op = "unwrap", !.d = d, !.res = v])
          /\ c \in {"land", "back"}
    BY <2>0 DEF Applied
  <2>2. JobOK([proc[p] EXCEPT !.pc = c, !.sentAt = 0, !.at = 0,
                              !.op = "unwrap", !.d = d, !.res = v])
    BY <2>0, <2>1 DEF JobOK, ProcRec
  <2> QED  BY <2>1, <2>2, JobFrame
<1>9. CASE Use
  BY <1>9, JobSame DEF Use, Seal, Open, Deliver, Refuse
<1> QED  BY <1>1, <1>2, <1>3, <1>4, <1>5, <1>6, <1>7, <1>8, <1>9 DEF Next

-----------------------------------------------------------------------------
(***************************************************************************)
(* What a step does to the flag and the counters.                          *)
(***************************************************************************)
Prober(r) == r.job \in {"probe", "warm"}
ColdCall(r) == r.job = "cold"

\* Goroutine q keeps what it holds.
SameJob(q) ==
    /\ Prober(proc'[q]) <=> Prober(proc[q])
    /\ ColdCall(proc'[q]) <=> ColdCall(proc[q])
SameUnit(q) == proc'[q].counted = proc[q].counted

OthersSame(p) == \A q \in Procs \ {p} : SameJob(q) /\ SameUnit(q)

\* Nothing of it changes.
Steady ==
    /\ \A q \in Procs : SameJob(q) /\ SameUnit(q)
    /\ UNCHANGED <<probing, waiters, inflight>>

\* p sets the flag, or clears it.
Kick(p) ==
    /\ OthersSame(p) /\ SameUnit(p) /\ UNCHANGED <<waiters, inflight>>
    /\ ~probing /\ probing' = TRUE
    /\ Prober(proc'[p]) /\ ~ColdCall(proc[p])
Unkick(p) ==
    /\ OthersSame(p) /\ SameUnit(p) /\ UNCHANGED <<waiters, inflight>>
    /\ probing' = FALSE
    /\ Prober(proc[p]) /\ ~Prober(proc'[p]) /\ ~ColdCall(proc'[p])

\* p enters the cold path of EncryptKey, or leaves it.
Enter(p) ==
    /\ OthersSame(p) /\ SameUnit(p) /\ UNCHANGED <<probing, inflight>>
    /\ waiters < IngestWaiters /\ waiters' = waiters + 1
    /\ ~Prober(proc[p]) /\ ~ColdCall(proc[p]) /\ ColdCall(proc'[p])
Leave(p) ==
    /\ OthersSame(p) /\ SameUnit(p) /\ UNCHANGED <<probing, inflight>>
    /\ waiters' = waiters - 1
    /\ ColdCall(proc[p]) /\ ~ColdCall(proc'[p]) /\ ~Prober(proc'[p])

\* p takes a unit of the tenant's cap, or gives it back.
Take(p) ==
    /\ OthersSame(p) /\ SameJob(p) /\ UNCHANGED <<probing, waiters>>
    /\ ~proc[p].counted /\ proc'[p].counted
    /\ inflight' = inflight + 1
    /\ TenantInflight > 0 => inflight < TenantInflight
Give(p) ==
    /\ OthersSame(p) /\ SameJob(p) /\ UNCHANGED <<probing, waiters>>
    /\ proc[p].counted /\ ~proc'[p].counted
    /\ inflight' = inflight - 1

Shape ==
    \/ Steady
    \/ \E p \in Procs :
          Kick(p) \/ Unkick(p) \/ Enter(p) \/ Leave(p) \/ Take(p) \/ Give(p)

LEMMA SteadySame ==
    ASSUME UNCHANGED <<proc, probing, waiters, inflight>>
    PROVE  Shape
  BY DEF Shape, Steady, SameJob, SameUnit

\* One goroutine moves and holds what it held.
LEMMA SteadyMove ==
    ASSUME TypeOK, NEW p \in Procs, NEW r, Become(p, r),
           UNCHANGED <<probing, waiters, inflight>>,
           Prober(r) <=> Prober(proc[p]), ColdCall(r) <=> ColdCall(proc[p]),
           r.counted = proc[p].counted
    PROVE  Shape
<1>1. \A q \in Procs : SameJob(q) /\ SameUnit(q)
  BY DEF TypeOK, Become, SameJob, SameUnit
<1> QED  BY <1>1 DEF Shape, Steady

LEMMA MoveOthers ==
    ASSUME TypeOK, NEW p \in Procs, NEW r, Become(p, r)
    PROVE  OthersSame(p) /\ proc'[p] = r
  BY DEF TypeOK, Become, OthersSame, SameJob, SameUnit

LEMMA StartedHolds ==
    /\ ~Prober(Idle) /\ ~ColdCall(Idle) /\ Idle.counted = FALSE
    /\ \A job, then, want, d :
         /\ Started(job, then, want, d).job = job
         /\ Started(job, then, want, d).counted = FALSE
         /\ [Started(job, then, want, d) EXCEPT !.pc = "call"].job = job
         /\ [Started(job, then, want, d) EXCEPT !.pc = "call"].counted = FALSE
  BY DEF Idle, Started, Prober, ColdCall

\* An idle or resumed goroutine holds nothing.
LEMMA IdleHolds ==
    ASSUME TypeOK, JobInv, NEW p \in Procs, proc[p].pc \in {"idle", "resume"}
    PROVE  ~Prober(proc[p]) /\ ~ColdCall(proc[p]) /\ proc[p].counted = FALSE
<1>1. proc[p] \in ProcRec /\ JobOK(proc[p])
  BY DEF TypeOK, JobInv
<1>2. proc[p].counted \in BOOLEAN
  BY <1>1 DEF ProcRec
<1>3. ~proc[p].counted
  BY <1>1 DEF JobOK
<1>4. ~Prober(proc[p]) /\ ~ColdCall(proc[p])
  BY <1>1 DEF JobOK, Prober, ColdCall
<1> QED  BY <1>2, <1>3, <1>4

LEMMA SpawnShape ==
    ASSUME TypeOK, JobInv, UNCHANGED <<waiters, inflight>>, NEW ps,
           \/ ps = proc
           \/ \E p \in Procs : /\ ps = [proc EXCEPT ![p] = Idle]
                               /\ proc[p].pc \in {"idle", "resume"},
           NEW job \in {"probe", "warm"}, NEW d, Spawn(ps, job, d)
    PROVE  Shape
<1>1. PICK q \in Procs : /\ proc[q].pc = "idle"
                         /\ proc' = [ps EXCEPT ![q] = Started(job, "none", 0, d)]
  BY DEF Spawn
<1>2. ps \in [Procs -> ProcRec]
  BY IdleType DEF TypeOK
<1>3. /\ \A u \in Procs : /\ Prober(ps[u]) <=> Prober(proc[u])
                          /\ ColdCall(ps[u]) <=> ColdCall(proc[u])
                          /\ ps[u].counted = proc[u].counted
  <2>1. CASE ps = proc
    BY <2>1
  <2>2. ASSUME NEW p \in Procs, ps = [proc EXCEPT ![p] = Idle],
               proc[p].pc \in {"idle", "resume"}, NEW u \in Procs
        PROVE  /\ Prober(ps[u]) <=> Prober(proc[u])
               /\ ColdCall(ps[u]) <=> ColdCall(proc[u])
               /\ ps[u].counted = proc[u].counted
    BY <2>2, IdleHolds, StartedHolds DEF TypeOK
  <2> QED  BY <2>1, <2>2
<1>4. OthersSame(q) /\ proc'[q] = Started(job, "none", 0, d)
  BY <1>1, <1>2, <1>3 DEF OthersSame, SameJob, SameUnit
<1>5. ~probing /\ probing' = TRUE
  BY DEF Spawn
<1>6. Prober(Started(job, "none", 0, d)) /\ Started(job, "none", 0, d).counted = FALSE
  BY StartedHolds DEF Prober
<1>7. Kick(q)
  BY <1>1, <1>4, <1>5, <1>6, IdleHolds DEF Kick, SameUnit
<1> QED  BY <1>7 DEF Shape

LEMMA ManagerShape ==
    ASSUME TypeOK, JobInv,
           \/ Environment \/ Use \/ Sweep
           \/ \E mode \in Modes : SetFetch(mode)
           \/ \E p \in Procs : Encrypt(p) \/ Decrypt(p)
    PROVE  Shape
<1> USE DEF kmsVars, tenantVars, cacheVars, retryVars, countVars, useVars
<1>1. CASE Environment \/ Use \/ \E mode \in Modes : SetFetch(mode)
  BY <1>1, SteadySame DEF Environment, Advance, Revoke, Restore, Wear, Use, Seal, Open,
                          Deliver, Refuse, SetFetch
<1>2. CASE Sweep
  <2>1. UNCHANGED <<waiters, inflight>>
    BY <1>2 DEF Sweep, Tick, HotKick, Warm
  <2>2. \/ UNCHANGED <<proc, probing>>
        \/ \E job \in {"probe", "warm"}, d \in DEKs \cup {0} : Spawn(proc, job, d)
    BY <1>2 DEF Sweep, Tick, HotKick, Warm, TypeOK
  <2> QED  BY <2>1, <2>2, SteadySame, SpawnShape
<1>3. ASSUME NEW p \in Procs, NEW job \in {"probe", "warm"}, NEW then, NEW want,
             Inline(p, job, then, want)
      PROVE  Shape
  <2>1. /\ Become(p, Started(job, then, want, want))
        /\ proc[p].pc = "idle" /\ ~probing /\ probing' = TRUE
        /\ UNCHANGED <<waiters, inflight>>
    BY <1>3 DEF Inline
  <2>2. OthersSame(p) /\ proc'[p] = Started(job, then, want, want)
    BY <2>1, MoveOthers
  <2>3. /\ Prober(Started(job, then, want, want))
        /\ Started(job, then, want, want).counted = FALSE
    BY StartedHolds DEF Prober
  <2>4. Kick(p)
    BY <2>1, <2>2, <2>3, IdleHolds DEF Kick, SameUnit
  <2> QED  BY <2>4 DEF Shape
<1>4. ASSUME NEW p \in Procs, NEW r, Become(p, r), proc[p].pc \in {"idle", "resume"},
             ~Prober(r), ~ColdCall(r), r.counted = FALSE,
             UNCHANGED <<probing, waiters, inflight>>
      PROVE  Shape
  BY <1>4, SteadyMove, IdleHolds
<1>5. ASSUME NEW p \in Procs, Encrypt(p) PROVE Shape
  <2>1. CASE EncryptProbe(p)
    BY <1>3, <2>1 DEF EncryptProbe
  <2>2. CASE EncryptRefused(p)
    BY <1>4, <2>2, StartedHolds DEF EncryptRefused
  <2>3. CASE EncryptHot(p)
    <3>1. proc[p].pc \in {"idle", "resume"} /\ UNCHANGED <<waiters, inflight>>
      BY <2>3 DEF EncryptHot, AtEncrypt
    <3>2. \/ Spawn([proc EXCEPT ![p] = Idle], "probe", 0)
          \/ Become(p, Idle) /\ UNCHANGED probing
      BY <2>3 DEF EncryptHot
    <3>3. CASE Spawn([proc EXCEPT ![p] = Idle], "probe", 0)
      BY <3>1, <3>3, SpawnShape
    <3>4. CASE Become(p, Idle) /\ UNCHANGED probing
      BY <1>4, <3>1, <3>4, StartedHolds
    <3> QED  BY <3>2, <3>3, <3>4
  <2>4. CASE EncryptCold(p)
    <3>1. /\ Become(p, Started("cold", "none", 0, 0))
          /\ proc[p].pc \in {"idle", "resume"}
          /\ waiters < IngestWaiters /\ waiters' = waiters + 1
          /\ UNCHANGED <<probing, inflight>>
      BY <2>4 DEF EncryptCold, AtEncrypt
    <3>2. OthersSame(p) /\ proc'[p] = Started("cold", "none", 0, 0)
      BY <3>1, MoveOthers
    <3>3. /\ ColdCall(Started("cold", "none", 0, 0))
          /\ Started("cold", "none", 0, 0).counted = FALSE
      BY StartedHolds DEF ColdCall
    <3>4. Enter(p)
      BY <3>1, <3>2, <3>3, IdleHolds DEF Enter, SameUnit
    <3> QED  BY <3>4 DEF Shape
  <2>5. CASE EncryptDirect(p)
    <3>1. /\ Become(p, Started("seal", "none", 0, 0))
          /\ proc[p].pc \in {"idle", "resume"}
          /\ UNCHANGED <<probing, waiters, inflight>>
      BY <2>5 DEF EncryptDirect, AtEncrypt
    <3>2. /\ ~Prober(Started("seal", "none", 0, 0)) /\ ~ColdCall(Started("seal", "none", 0, 0))
          /\ Started("seal", "none", 0, 0).counted = FALSE
      BY StartedHolds DEF Prober, ColdCall
    <3> QED  BY <1>4, <3>1, <3>2
  <2> QED  BY <1>5, <2>1, <2>2, <2>3, <2>4, <2>5 DEF Encrypt
<1>6. ASSUME NEW p \in Procs, Decrypt(p) PROVE Shape
  <2>1. CASE DecryptRefused(p)
    BY <1>4, <2>1, StartedHolds DEF DecryptRefused
  <2>2. ASSUME NEW d \in DEKs, DecryptInline(p, d) PROVE Shape
    <3>1. PICK t \in Reading(1) : /\ DecryptJob(d, t) # "none"
                                  /\ Inline(p, DecryptJob(d, t), "decrypt", d)
      BY <2>2 DEF DecryptInline
    <3>2. DecryptJob(d, t) \in {"probe", "warm"}
      BY <3>1 DEF DecryptJob
    <3> QED  BY <1>3, <3>1, <3>2
  <2>3. ASSUME NEW d \in DEKs, DecryptHot(p, d) PROVE Shape
    <3>1. /\ Become(p, Idle) /\ proc[p].pc \in {"idle", "resume"}
          /\ UNCHANGED <<probing, waiters, inflight>>
      BY <2>3 DEF DecryptHot, AtDecrypt
    <3> QED  BY <1>4, <3>1, StartedHolds
  <2>4. ASSUME NEW d \in DEKs, DecryptDirect(p, d) PROVE Shape
    <3> DEFINE r == [Started("open", "none", 0, d) EXCEPT !.pc = "call"]
    <3>1. /\ Become(p, r) /\ proc[p].pc \in {"idle", "resume"}
          /\ UNCHANGED <<probing, waiters, inflight>>
      BY <2>4 DEF DecryptDirect, AtDecrypt
    <3>2. ~Prober(r) /\ ~ColdCall(r) /\ r.counted = FALSE
      BY StartedHolds DEF Prober, ColdCall
    <3> QED  BY <1>4, <3>1, <3>2
  <2> QED  BY <1>6, <2>1, <2>2, <2>3, <2>4 DEF Decrypt
<1> QED  BY <1>1, <1>2, <1>5, <1>6

LEMMA FlightShape ==
    ASSUME TypeOK, JobInv, NEW p \in Procs, Flight(p)
    PROVE  Shape
<1> USE DEF kmsVars, tenantVars, cacheVars, retryVars, countVars, useVars
<1>0. \A q \in Procs : proc[q] \in ProcRec /\ JobOK(proc[q])
  BY DEF TypeOK, JobInv
<1>1. CASE Renew(p) \/ Do(p) \/ RecheckRenew(p) \/ RecheckWarm(p) \/ RecheckSeal(p)
  <2>1. UNCHANGED <<probing, waiters, inflight>>
    BY <1>1 DEF Renew, Do, RecheckRenew, RecheckWarm, RecheckSeal
  <2>4. PICK r : Become(p, r) /\ r.job = proc[p].job /\ r.counted = proc[p].counted
    <3>1. CASE Renew(p)
      <4>1. PICK o, k, c :
               Become(p, [proc[p] EXCEPT !.d = active, !.op = o, !.key = k, !.pc = c])
        BY <3>1 DEF Renew
      <4> DEFINE r == [proc[p] EXCEPT !.d = active, !.op = o, !.key = k, !.pc = c]
      <4>2. r.job = proc[p].job /\ r.counted = proc[p].counted
        BY <1>0 DEF ProcRec
      <4> QED  BY <4>1, <4>2
    <3>2. CASE Do(p) \/ RecheckRenew(p) \/ RecheckWarm(p)
      <4>1. PICK c : Become(p, [proc[p] EXCEPT !.pc = c])
        BY <3>2 DEF Do, RecheckRenew, RecheckWarm, Goto, Become
      <4>2. /\ [proc[p] EXCEPT !.pc = c].job = proc[p].job
            /\ [proc[p] EXCEPT !.pc = c].counted = proc[p].counted
        BY <1>0 DEF ProcRec
      <4> QED  BY <4>1, <4>2
    <3>3. CASE RecheckSeal(p)
      <4>1. PICK o : Become(p, [proc[p] EXCEPT !.d = active, !.pc = "call", !.op = o])
        BY <3>3 DEF RecheckSeal
      <4> DEFINE r == [proc[p] EXCEPT !.d = active, !.pc = "call", !.op = o]
      <4>2. r.job = proc[p].job /\ r.counted = proc[p].counted
        BY <1>0 DEF ProcRec
      <4> QED  BY <4>1, <4>2
    <3> QED  BY <1>1, <3>1, <3>2, <3>3
  <2> QED  BY <2>1, <2>4, SteadyMove DEF Prober, ColdCall
<1>2. CASE Land(p)
  <2>1. \A q \in Procs : proc'[q].job = proc[q].job /\ proc'[q].counted = proc[q].counted
    BY <1>0, <1>2 DEF Land, ProcRec
  <2>2. UNCHANGED <<probing, waiters, inflight>>
    BY <1>2 DEF Land
  <2> QED  BY <2>1, <2>2 DEF Shape, Steady, SameJob, SameUnit, Prober, ColdCall
<1>3. proc[p].pc = "back" => proc[p].counted = FALSE
  <2>1. proc[p].counted \in BOOLEAN
    BY <1>0 DEF ProcRec
  <2>2. proc[p].pc = "back" => ~proc[p].counted
    BY <1>0 DEF JobOK
  <2> QED  BY <2>1, <2>2
<1>4. CASE BackProbe(p)
  <2> DEFINE back == [Idle EXCEPT !.pc = "resume", !.then = proc[p].then,
                                  !.want = proc[p].want, !.at = now]
  <2>1. ~Prober(back) /\ ~ColdCall(back) /\ back.counted = FALSE
    BY DEF Idle, Prober, ColdCall
  <2>2. PICK r : Become(p, r) /\ ~Prober(r) /\ ~ColdCall(r) /\ r.counted = FALSE
    BY <1>4, <2>1, StartedHolds DEF BackProbe
  <2>3. Prober(proc[p]) /\ proc[p].pc = "back" /\ probing' = FALSE
        /\ UNCHANGED <<waiters, inflight>>
    BY <1>4 DEF BackProbe, Prober
  <2>4. OthersSame(p) /\ proc'[p] = r
    BY <2>2, MoveOthers
  <2>5. Unkick(p)
    BY <1>3, <2>2, <2>3, <2>4 DEF Unkick, SameUnit
  <2> QED  BY <2>5 DEF Shape
<1>5. CASE BackCold(p)
  <2>1. /\ Become(p, Idle) /\ ColdCall(proc[p]) /\ proc[p].pc = "back"
        /\ waiters' = waiters - 1 /\ UNCHANGED <<probing, inflight>>
    BY <1>5 DEF BackCold, ColdCall
  <2>2. OthersSame(p) /\ proc'[p] = Idle
    BY <2>1, MoveOthers
  <2>3. Leave(p)
    BY <1>3, <2>1, <2>2, StartedHolds DEF Leave, SameUnit
  <2> QED  BY <2>3 DEF Shape
<1>6. CASE BackDirect(p)
  <2>1. /\ Become(p, Idle) /\ proc[p].pc = "back"
        /\ UNCHANGED <<probing, waiters, inflight>>
    BY <1>6 DEF BackDirect
  <2>2. ~Prober(proc[p]) /\ ~ColdCall(proc[p])
    BY <1>6 DEF BackDirect, Prober, ColdCall
  <2> QED  BY <1>3, <2>1, <2>2, StartedHolds, SteadyMove
<1> QED  BY <1>1, <1>2, <1>4, <1>5, <1>6 DEF Flight

LEMMA KMSCallShape ==
    ASSUME TypeOK, JobInv, NEW p \in Procs, KMSCall(p)
    PROVE  Shape
<1> USE DEF kmsVars, tenantVars, cacheVars, retryVars, countVars, useVars
<1>0. proc[p] \in ProcRec /\ JobOK(proc[p]) /\ proc[p].counted \in BOOLEAN
      /\ inflight \in Int
  BY DEF TypeOK, JobInv, ProcRec
<1>1. ASSUME NEW r, Become(p, r), r.job = proc[p].job, r.counted = proc[p].counted,
             UNCHANGED <<probing, waiters, inflight>>
      PROVE  Shape
  BY <1>1, SteadyMove DEF Prober, ColdCall
<1>2. CASE Call(p)
  <2>0. proc[p].counted = FALSE /\ UNCHANGED <<probing, waiters>>
    <3>1. ~proc[p].counted
      BY <1>0, <1>2 DEF Call, JobOK
    <3> QED  BY <1>0, <1>2, <3>1 DEF Call
  <2> DEFINE busy == [proc[p] EXCEPT !.res = "busy", !.at = now, !.pc = "apply"]
             sent == [proc[p] EXCEPT !.sentAt = now, !.pc = "sent"]
             wait(f) == [proc[p] EXCEPT !.counted = f, !.pc = "bulkhead"]
  <2>1. /\ busy.job = proc[p].job /\ busy.counted = proc[p].counted
        /\ sent.job = proc[p].job /\ sent.counted = proc[p].counted
        /\ \A f : wait(f).job = proc[p].job /\ wait(f).counted = f
    BY <1>0 DEF ProcRec
  <2>2. \/ Become(p, busy) /\ UNCHANGED inflight
        \/ Become(p, sent) /\ UNCHANGED inflight
        \/ Become(p, wait(FALSE)) /\ UNCHANGED inflight
        \/ /\ Become(p, wait(TRUE)) /\ inflight' = inflight + 1
           /\ TenantInflight > 0 => ~(inflight >= TenantInflight)
    <3>1. CASE fetch # "naive" /\ TenantInflight > 0 /\ inflight >= TenantInflight
      BY <1>2, <3>1 DEF Call
    <3>2. CASE fetch = "naive"
      BY <1>2, <3>2 DEF Call
    <3>3. CASE fetch # "naive" /\ ~(TenantInflight > 0)
      BY <1>2, <3>3 DEF Call
    <3>4. CASE fetch # "naive" /\ TenantInflight > 0 /\ ~(inflight >= TenantInflight)
      <4> DEFINE counted == fetch # "naive" /\ TenantInflight > 0
      <4>1. counted = TRUE
        BY <3>4
      <4>2. /\ inflight' = IF counted THEN inflight + 1 ELSE inflight
            /\ Become(p, wait(counted))
        BY <1>2, <3>4 DEF Call
      <4> HIDE DEF counted, wait
      <4> QED  BY <3>4, <4>1, <4>2
    <3> QED  BY <3>1, <3>2, <3>3, <3>4
  <2> HIDE DEF busy, sent, wait
  <2>3. CASE Become(p, busy) /\ UNCHANGED inflight
    BY <1>1, <2>0, <2>1, <2>3
  <2>4. CASE Become(p, sent) /\ UNCHANGED inflight
    BY <1>1, <2>0, <2>1, <2>4
  <2>5. CASE Become(p, wait(FALSE)) /\ UNCHANGED inflight
    BY <1>1, <2>0, <2>1, <2>5
  <2>6. CASE /\ Become(p, wait(TRUE)) /\ inflight' = inflight + 1
             /\ TenantInflight > 0 => ~(inflight >= TenantInflight)
    <3>1. OthersSame(p) /\ proc'[p] = wait(TRUE)
      BY <2>6, MoveOthers
    <3>2. TenantInflight > 0 => inflight < TenantInflight
      BY <1>0, <2>6, ManagerAssumption
    <3>3. SameJob(p) /\ proc'[p].counted = TRUE
      BY <2>1, <3>1 DEF SameJob, Prober, ColdCall
    <3>4. Take(p)
      BY <2>0, <2>6, <3>1, <3>2, <3>3 DEF Take
    <3> QED  BY <3>4 DEF Shape
  <2> QED  BY <2>2, <2>3, <2>4, <2>5, <2>6
<1>3. CASE Acquire(p)
  <2>1. /\ [proc[p] EXCEPT !.sentAt = now, !.pc = "sent"].job = proc[p].job
        /\ [proc[p] EXCEPT !.sentAt = now, !.pc = "sent"].counted = proc[p].counted
    BY <1>0 DEF ProcRec
  <2> QED  BY <1>1, <1>3, <2>1 DEF Acquire
<1>4. CASE BulkheadTimeout(p) \/ Reply(p)
  <2>1. PICK v, a, c : Return(p, v, a, c)
    BY <1>4 DEF BulkheadTimeout, Reply
  <2> DEFINE r == [proc[p] EXCEPT !.res = v, !.sentAt = a, !.at = now,
                                  !.counted = FALSE, !.pc = c]
  <2>2. r.job = proc[p].job /\ r.counted = FALSE
    BY <1>0 DEF ProcRec
  <2>3. /\ Become(p, r) /\ UNCHANGED <<probing, waiters>>
        /\ inflight' = IF proc[p].counted THEN inflight - 1 ELSE inflight
    BY <2>1 DEF Return, GiveBack
  <2> HIDE DEF r
  <2>4. CASE ~proc[p].counted
    BY <1>0, <1>1, <2>2, <2>3, <2>4
  <2>5. CASE proc[p].counted
    <3>1. OthersSame(p) /\ proc'[p] = r
      BY <2>3, MoveOthers
    <3>2. SameJob(p)
      BY <2>2, <3>1 DEF SameJob, Prober, ColdCall
    <3>3. Give(p)
      BY <2>2, <2>3, <2>5, <3>1, <3>2 DEF Give
    <3> QED  BY <3>3 DEF Shape
  <2> QED  BY <2>4, <2>5
<1>5. CASE PutDEK(p)
  <2>1. \A r \in {[proc[p] EXCEPT !.d = seq + 1, !.pc = "apply"],
                   [proc[p] EXCEPT !.res = "store", !.pc = "apply"]} :
          r.job = proc[p].job /\ r.counted = proc[p].counted
    BY <1>0 DEF ProcRec
  <2> QED  BY <1>1, <1>5, <2>1 DEF PutDEK
<1> QED  BY <1>2, <1>3, <1>4, <1>5 DEF KMSCall

LEMMA ApplyShape ==
    ASSUME TypeOK, JobInv, NEW p \in Procs, Apply(p)
    PROVE  Shape
<1> USE DEF kmsVars, tenantVars, cacheVars, retryVars, countVars, useVars
<1>0. proc[p] \in ProcRec
  BY DEF TypeOK
<1>1. Applied(p) /\ UNCHANGED <<probing, waiters, inflight>>
  BY DEF Apply, ApplyNone, ApplyStale, ApplyOK, ApplyDeny, ApplyTransient
<1>2. PICK c, d, v :
         Become(p, [proc[p] EXCEPT !.pc = c, !.sentAt = 0, !.at = 0,
                                   !.op = "unwrap", !.d = d, !.res = v])
  BY <1>1 DEF Applied
<1>3. /\ [proc[p] EXCEPT !.pc = c, !.sentAt = 0, !.at = 0,
                         !.op = "unwrap", !.d = d, !.res = v].job = proc[p].job
      /\ [proc[p] EXCEPT !.pc = c, !.sentAt = 0, !.at = 0,
                         !.op = "unwrap", !.d = d, !.res = v].counted = proc[p].counted
  BY <1>0 DEF ProcRec
<1> QED  BY <1>1, <1>2, <1>3, SteadyMove DEF Prober, ColdCall

LEMMA StepShape ==
    ASSUME TypeOK, JobInv, [Next]_vars
    PROVE  Shape
<1>1. CASE Next
  BY <1>1, ManagerShape, FlightShape, KMSCallShape, ApplyShape DEF Next
<1>2. CASE UNCHANGED vars
  BY <1>2, SteadySame DEF vars, tenantVars, countVars
<1> QED  BY <1>1, <1>2

-----------------------------------------------------------------------------
(* The flag and the counters under each shape.                             *)

LEMMA ProbeStep ==
    ASSUME TypeOK, ProbeInv, Shape
    PROVE  ProbeInv'
<1>1. CASE Steady \/ \E p \in Procs : Enter(p) \/ Leave(p) \/ Take(p) \/ Give(p)
  <2>1. probing' = probing
    BY <1>1 DEF Steady, Enter, Leave, Take, Give
  <2>2. \A q \in Procs : Prober(proc'[q]) <=> Prober(proc[q])
    <3>0. \A p \in Procs : ColdCall(proc[p]) => ~Prober(proc[p])
      BY DEF ColdCall, Prober
    <3>1. \A p \in Procs : ColdCall(proc'[p]) => ~Prober(proc'[p])
      BY DEF ColdCall, Prober
    <3> QED  BY <1>1, <3>0, <3>1 DEF Steady, Enter, Leave, Take, Give, OthersSame, SameJob
  <2>3. Probers' = Probers
    BY <2>2 DEF Probers, Prober
  <2> QED  BY <2>1, <2>3 DEF ProbeInv
<1>2. ASSUME NEW p \in Procs, Kick(p) PROVE ProbeInv'
  <2>1. Probers = {} /\ probing' = TRUE
    BY <1>2 DEF Kick, ProbeInv
  <2>2. Prober(proc'[p]) /\ \A q \in Procs \ {p} : Prober(proc'[q]) <=> Prober(proc[q])
    BY <1>2 DEF Kick, OthersSame, SameJob
  <2>3. Probers' = {p}
    BY <2>1, <2>2 DEF Probers, Prober
  <2> QED  BY <2>1, <2>3 DEF ProbeInv
<1>3. ASSUME NEW p \in Procs, Unkick(p) PROVE ProbeInv'
  <2>1. p \in Probers /\ probing' = FALSE
    BY <1>3 DEF Unkick, Probers, Prober
  <2>2. Probers = {p}
    BY <2>1 DEF ProbeInv
  <2>3. ~Prober(proc'[p]) /\ \A q \in Procs \ {p} : Prober(proc'[q]) <=> Prober(proc[q])
    BY <1>3 DEF Unkick, OthersSame, SameJob
  <2>4. Probers' = {}
    BY <2>2, <2>3 DEF Probers, Prober
  <2> QED  BY <2>1, <2>4 DEF ProbeInv
<1> QED  BY <1>1, <1>2, <1>3 DEF Shape

\* Adding or removing one goroutine changes a finite count by one.
LEMMA CountAdd ==
    ASSUME NEW S, IsFiniteSet(S), NEW x, x \notin S
    PROVE  IsFiniteSet(S \cup {x}) /\ Cardinality(S \cup {x}) = Cardinality(S) + 1
  BY FS_AddElement

LEMMA CountDrop ==
    ASSUME NEW S, IsFiniteSet(S), NEW x, x \in S
    PROVE  IsFiniteSet(S \ {x}) /\ Cardinality(S \ {x}) = Cardinality(S) - 1
  BY FS_RemoveElement

LEMMA CountStep ==
    ASSUME TypeOK, CountInv, Shape
    PROVE  CountInv'
<1>0. /\ IsFiniteSet(ColdCallers) /\ waiters = Cardinality(ColdCallers)
      /\ waiters <= IngestWaiters /\ waiters \in Int
      /\ IsFiniteSet(Calling) /\ inflight = Cardinality(Calling) /\ inflight \in Int
      /\ TenantInflight > 0 => inflight <= TenantInflight
      /\ IngestWaiters \in Int /\ TenantInflight \in Int
  BY ManagerAssumption DEF CountInv, CountersExact, TypeOK
<1>1. /\ IsFiniteSet(ColdCallers') /\ waiters' = Cardinality(ColdCallers')
      /\ waiters' <= IngestWaiters
  <2>1. CASE Steady \/ \E p \in Procs : Kick(p) \/ Unkick(p) \/ Take(p) \/ Give(p)
    <3>0. \A p \in Procs : /\ ColdCall(proc[p]) => ~Prober(proc[p])
                           /\ ColdCall(proc'[p]) => ~Prober(proc'[p])
      BY DEF ColdCall, Prober
    <3>1. waiters' = waiters
          /\ \A q \in Procs : ColdCall(proc'[q]) <=> ColdCall(proc[q])
      BY <2>1, <3>0 DEF Steady, Kick, Unkick, Take, Give, OthersSame, SameJob
    <3>2. ColdCallers' = ColdCallers
      BY <3>1 DEF ColdCallers, ColdCall
    <3> QED  BY <1>0, <3>1, <3>2
  <2>2. ASSUME NEW p \in Procs, Enter(p)
        PROVE  /\ IsFiniteSet(ColdCallers') /\ waiters' = Cardinality(ColdCallers')
               /\ waiters' <= IngestWaiters
    <3>1. p \notin ColdCallers /\ ColdCallers' = ColdCallers \cup {p}
      BY <2>2 DEF Enter, OthersSame, SameJob, ColdCallers, ColdCall
    <3>2. waiters < IngestWaiters /\ waiters' = waiters + 1
      BY <2>2 DEF Enter
    <3>3. /\ IsFiniteSet(ColdCallers \cup {p})
          /\ Cardinality(ColdCallers \cup {p}) = Cardinality(ColdCallers) + 1
      BY <1>0, <3>1, CountAdd
    <3> QED  BY <1>0, <3>1, <3>2, <3>3
  <2>3. ASSUME NEW p \in Procs, Leave(p)
        PROVE  /\ IsFiniteSet(ColdCallers') /\ waiters' = Cardinality(ColdCallers')
               /\ waiters' <= IngestWaiters
    <3>1. p \in ColdCallers /\ ColdCallers' = ColdCallers \ {p}
      BY <2>3 DEF Leave, OthersSame, SameJob, ColdCallers, ColdCall
    <3>2. waiters' = waiters - 1
      BY <2>3 DEF Leave
    <3>3. /\ IsFiniteSet(ColdCallers \ {p})
          /\ Cardinality(ColdCallers \ {p}) = Cardinality(ColdCallers) - 1
      BY <1>0, <3>1, CountDrop
    <3> QED  BY <1>0, <3>1, <3>2, <3>3
  <2> QED  BY <2>1, <2>2, <2>3 DEF Shape
<1>2. /\ IsFiniteSet(Calling') /\ inflight' = Cardinality(Calling')
      /\ TenantInflight > 0 => inflight' <= TenantInflight
  <2>1. CASE Steady \/ \E p \in Procs : Kick(p) \/ Unkick(p) \/ Enter(p) \/ Leave(p)
    <3>1. inflight' = inflight /\ \A q \in Procs : proc'[q].counted = proc[q].counted
      BY <2>1 DEF Steady, Kick, Unkick, Enter, Leave, OthersSame, SameUnit
    <3>2. Calling' = Calling
      BY <3>1 DEF Calling
    <3> QED  BY <1>0, <3>1, <3>2
  <2>2. ASSUME NEW p \in Procs, Take(p)
        PROVE  /\ IsFiniteSet(Calling') /\ inflight' = Cardinality(Calling')
               /\ TenantInflight > 0 => inflight' <= TenantInflight
    <3>1. p \notin Calling /\ Calling' = Calling \cup {p}
      BY <2>2 DEF Take, OthersSame, SameUnit, Calling
    <3>2. inflight' = inflight + 1 /\ (TenantInflight > 0 => inflight < TenantInflight)
      BY <2>2 DEF Take
    <3>3. /\ IsFiniteSet(Calling \cup {p})
          /\ Cardinality(Calling \cup {p}) = Cardinality(Calling) + 1
      BY <1>0, <3>1, CountAdd
    <3> QED  BY <1>0, <3>1, <3>2, <3>3
  <2>3. ASSUME NEW p \in Procs, Give(p)
        PROVE  /\ IsFiniteSet(Calling') /\ inflight' = Cardinality(Calling')
               /\ TenantInflight > 0 => inflight' <= TenantInflight
    <3>1. p \in Calling /\ Calling' = Calling \ {p}
      BY <2>3 DEF Give, OthersSame, SameUnit, Calling
    <3>2. inflight' = inflight - 1
      BY <2>3 DEF Give
    <3>3. /\ IsFiniteSet(Calling \ {p})
          /\ Cardinality(Calling \ {p}) = Cardinality(Calling) - 1
      BY <1>0, <3>1, CountDrop
    <3> QED  BY <1>0, <3>1, <3>2, <3>3
  <2> QED  BY <2>1, <2>2, <2>3 DEF Shape
<1> QED  BY <1>1, <1>2 DEF CountInv, CountersExact

-----------------------------------------------------------------------------
\* The cache is emptied by every step that parks the tenant or turns the cache
\* off, and filled only together with a lease.
LEMMA ParkedStep ==
    ASSUME TypeOK, JobInv, ParkedIsCold, Next
    PROVE  ParkedIsCold'
<1> USE DEF kmsVars, tenantVars, cacheVars, retryVars, countVars, useVars
<1>1. ASSUME UNCHANGED <<hot, state, fetch, leaseSentAt>> PROVE ParkedIsCold'
  BY <1>1 DEF ParkedIsCold, Direct
<1>2. CASE Environment \/ Use
  BY <1>1, <1>2 DEF Environment, Advance, Revoke, Restore, Wear, Use, Seal, Open, Deliver,
                    Refuse
<1>3. ASSUME NEW mode \in Modes, SetFetch(mode) PROVE ParkedIsCold'
  BY <1>3 DEF SetFetch, ParkedIsCold, Direct
<1>4. ASSUME NEW p \in Procs, Encrypt(p) \/ Decrypt(p) PROVE ParkedIsCold'
  <2>1. UNCHANGED <<hot, state, fetch, leaseSentAt>>
    BY <1>4 DEF Encrypt, EncryptProbe, EncryptRefused, EncryptHot, EncryptCold,
                EncryptDirect, Inline, Decrypt, DecryptRefused, DecryptInline, DecryptHot,
                DecryptDirect
  <2> QED  BY <1>1, <2>1
<1>5. CASE Sweep
  <2>1. CASE HotKick \/ \E d \in DEKs : Warm(d)
    BY <1>1, <2>1 DEF HotKick, Warm
  <2>2. CASE Tick
    <3>1. /\ hot' # {} => hot # {} /\ state' = state
          /\ UNCHANGED <<fetch, leaseSentAt>>
      BY <2>2 DEF Tick
    <3> QED  BY <3>1 DEF ParkedIsCold, Direct
  <2> QED  BY <1>5, <2>1, <2>2 DEF Sweep
<1>6. ASSUME NEW p \in Procs, Flight(p) \/ KMSCall(p) PROVE ParkedIsCold'
  <2>1. UNCHANGED <<hot, state, fetch, leaseSentAt>>
    BY <1>6 DEF Flight, Renew, Do, RecheckRenew, RecheckWarm, RecheckSeal, Land, BackProbe,
                BackCold, BackDirect, KMSCall, Call, Acquire, BulkheadTimeout, Reply,
                Return, PutDEK
  <2> QED  BY <1>1, <2>1
<1>7. ASSUME NEW p \in Procs, Apply(p) PROVE ParkedIsCold'
  <2>1. CASE ApplyNone(p) \/ ApplyStale(p)
    BY <1>1, <2>1 DEF ApplyNone, ApplyStale
  <2>2. CASE ApplyOK(p)
    <3>1. proc[p].sentAt # 0 /\ proc[p].sentAt \in Nat /\ leaseSentAt \in Nat
      BY <2>2 DEF ApplyOK, JobInv, JobOK, TypeOK, ProcRec, Time
    <3>2. leaseSentAt' # 0
      BY <2>2, <3>1 DEF ApplyOK, Renewed
    <3>3. state' = "ACTIVE" /\ fetch' = fetch /\ (Direct => hot' = hot)
      BY <2>2 DEF ApplyOK, Cached
    <3> QED  BY <3>2, <3>3 DEF ParkedIsCold, Direct
  <2>3. CASE ApplyDeny(p)
    BY <2>3 DEF ApplyDeny, ParkedIsCold
  <2>4. CASE ApplyTransient(p)
    <3>1. /\ hot' # {} => hot' = hot /\ state' \in {"RIDING_THROUGH", state}
          /\ UNCHANGED <<fetch, leaseSentAt>>
      BY <2>4 DEF ApplyTransient
    <3> QED  BY <3>1 DEF ParkedIsCold, Direct
  <2> QED  BY <1>7, <2>1, <2>2, <2>3, <2>4 DEF Apply
<1> QED  BY <1>2, <1>3, <1>4, <1>5, <1>6, <1>7 DEF Next

-----------------------------------------------------------------------------
\* The inductive invariant of the fetcher's book-keeping.
THEOREM FetcherInvariant == Spec => []FetcherInv
<1>1. Init => FetcherInv
  <2> SUFFICES ASSUME Init PROVE FetcherInv
    OBVIOUS
  <2>1. JobInv
    BY StartedJob DEF Init, JobInv
  <2>2. Probers = {} /\ ColdCallers = {} /\ Calling = {}
    BY DEF Init, Probers, ColdCallers, Calling, Idle
  <2>3. ProbeInv
    BY <2>2 DEF ProbeInv, Init
  <2>4. IsFiniteSet({}) /\ Cardinality({}) = 0
    BY FS_EmptySet
  <2>5. CountInv
    BY <2>2, <2>4, ManagerAssumption DEF CountInv, CountersExact, Init
  <2>6. ParkedIsCold
    BY DEF Init, ParkedIsCold
  <2> QED  BY <2>1, <2>3, <2>5, <2>6 DEF FetcherInv
<1>2. TypeOK /\ FetchInv /\ FetcherInv /\ [Next]_vars => FetcherInv'
  <2> SUFFICES ASSUME TypeOK, FetchInv, FetcherInv, [Next]_vars PROVE FetcherInv'
    OBVIOUS
  <2>0. JobInv /\ ProbeInv /\ CountInv /\ ParkedIsCold
    BY DEF FetcherInv
  <2>1. Shape
    BY <2>0, StepShape
  <2>2. ProbeInv' /\ CountInv'
    BY <2>0, <2>1, ProbeStep, CountStep
  <2>3. JobInv' /\ ParkedIsCold'
    <3>1. CASE Next
      BY <2>0, <3>1, JobStep, ParkedStep
    <3>2. CASE UNCHANGED vars
      <4>1. UNCHANGED <<proc, hot, state, fetch, leaseSentAt>>
        BY <3>2 DEF vars, tenantVars, cacheVars
      <4> QED  BY <2>0, <4>1, JobSame DEF ParkedIsCold, Direct
    <3> QED  BY <3>1, <3>2
  <2> QED  BY <2>2, <2>3 DEF FetcherInv
<1> QED  BY <1>1, <1>2, TypeCorrect, PTL DEF Spec

\* probing is set exactly while one goroutine runs a probe or a warm, for any
\* number of goroutines: it is never stuck and there are never two of them.
THEOREM OneProbeAtATime == Spec => []OneProbe
<1>1. FetcherInv /\ TypeOK => OneProbe
  <2> SUFFICES ASSUME FetcherInv, TypeOK PROVE OneProbe
    OBVIOUS
  <2>1. CASE probing
    <3>1. PICK p \in Procs : Probers = {p}
      BY <2>1 DEF FetcherInv, ProbeInv
    <3>2. Cardinality({p}) = 1
      BY FS_Singleton
    <3> QED  BY <2>1, <3>1, <3>2 DEF OneProbe
  <2>2. CASE ~probing
    <3>1. Probers = {}
      BY <2>2 DEF FetcherInv, ProbeInv
    <3>2. Cardinality({}) = 0
      BY FS_EmptySet
    <3> QED  BY <2>2, <3>1, <3>2 DEF OneProbe
  <2> QED  BY <2>1, <2>2
<1> QED  BY <1>1, FetcherInvariant, TypeCorrect, PTL

\* t.waiters and t.inflight count exactly the goroutines that hold a unit, and
\* neither cap is ever exceeded, whatever the fetch design is switched to.
THEOREM CountersAreExact == Spec => []CountersExact
<1>1. FetcherInv => CountersExact
  BY DEF FetcherInv, CountInv
<1> QED  BY <1>1, FetcherInvariant, PTL

\* Fail closed: a parked tenant, or one in a mode without the cache, holds no
\* plaintext DEK, and whatever is cached has a lease that can expire it.
THEOREM ParkedHoldsNothing == Spec => []ParkedIsCold
<1>1. FetcherInv => ParkedIsCold
  BY DEF FetcherInv
<1> QED  BY <1>1, FetcherInvariant, PTL

-----------------------------------------------------------------------------
(* The DEKs that messages carry, as long as no design without a cache is    *)
(* ever chosen.                                                            *)

\* Most steps give out no handle, seal nothing and start no direct call.
LEMMA KnownFrame ==
    ASSUME KnownInv, UNCHANGED <<fetch, handles, sealed>>, deks \subseteq deks',
           \A q \in Procs : proc'[q].job \notin {"seal", "open"}
    PROVE  KnownInv'
  BY DEF KnownInv

LEMMA KnownMove ==
    ASSUME TypeOK, KnownInv, NEW p \in Procs, NEW r, Become(p, r),
           r.job \notin {"seal", "open"}
    PROVE  \A q \in Procs : proc'[q].job \notin {"seal", "open"}
  BY DEF TypeOK, KnownInv, Become

LEMMA KnownSpawn ==
    ASSUME TypeOK, KnownInv, NEW ps,
           ps = proc \/ \E p \in Procs : ps = [proc EXCEPT ![p] = Idle],
           NEW job \in {"probe", "warm"}, NEW d, Spawn(ps, job, d)
    PROVE  \A q \in Procs : proc'[q].job \notin {"seal", "open"}
<1>1. Idle.job = "none" /\ Started(job, "none", 0, d).job = job
  BY DEF Idle, Started
<1>2. ps \in [Procs -> ProcRec] /\ \A q \in Procs : ps[q].job \notin {"seal", "open"}
  BY <1>1, IdleType DEF TypeOK, KnownInv
<1> QED  BY <1>1, <1>2 DEF Spawn

\* A handle of a known DEK is given out.
LEMMA KnownIssue ==
    ASSUME KnownInv, UNCHANGED <<fetch, deks>>, NEW d \in deks, NEW use, Issue(d, use),
           \A q \in Procs : proc'[q].job \notin {"seal", "open"}
    PROVE  KnownInv'
  BY DEF KnownInv, Issue

LEMMA KnownStep ==
    ASSUME CachedOnly, TypeOK, FetchInv, JobInv, KnownInv, Next
    PROVE  KnownInv'
<1> USE DEF kmsVars, tenantVars, cacheVars, retryVars, countVars, useVars
<1>0. /\ ~Direct
      /\ \A q \in Procs : proc[q] \in ProcRec /\ proc[q].job \notin {"seal", "open"}
  BY DEF CachedOnly, KnownInv, Direct, TypeOK
<1>a. Idle.job = "none" /\ \A job, then, want, d : Started(job, then, want, d).job = job
  BY DEF Idle, Started
<1>1. CASE Environment
  <2>1. UNCHANGED <<fetch, handles, sealed, deks, proc>>
    BY <1>1 DEF Environment, Advance, Revoke, Restore, Wear
  <2> QED  BY <1>0, <2>1, KnownFrame
<1>2. ASSUME NEW mode \in Modes, SetFetch(mode) PROVE KnownInv'
  BY <1>2 DEF SetFetch, KnownInv
<1>3. ASSUME NEW p \in Procs, Encrypt(p) PROVE KnownInv'
  <2>1. CASE EncryptProbe(p) \/ EncryptRefused(p) \/ EncryptCold(p)
    <3>1. UNCHANGED <<fetch, handles, sealed, deks>>
      BY <2>1 DEF EncryptProbe, Inline, EncryptRefused, EncryptCold
    <3>2. \E r : Become(p, r) /\ r.job \notin {"seal", "open"}
      BY <1>a, <2>1 DEF EncryptProbe, Inline, EncryptRefused, EncryptCold
    <3> QED  BY <3>1, <3>2, KnownMove, KnownFrame
  <2>2. CASE EncryptHot(p)
    <3>1. /\ UNCHANGED <<fetch, deks>> /\ Issue(active, "seal") /\ active \in deks
          /\ Spawn([proc EXCEPT ![p] = Idle], "probe", 0) \/ Become(p, Idle)
      BY <2>2 DEF EncryptHot, CanSeal, TypeOK
    <3>2. \A q \in Procs : proc'[q].job \notin {"seal", "open"}
      BY <1>a, <3>1, KnownMove, KnownSpawn
    <3> QED  BY <3>1, <3>2, KnownIssue
  <2>3. CASE EncryptDirect(p)
    BY <1>0, <2>3 DEF EncryptDirect
  <2> QED  BY <1>3, <2>1, <2>2, <2>3 DEF Encrypt
<1>4. ASSUME NEW p \in Procs, Decrypt(p) PROVE KnownInv'
  <2>1. CASE DecryptRefused(p)
    <3>1. UNCHANGED <<fetch, handles, sealed, deks>> /\ Become(p, Idle)
      BY <2>1 DEF DecryptRefused
    <3> QED  BY <1>a, <3>1, KnownMove, KnownFrame
  <2>2. ASSUME NEW d \in DEKs, DecryptInline(p, d) PROVE KnownInv'
    <3>1. PICK t \in Reading(1) : Inline(p, DecryptJob(d, t), "decrypt", d)
      BY <2>2 DEF DecryptInline
    <3>2. DecryptJob(d, t) \notin {"seal", "open"}
      BY DEF DecryptJob
    <3>3. /\ UNCHANGED <<fetch, handles, sealed, deks>>
          /\ Become(p, Started(DecryptJob(d, t), "decrypt", d, d))
      BY <3>1 DEF Inline
    <3> QED  BY <1>a, <3>2, <3>3, KnownMove, KnownFrame
  <2>3. ASSUME NEW d \in DEKs, DecryptHot(p, d) PROVE KnownInv'
    <3>1. UNCHANGED <<fetch, deks>> /\ Become(p, Idle) /\ Issue(d, "open") /\ d \in deks
      BY <2>3 DEF DecryptHot
    <3>2. \A q \in Procs : proc'[q].job \notin {"seal", "open"}
      BY <1>a, <3>1, KnownMove
    <3> QED  BY <3>1, <3>2, KnownIssue
  <2>4. ASSUME NEW d \in DEKs, DecryptDirect(p, d) PROVE KnownInv'
    BY <1>0, <2>4 DEF DecryptDirect
  <2> QED  BY <1>4, <2>1, <2>2, <2>3, <2>4 DEF Decrypt
<1>5. CASE Sweep
  <2>1. UNCHANGED <<fetch, handles, sealed, deks>>
    BY <1>5 DEF Sweep, Tick, HotKick, Warm
  <2>2. proc' = proc \/ \E job \in {"probe", "warm"}, d \in DEKs \cup {0} : Spawn(proc, job, d)
    BY <1>5 DEF Sweep, Tick, HotKick, Warm, TypeOK
  <2>3. \A q \in Procs : proc'[q].job \notin {"seal", "open"}
    BY <1>0, <2>2, KnownSpawn
  <2> QED  BY <2>1, <2>3, KnownFrame
<1>6. ASSUME NEW p \in Procs, Flight(p) PROVE KnownInv'
  <2>1. CASE BackCold(p)
    <3>1. UNCHANGED <<fetch, deks>> /\ Become(p, Idle)
      BY <2>1 DEF BackCold
    <3>2. \A q \in Procs : proc'[q].job \notin {"seal", "open"}
      BY <1>a, <3>1, KnownMove
    <3>3. \/ Issue(active, "seal") /\ active \in deks
          \/ UNCHANGED <<handles, sealed>>
      BY <2>1 DEF BackCold, CanSeal, TypeOK
    <3> QED  BY <3>1, <3>2, <3>3, KnownIssue, KnownFrame
  <2>2. CASE BackDirect(p)
    BY <1>0, <2>2 DEF BackDirect
  <2>3. CASE BackProbe(p)
    <3>1. UNCHANGED <<fetch, handles, sealed, deks>>
      BY <2>3 DEF BackProbe
    <3>2. [Idle EXCEPT !.pc = "resume", !.then = proc[p].then,
                       !.want = proc[p].want, !.at = now].job = "none"
      BY DEF Idle
    <3>3. \E r : Become(p, r) /\ r.job = "none"
      BY <1>a, <2>3, <3>2 DEF BackProbe
    <3> QED  BY <3>1, <3>3, KnownMove, KnownFrame
  <2>4. CASE Land(p)
    <3>1. UNCHANGED <<fetch, handles, sealed, deks>>
      BY <2>4 DEF Land
    <3>2. \A q \in Procs : proc'[q].job = proc[q].job
      BY <1>0, <2>4 DEF Land, ProcRec
    <3> QED  BY <1>0, <3>1, <3>2, KnownFrame
  <2>5. CASE Renew(p)
    <3>1. PICK o, k, c :
            /\ Become(p, [proc[p] EXCEPT !.d = active, !.op = o, !.key = k, !.pc = c])
            /\ UNCHANGED <<fetch, handles, sealed, deks>>
      BY <2>5 DEF Renew
    <3>2. [proc[p] EXCEPT !.d = active, !.op = o, !.key = k, !.pc = c].job = proc[p].job
      BY <1>0 DEF ProcRec
    <3> QED  BY <1>0, <3>1, <3>2, KnownMove, KnownFrame
  <2>6. CASE Do(p) \/ RecheckRenew(p) \/ RecheckWarm(p)
    <3>1. PICK c : Become(p, [proc[p] EXCEPT !.pc = c])
      BY <2>6 DEF Do, RecheckRenew, RecheckWarm, Goto, Become
    <3>2. [proc[p] EXCEPT !.pc = c].job = proc[p].job
      BY <1>0 DEF ProcRec
    <3>3. UNCHANGED <<fetch, handles, sealed, deks>>
      BY <2>6 DEF Do, RecheckRenew, RecheckWarm
    <3> QED  BY <1>0, <3>1, <3>2, <3>3, KnownMove, KnownFrame
  <2>7. CASE RecheckSeal(p)
    BY <1>0, <2>7 DEF RecheckSeal
  <2> QED  BY <1>6, <2>1, <2>2, <2>3, <2>4, <2>5, <2>6, <2>7 DEF Flight
<1>7. ASSUME NEW p \in Procs, KMSCall(p) PROVE KnownInv'
  <2>1. UNCHANGED <<fetch, handles, sealed, deks>>
    BY <1>7 DEF KMSCall, Call, Acquire, BulkheadTimeout, Reply, Return, PutDEK
  <2>2. PICK r : Become(p, r) /\ r.job = proc[p].job
    <3>1. CASE Call(p) \/ Acquire(p)
      <4>1. \/ Become(p, [proc[p] EXCEPT !.res = "busy", !.at = now, !.pc = "apply"])
            \/ Become(p, [proc[p] EXCEPT !.sentAt = now, !.pc = "sent"])
            \/ \E f : Become(p, [proc[p] EXCEPT !.counted = f, !.pc = "bulkhead"])
        BY <3>1 DEF Call, Acquire
      <4>2. /\ [proc[p] EXCEPT !.res = "busy", !.at = now, !.pc = "apply"].job = proc[p].job
            /\ [proc[p] EXCEPT !.sentAt = now, !.pc = "sent"].job = proc[p].job
            /\ \A f : [proc[p] EXCEPT !.counted = f, !.pc = "bulkhead"].job = proc[p].job
        BY <1>0 DEF ProcRec
      <4> QED  BY <4>1, <4>2
    <3>2. CASE BulkheadTimeout(p) \/ Reply(p)
      <4>1. PICK v, a, c : Return(p, v, a, c)
        BY <3>2 DEF BulkheadTimeout, Reply
      <4>2. [proc[p] EXCEPT !.res = v, !.sentAt = a, !.at = now,
                            !.counted = FALSE, !.pc = c].job = proc[p].job
        BY <1>0 DEF ProcRec
      <4> QED  BY <4>1, <4>2 DEF Return
    <3>3. CASE PutDEK(p)
      <4>1. /\ [proc[p] EXCEPT !.d = seq + 1, !.pc = "apply"].job = proc[p].job
            /\ [proc[p] EXCEPT !.res = "store", !.pc = "apply"].job = proc[p].job
        BY <1>0 DEF ProcRec
      <4> QED  BY <3>3, <4>1 DEF PutDEK
    <3> QED  BY <1>7, <3>1, <3>2, <3>3 DEF KMSCall
  <2> QED  BY <1>0, <2>1, <2>2, KnownMove, KnownFrame
<1>8. ASSUME NEW p \in Procs, Apply(p) PROVE KnownInv'
  <2>1. UNCHANGED <<fetch, handles, sealed>> /\ deks \subseteq deks' /\ Applied(p)
    BY <1>8 DEF Apply, ApplyNone, ApplyStale, ApplyOK, Registered, ApplyDeny, ApplyTransient
  <2>2. PICK c, d, v :
           Become(p, [proc[p] EXCEPT !.pc = c, !.sentAt = 0, !.at = 0,
                                     !.op = "unwrap", !.d = d, !.res = v])
    BY <2>1 DEF Applied
  <2>3. [proc[p] EXCEPT !.pc = c, !.sentAt = 0, !.at = 0,
                        !.op = "unwrap", !.d = d, !.res = v].job = proc[p].job
    BY <1>0 DEF ProcRec
  <2> QED  BY <1>0, <2>1, <2>2, <2>3, KnownMove, KnownFrame
<1>9. CASE Use
  <2> PICK h \in handles : Seal(h) \/ Open(h) \/ Deliver(h) \/ Refuse(h)
    BY <1>9 DEF Use
  <2>1. h \in Handle /\ h.dek \in deks
    BY DEF TypeOK, KnownInv
  <2>2. [h EXCEPT !.use = "sink", !.at = now].dek = h.dek
    BY <2>1 DEF Handle
  <2>3. UNCHANGED <<fetch, deks, proc>>
    BY DEF Seal, Open, Deliver, Refuse
  <2>4. sealed' \subseteq sealed \cup {h.dek}
    BY DEF Seal, Open, Deliver, Refuse
  <2>5. handles' \subseteq handles \cup {[h EXCEPT !.use = "sink", !.at = now]}
    BY DEF Seal, Open, Deliver, Refuse
  <2> QED  BY <2>1, <2>2, <2>3, <2>4, <2>5 DEF KnownInv
<1> QED  BY <1>1, <1>2, <1>3, <1>4, <1>5, <1>6, <1>7, <1>8, <1>9 DEF Next

\* With a cache, every accepted message can be opened again: its DEK is one the
\* tenant knows and was persisted before it was used.  The hypothesis is needed:
\* a pass-through caller may seal with a DEK that apply ignored as stale.
THEOREM CachedNeverOrphans ==
    ASSUME CachedOnly
    PROVE  Spec => []NoOrphanMessage
<1>1. Init => KnownInv
  BY DEF Init, KnownInv, Idle
<1>2. TypeOK /\ FetchInv /\ FetcherInv /\ KnownInv /\ [Next]_vars => KnownInv'
  <2> SUFFICES ASSUME TypeOK, FetchInv, FetcherInv, KnownInv, [Next]_vars PROVE KnownInv'
    OBVIOUS
  <2>1. CASE Next
    BY <2>1, KnownStep DEF FetcherInv
  <2>2. CASE UNCHANGED vars
    BY <2>2 DEF vars, tenantVars, cacheVars, useVars, KnownInv
  <2> QED  BY <2>1, <2>2
<1>3. FetchInv /\ KnownInv => NoOrphanMessage
  BY DEF FetchInv, KnownInv, NoOrphanMessage
<1> QED  BY <1>1, <1>2, <1>3, TypeCorrect, FetcherInvariant, PTL DEF Spec
=============================================================================
