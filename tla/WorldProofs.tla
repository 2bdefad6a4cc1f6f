---------------------------- MODULE WorldProofs ----------------------------
(***************************************************************************)
(* World proved for every number of clients, Worlds and runners: one live  *)
(* World, a Stop that waits, traffic that follows the viewers, scenarios   *)
(* that put back what they changed and leave their World idle.             *)
(***************************************************************************)
EXTENDS World, FiniteSetTheorems, TLAPS

-----------------------------------------------------------------------------
\* The steps of a handler that holds the holder's lock, from the last on back.
Stopping == {"mark", "cancel", "closeAll", "goroutines", "handlers", "close"}

Marked == Stopping \ {"mark"}

Holding == {"use", "signal", "await", "stream"}

\* The steps at which a run occupies its World's slot.
Occupying == {"enter", "phase", "tail", "waiting", "free"}

\* A handler counted on a World has one, and so has a runner.
HoldInv ==
    /\ \A c \in Clients : client[c].pc \in Holding <=> client[c].w # None
    /\ \A c \in Clients : client[c].pc = "await" => client[c].r # None
    /\ \A r \in Runs : run[r].pc = "none" <=> run[r].w = None
    /\ \A r \in Runs : run[r].pc \in Occupying => run[r].name \in Names /\ run[r].i \in 1..3

\* The holder's lock is held by the one handler that replaces the World; the
\* current World is the one that is open.
LockInv ==
    /\ \A c \in Clients : client[c].pc \in Stopping \cup {"build"} <=> hmu = c
    /\ \A c \in Clients : client[c].pc \in Stopping => cur # None
    /\ \A c \in Clients : client[c].pc = "build" => cur = None
    /\ cur # None => world[cur].store = "open"
    /\ OneWorld

\* What Stop has waited for stays away.
StopInv ==
    /\ \A c \in Clients : client[c].pc \in Marked => world[cur].stopping
    /\ \A c \in Clients : client[c].pc = "handlers" => Running(cur) = {} /\ ~world[cur].busy
    /\ \A c \in Clients : client[c].pc = "close" /\ ~world[cur].timedOut =>
           Running(cur) = {} /\ ~world[cur].busy /\ Holders(cur) = {}
    /\ \A w \in Worlds : world[w].store = "closed" => world[w].timedOut

\* The hub of one World.
HubOK(wr) ==
    /\ wr.gen <=> wr.subs # {}
    /\ wr.subs # {} => wr.idle = "zero"
    /\ wr.closed => wr.subs = {}

HubInv == \A w \in Worlds : HubOK(world[w])

\* A run occupies its World's slot until FreeSlot, and what it shows is shown
\* as long as a run is there to clear it.
SlotInv ==
    /\ \A r \in Runs : run[r].pc \in Occupying => world[run[r].w].cur = r
    /\ \A w \in Worlds : world[w].cur # None =>
           run[world[w].cur].w = w /\ run[world[w].cur].pc \in Occupying
    /\ \A w \in Worlds : world[w].targets # None =>
           \E r \in Runs : run[r].w = w /\ run[r].pc \in Occupying \cup {"targets"}
    /\ \A w \in Worlds : world[w].card # None => \E r \in Runs : run[r].w = w

\* The parts of the environment that requests have not set are at their base
\* value, or will be when the scenario whose phase it is exits.
EnvInv ==
    \A w \in Worlds : \A p \in Parts \ world[w].touched :
        /\ (\A r \in Runs : run[r].w = w => run[r].pc # "phase") => world[w].env[p] = Base[p]
        /\ \A r \in Runs : run[r].w = w /\ run[r].pc = "phase" =>
               Exit(run[r].name, world[w].env)[p] = Base[p]

WorldInv == TypeOK /\ HoldInv /\ LockInv /\ StopInv /\ HubInv /\ SlotInv /\ EnvInv

-----------------------------------------------------------------------------
\* The scenario table.

\* The parts that a scenario changes: the providers whose faults and whose
\* cache it sets, and the three switches.
Faulted(n) ==
    IF n \in {"provider_blip", "provider_outage"} THEN {OutageProvider}
    ELSE IF n = "slow_kms" THEN {SlowProvider}
    ELSE IF n \in {"no_cache", "no_cache_surge"} THEN Providers ELSE {}

Uncached(n) ==
    IF n = "no_cache" THEN {NoCacheProvider}
    ELSE IF n = "no_cache_surge" THEN Providers ELSE {}

\* What exit makes of each part.
ExitParts(n, e) ==
    [fault |-> [q \in Providers |-> IF q \in Faulted(n) THEN "ok" ELSE e.fault[q]],
     fetch |-> [q \in Providers |-> IF q \in Uncached(n) THEN "async" ELSE e.fetch[q]],
     mult |-> IF n = "tenant_surge" THEN FALSE ELSE e.mult,
     global |-> IF n \in {"global_surge", "no_cache_surge"} THEN FALSE ELSE e.global,
     key |-> IF n = "key_revocation" THEN TRUE ELSE e.key]

LEMMA ExitIs ==
    ASSUME NEW e \in EnvRec, NEW n \in Names
    PROVE  Exit(n, e) = ExitParts(n, e)
<1>1. CASE n \in {"tenant_surge", "global_surge", "key_revocation"}
  BY <1>1 DEF Exit, ExitParts, Faulted, Uncached, EnvRec
<1>2. CASE n \in {"provider_blip", "provider_outage", "slow_kms"}
  BY <1>2 DEF Exit, ExitParts, Faulted, Uncached, EnvRec, SetFault
<1>3. CASE n = "no_cache"
  BY <1>3 DEF Exit, ExitParts, Faulted, Uncached, EnvRec, SetFault, SetCache
<1>4. CASE n = "no_cache_surge"
  BY <1>4 DEF Exit, ExitParts, Faulted, Uncached, EnvRec, SetFault, SetCache
<1> QED  BY <1>1, <1>2, <1>3, <1>4 DEF Names

\* A phase changes no other part than those that exit puts back.
LEMMA EnterWithin ==
    ASSUME NEW e \in EnvRec, NEW n \in Names, NEW i \in 1..3
    PROVE  /\ Enter(n, i, e) \in EnvRec
           /\ \A q \in Providers \ Faulted(n) : Enter(n, i, e).fault[q] = e.fault[q]
           /\ \A q \in Providers \ Uncached(n) : Enter(n, i, e).fetch[q] = e.fetch[q]
           /\ n # "tenant_surge" => Enter(n, i, e).mult = e.mult
           /\ n \notin {"global_surge", "no_cache_surge"} => Enter(n, i, e).global = e.global
           /\ n # "key_revocation" => Enter(n, i, e).key = e.key
<1>1. CASE n \in {"tenant_surge", "global_surge", "key_revocation"}
  BY <1>1 DEF Enter, Faulted, Uncached, EnvRec
<1>2. CASE n \in {"provider_blip", "provider_outage", "slow_kms"}
  BY <1>2 DEF Enter, Faulted, Uncached, EnvRec, SetFault, Faults
<1>3. CASE n = "no_cache" /\ i = 1
  BY <1>3 DEF Enter, Faulted, Uncached, EnvRec, SetFault, SetCache, Faults
<1>4. CASE n = "no_cache" /\ i = 2
  BY <1>4 DEF Enter, Faulted, Uncached, EnvRec, SetFault, SetCache, Faults
<1>5. CASE n = "no_cache" /\ i = 3
  BY <1>5 DEF Enter, Faulted, Uncached, EnvRec, SetFault, SetCache, Faults
<1>6. CASE n = "no_cache_surge" /\ i = 1
  BY <1>6 DEF Enter, Faulted, Uncached, EnvRec, SetFault, SetCache, Faults
<1>7. CASE n = "no_cache_surge" /\ i \in {2, 3}
  BY <1>7 DEF Enter, Faulted, Uncached, EnvRec, SetFault, SetCache, Faults
<1> QED  BY <1>1, <1>2, <1>3, <1>4, <1>5, <1>6, <1>7 DEF Names

\* Exit yields an environment; what it leaves in a part depends on that part
\* alone, and is the base value where it was before.
LEMMA ExitType ==
    ASSUME NEW e \in EnvRec, NEW n \in Names
    PROVE  Exit(n, e) \in EnvRec
<1>1. /\ e.fault \in [Providers -> Faults] /\ e.mult \in BOOLEAN /\ e.global \in BOOLEAN
      /\ e.key \in BOOLEAN /\ e.fetch \in [Providers -> {"async", "sync", "passthrough"}]
  BY DEF EnvRec
<1>2. ExitParts(n, e) \in EnvRec
  BY <1>1 DEF ExitParts, EnvRec, Faults
<1> QED  BY <1>2, ExitIs

LEMMA ExitLocal ==
    ASSUME NEW e \in EnvRec, NEW f \in EnvRec, NEW n \in Names, NEW p \in Parts,
           e[p] = f[p]
    PROVE  Exit(n, e)[p] = Exit(n, f)[p]
<1>1. ExitParts(n, e)[p] = ExitParts(n, f)[p]
  <2>1. CASE p = "fault"
    BY <2>1 DEF ExitParts
  <2>2. CASE p = "fetch"
    BY <2>2 DEF ExitParts
  <2>3. CASE p = "mult"
    BY <2>3 DEF ExitParts, EnvRec
  <2>4. CASE p = "global"
    BY <2>4 DEF ExitParts, EnvRec
  <2>5. CASE p = "key"
    BY <2>5 DEF ExitParts, EnvRec
  <2> QED  BY <2>1, <2>2, <2>3, <2>4, <2>5 DEF Parts
<1> QED  BY <1>1, ExitIs

LEMMA ExitBase ==
    ASSUME NEW n \in Names, NEW p \in Parts
    PROVE  Base \in EnvRec /\ Exit(n, Base)[p] = Base[p]
<1>1. Base \in EnvRec
  BY DEF Base, EnvRec, Faults
<1>2. ExitParts(n, Base)[p] = Base[p]
  BY DEF ExitParts, Parts, Base
<1> QED  BY <1>1, <1>2, ExitIs

\* The exit of a scenario undoes each of its phases.
LEMMA ExitUndoes ==
    ASSUME NEW e \in EnvRec, NEW n \in Names, NEW i \in 1..3, NEW p \in Parts
    PROVE  Exit(n, Enter(n, i, e))[p] = Exit(n, e)[p]
<1> DEFINE x == Enter(n, i, e)
<1>1. /\ x \in EnvRec
      /\ \A q \in Providers \ Faulted(n) : x.fault[q] = e.fault[q]
      /\ \A q \in Providers \ Uncached(n) : x.fetch[q] = e.fetch[q]
      /\ n # "tenant_surge" => x.mult = e.mult
      /\ n \notin {"global_surge", "no_cache_surge"} => x.global = e.global
      /\ n # "key_revocation" => x.key = e.key
  BY EnterWithin
<1> HIDE DEF x
<1>2. Exit(n, x) = ExitParts(n, x) /\ Exit(n, e) = ExitParts(n, e)
  BY <1>1, ExitIs
<1>3. ExitParts(n, x) = ExitParts(n, e)
  BY <1>1 DEF ExitParts
<1> QED  BY <1>2, <1>3 DEF x

-----------------------------------------------------------------------------
\* The hub and the records of a World.
LEMMA FreshType == Fresh \in WorldRec /\ Absent \in WorldRec
<1>1. Base \in EnvRec
  BY DEF Base, EnvRec, Faults
<1> QED  BY <1>1 DEF Fresh, Absent, WorldRec

LEMMA ViewersType ==
    ASSUME NEW wr \in WorldRec, NEW n \in Nat
    PROVE  Viewers(wr, n) \in WorldRec
BY DEF Viewers, WorldRec

LEMMA SubsFinite ==
    ASSUME NEW s \in SUBSET Clients
    PROVE  Cardinality(s) \in Nat /\ (Cardinality(s) = 0 <=> s = {})
<1>1. IsFiniteSet(s)
  BY FS_Subset, WorldAssumption
<1> QED  BY <1>1, FS_CardinalityType, FS_EmptySet

LEMMA SubscribeType ==
    ASSUME NEW wr \in WorldRec, NEW c \in Clients
    PROVE  subscribe(wr, c) \in WorldRec
<1> DEFINE s == wr.subs \cup {c}
           x == [wr EXCEPT !.subs = s]
<1>1. s \in SUBSET Clients
  BY DEF WorldRec
<1>2. x \in WorldRec
  BY <1>1 DEF WorldRec
<1>3. Viewers(x, Cardinality(s)) \in WorldRec
  BY <1>1, <1>2, SubsFinite, ViewersType
<1> QED  BY <1>3 DEF subscribe

LEMMA UnsubscribeType ==
    ASSUME NEW wr \in WorldRec, NEW c \in Clients
    PROVE  unsubscribe(wr, c) \in WorldRec
<1> DEFINE s == wr.subs \ {c}
           x == [wr EXCEPT !.subs = s]
<1>1. s \in SUBSET Clients
  BY DEF WorldRec
<1>2. x \in WorldRec
  BY <1>1 DEF WorldRec
<1>3. Viewers(x, Cardinality(s)) \in WorldRec
  BY <1>1, <1>2, SubsFinite, ViewersType
<1> QED  BY <1>2, <1>3 DEF unsubscribe

LEMMA CloseAllType ==
    ASSUME NEW wr \in WorldRec
    PROVE  closeAll(wr) \in WorldRec
<1> DEFINE x == [wr EXCEPT !.closed = TRUE, !.subs = {}]
<1>1. x \in WorldRec
  BY DEF WorldRec
<1> QED  BY <1>1, ViewersType DEF closeAll

\* Nothing is left of a quiet World.
LEMMA QuietMeans ==
    ASSUME TypeOK, NEW w \in Worlds
    PROVE  Quiet(w) <=> Holders(w) = {} /\ Running(w) = {} /\ ~world[w].busy
<1>1. IsFiniteSet(Holders(w)) /\ IsFiniteSet(Running(w))
  BY FS_Subset, WorldAssumption DEF Holders, Running
<1>2. /\ Cardinality(Holders(w)) \in Nat /\ (Cardinality(Holders(w)) = 0 <=> Holders(w) = {})
      /\ Cardinality(Running(w)) \in Nat /\ (Cardinality(Running(w)) = 0 <=> Running(w) = {})
  BY <1>1, FS_CardinalityType, FS_EmptySet
<1> QED  BY <1>2 DEF Quiet, Left

-----------------------------------------------------------------------------
\* The types, action by action.

\* A handler moves on, is handed a World or is done.
LEMMA ClientTypes ==
    ASSUME TypeOK, HoldInv, NEW c \in Clients, NEW rec \in ClientRec,
           client' = [client EXCEPT ![c] = rec],
           rec.pc \in Holding <=> rec.w # None,
           rec.pc = "await" => rec.r # None,
           hmu' \in Clients \cup {None}, cur' \in Worlds \cup {None},
           world' \in [Worlds -> WorldRec], run' = run, bound' = bound
    PROVE  TypeOK' /\ HoldInv'
<1>1. TypeOK'
  BY DEF TypeOK
<1>2. HoldInv'
  BY DEF TypeOK, HoldInv
<1> QED  BY <1>1, <1>2

LEMMA HandTypes ==
    ASSUME TypeOK, HoldInv, NEW c \in Clients, NEW w \in Worlds, NEW wr \in WorldRec,
           client[c].req # "reset", Hand(c, w, wr),
           hmu' \in Clients \cup {None}, cur' \in Worlds \cup {None},
           run' = run, bound' = bound
    PROVE  TypeOK' /\ HoldInv'
<1> DEFINE rec == [client[c] EXCEPT !.pc = IF client[c].req = "stream" THEN "stream" ELSE "use",
                                    !.w = w]
<1>1. client[c] \in ClientRec
  BY DEF TypeOK
<1>2. rec \in ClientRec /\ rec.pc \in {"stream", "use"} /\ rec.w = w
  BY <1>1 DEF ClientRec
<1>3. client' = [client EXCEPT ![c] = rec]
  BY <1>1 DEF Hand, TypeOK, ClientRec
<1>4. world' \in [Worlds -> WorldRec]
  <2>1. subscribe(wr, c) \in WorldRec
    BY SubscribeType
  <2> QED  BY <2>1 DEF Hand, TypeOK
<1>5. (rec.pc \in Holding <=> rec.w # None) /\ rec.pc # "await"
  BY <1>2, WorldAssumption DEF Holding
<1> HIDE DEF rec
<1> QED  BY <1>2, <1>3, <1>4, <1>5, ClientTypes

LEMMA LockTypes ==
    ASSUME WorldInv, NEW c \in Clients, Request(c) \/ LockStep(c)
    PROVE  TypeOK' /\ HoldInv'
<1>0. TypeOK /\ HoldInv /\ LockInv
  BY DEF WorldInv
<1>i. Idle \in ClientRec /\ Idle.pc = "idle" /\ Idle.w = None
  BY DEF Idle, ClientRec
<1>c. client[c] \in ClientRec
  BY <1>0 DEF TypeOK
<1>1. CASE Request(c)
  <2>1. PICK q \in {"stream", "reset", "health", "control"} :
           client' = [client EXCEPT ![c].pc = "lock", ![c].req = q]
    BY <1>1 DEF Request
  <2> DEFINE rec == [client[c] EXCEPT !.pc = "lock", !.req = q]
  <2>2. rec \in ClientRec /\ rec.pc = "lock" /\ rec.w = client[c].w
    BY <1>c DEF ClientRec
  <2>3. client' = [client EXCEPT ![c] = rec]
    BY <1>0, <2>1 DEF TypeOK, ClientRec
  <2>4. client[c].w = None
    BY <1>0, <1>1 DEF Request, HoldInv, Holding
  <2>5. /\ hmu' \in Clients \cup {None} /\ cur' \in Worlds \cup {None}
        /\ world' \in [Worlds -> WorldRec] /\ run' = run /\ bound' = bound
    BY <1>0, <1>1 DEF Request, TypeOK
  <2> HIDE DEF rec
  <2> QED  BY <1>0, <2>2, <2>3, <2>4, <2>5, ClientTypes DEF Holding
<1>2. CASE HandCurrent(c)
  <2>1. cur \in Worlds /\ world[cur] \in WorldRec
    BY <1>0, <1>2 DEF HandCurrent, TypeOK
  <2>2. /\ client[c].req # "reset" /\ Hand(c, cur, world[cur])
        /\ hmu' \in Clients \cup {None} /\ cur' \in Worlds \cup {None}
        /\ run' = run /\ bound' = bound
    BY <1>0, <1>2 DEF HandCurrent, TypeOK
  <2> QED  BY <1>0, <2>1, <2>2, HandTypes
<1>3. CASE NoWorld(c)
  <2>1. /\ client' = [client EXCEPT ![c] = Idle]
        /\ hmu' \in Clients \cup {None} /\ cur' \in Worlds \cup {None}
        /\ world' \in [Worlds -> WorldRec] /\ run' = run /\ bound' = bound
    BY <1>0, <1>3 DEF NoWorld, TypeOK
  <2> QED  BY <1>0, <1>i, <2>1, ClientTypes DEF Holding
<1>4. CASE Replace(c)
  <2> DEFINE rec == [client[c] EXCEPT !.pc = "mark"]
  <2>2. rec \in ClientRec /\ rec.pc = "mark" /\ rec.w = client[c].w
    BY <1>c DEF ClientRec
  <2>3. client' = [client EXCEPT ![c] = rec]
    BY <1>0, <1>4 DEF Replace, TypeOK, ClientRec
  <2>4. client[c].w = None
    BY <1>0, <1>4 DEF Replace, HoldInv, Holding
  <2>5. /\ hmu' \in Clients \cup {None} /\ cur' \in Worlds \cup {None}
        /\ world' \in [Worlds -> WorldRec] /\ run' = run /\ bound' = bound
    BY <1>0, <1>4 DEF Replace, TypeOK
  <2> HIDE DEF rec
  <2> QED  BY <1>0, <2>2, <2>3, <2>4, <2>5, ClientTypes DEF Holding
<1>5. CASE build(c)
  <2> DEFINE w == CHOOSE w \in Worlds : world[w].store # "open" /\ Quiet(w)
  <2>1. w \in Worlds
    BY <1>5 DEF build
  <2>2. /\ hmu' \in Clients \cup {None} /\ cur' \in Worlds \cup {None}
        /\ run' = run /\ bound' = bound
    BY <1>5, <2>1 DEF build
  <2>3. CASE client[c].req = "reset"
    <3>1. world' = [world EXCEPT ![w] = Fresh] /\ client' = [client EXCEPT ![c] = Idle]
      BY <1>5, <2>3 DEF build
    <3> HIDE DEF w
    <3>2. world' \in [Worlds -> WorldRec]
      BY <1>0, <3>1, FreshType DEF TypeOK
    <3> QED  BY <1>0, <1>i, <2>2, <3>1, <3>2, ClientTypes DEF Holding
  <2>4. CASE client[c].req # "reset"
    <3>1. Hand(c, w, Fresh)
      BY <1>5, <2>4 DEF build
    <3> HIDE DEF w
    <3> QED  BY <1>0, <2>1, <2>2, <2>4, <3>1, FreshType, HandTypes
  <2> QED  BY <2>3, <2>4
<1>6. CASE buildFails(c)
  <2>1. /\ client' = [client EXCEPT ![c] = Idle]
        /\ hmu' \in Clients \cup {None} /\ cur' \in Worlds \cup {None}
        /\ world' \in [Worlds -> WorldRec] /\ run' = run /\ bound' = bound
    BY <1>0, <1>6 DEF buildFails, TypeOK
  <2> QED  BY <1>0, <1>i, <2>1, ClientTypes DEF Holding
<1> QED  BY <1>1, <1>2, <1>3, <1>4, <1>5, <1>6 DEF LockStep

\* A step of Stop moves the handler that makes it.
LEMMA StopStepTypes ==
    ASSUME TypeOK, HoldInv, NEW c \in Clients, NEW from \in Stopping,
           NEW to \in Stopping \cup {"build"}, StopStep(c, from, to),
           cur' \in Worlds \cup {None}, world' \in [Worlds -> WorldRec]
    PROVE  TypeOK' /\ HoldInv'
<1> DEFINE rec == [client[c] EXCEPT !.pc = to]
<1>c. client[c] \in ClientRec /\ client[c].pc = from
  BY DEF TypeOK, StopStep
<1>1. rec \in ClientRec /\ rec.pc = to /\ rec.w = client[c].w
  BY <1>c DEF ClientRec, Stopping
<1>2. client' = [client EXCEPT ![c] = rec]
  BY DEF StopStep, TypeOK, ClientRec
<1>3. client[c].w = None
  BY <1>c DEF HoldInv, Holding, Stopping
<1>4. hmu' \in Clients \cup {None} /\ run' = run /\ bound' = bound
  BY DEF StopStep, TypeOK
<1>5. rec.pc \notin Holding
  BY <1>1 DEF Holding, Stopping
<1>6. rec.pc # "await" /\ rec.w = None
  BY <1>1, <1>3 DEF Stopping
<1> HIDE DEF rec
<1> QED  BY <1>1, <1>2, <1>4, <1>5, <1>6, ClientTypes

LEMMA StopTypes ==
    ASSUME WorldInv, NEW c \in Clients, StopSteps(c) \/ StopTimeout(c)
    PROVE  TypeOK' /\ HoldInv'
<1>0. TypeOK /\ HoldInv /\ LockInv
  BY DEF WorldInv
<1>p. Stopping = {"mark", "cancel", "closeAll", "goroutines", "handlers", "close"}
  BY DEF Stopping
<1>w. client[c].pc \in Stopping => cur \in Worlds /\ world[cur] \in WorldRec
  BY <1>0 DEF TypeOK, LockInv
<1>u. cur \in Worlds \cup {None}
  BY <1>0 DEF TypeOK
<1>1. CASE MarkStopping(c)
  <2>1. StopStep(c, "mark", "cancel") /\ cur' = cur
    BY <1>1 DEF MarkStopping
  <2>2. [world[cur] EXCEPT !.stopping = TRUE] \in WorldRec
    BY <1>w, <1>p, <2>1 DEF StopStep, WorldRec
  <2>3. world' \in [Worlds -> WorldRec]
    BY <1>0, <1>1, <2>2 DEF MarkStopping, TypeOK
  <2> QED  BY <1>0, <1>p, <1>u, <2>1, <2>3, StopStepTypes
<1>2. CASE CancelContext(c)
  <2>1. StopStep(c, "cancel", "closeAll") /\ cur' = cur
    BY <1>2 DEF CancelContext
  <2>2. [world[cur] EXCEPT !.cancelled = TRUE] \in WorldRec
    BY <1>w, <1>p, <2>1 DEF StopStep, WorldRec
  <2>3. world' \in [Worlds -> WorldRec]
    BY <1>0, <1>2, <2>2 DEF CancelContext, TypeOK
  <2> QED  BY <1>0, <1>p, <1>u, <2>1, <2>3, StopStepTypes
<1>3. CASE CloseHub(c)
  <2>1. StopStep(c, "closeAll", "goroutines") /\ cur' = cur
    BY <1>3 DEF CloseHub
  <2>2. closeAll(world[cur]) \in WorldRec
    BY <1>w, <1>p, <2>1, CloseAllType DEF StopStep
  <2>3. world' \in [Worlds -> WorldRec]
    BY <1>0, <1>3, <2>2 DEF CloseHub, TypeOK
  <2> QED  BY <1>0, <1>p, <1>u, <2>1, <2>3, StopStepTypes
<1>4. CASE GoroutinesDone(c)
  <2>1. /\ StopStep(c, "goroutines", "handlers") /\ cur' = cur
        /\ world' \in [Worlds -> WorldRec]
    BY <1>0, <1>4 DEF GoroutinesDone, TypeOK
  <2> QED  BY <1>0, <1>p, <1>u, <2>1, StopStepTypes
<1>5. CASE HandlersDone(c)
  <2>1. /\ StopStep(c, "handlers", "close") /\ cur' = cur
        /\ world' \in [Worlds -> WorldRec]
    BY <1>0, <1>5 DEF HandlersDone, TypeOK
  <2> QED  BY <1>0, <1>p, <1>u, <2>1, StopStepTypes
<1>6. CASE CloseStore(c)
  <2>1. StopStep(c, "close", "build") /\ cur' = None
    BY <1>6 DEF CloseStore
  <2>2. [world[cur] EXCEPT !.store = "closed"] \in WorldRec
    BY <1>w, <1>p, <2>1 DEF StopStep, WorldRec
  <2>3. world' \in [Worlds -> WorldRec]
    BY <1>0, <1>6, <2>2, FreshType DEF CloseStore, TypeOK
  <2> QED  BY <1>0, <1>p, <2>1, <2>3, StopStepTypes
<1>7. CASE StopTimeout(c)
  <2>1. /\ StopStep(c, "goroutines", "close") \/ StopStep(c, "handlers", "close")
        /\ cur' = cur
    BY <1>7 DEF StopTimeout
  <2>2. [world[cur] EXCEPT !.timedOut = TRUE] \in WorldRec
    BY <1>w, <1>p, <2>1 DEF StopStep, WorldRec
  <2>3. world' \in [Worlds -> WorldRec]
    BY <1>0, <1>7, <2>2 DEF StopTimeout, TypeOK
  <2> QED  BY <1>0, <1>p, <1>u, <2>1, <2>3, StopStepTypes
<1> QED  BY <1>1, <1>2, <1>3, <1>4, <1>5, <1>6, <1>7 DEF StopSteps

\* The values a request sets by hand.
LEMMA SetByHandType ==
    ASSUME NEW e \in EnvRec, NEW p \in Parts, NEW v \in ByHand(p)
    PROVE  [e EXCEPT ![p] = v] \in EnvRec
<1>1. CASE p = "fault"
  BY <1>1 DEF ByHand, EnvRec, Faults
<1>2. CASE p = "fetch"
  BY <1>2 DEF ByHand, EnvRec
<1>3. CASE p = "mult"
  BY <1>3 DEF ByHand, EnvRec
<1>4. CASE p = "global"
  BY <1>4 DEF ByHand, EnvRec
<1>5. CASE p = "key"
  BY <1>5 DEF ByHand, EnvRec
<1> QED  BY <1>1, <1>2, <1>3, <1>4, <1>5 DEF Parts

\* A handler releases its World.
LEMMA ReleaseTypes ==
    ASSUME TypeOK, HoldInv, NEW c \in Clients, Release(c),
           world' \in [Worlds -> WorldRec], run' = run, UNCHANGED <<hmu, cur, bound>>
    PROVE  TypeOK' /\ HoldInv'
<1>1. Idle \in ClientRec /\ Idle.pc = "idle" /\ Idle.w = None
  BY DEF Idle, ClientRec
<1>2. /\ client' = [client EXCEPT ![c] = Idle]
      /\ hmu' \in Clients \cup {None} /\ cur' \in Worlds \cup {None} /\ bound' = bound
  BY DEF Release, TypeOK
<1> QED  BY <1>1, <1>2, ClientTypes DEF Holding

\* A runner moves on.
LEMMA RunTypes ==
    ASSUME TypeOK, HoldInv, NEW r \in Runs, NEW rec \in RunRec,
           run' = [run EXCEPT ![r] = rec],
           rec.pc = "none" <=> rec.w = None,
           rec.pc \in Occupying => rec.name \in Names /\ rec.i \in 1..3,
           UNCHANGED <<hmu, cur, bound>>, world' \in [Worlds -> WorldRec],
           \/ client' = client
           \/ \E c \in Clients : Release(c)
           \/ \E c \in Clients, q \in Runs :
                /\ client[c].pc = "use"
                /\ client' = [client EXCEPT ![c].pc = "await", ![c].r = q]
           \/ client' = [c \in Clients |-> IF client[c].pc = "await" /\ client[c].r = r
                                           THEN Idle ELSE client[c]]
    PROVE  TypeOK' /\ HoldInv'
<1>i. Idle \in ClientRec /\ Idle.pc = "idle" /\ Idle.w = None
  BY DEF Idle, ClientRec
<1>1. /\ client' \in [Clients -> ClientRec]
      /\ \A c \in Clients : client'[c].pc \in Holding <=> client'[c].w # None
      /\ \A c \in Clients : client'[c].pc = "await" => client'[c].r # None
  <2>1. CASE client' = client
    BY <2>1 DEF TypeOK, HoldInv
  <2>2. CASE \E c \in Clients : Release(c)
    BY <1>i, <2>2 DEF TypeOK, HoldInv, Release, Holding
  <2>3. CASE \E c \in Clients, q \in Runs :
                /\ client[c].pc = "use"
                /\ client' = [client EXCEPT ![c].pc = "await", ![c].r = q]
    <3>1. PICK c \in Clients, q \in Runs :
                /\ client[c].pc = "use"
                /\ client' = [client EXCEPT ![c].pc = "await", ![c].r = q]
      BY <2>3
    <3>2. client[c] \in ClientRec
      BY DEF TypeOK
    <3>3. [client[c] EXCEPT !.pc = "await", !.r = q] \in ClientRec
      BY <3>2 DEF ClientRec
    <3>4. client' \in [Clients -> ClientRec]
      BY <3>1, <3>3 DEF TypeOK
    <3>5. \A d \in Clients : client'[d] = IF d = c THEN [client[c] EXCEPT !.pc = "await", !.r = q]
                                           ELSE client[d]
      BY <3>1 DEF TypeOK
    <3>6. client'[c].pc = "await" /\ client'[c].w = client[c].w /\ client'[c].r = q
      BY <3>2, <3>5 DEF ClientRec
    <3> QED  BY <3>1, <3>4, <3>5, <3>6, WorldAssumption DEF HoldInv, Holding
  <2>4. CASE client' = [c \in Clients |-> IF client[c].pc = "await" /\ client[c].r = r
                                           THEN Idle ELSE client[c]]
    BY <1>i, <2>4 DEF TypeOK, HoldInv, Holding
  <2> QED  BY <2>1, <2>2, <2>3, <2>4
<1>2. TypeOK'
  BY <1>1 DEF TypeOK
<1>3. HoldInv'
  BY <1>1 DEF TypeOK, HoldInv
<1> QED  BY <1>2, <1>3

LEMMA BodyTypes ==
    ASSUME WorldInv, NEW c \in Clients, Body(c) \/ EndStream(c)
    PROVE  TypeOK' /\ HoldInv'
<1>0. TypeOK /\ HoldInv /\ SlotInv
  BY DEF WorldInv
<1> DEFINE w == client[c].w
<1>w. /\ client[c] \in ClientRec
      /\ client[c].pc \in Holding => w \in Worlds /\ world[w] \in WorldRec
  BY <1>0 DEF TypeOK, HoldInv, ClientRec
<1>b. bound.runs \subseteq Runs /\ bound.started \subseteq Names /\ bound.touch \subseteq Parts
  BY <1>0, WorldAssumption DEF TypeOK
<1>1. CASE Served(c) \/ StartRefused(c) \/ StopNothing(c)
  <2>1. /\ Release(c) /\ UNCHANGED <<hmu, cur, bound>> /\ run' = run
        /\ world' \in [Worlds -> WorldRec]
    BY <1>0, <1>1 DEF Served, StartRefused, StopNothing, TypeOK
  <2> QED  BY <1>0, <2>1, ReleaseTypes
<1>2. CASE EndStream(c)
  <2>1. /\ Release(c) /\ UNCHANGED <<hmu, cur, bound>> /\ run' = run
        /\ world' = [world EXCEPT ![w] = unsubscribe(@, c)] /\ client[c].pc = "stream"
    BY <1>2 DEF EndStream
  <2>2. unsubscribe(world[w], c) \in WorldRec
    BY <1>w, <2>1, UnsubscribeType DEF Holding
  <2>3. world' \in [Worlds -> WorldRec]
    BY <1>0, <2>1, <2>2 DEF TypeOK
  <2> QED  BY <1>0, <2>1, <2>3, ReleaseTypes
<1>3. CASE SetByHand(c)
  <2>1. /\ Release(c) /\ UNCHANGED <<hmu, cur, bound>> /\ run' = run
        /\ client[c].pc = "use"
    BY <1>3 DEF SetByHand, Control
  <2>2. PICK p \in bound.touch : \E v \in ByHand(p) :
           world' = [world EXCEPT ![w].env[p] = v, ![w].touched = @ \cup {p}]
    BY <1>3 DEF SetByHand
  <2>3. PICK v \in ByHand(p) :
           world' = [world EXCEPT ![w].env[p] = v, ![w].touched = @ \cup {p}]
    BY <2>2
  <2>4. w \in Worlds /\ world[w] \in WorldRec
    BY <1>w, <2>1 DEF Holding
  <2>5. [world[w].env EXCEPT ![p] = v] \in EnvRec /\ world[w].touched \cup {p} \subseteq Parts
    BY <1>b, <2>2, <2>3, <2>4, SetByHandType DEF WorldRec
  <2> HIDE DEF w
  <2>6. world' = [world EXCEPT ![w] = [world[w] EXCEPT !.env = [world[w].env EXCEPT ![p] = v],
                                                       !.touched = world[w].touched \cup {p}]]
    BY <1>0, <2>3, <2>4 DEF TypeOK
  <2>7. [world[w] EXCEPT !.env = [world[w].env EXCEPT ![p] = v],
                         !.touched = world[w].touched \cup {p}] \in WorldRec
    BY <2>4, <2>5 DEF WorldRec
  <2>8. world' \in [Worlds -> WorldRec]
    BY <1>0, <2>6, <2>7 DEF TypeOK
  <2> QED  BY <1>0, <2>1, <2>8, ReleaseTypes
<1>4. CASE Restore(c)
  <2>1. /\ world' = [world EXCEPT ![w].env.key = TRUE]
        /\ client' = [client EXCEPT ![c].pc = "signal"]
        /\ client[c].pc = "use" /\ UNCHANGED <<hmu, cur, run, bound>>
    BY <1>4 DEF Restore, Control
  <2>2. w \in Worlds /\ world[w] \in WorldRec
    BY <1>w, <2>1 DEF Holding
  <2>3. [world[w].env EXCEPT !.key = TRUE] \in EnvRec
    BY <2>2 DEF WorldRec, EnvRec
  <2>4. [world[w] EXCEPT !.env = [world[w].env EXCEPT !.key = TRUE]] \in WorldRec
    BY <2>2, <2>3 DEF WorldRec
  <2>5. world' = [world EXCEPT ![w] = [world[w] EXCEPT !.env = [world[w].env EXCEPT !.key = TRUE]]]
    BY <1>0, <2>1, <2>2 DEF TypeOK
  <2>6. world' \in [Worlds -> WorldRec]
    BY <1>0, <2>4, <2>5 DEF TypeOK
  <2> DEFINE rec == [client[c] EXCEPT !.pc = "signal"]
  <2>7. rec \in ClientRec /\ rec.pc = "signal" /\ rec.w = w
    BY <1>w DEF ClientRec
  <2>8. client' = [client EXCEPT ![c] = rec]
    BY <1>0, <2>1 DEF TypeOK
  <2>9. w # None
    BY <2>2, WorldAssumption
  <2>10. /\ hmu' \in Clients \cup {None} /\ cur' \in Worlds \cup {None}
         /\ run' = run /\ bound' = bound
    BY <1>0, <2>1 DEF TypeOK
  <2> HIDE DEF rec
  <2> QED  BY <1>0, <2>6, <2>7, <2>8, <2>9, <2>10, ClientTypes DEF Holding
<1>5. CASE SignalRun(c)
  <2> DEFINE r == world[w].cur
  <2>1. Release(c) /\ UNCHANGED <<hmu, cur, bound>> /\ world' \in [Worlds -> WorldRec]
    BY <1>0, <1>5 DEF SignalRun, TypeOK
  <2>2. CASE run' = run
    BY <1>0, <2>1, <2>2, ReleaseTypes
  <2>3. CASE run' # run
    <3>1. run' = [run EXCEPT ![r].signal = TRUE] /\ r # None
      BY <1>5, <2>3 DEF SignalRun
    <3>2. w \in Worlds /\ world[w] \in WorldRec
      BY <1>w, <1>5 DEF Holding, SignalRun
    <3>3. r \in Runs
      BY <3>1, <3>2 DEF WorldRec
    <3> HIDE DEF r
    <3> DEFINE rec == [run[r] EXCEPT !.signal = TRUE]
    <3>4. run[r] \in RunRec
      BY <1>0, <3>3 DEF TypeOK
    <3>5. rec \in RunRec /\ rec.pc = run[r].pc /\ rec.w = run[r].w /\ rec.name = run[r].name
          /\ rec.i = run[r].i
      BY <3>4 DEF RunRec
    <3>6. run' = [run EXCEPT ![r] = rec]
      BY <1>0, <3>1, <3>3 DEF TypeOK
    <3>7. /\ run[r].pc = "none" <=> run[r].w = None
          /\ run[r].pc \in Occupying => run[r].name \in Names /\ run[r].i \in 1..3
      BY <1>0, <3>3 DEF HoldInv
    <3> HIDE DEF rec
    <3> QED  BY <1>0, <2>1, <3>3, <3>5, <3>6, <3>7, RunTypes
  <2> QED  BY <2>2, <2>3
<1>6. CASE StartScenario(c)
  <2> DEFINE r == CHOOSE r \in bound.runs : run[r].pc = "none"
  <2>1. r \in Runs
    BY <1>b, <1>6 DEF StartScenario
  <2>2. PICK n \in bound.started :
        /\ run' = [run EXCEPT ![r] = [NoRun EXCEPT !.pc = "enter", !.w = w, !.name = n, !.i = 1]]
        /\ world' = [world EXCEPT ![w] = SetTargets([@ EXCEPT !.cur = r], n)]
    BY <1>6 DEF StartScenario
  <2>3. /\ client' = [client EXCEPT ![c].pc = "await", ![c].r = r]
        /\ UNCHANGED <<hmu, cur, bound>> /\ client[c].pc = "use"
    BY <1>6 DEF StartScenario, Control
  <2>4. w \in Worlds /\ world[w] \in WorldRec /\ n \in Names
    BY <1>w, <1>b, <2>3 DEF Holding
  <2> HIDE DEF r, w
  <2> DEFINE rec == [NoRun EXCEPT !.pc = "enter", !.w = w, !.name = n, !.i = 1]
  <2>5. rec \in RunRec /\ rec.pc = "enter" /\ rec.w = w /\ rec.name = n /\ rec.i = 1
    <3>1. NoRun \in RunRec
      BY DEF NoRun, RunRec
    <3>2. 1 \in 0..3
      OBVIOUS
    <3>3. w \in Worlds \cup {None} /\ n \in Names \cup {None}
      BY <2>4
    <3>4. rec \in RunRec
      BY <3>1, <3>2, <3>3 DEF RunRec
    <3>5. rec.pc = "enter" /\ rec.w = w /\ rec.name = n /\ rec.i = 1
      BY <3>1 DEF RunRec
    <3> QED  BY <3>4, <3>5
  <2>6. w # None
    BY <2>4, WorldAssumption
  <2> DEFINE wr == SetTargets([world[w] EXCEPT !.cur = r], n)
  <2>8. wr \in WorldRec
    BY <2>1, <2>4 DEF SetTargets, WorldRec
  <2>a. world' = [world EXCEPT ![w] = wr]
    BY <2>2
  <2> HIDE DEF wr
  <2>9. world' \in [Worlds -> WorldRec]
    BY <1>0, <2>8, <2>a DEF TypeOK
  <2>b. run' = [run EXCEPT ![r] = rec] /\ 1 \in 1..3
    BY <2>2
  <2>10. \E d \in Clients, q \in Runs :
            /\ client[d].pc = "use"
            /\ client' = [client EXCEPT ![d].pc = "await", ![d].r = q]
    BY <2>1, <2>3
  <2>11. /\ rec.pc = "none" <=> rec.w = None
         /\ rec.pc \in Occupying => rec.name \in Names /\ rec.i \in 1..3
    BY <2>4, <2>5, <2>6, <2>b
  <2> HIDE DEF rec
  <2>12. rec \in RunRec /\ UNCHANGED <<hmu, cur, bound>>
    BY <2>3, <2>5
  <2> QED  BY ONLY <1>0, <2>1, <2>9, <2>b, <2>10, <2>11, <2>12, RunTypes
<1>7. CASE StopScenario(c)
  <2> DEFINE r == world[w].cur
  <2>1. /\ client' = [client EXCEPT ![c].pc = "await", ![c].r = r] /\ client[c].pc = "use"
        /\ run' = [run EXCEPT ![r].cancel = TRUE] /\ r # None
        /\ UNCHANGED <<hmu, cur, bound>> /\ world' = world
    BY <1>7 DEF StopScenario, Control
  <2>2. w \in Worlds /\ world[w] \in WorldRec
    BY <1>w, <2>1 DEF Holding
  <2>3. r \in Runs
    BY <2>1, <2>2 DEF WorldRec
  <2> HIDE DEF r
  <2> DEFINE rec == [run[r] EXCEPT !.cancel = TRUE]
  <2>4. run[r] \in RunRec
    BY <1>0, <2>3 DEF TypeOK
  <2>5. rec \in RunRec /\ rec.pc = run[r].pc /\ rec.w = run[r].w /\ rec.name = run[r].name
        /\ rec.i = run[r].i
    BY <2>4 DEF RunRec
  <2>6. run' = [run EXCEPT ![r] = rec]
    BY <1>0, <2>1, <2>3 DEF TypeOK
  <2>7. /\ run[r].pc = "none" <=> run[r].w = None
        /\ run[r].pc \in Occupying => run[r].name \in Names /\ run[r].i \in 1..3
    BY <1>0, <2>3 DEF HoldInv
  <2>8. \E d \in Clients, q \in Runs :
           /\ client[d].pc = "use"
           /\ client' = [client EXCEPT ![d].pc = "await", ![d].r = q]
    BY <2>1, <2>3
  <2>9. world' \in [Worlds -> WorldRec]
    BY <1>0, <2>1 DEF TypeOK
  <2>10. /\ rec.pc = "none" <=> rec.w = None
         /\ rec.pc \in Occupying => rec.name \in Names /\ rec.i \in 1..3
    BY <2>5, <2>7
  <2> HIDE DEF rec
  <2>11. rec \in RunRec /\ UNCHANGED <<hmu, cur, bound>>
    BY <2>1, <2>5
  <2> QED  BY ONLY <1>0, <2>3, <2>6, <2>8, <2>9, <2>10, <2>11, RunTypes
<1> QED  BY <1>1, <1>2, <1>3, <1>4, <1>5, <1>6, <1>7 DEF Body

LEMMA WorldTypes ==
    ASSUME WorldInv, NEW w \in Worlds, GoroutinesReturn(w) \/ GrowIdle(w)
    PROVE  TypeOK' /\ HoldInv'
<1>0. TypeOK /\ HoldInv /\ world[w] \in WorldRec
  BY DEF WorldInv, TypeOK
<1>1. /\ [world[w] EXCEPT !.busy = FALSE] \in WorldRec
      /\ [world[w] EXCEPT !.idle = "long"] \in WorldRec
  BY <1>0 DEF WorldRec
<1>2. world' \in [Worlds -> WorldRec] /\ UNCHANGED <<hmu, cur, run, client, bound>>
  BY <1>0, <1>1 DEF GoroutinesReturn, GrowIdle, TypeOK
<1> QED  BY <1>0, <1>2 DEF TypeOK, HoldInv

\* A step of a runner.
LEMMA RunnerTypes ==
    ASSUME TypeOK, HoldInv, NEW r \in Runs, run[r].pc # "none",
           NEW to \in {"tail", "waiting", "free", "targets", "card"}, NEW wr \in WorldRec,
           Runner(r, to, wr), to \in Occupying => run[r].pc \in Occupying
    PROVE  TypeOK' /\ HoldInv'
<1> DEFINE rec == [run[r] EXCEPT !.pc = to, !.signal = FALSE]
<1>1. run[r] \in RunRec
  BY DEF TypeOK
<1>2. rec \in RunRec /\ rec.pc = to /\ rec.w = run[r].w /\ rec.name = run[r].name
      /\ rec.i = run[r].i
  BY <1>1 DEF RunRec
<1>3. run' = [run EXCEPT ![r] = rec]
  BY DEF Runner, TypeOK
<1>4. run[r].w # None /\ (run[r].pc \in Occupying => run[r].name \in Names /\ run[r].i \in 1..3)
  BY DEF HoldInv
<1>5. world' \in [Worlds -> WorldRec] /\ UNCHANGED <<hmu, cur, bound>> /\ client' = client
  BY DEF Runner, TypeOK
<1>6. /\ rec.pc = "none" <=> rec.w = None
      /\ rec.pc \in Occupying => rec.name \in Names /\ rec.i \in 1..3
  BY <1>2, <1>4
<1> HIDE DEF rec
<1> QED  BY <1>2, <1>3, <1>5, <1>6, RunTypes

LEMMA RunnerStepTypes ==
    ASSUME WorldInv, NEW r \in Runs, RunnerStep(r)
    PROVE  TypeOK' /\ HoldInv'
<1>0. TypeOK /\ HoldInv
  BY DEF WorldInv
<1> DEFINE w == run[r].w
           n == run[r].name
<1>r. run[r] \in RunRec
  BY <1>0 DEF TypeOK
<1>w. run[r].pc # "none" => w \in Worlds /\ world[w] \in WorldRec /\ world[w].env \in EnvRec
  BY <1>0, <1>r DEF HoldInv, TypeOK, RunRec, WorldRec
<1>n. run[r].pc \in Occupying => n \in Names /\ run[r].i \in 1..3
  BY <1>0 DEF HoldInv
<1>o. Occupying = {"enter", "phase", "tail", "waiting", "free"}
  BY DEF Occupying
<1>f. CASE FirstPhase(r)
  <2> DEFINE rec == [run[r] EXCEPT !.pc = "phase"]
             wr == SetScenario([world[w] EXCEPT !.env = Enter(n, 1, world[w].env)], n)
  <2>1. /\ run[r].pc = "enter"
        /\ run' = [run EXCEPT ![r].pc = "phase"]
        /\ world' = [world EXCEPT ![w] = wr]
        /\ client' = [c \in Clients |-> IF client[c].pc = "await" /\ client[c].r = r
                                        THEN Idle ELSE client[c]]
        /\ UNCHANGED <<hmu, cur, bound>>
    BY <1>f DEF FirstPhase, AwaitersReturn, At
  <2>2. n \in Names /\ run[r].i \in 1..3 /\ w \in Worlds /\ world[w] \in WorldRec
        /\ world[w].env \in EnvRec
    BY <1>n, <1>w, <1>o, <2>1
  <2>3. run' = [run EXCEPT ![r] = rec]
    BY <1>0, <2>1 DEF TypeOK
  <2>4. 1 \in 1..3
    OBVIOUS
  <2>5. Enter(n, 1, world[w].env) \in EnvRec
    BY <2>2, <2>4, EnterWithin
  <2>6. wr \in WorldRec
    BY <2>2, <2>5 DEF SetScenario, WorldRec
  <2> HIDE DEF wr
  <2>7. world' \in [Worlds -> WorldRec]
    BY <1>0, <2>1, <2>6 DEF TypeOK
  <2>8. /\ rec \in RunRec /\ rec.pc = "phase" /\ rec.w = w /\ rec.name = n
        /\ rec.i = run[r].i
    BY <1>r DEF RunRec
  <2>9. w # None
    BY <2>2, WorldAssumption
  <2>10. /\ rec.pc = "none" <=> rec.w = None
         /\ rec.pc \in Occupying => rec.name \in Names /\ rec.i \in 1..3
    BY <2>2, <2>8, <2>9
  <2> HIDE DEF rec, n, w
  <2> QED  BY <1>0, <2>1, <2>3, <2>7, <2>8, <2>10, RunTypes
<1>1. CASE NextPhase(r)
  <2> DEFINE i == run[r].i + 1
             rec == [run[r] EXCEPT !.i = i]
             x == [world[w] EXCEPT !.env = Enter(n, i, world[w].env)]
             wr == SetScenario(x, n)
  <2>1. /\ run[r].pc = "phase" /\ i <= PhaseCount(n)
        /\ run' = [run EXCEPT ![r].i = i]
        /\ world' = [world EXCEPT ![w] = wr]
        /\ UNCHANGED <<hmu, cur, client, bound>>
    BY <1>1 DEF NextPhase, PhaseOver, At
  <2>2. n \in Names /\ run[r].i \in 1..3 /\ w \in Worlds /\ world[w] \in WorldRec
        /\ world[w].env \in EnvRec
    BY <1>n, <1>w, <1>o, <2>1
  <2>3. i \in 1..3
    BY <2>1, <2>2 DEF PhaseCount
  <2>a. run' = [run EXCEPT ![r] = rec]
    BY <1>0, <2>1 DEF TypeOK
  <2> HIDE DEF i
  <2>4. Enter(n, i, world[w].env) \in EnvRec
    BY <2>2, <2>3, EnterWithin
  <2>5. wr \in WorldRec
    BY <2>2, <2>4 DEF SetScenario, WorldRec
  <2> HIDE DEF x, wr
  <2>6. world' \in [Worlds -> WorldRec]
    BY <1>0, <2>1, <2>5 DEF TypeOK
  <2>7. i \in 0..3
    BY <2>3
  <2>8. rec \in RunRec /\ rec.pc = "phase" /\ rec.w = w /\ rec.name = n /\ rec.i = i
    BY <1>r, <2>1, <2>7 DEF RunRec
  <2>9. w # None
    BY <2>2, WorldAssumption
  <2> HIDE DEF rec
  <2> QED  BY <1>0, <2>1, <2>2, <2>3, <2>a, <2>6, <2>8, <2>9, RunTypes
<1>2. CASE LastPhase(r)
  <2> DEFINE wr == SetScenario([world[w] EXCEPT !.env = Exit(n, world[w].env)], n)
  <2>1. run[r].pc = "phase" /\ Runner(r, "tail", wr)
    BY <1>2 DEF LastPhase, PhaseOver, At
  <2>2. n \in Names /\ world[w] \in WorldRec /\ world[w].env \in EnvRec
    BY <1>n, <1>w, <1>o, <2>1
  <2>3. Exit(n, world[w].env) \in EnvRec
    BY <2>2, ExitType
  <2>4. wr \in WorldRec
    BY <2>2, <2>3 DEF SetScenario, WorldRec
  <2> HIDE DEF wr
  <2> QED  BY <1>0, <1>o, <2>1, <2>4, RunnerTypes
<1>3. CASE PhaseCancelled(r)
  <2> DEFINE wr == [world[w] EXCEPT !.env = Exit(n, world[w].env)]
  <2>1. run[r].pc = "phase" /\ Runner(r, "free", wr)
    BY <1>3 DEF PhaseCancelled, At
  <2>2. n \in Names /\ world[w] \in WorldRec /\ world[w].env \in EnvRec
    BY <1>n, <1>w, <1>o, <2>1
  <2>3. Exit(n, world[w].env) \in EnvRec
    BY <2>2, ExitType
  <2>4. wr \in WorldRec
    BY <2>2, <2>3 DEF WorldRec
  <2> HIDE DEF wr
  <2> QED  BY <1>0, <1>o, <2>1, <2>4, RunnerTypes
<1>4. CASE TailOpens(r)
  <2>1. run[r].pc = "tail" /\ Runner(r, "waiting", SetScenario(world[w], n))
    BY <1>4 DEF TailOpens, At
  <2>2. SetScenario(world[w], n) \in WorldRec
    BY <1>w, <1>n, <1>o, <2>1 DEF SetScenario, WorldRec
  <2> QED  BY <1>0, <1>o, <2>1, <2>2, RunnerTypes
<1>5. CASE TailEnds(r)
  <2>1. run[r].pc \in {"tail", "waiting"} /\ Runner(r, "free", world[w])
    BY <1>5 DEF TailEnds, At
  <2>2. world[w] \in WorldRec
    BY <1>w, <2>1
  <2> QED  BY <1>0, <1>o, <2>1, <2>2, RunnerTypes
<1>6. CASE FreeSlot(r)
  <2> DEFINE rec == [NoRun EXCEPT !.pc = "targets", !.w = w]
             wr == [world[w] EXCEPT !.cur = None]
  <2>1. /\ run[r].pc = "free" /\ run' = [run EXCEPT ![r] = rec]
        /\ UNCHANGED <<hmu, cur, client, bound>>
    BY <1>6 DEF FreeSlot, At
  <2>2. w \in Worlds /\ world[w] \in WorldRec
    BY <1>w, <2>1
  <2>3. wr \in WorldRec
    BY <2>2 DEF WorldRec
  <2>4. world' \in [Worlds -> WorldRec]
    BY <1>0, <1>6, <2>3 DEF TypeOK, FreeSlot
  <2>5. NoRun \in RunRec
    BY DEF NoRun, RunRec
  <2>6. rec \in RunRec
    BY <2>2, <2>5 DEF RunRec
  <2>7. rec.pc = "targets" /\ rec.w = w /\ w # None
    BY <2>2, <2>5, WorldAssumption DEF RunRec
  <2> HIDE DEF rec, wr
  <2> QED  BY <1>0, <1>o, <2>1, <2>4, <2>6, <2>7, RunTypes
<1>7. CASE ClearTargets(r)
  <2>1. run[r].pc = "targets" /\ Runner(r, "card", SetTargets(world[w], None))
    BY <1>7 DEF ClearTargets, At
  <2>2. SetTargets(world[w], None) \in WorldRec
    BY <1>w, <2>1 DEF SetTargets, WorldRec
  <2> QED  BY <1>0, <1>o, <2>1, <2>2, RunnerTypes
<1>8. CASE ClearCard(r)
  <2>1. /\ run[r].pc = "card" /\ run' = [run EXCEPT ![r] = NoRun]
        /\ UNCHANGED <<hmu, cur, bound>>
        /\ world' = [world EXCEPT ![w] = SetScenario(@, None)]
        /\ client' = [c \in Clients |-> IF client[c].pc = "await" /\ client[c].r = r
                                        THEN Idle ELSE client[c]]
    BY <1>8 DEF AwaitersReturn, ClearCard, At
  <2>2. SetScenario(world[w], None) \in WorldRec
    BY <1>w, <2>1 DEF SetScenario, WorldRec
  <2>3. world' \in [Worlds -> WorldRec]
    BY <1>0, <2>1, <2>2 DEF TypeOK
  <2>4. NoRun \in RunRec /\ NoRun.pc = "none" /\ NoRun.w = None
    BY DEF NoRun, RunRec
  <2> QED  BY <1>0, <1>o, <2>1, <2>3, <2>4, RunTypes
<1> QED  BY <1>f, <1>1, <1>2, <1>3, <1>4, <1>5, <1>6, <1>7, <1>8 DEF RunnerStep

LEMMA InitWorld == Init => WorldInv
<1> SUFFICES ASSUME Init PROVE WorldInv
  OBVIOUS
<1>0. cur \in Worlds
  BY WorldAssumption DEF Init
<1>1. /\ hmu = None /\ world = [w \in Worlds |-> IF w = cur THEN Fresh ELSE Absent]
      /\ run = [r \in Runs |-> NoRun] /\ client = [c \in Clients |-> Idle] /\ bound \in Bounds
  BY DEF Init
<1>2. /\ Idle \in ClientRec /\ Idle.pc = "idle" /\ Idle.w = None
      /\ NoRun \in RunRec /\ NoRun.pc = "none" /\ NoRun.w = None
  BY DEF Idle, ClientRec, NoRun, RunRec
<1>3. TypeOK
  BY <1>0, <1>1, <1>2, FreshType DEF TypeOK
<1>4. HoldInv
  BY <1>1, <1>2 DEF HoldInv, Holding, Occupying
<1>5. /\ Fresh.store = "open" /\ Absent.store = "none"
      /\ \A wr \in {Fresh, Absent} : /\ wr.subs = {} /\ wr.gen = FALSE /\ wr.closed = FALSE
                                     /\ wr.cur = None /\ wr.targets = None /\ wr.card = None
                                     /\ wr.env = Base
  BY DEF Fresh, Absent
<1>6. LockInv
  BY <1>0, <1>1, <1>2, <1>5, WorldAssumption DEF LockInv, Stopping, OneWorld
<1>7. StopInv
  BY <1>1, <1>2, <1>5 DEF StopInv, Marked, Stopping
<1>8. \A w \in Worlds : world[w] \in {Fresh, Absent}
  BY <1>1
<1>9. HubInv
  BY <1>5, <1>8 DEF HubInv, HubOK
<1>10. SlotInv
  BY <1>1, <1>2, <1>5, <1>8 DEF SlotInv, Occupying
<1>11. EnvInv
  BY <1>1, <1>2, <1>5, <1>8 DEF EnvInv
<1> QED  BY <1>3, <1>4, <1>6, <1>7, <1>9, <1>10, <1>11 DEF WorldInv

-----------------------------------------------------------------------------
\* The lock, the current World and Stop.

\* The hub's operations change the viewers and what follows from them.
SameButHub(wr, x) ==
    /\ x.store = wr.store /\ x.stopping = wr.stopping /\ x.cancelled = wr.cancelled
    /\ x.timedOut = wr.timedOut /\ x.busy = wr.busy /\ x.cur = wr.cur
    /\ x.targets = wr.targets /\ x.card = wr.card /\ x.env = wr.env /\ x.touched = wr.touched

LEMMA HubKeeps ==
    ASSUME NEW wr \in WorldRec, NEW c \in Clients
    PROVE  /\ SameButHub(wr, subscribe(wr, c))
           /\ SameButHub(wr, unsubscribe(wr, c))
           /\ SameButHub(wr, closeAll(wr))
<1>1. ASSUME NEW x \in WorldRec, NEW n PROVE SameButHub(x, Viewers(x, n))
  BY DEF SameButHub, Viewers, WorldRec
<1>2. ASSUME NEW s \in SUBSET Clients
      PROVE  [wr EXCEPT !.subs = s] \in WorldRec /\ SameButHub(wr, [wr EXCEPT !.subs = s])
  BY DEF SameButHub, WorldRec
<1>3. ASSUME NEW s \in SUBSET Clients, NEW n
      PROVE  SameButHub(wr, Viewers([wr EXCEPT !.subs = s], n))
  <2> DEFINE x == [wr EXCEPT !.subs = s]
  <2>1. x \in WorldRec /\ SameButHub(wr, x)
    BY <1>2
  <2> HIDE DEF x
  <2>2. SameButHub(x, Viewers(x, n))
    BY <1>1, <2>1
  <2>3. SameButHub(wr, Viewers(x, n))
    BY <2>1, <2>2 DEF SameButHub
  <2> QED  BY <2>3 DEF x
<1>4. wr.subs \cup {c} \in SUBSET Clients /\ wr.subs \ {c} \in SUBSET Clients
  BY DEF WorldRec
<1>5. SameButHub(wr, subscribe(wr, c))
  <2>1. SameButHub(wr, wr)
    BY DEF SameButHub
  <2> QED  BY <1>3, <1>4, <2>1 DEF subscribe
<1>6. SameButHub(wr, unsubscribe(wr, c))
  BY <1>2, <1>3, <1>4 DEF unsubscribe
<1>7. SameButHub(wr, closeAll(wr))
  <2> DEFINE x == [wr EXCEPT !.closed = TRUE, !.subs = {}]
  <2>1. x \in WorldRec /\ SameButHub(wr, x)
    BY DEF SameButHub, WorldRec
  <2> HIDE DEF x
  <2>2. SameButHub(x, Viewers(x, 0))
    BY <1>1, <2>1
  <2>3. SameButHub(wr, Viewers(x, 0))
    BY <2>1, <2>2 DEF SameButHub
  <2> QED  BY <2>3 DEF closeAll, x
<1> QED  BY <1>5, <1>6, <1>7

\* A step outside the lock: no handler moves on in Stop, no World is opened,
\* closed or handed out, and a runner starts only in a World that is not being
\* stopped.
Aside ==
    /\ hmu' = hmu /\ cur' = cur
    /\ \A d \in Clients :
        /\ \/ client'[d].pc = client[d].pc
           \/ {client'[d].pc, client[d].pc} \cap (Stopping \cup {"build"}) = {}
        /\ client'[d].w \in {client[d].w, None}
    /\ \A w \in Worlds :
        /\ world'[w].store = world[w].store /\ world'[w].timedOut = world[w].timedOut
        /\ world'[w].stopping = world[w].stopping /\ (world'[w].busy => world[w].busy)
    /\ \A r \in Runs :
        \/ run'[r].w \in {run[r].w, None}
        \/ run'[r].w \in Worlds /\ ~world[run'[r].w].stopping

LEMMA AsideLock ==
    ASSUME TypeOK, LockInv, StopInv, Aside
    PROVE  LockInv' /\ StopInv'
<1>1. LockInv'
  <2>1. cur' # None => cur \in Worlds
    BY DEF Aside, TypeOK
  <2>2. OneWorld'
    BY DEF OneWorld, Aside, LockInv
  <2> QED  BY <2>1, <2>2 DEF Aside, LockInv
<1>2. \A d \in Clients : client'[d].pc \in Stopping =>
          /\ client[d].pc = client'[d].pc /\ cur \in Worlds
  BY DEF Aside, LockInv, TypeOK
<1>3. ASSUME NEW d \in Clients, client'[d].pc \in Marked
      PROVE  /\ client[d].pc = client'[d].pc /\ world[cur].stopping /\ world'[cur'].stopping
             /\ cur' = cur /\ world'[cur].timedOut = world[cur].timedOut
             /\ (world'[cur].busy => world[cur].busy)
             /\ Running(cur)' \subseteq Running(cur) /\ Holders(cur)' \subseteq Holders(cur)
  <2>1. client[d].pc = client'[d].pc /\ cur \in Worlds /\ cur' = cur
    BY <1>2, <1>3 DEF Marked, Aside
  <2>2. world[cur].stopping
    BY <1>3, <2>1 DEF StopInv
  <2>3. cur # None
    BY <2>1, WorldAssumption
  <2>4. Running(cur)' \subseteq Running(cur)
    BY <2>1, <2>2, <2>3 DEF Running, Aside
  <2>5. Holders(cur)' \subseteq Holders(cur)
    BY <2>1, <2>3 DEF Holders, Aside
  <2> QED  BY <2>1, <2>2, <2>4, <2>5 DEF Aside
<1>4. "handlers" \in Marked /\ "close" \in Marked
  BY DEF Marked, Stopping
<1>5. StopInv'
  <2>1. \A d \in Clients : client'[d].pc \in Marked => world'[cur'].stopping
    BY <1>3
  <2>2. \A d \in Clients : client'[d].pc = "handlers" => Running(cur)' = {} /\ ~world'[cur'].busy
    BY <1>3, <1>4 DEF StopInv
  <2>3. \A d \in Clients : client'[d].pc = "close" /\ ~world'[cur'].timedOut =>
           Running(cur)' = {} /\ ~world'[cur'].busy /\ Holders(cur)' = {}
    BY <1>3, <1>4 DEF StopInv
  <2>4. \A w \in Worlds : world'[w].store = "closed" => world'[w].timedOut
    BY DEF StopInv, Aside
  <2> QED  BY <2>1, <2>2, <2>3, <2>4 DEF StopInv
<1> QED  BY <1>1, <1>5

\* The parts of Aside, from the functions a step changes.
LEMMA AsideParts ==
    ASSUME TypeOK, UNCHANGED <<hmu, cur>>,
           \/ client' = client
           \/ \E c \in Clients : Release(c) /\ client[c].pc \notin Stopping \cup {"build"}
           \/ \E c \in Clients, p \in {"lock", "signal", "await"} :
                /\ client[c].pc \notin Stopping \cup {"build"}
                /\ client'[c].pc = p /\ client'[c].w = client[c].w
                /\ \A d \in Clients \ {c} : client'[d] = client[d]
           \/ \E r \in Runs :
                client' = [c \in Clients |-> IF client[c].pc = "await" /\ client[c].r = r
                                             THEN Idle ELSE client[c]],
           \/ world' = world
           \/ \E w \in Worlds, wr \in WorldRec :
                /\ world' = [world EXCEPT ![w] = wr]
                /\ wr.store = world[w].store /\ wr.timedOut = world[w].timedOut
                /\ wr.stopping = world[w].stopping /\ (wr.busy => world[w].busy),
           \/ run' = run
           \/ \E r \in Runs, rec \in RunRec :
                /\ run' = [run EXCEPT ![r] = rec]
                /\ \/ rec.w \in {run[r].w, None}
                   \/ rec.w \in Worlds /\ ~world[rec.w].stopping
    PROVE  Aside
<1>i. Idle.pc = "idle" /\ Idle.w = None
  BY DEF Idle
<1>1. \A d \in Clients :
        /\ \/ client'[d].pc = client[d].pc
           \/ {client'[d].pc, client[d].pc} \cap (Stopping \cup {"build"}) = {}
        /\ client'[d].w \in {client[d].w, None}
  <2>1. CASE client' = client
    BY <2>1
  <2>2. CASE \E c \in Clients : Release(c) /\ client[c].pc \notin Stopping \cup {"build"}
    BY <1>i, <2>2 DEF Release, TypeOK, Stopping
  <2>3. CASE \E c \in Clients, p \in {"lock", "signal", "await"} :
                /\ client[c].pc \notin Stopping \cup {"build"}
                /\ client'[c].pc = p /\ client'[c].w = client[c].w
                /\ \A d \in Clients \ {c} : client'[d] = client[d]
    BY <2>3 DEF Stopping
  <2>4. CASE \E r \in Runs :
                client' = [c \in Clients |-> IF client[c].pc = "await" /\ client[c].r = r
                                             THEN Idle ELSE client[c]]
    BY <1>i, <2>4 DEF Stopping
  <2> QED  BY <2>1, <2>2, <2>3, <2>4
<1>2. \A w \in Worlds :
        /\ world'[w].store = world[w].store /\ world'[w].timedOut = world[w].timedOut
        /\ world'[w].stopping = world[w].stopping /\ (world'[w].busy => world[w].busy)
  BY DEF TypeOK
<1>3. \A r \in Runs :
        \/ run'[r].w \in {run[r].w, None}
        \/ run'[r].w \in Worlds /\ ~world[run'[r].w].stopping
  BY DEF TypeOK
<1> QED  BY <1>1, <1>2, <1>3 DEF Aside

LEMMA BodyAside ==
    ASSUME WorldInv, NEW c \in Clients,
           Request(c) \/ NoWorld(c) \/ Body(c) \/ EndStream(c)
    PROVE  Aside
<1>0. TypeOK /\ HoldInv /\ (TypeOK /\ HoldInv)'
  BY LockTypes, BodyTypes DEF WorldInv, LockStep
<1>c. client[c] \in ClientRec /\ client'[c] \in ClientRec
  BY <1>0 DEF TypeOK
<1>n. \A p \in {"idle", "lock", "use", "signal", "stream"} : p \notin Stopping \cup {"build"}
  BY DEF Stopping
<1> DEFINE w == client[c].w
<1>w. client[c].pc \in Holding => w \in Worlds /\ world[w] \in WorldRec
  BY <1>0, <1>c DEF TypeOK, HoldInv, ClientRec
<1>1. CASE Request(c)
  <2>1. /\ client'[c].pc = "lock" /\ client'[c].w = client[c].w
        /\ \A d \in Clients \ {c} : client'[d] = client[d]
        /\ client[c].pc = "idle" /\ UNCHANGED <<hmu, cur>> /\ world' = world /\ run' = run
    BY <1>0, <1>1, <1>c DEF Request, TypeOK, ClientRec
  <2> QED  BY <1>0, <1>n, <2>1, AsideParts
<1>2. CASE NoWorld(c)
  <2>1. /\ Release(c) /\ client[c].pc = "lock"
        /\ UNCHANGED <<hmu, cur>> /\ world' = world /\ run' = run
    BY <1>2 DEF NoWorld, Release
  <2> QED  BY <1>0, <1>n, <2>1, AsideParts
<1>3. CASE Served(c) \/ StartRefused(c) \/ StopNothing(c)
  <2>1. /\ Release(c) /\ client[c].pc = "use"
        /\ UNCHANGED <<hmu, cur>> /\ world' = world /\ run' = run
    BY <1>3 DEF Served, StartRefused, StopNothing, Control
  <2> QED  BY <1>0, <1>n, <2>1, AsideParts
<1>4. CASE EndStream(c)
  <2>1. /\ Release(c) /\ client[c].pc = "stream"
        /\ UNCHANGED <<hmu, cur>> /\ run' = run
        /\ world' = [world EXCEPT ![w] = unsubscribe(@, c)]
    BY <1>4 DEF EndStream
  <2>2. w \in Worlds /\ world[w] \in WorldRec
    BY <1>w, <2>1 DEF Holding
  <2> DEFINE wr == unsubscribe(world[w], c)
  <2>3. wr \in WorldRec /\ SameButHub(world[w], wr)
    BY <2>2, UnsubscribeType, HubKeeps
  <2>4. world' = [world EXCEPT ![w] = wr]
    BY <2>1
  <2> HIDE DEF wr, w
  <2> QED  BY <1>0, <1>n, <2>1, <2>2, <2>3, <2>4, AsideParts DEF SameButHub
<1>5. CASE SetByHand(c)
  <2>1. /\ Release(c) /\ client[c].pc = "use" /\ UNCHANGED <<hmu, cur>> /\ run' = run
    BY <1>5 DEF SetByHand, Control
  <2>2. PICK p, v :
           world' = [world EXCEPT ![w].env[p] = v, ![w].touched = @ \cup {p}]
    BY <1>5 DEF SetByHand
  <2>3. w \in Worlds /\ world[w] \in WorldRec
    BY <1>w, <2>1 DEF Holding
  <2> DEFINE wr == world'[w]
  <2>4. wr \in WorldRec /\ world' = [world EXCEPT ![w] = wr]
    BY <1>0, <2>2, <2>3 DEF TypeOK
  <2>5. /\ wr.store = world[w].store /\ wr.timedOut = world[w].timedOut
        /\ wr.stopping = world[w].stopping /\ wr.busy = world[w].busy
    BY <1>0, <2>2, <2>3 DEF TypeOK, WorldRec
  <2> HIDE DEF wr, w
  <2> QED  BY <1>0, <1>n, <2>1, <2>3, <2>4, <2>5, AsideParts
<1>6. CASE Restore(c)
  <2>1. /\ world' = [world EXCEPT ![w].env.key = TRUE]
        /\ client' = [client EXCEPT ![c].pc = "signal"]
        /\ client[c].pc = "use" /\ UNCHANGED <<hmu, cur>> /\ run' = run
    BY <1>6 DEF Restore, Control
  <2>2. w \in Worlds /\ world[w] \in WorldRec
    BY <1>w, <2>1 DEF Holding
  <2>3. /\ client'[c].pc = "signal" /\ client'[c].w = client[c].w
        /\ \A d \in Clients \ {c} : client'[d] = client[d]
    BY <1>0, <1>c, <2>1 DEF TypeOK, ClientRec
  <2> DEFINE wr == world'[w]
  <2>4. wr \in WorldRec /\ world' = [world EXCEPT ![w] = wr]
    BY <1>0, <2>1, <2>2 DEF TypeOK
  <2>5. /\ wr.store = world[w].store /\ wr.timedOut = world[w].timedOut
        /\ wr.stopping = world[w].stopping /\ wr.busy = world[w].busy
    BY <1>0, <2>1, <2>2 DEF TypeOK, WorldRec
  <2> HIDE DEF wr, w
  <2> QED  BY <1>0, <1>n, <2>1, <2>2, <2>3, <2>4, <2>5, AsideParts
<1>7. CASE SignalRun(c)
  <2> DEFINE r == world[w].cur
  <2>1. /\ Release(c) /\ client[c].pc = "signal" /\ UNCHANGED <<hmu, cur>> /\ world' = world
    BY <1>7 DEF SignalRun
  <2>2. CASE run' = run
    BY <1>0, <1>n, <2>1, <2>2, AsideParts
  <2>3. CASE run' # run
    <3>1. run' = [run EXCEPT ![r].signal = TRUE] /\ r # None
      BY <1>7, <2>3 DEF SignalRun
    <3>2. w \in Worlds /\ world[w] \in WorldRec
      BY <1>w, <2>1 DEF Holding
    <3>3. r \in Runs
      BY <3>1, <3>2 DEF WorldRec
    <3> HIDE DEF r
    <3>4. /\ run'[r] \in RunRec /\ run' = [run EXCEPT ![r] = run'[r]]
          /\ run'[r].w = run[r].w
      BY <1>0, <3>1, <3>3 DEF TypeOK, RunRec
    <3> QED  BY <1>0, <1>n, <2>1, <3>3, <3>4, AsideParts
  <2> QED  BY <2>2, <2>3
<1>8. CASE StopScenario(c)
  <2> DEFINE r == world[w].cur
  <2>1. /\ client' = [client EXCEPT ![c].pc = "await", ![c].r = r] /\ client[c].pc = "use"
        /\ run' = [run EXCEPT ![r].cancel = TRUE] /\ r # None
        /\ UNCHANGED <<hmu, cur>> /\ world' = world
    BY <1>8 DEF StopScenario, Control
  <2>2. w \in Worlds /\ world[w] \in WorldRec
    BY <1>w, <2>1 DEF Holding
  <2>3. r \in Runs
    BY <2>1, <2>2 DEF WorldRec
  <2> HIDE DEF r
  <2>4. /\ client'[c].pc = "await" /\ client'[c].w = client[c].w
        /\ \A d \in Clients \ {c} : client'[d] = client[d]
    BY <1>0, <1>c, <2>1 DEF TypeOK, ClientRec
  <2>5. run'[r] \in RunRec /\ run' = [run EXCEPT ![r] = run'[r]] /\ run'[r].w = run[r].w
    BY <1>0, <2>1, <2>3 DEF TypeOK, RunRec
  <2> QED  BY <1>0, <1>n, <2>1, <2>3, <2>4, <2>5, AsideParts
<1>9. CASE StartScenario(c)
  <2> DEFINE r == CHOOSE r \in bound.runs : run[r].pc = "none"
  <2>1. r \in Runs
    BY <1>0, <1>9, WorldAssumption DEF StartScenario, TypeOK
  <2>2. PICK n \in bound.started :
        /\ run' = [run EXCEPT ![r] = [NoRun EXCEPT !.pc = "enter", !.w = w, !.name = n, !.i = 1]]
        /\ world' = [world EXCEPT ![w] = SetTargets([@ EXCEPT !.cur = r], n)]
    BY <1>9 DEF StartScenario
  <2>3. /\ client' = [client EXCEPT ![c].pc = "await", ![c].r = r]
        /\ UNCHANGED <<hmu, cur>> /\ client[c].pc = "use" /\ ~world[w].stopping
    BY <1>9 DEF StartScenario, Control, MayStart
  <2>4. w \in Worlds /\ world[w] \in WorldRec
    BY <1>w, <2>3 DEF Holding
  <2> HIDE DEF r, w
  <2>5. /\ run'[r] \in RunRec /\ run' = [run EXCEPT ![r] = run'[r]] /\ run'[r].w = w
    <3>1. run'[r] = [NoRun EXCEPT !.pc = "enter", !.w = w, !.name = n, !.i = 1]
      BY <1>0, <2>1, <2>2 DEF TypeOK
    <3>2. NoRun \in RunRec
      BY DEF NoRun, RunRec
    <3>3. run'[r].w = w
      BY <3>1, <3>2 DEF RunRec
    <3> QED  BY <1>0, <2>1, <2>2, <3>3 DEF TypeOK
  <2> DEFINE wr == world'[w]
  <2>6. wr \in WorldRec /\ world' = [world EXCEPT ![w] = wr]
    BY <1>0, <2>2, <2>4 DEF TypeOK
  <2>7. /\ wr.store = world[w].store /\ wr.timedOut = world[w].timedOut
        /\ wr.stopping = world[w].stopping /\ wr.busy = world[w].busy
    BY <1>0, <2>2, <2>4 DEF TypeOK, WorldRec, SetTargets
  <2>8. /\ client'[c].pc = "await" /\ client'[c].w = client[c].w
        /\ \A d \in Clients \ {c} : client'[d] = client[d]
    BY <1>0, <1>c, <2>3 DEF TypeOK, ClientRec
  <2> HIDE DEF wr
  <2> QED  BY <1>0, <1>n, <2>1, <2>3, <2>4, <2>5, <2>6, <2>7, <2>8, AsideParts
<1> QED  BY <1>1, <1>2, <1>3, <1>4, <1>5, <1>6, <1>7, <1>8, <1>9 DEF Body

LEMMA WorldAside ==
    ASSUME WorldInv, NEW w \in Worlds, GoroutinesReturn(w) \/ GrowIdle(w)
    PROVE  Aside
<1>0. TypeOK /\ TypeOK'
  BY WorldTypes DEF WorldInv
<1>1. /\ UNCHANGED <<hmu, cur>> /\ client' = client /\ run' = run
      /\ world' = [world EXCEPT ![w] = world'[w]] /\ world'[w] \in WorldRec
  BY <1>0 DEF GoroutinesReturn, GrowIdle, TypeOK
<1>2. /\ world'[w].store = world[w].store /\ world'[w].timedOut = world[w].timedOut
      /\ world'[w].stopping = world[w].stopping /\ (world'[w].busy => world[w].busy)
  BY <1>0 DEF GoroutinesReturn, GrowIdle, TypeOK, WorldRec
<1> QED  BY <1>0, <1>1, <1>2, AsideParts

LEMMA RunnerAside ==
    ASSUME WorldInv, NEW r \in Runs, RunnerStep(r)
    PROVE  Aside
<1>0. TypeOK /\ HoldInv /\ TypeOK'
  BY RunnerStepTypes DEF WorldInv
<1> DEFINE w == run[r].w
<1>w. w \in Worlds /\ world[w] \in WorldRec
  <2>1. run[r].pc # "none"
    BY DEF RunnerStep, FirstPhase, NextPhase, PhaseOver, LastPhase, PhaseCancelled, TailOpens, TailEnds,
           FreeSlot, ClearTargets, ClearCard, AwaitersReturn, At
  <2> QED  BY <1>0, <2>1 DEF TypeOK, HoldInv, RunRec
<1>1. /\ UNCHANGED <<hmu, cur>>
      /\ \/ client' = client
         \/ client' = [c \in Clients |-> IF client[c].pc = "await" /\ client[c].r = r
                                         THEN Idle ELSE client[c]]
  BY DEF RunnerStep, FirstPhase, NextPhase, LastPhase, PhaseCancelled, TailOpens, TailEnds,
         FreeSlot, ClearTargets, ClearCard, AwaitersReturn, Runner
<1>2. run' = [run EXCEPT ![r] = run'[r]] /\ run'[r] \in RunRec
  BY <1>0 DEF RunnerStep, FirstPhase, NextPhase, LastPhase, PhaseCancelled, TailOpens, TailEnds,
              FreeSlot, ClearTargets, ClearCard, AwaitersReturn, Runner, TypeOK
<1>3. world' = [world EXCEPT ![w] = world'[w]] /\ world'[w] \in WorldRec
  BY <1>0, <1>w DEF RunnerStep, FirstPhase, NextPhase, LastPhase, PhaseCancelled, TailOpens, TailEnds,
              FreeSlot, ClearTargets, ClearCard, AwaitersReturn, Runner, TypeOK
<1>4. run'[r].w \in {run[r].w, None}
  <2>1. run[r] \in RunRec /\ NoRun.w = None /\ NoRun \in RunRec
    BY <1>0 DEF TypeOK, NoRun, RunRec
  <2>2. CASE NextPhase(r)
    BY <1>0, <2>1, <2>2 DEF NextPhase, TypeOK, RunRec
  <2>f. CASE FirstPhase(r)
    BY <1>0, <2>1, <2>f DEF FirstPhase, TypeOK, RunRec
  <2>3. CASE FreeSlot(r)
    BY <1>0, <2>1, <2>3 DEF FreeSlot, TypeOK, RunRec
  <2>4. CASE ClearCard(r)
    BY <1>0, <2>1, <2>4 DEF ClearCard, TypeOK
  <2>5. CASE \E to, wr : Runner(r, to, wr)
    BY <1>0, <2>1, <2>5 DEF Runner, TypeOK, RunRec
  <2> QED  BY <2>f, <2>2, <2>3, <2>4, <2>5 DEF RunnerStep, LastPhase, PhaseCancelled, TailOpens,
                TailEnds, ClearTargets
<1>5. /\ world'[w].store = world[w].store /\ world'[w].timedOut = world[w].timedOut
      /\ world'[w].stopping = world[w].stopping /\ world'[w].busy = world[w].busy
  <2>2. CASE NextPhase(r)
    BY <1>0, <1>w, <2>2 DEF NextPhase, TypeOK, SetScenario, WorldRec
  <2>f. CASE FirstPhase(r)
    BY <1>0, <1>w, <2>f DEF FirstPhase, TypeOK, SetScenario, WorldRec
  <2>3. CASE FreeSlot(r)
    BY <1>0, <1>w, <2>3 DEF FreeSlot, TypeOK, WorldRec
  <2>4. CASE ClearCard(r)
    BY <1>0, <1>w, <2>4 DEF ClearCard, TypeOK, SetScenario, WorldRec
  <2>5. CASE LastPhase(r)
    BY <1>0, <1>w, <2>5 DEF LastPhase, Runner, TypeOK, SetScenario, WorldRec
  <2>6. CASE PhaseCancelled(r)
    BY <1>0, <1>w, <2>6 DEF PhaseCancelled, Runner, TypeOK, WorldRec
  <2>7. CASE TailOpens(r) \/ TailEnds(r) \/ ClearTargets(r)
    BY <1>0, <1>w, <2>7 DEF TailOpens, TailEnds, ClearTargets, Runner, TypeOK, SetScenario,
                            SetTargets, WorldRec
  <2> QED  BY <2>f, <2>2, <2>3, <2>4, <2>5, <2>6, <2>7 DEF RunnerStep
<1> HIDE DEF w
<1> QED  BY <1>0, <1>w, <1>1, <1>2, <1>3, <1>4, <1>5, AsideParts DEF w

\* The steps that take the lock or hold it.
LEMMA LockStepLock ==
    ASSUME WorldInv, NEW c \in Clients, LockStep(c)
    PROVE  LockInv' /\ StopInv'
<1>0. TypeOK /\ HoldInv /\ LockInv /\ StopInv /\ TypeOK'
  BY LockTypes DEF WorldInv
<1>c. client[c] \in ClientRec
  BY <1>0 DEF TypeOK
<1>f. hmu = None => \A d \in Clients : client[d].pc \notin Stopping \cup {"build"}
  BY <1>0, WorldAssumption DEF LockInv
<1>n. {"idle", "use", "stream", "lock"} \cap (Stopping \cup {"build"}) = {}
  BY DEF Stopping
<1>m. Marked \subseteq Stopping /\ {"handlers", "close"} \subseteq Stopping /\ "mark" \notin Marked
      /\ "mark" \in Stopping
  BY DEF Marked, Stopping
<1>i. Idle.pc = "idle" /\ Idle.w = None
  BY DEF Idle
\* Nobody is in Stop afterwards.
<1>a. ASSUME hmu' = None, \A d \in Clients : client'[d].pc \notin Stopping \cup {"build"},
             cur' # None => world'[cur'].store = "open",
             \A w \in Worlds : world'[w].store = "open" => w = cur',
             \A w \in Worlds : world'[w].store = "closed" => world'[w].timedOut
      PROVE  LockInv' /\ StopInv'
  <2>1. LockInv'
    BY <1>a, WorldAssumption DEF LockInv, OneWorld
  <2>2. StopInv'
    BY <1>a, <1>m DEF StopInv
  <2> QED  BY <2>1, <2>2
<1>1. CASE HandCurrent(c)
  <2>1. /\ hmu = None /\ hmu' = hmu /\ cur' = cur /\ cur \in Worlds
        /\ Hand(c, cur, world[cur])
    BY <1>0, <1>1 DEF HandCurrent, TypeOK
  <2>2. \A d \in Clients : client'[d].pc \in {client[d].pc, "use", "stream"}
    BY <1>0, <2>1 DEF Hand, TypeOK, ClientRec
  <2>3. world[cur] \in WorldRec
    BY <1>0, <2>1 DEF TypeOK
  <2>4. SameButHub(world[cur], subscribe(world[cur], c))
    BY <2>3, HubKeeps
  <2>5. \A w \in Worlds : world'[w].store = world[w].store /\ world'[w].timedOut = world[w].timedOut
    BY <1>0, <2>1, <2>4 DEF Hand, TypeOK, SameButHub
  <2>6. \A d \in Clients : client'[d].pc \notin Stopping \cup {"build"}
    BY <1>f, <1>n, <2>1, <2>2
  <2> QED  BY <1>0, <1>a, <2>1, <2>5, <2>6 DEF LockInv, StopInv, OneWorld
<1>2. CASE NoWorld(c)
  BY <1>0, <1>2, BodyAside, AsideLock
<1>3. CASE Replace(c)
  <2>1. /\ hmu = None /\ hmu' = c /\ cur' = cur /\ cur # None /\ world' = world
        /\ client' = [client EXCEPT ![c].pc = "mark"]
    BY <1>3 DEF Replace
  <2>2. client'[c].pc = "mark" /\ \A d \in Clients \ {c} : client'[d] = client[d]
    BY <1>0, <1>c, <2>1 DEF TypeOK, ClientRec
  <2>3. LockInv'
    BY <1>0, <1>f, <1>m, <2>1, <2>2 DEF LockInv, OneWorld, Stopping
  <2>4. \A d \in Clients : client'[d].pc \notin Marked /\ client'[d].pc \notin {"handlers", "close"}
    BY <1>f, <1>m, <2>1, <2>2
  <2>5. StopInv'
    BY <1>0, <2>1, <2>4 DEF StopInv
  <2> QED  BY <2>3, <2>5
<1>b. MayBuild(c) => /\ \A d \in Clients \ {c} : client[d].pc \notin Stopping \cup {"build"}
                     /\ cur = None
  <2>1. CASE hmu = None
    BY <1>0, <1>f, <2>1, WorldAssumption DEF MayBuild
  <2>2. CASE hmu # None
    BY <1>0, <2>2 DEF MayBuild, LockInv
  <2> QED  BY <2>1, <2>2
<1>4. CASE build(c)
  <2> DEFINE w == CHOOSE w \in Worlds : world[w].store # "open" /\ Quiet(w)
  <2>1. w \in Worlds /\ cur' = w /\ hmu' = None /\ MayBuild(c)
    BY <1>4 DEF build
  <2>2. \A x \in Worlds : world[x].store # "open"
    BY <1>0, <1>b, <2>1, WorldAssumption DEF LockInv, OneWorld
  <2>3. /\ \A d \in Clients \ {c} : client'[d] = client[d]
        /\ client'[c].pc \in {"idle", "use", "stream"}
        /\ world'[w].store = "open" /\ \A x \in Worlds \ {w} : world'[x] = world[x]
    <3>1. CASE client[c].req = "reset"
      <4>1. world' = [world EXCEPT ![w] = Fresh] /\ client' = [client EXCEPT ![c] = Idle]
        BY <1>4, <3>1 DEF build
      <4> HIDE DEF w
      <4> QED  BY <1>0, <1>i, <2>1, <4>1 DEF TypeOK, Fresh
    <3>2. CASE client[c].req # "reset"
      <4>1. Hand(c, w, Fresh)
        BY <1>4, <3>2 DEF build
      <4>2. SameButHub(Fresh, subscribe(Fresh, c)) /\ Fresh.store = "open"
        BY FreshType, HubKeeps DEF Fresh
      <4> HIDE DEF w
      <4> QED  BY <1>0, <1>c, <2>1, <4>1, <4>2 DEF TypeOK, Hand, SameButHub, ClientRec
    <3> QED  BY <3>1, <3>2
  <2> HIDE DEF w
  <2>4. \A d \in Clients : client'[d].pc \notin Stopping \cup {"build"}
    BY <1>b, <1>n, <2>1, <2>3
  <2>5. \A x \in Worlds : world'[x].store = "closed" => world'[x].timedOut
    BY <1>0, <2>1, <2>3 DEF StopInv
  <2> QED  BY <1>a, <2>1, <2>2, <2>3, <2>4, <2>5
<1>5. CASE buildFails(c)
  <2>1. /\ client' = [client EXCEPT ![c] = Idle] /\ MayBuild(c)
        /\ hmu' = None /\ cur' = None /\ world' = world
    BY <1>5 DEF buildFails
  <2>2. \A d \in Clients : client'[d].pc \notin Stopping \cup {"build"}
    BY <1>0, <1>b, <1>n, <1>i, <2>1 DEF TypeOK
  <2> QED  BY <1>0, <1>a, <1>b, <2>1, <2>2 DEF LockInv, StopInv, OneWorld
<1> QED  BY <1>1, <1>2, <1>3, <1>4, <1>5 DEF LockStep

LEMMA StopLock ==
    ASSUME WorldInv, NEW c \in Clients, StopSteps(c) \/ StopTimeout(c)
    PROVE  LockInv' /\ StopInv'
<1>0. TypeOK /\ HoldInv /\ LockInv /\ StopInv /\ TypeOK'
  BY StopTypes DEF WorldInv
<1>p. client[c].pc \in Stopping
  BY DEF StopSteps, StopTimeout, MarkStopping, CancelContext, CloseHub, GoroutinesDone,
         HandlersDone, CloseStore, StopStep, Stopping
<1>1. /\ hmu = c /\ cur \in Worlds /\ world[cur] \in WorldRec /\ world[cur].store = "open"
      /\ \A d \in Clients \ {c} : client[d].pc \notin Stopping \cup {"build"}
  BY <1>0, <1>p DEF LockInv, TypeOK
<1>2. ASSUME NEW from, NEW to, StopStep(c, from, to)
      PROVE  /\ hmu' = c /\ run' = run /\ client[c].pc = from
             /\ client'[c].pc = to /\ client'[c].w = client[c].w
             /\ \A d \in Clients \ {c} : client'[d] = client[d]
             /\ \A d \in Clients : client'[d].w = client[d].w
  <2>1. hmu' = c /\ run' = run /\ client[c].pc = from /\ client[c] \in ClientRec
    BY <1>0, <1>1, <1>2 DEF StopStep, TypeOK
  <2>2. client'[c].pc = to /\ client'[c].w = client[c].w
        /\ \A d \in Clients \ {c} : client'[d] = client[d]
    BY <1>0, <1>2, <2>1 DEF StopStep, TypeOK, ClientRec
  <2> QED  BY <2>1, <2>2
<1>m. /\ Marked \subseteq Stopping /\ Stopping \ Marked = {"mark"}
      /\ {"mark", "cancel", "closeAll", "goroutines", "handlers", "close"} = Stopping
      /\ "build" \notin Stopping
  BY DEF Marked, Stopping
\* Stop goes on with the same World.
<1>a. ASSUME NEW from, NEW to \in Marked, StopStep(c, from, to), cur' = cur,
             \A x \in Worlds : world'[x].store = world[x].store,
             \A x \in Worlds : world[x].timedOut => world'[x].timedOut,
             world'[cur].stopping,
             to = "handlers" => Running(cur) = {} /\ ~world'[cur].busy,
             to = "close" /\ ~world'[cur].timedOut =>
               Running(cur) = {} /\ ~world'[cur].busy /\ Holders(cur) = {}
      PROVE  LockInv' /\ StopInv'
  <2>1. /\ hmu' = c /\ client'[c].pc = to
        /\ \A d \in Clients \ {c} : client'[d] = client[d]
        /\ Holders(cur)' = Holders(cur) /\ Running(cur)' = Running(cur)
    <3>1. run' = run /\ \A d \in Clients : client'[d].w = client[d].w
      BY <1>2, <1>a
    <3>2. Holders(cur)' = Holders(cur) /\ Running(cur)' = Running(cur)
      BY <1>a, <3>1 DEF Holders, Running
    <3> QED  BY <1>2, <1>a, <3>2
  <2>2. LockInv'
    <3>1. OneWorld'
      BY <1>0, <1>a DEF OneWorld, LockInv
    <3> QED  BY <1>0, <1>1, <1>m, <1>a, <2>1, <3>1, WorldAssumption DEF LockInv
  <2>3. \A d \in Clients : client'[d].pc \in Marked => d = c
    BY <1>1, <1>m, <2>1
  <2>4. \A d \in Clients : client'[d].pc \in Marked => world'[cur'].stopping
    BY <1>a
  <2>5. \A d \in Clients : client'[d].pc = "handlers" => Running(cur)' = {} /\ ~world'[cur'].busy
    BY <1>a, <1>m, <2>1, <2>3
  <2>6. \A d \in Clients : client'[d].pc = "close" /\ ~world'[cur'].timedOut =>
           Running(cur)' = {} /\ ~world'[cur'].busy /\ Holders(cur)' = {}
    BY <1>a, <1>m, <2>1, <2>3
  <2>7. \A w \in Worlds : world'[w].store = "closed" => world'[w].timedOut
    BY <1>0, <1>a DEF StopInv
  <2> QED  BY <2>2, <2>4, <2>5, <2>6, <2>7 DEF StopInv
<1>s. client[c].pc # "mark" => world[cur].stopping
  BY <1>0, <1>p, <1>m DEF StopInv
<1>k. {"cancel", "closeAll", "goroutines", "handlers", "close"} = Marked
  BY DEF Marked, Stopping
<1>3. CASE MarkStopping(c)
  <2>1. /\ StopStep(c, "mark", "cancel") /\ cur' = cur
        /\ world' = [world EXCEPT ![cur].stopping = TRUE]
    BY <1>3 DEF MarkStopping
  <2>2. /\ \A x \in Worlds : world'[x].store = world[x].store /\ world'[x].timedOut = world[x].timedOut
        /\ world'[cur].stopping
    BY <1>0, <1>1, <2>1 DEF TypeOK, WorldRec
  <2> QED  BY <1>a, <1>k, <2>1, <2>2
<1>4. CASE CancelContext(c)
  <2>1. /\ StopStep(c, "cancel", "closeAll") /\ cur' = cur
        /\ world' = [world EXCEPT ![cur].cancelled = TRUE]
    BY <1>4 DEF CancelContext
  <2>2. /\ \A x \in Worlds : world'[x].store = world[x].store /\ world'[x].timedOut = world[x].timedOut
        /\ world'[cur].stopping = world[cur].stopping
    BY <1>0, <1>1, <2>1 DEF TypeOK, WorldRec
  <2>3. client[c].pc = "cancel"
    BY <2>1 DEF StopStep
  <2> QED  BY <1>a, <1>k, <1>s, <2>1, <2>2, <2>3
<1>5. CASE CloseHub(c)
  <2>1. /\ StopStep(c, "closeAll", "goroutines") /\ cur' = cur
        /\ world' = [world EXCEPT ![cur] = closeAll(@)]
    BY <1>5 DEF CloseHub
  <2>2. SameButHub(world[cur], closeAll(world[cur]))
    BY <1>1, HubKeeps
  <2>3. /\ \A x \in Worlds : world'[x].store = world[x].store /\ world'[x].timedOut = world[x].timedOut
        /\ world'[cur].stopping = world[cur].stopping
    BY <1>0, <1>1, <2>1, <2>2 DEF TypeOK, SameButHub
  <2>4. client[c].pc = "closeAll"
    BY <2>1 DEF StopStep
  <2> QED  BY <1>a, <1>k, <1>s, <2>1, <2>3, <2>4
<1>6. CASE GoroutinesDone(c)
  <2>1. /\ StopStep(c, "goroutines", "handlers") /\ cur' = cur /\ world' = world
        /\ Running(cur) = {} /\ ~world[cur].busy
    BY <1>6 DEF GoroutinesDone
  <2>2. client[c].pc = "goroutines"
    BY <2>1 DEF StopStep
  <2> QED  BY <1>a, <1>k, <1>s, <2>1, <2>2
<1>7. CASE HandlersDone(c)
  <2>1. /\ StopStep(c, "handlers", "close") /\ cur' = cur /\ world' = world
        /\ Holders(cur) = {}
    BY <1>7 DEF HandlersDone
  <2>2. client[c].pc = "handlers"
    BY <2>1 DEF StopStep
  <2>3. Running(cur) = {} /\ ~world[cur].busy
    BY <1>0, <2>2 DEF StopInv
  <2> QED  BY <1>a, <1>k, <1>s, <2>1, <2>2, <2>3
<1>8. CASE StopTimeout(c)
  <2>1. /\ \/ StopStep(c, "goroutines", "close")
           \/ StopStep(c, "handlers", "close")
        /\ cur' = cur /\ world' = [world EXCEPT ![cur].timedOut = TRUE]
    BY <1>8 DEF StopTimeout
  <2>2. /\ \A x \in Worlds : world'[x].store = world[x].store
        /\ \A x \in Worlds : world[x].timedOut => world'[x].timedOut
        /\ world'[cur].stopping = world[cur].stopping /\ world'[cur].timedOut
    BY <1>0, <1>1, <2>1 DEF TypeOK, WorldRec
  <2>3. client[c].pc # "mark"
    BY <2>1 DEF StopStep
  <2> QED  BY <1>a, <1>k, <1>s, <2>1, <2>2, <2>3
<1>9. CASE CloseStore(c)
  <2>1. /\ StopStep(c, "close", "build") /\ cur' = None
        /\ world' = [world EXCEPT ![cur] =
                       IF Quiet(cur) THEN Absent ELSE [@ EXCEPT !.store = "closed"]]
    BY <1>9 DEF CloseStore
  <2>2. /\ hmu' = c /\ client'[c].pc = "build" /\ client[c].pc = "close"
        /\ \A d \in Clients \ {c} : client'[d] = client[d]
    BY <1>2, <2>1
  <2>3. ~world[cur].timedOut => Quiet(cur)
    BY <1>0, <1>1, <2>2, QuietMeans DEF StopInv
  <2>4. Absent.store = "none"
    BY DEF Absent, Fresh
  <2>5. /\ world'[cur].store # "open"
        /\ world'[cur].store = "closed" => world'[cur].timedOut
        /\ \A x \in Worlds \ {cur} : world'[x] = world[x]
    <3>1. CASE Quiet(cur)
      BY <1>0, <1>1, <2>1, <2>4, <3>1 DEF TypeOK
    <3>2. CASE ~Quiet(cur)
      BY <1>0, <1>1, <2>1, <2>3, <3>2 DEF TypeOK, WorldRec
    <3> QED  BY <3>1, <3>2
  <2>6. \A x \in Worlds : world'[x].store # "open"
    BY <1>0, <2>5 DEF LockInv, OneWorld
  <2>7. LockInv'
    BY <1>1, <1>m, <2>1, <2>2, <2>6, WorldAssumption DEF LockInv, OneWorld
  <2>8. \A d \in Clients : client'[d].pc \notin Stopping
    BY <1>1, <1>m, <2>2
  <2>9. StopInv'
    BY <1>0, <1>m, <2>5, <2>8 DEF StopInv
  <2> QED  BY <2>7, <2>9
<1> QED  BY <1>3, <1>4, <1>5, <1>6, <1>7, <1>8, <1>9 DEF StopSteps

\* Every step keeps the types, the lock and what Stop has waited for.
LEMMA NextLock ==
    ASSUME WorldInv, Next
    PROVE  TypeOK' /\ HoldInv' /\ LockInv' /\ StopInv'
<1>0. TypeOK /\ LockInv /\ StopInv
  BY DEF WorldInv
<1>1. CASE \E c \in Clients : Request(c) \/ Body(c) \/ EndStream(c)
  BY <1>0, <1>1, LockTypes, BodyTypes, BodyAside, AsideLock
<1>2. CASE \E c \in Clients : LockStep(c)
  BY <1>2, LockTypes, LockStepLock
<1>3. CASE \E c \in Clients : StopSteps(c) \/ StopTimeout(c)
  BY <1>3, StopTypes, StopLock
<1>4. CASE \E w \in Worlds : GoroutinesReturn(w) \/ GrowIdle(w)
  BY <1>0, <1>4, WorldTypes, WorldAside, AsideLock
<1>5. CASE \E r \in Runs : RunnerStep(r)
  BY <1>0, <1>5, RunnerStepTypes, RunnerAside, AsideLock
<1> QED  BY <1>1, <1>2, <1>3, <1>4, <1>5 DEF Next

-----------------------------------------------------------------------------
\* The viewers.
LEMMA HubOps ==
    ASSUME NEW wr \in WorldRec, NEW c \in Clients, HubOK(wr)
    PROVE  HubOK(subscribe(wr, c)) /\ HubOK(unsubscribe(wr, c)) /\ HubOK(closeAll(wr))
<1>1. ASSUME NEW x \in WorldRec, ~x.closed \/ x.subs = {}
      PROVE  HubOK(Viewers(x, Cardinality(x.subs)))
  <2>1. Cardinality(x.subs) = 0 <=> x.subs = {}
    BY SubsFinite DEF WorldRec
  <2> QED  BY <1>1, <2>1 DEF HubOK, Viewers, WorldRec
<1>2. ASSUME NEW s \in SUBSET Clients
      PROVE  /\ [wr EXCEPT !.subs = s] \in WorldRec /\ [wr EXCEPT !.subs = s].subs = s
             /\ [wr EXCEPT !.subs = s].closed = wr.closed
             /\ [wr EXCEPT !.subs = s].gen = wr.gen /\ [wr EXCEPT !.subs = s].idle = wr.idle
  BY DEF WorldRec
<1>3. wr.subs \cup {c} \in SUBSET Clients /\ wr.subs \ {c} \in SUBSET Clients
  BY DEF WorldRec
<1>4. HubOK(subscribe(wr, c))
  <2>1. CASE wr.closed
    BY <2>1 DEF subscribe
  <2>2. CASE ~wr.closed
    <3> DEFINE s == wr.subs \cup {c}
               x == [wr EXCEPT !.subs = s]
    <3>1. x \in WorldRec /\ x.subs = s /\ ~x.closed
      BY <1>2, <1>3, <2>2
    <3>2. subscribe(wr, c) = Viewers(x, Cardinality(s))
      BY <2>2 DEF subscribe
    <3> HIDE DEF x, s
    <3> QED  BY <1>1, <3>1, <3>2
  <2> QED  BY <2>1, <2>2
<1>5. HubOK(unsubscribe(wr, c))
  <2> DEFINE s == wr.subs \ {c}
             x == [wr EXCEPT !.subs = s]
  <2>0. /\ x \in WorldRec /\ x.subs = s /\ x.closed = wr.closed /\ x.gen = wr.gen
        /\ x.idle = wr.idle
    BY <1>2, <1>3
  <2>1. CASE wr.closed
    <3>1. unsubscribe(wr, c) = x /\ s = {} /\ wr.subs = {}
      BY <2>1 DEF unsubscribe, HubOK
    <3> HIDE DEF x
    <3> QED  BY <2>0, <3>1 DEF HubOK
  <2>2. CASE ~wr.closed
    <3>1. unsubscribe(wr, c) = Viewers(x, Cardinality(s))
      BY <2>2 DEF unsubscribe
    <3> HIDE DEF x, s
    <3> QED  BY <1>1, <2>0, <2>2, <3>1
  <2> QED  BY <2>1, <2>2
<1>6. HubOK(closeAll(wr))
  BY DEF closeAll, Viewers, HubOK, WorldRec
<1> QED  BY <1>4, <1>5, <1>6

SameHub(wr, x) ==
    x.subs = wr.subs /\ x.gen = wr.gen /\ x.idle = wr.idle /\ x.closed = wr.closed

LEMMA FreshIs ==
    /\ HubOK(Fresh) /\ HubOK(Absent)
    /\ \A wr \in {Fresh, Absent} :
        /\ wr.cur = None /\ wr.targets = None /\ wr.card = None
        /\ wr.env = Base /\ wr.touched = {}
BY DEF HubOK, Fresh, Absent

\* The World that build makes.
LEMMA BuildIs ==
    ASSUME WorldInv, NEW c \in Clients, build(c)
    PROVE  \E w \in Worlds :
             /\ Running(w) = {} /\ run' = run
             /\ \A x \in Worlds \ {w} : world'[x] = world[x]
             /\ world'[w] \in {Fresh, subscribe(Fresh, c)}
<1>0. TypeOK
  BY DEF WorldInv
<1> DEFINE w == CHOOSE w \in Worlds : world[w].store # "open" /\ Quiet(w)
<1>1. w \in Worlds /\ Quiet(w) /\ run' = run
  BY DEF build
<1>2. Running(w) = {}
  BY <1>0, <1>1, QuietMeans
<1>3. world' \in {[world EXCEPT ![w] = Fresh], [world EXCEPT ![w] = subscribe(Fresh, c)]}
  <2>1. CASE client[c].req = "reset"
    BY <2>1 DEF build
  <2>2. CASE client[c].req # "reset"
    <3>1. Hand(c, w, Fresh)
      BY <2>2 DEF build
    <3> HIDE DEF w
    <3> QED  BY <3>1 DEF Hand
  <2> QED  BY <2>1, <2>2
<1> HIDE DEF w
<1> QED  BY <1>0, <1>1, <1>2, <1>3 DEF TypeOK

LEMMA NextHub ==
    ASSUME WorldInv, Next
    PROVE  HubInv'
<1>0. TypeOK /\ HoldInv /\ LockInv /\ HubInv /\ TypeOK'
  BY NextLock DEF WorldInv
<1>t. \A x \in Worlds : world[x] \in WorldRec /\ HubOK(world[x])
  BY <1>0 DEF TypeOK, HubInv
<1>s. ASSUME \A x \in Worlds : SameHub(world[x], world'[x])
      PROVE  HubInv'
  BY <1>s, <1>t DEF HubInv, HubOK, SameHub
<1>u. world' = world => HubInv'
  BY <1>0 DEF HubInv
<1>o. ASSUME NEW x \in Worlds, NEW wr, HubOK(wr), world' = [world EXCEPT ![x] = wr]
      PROVE  HubInv'
  BY <1>0, <1>t, <1>o DEF HubInv, TypeOK
<1>1. ASSUME NEW c \in Clients, LockStep(c) PROVE HubInv'
  <2>1. CASE HandCurrent(c)
    <3>1. cur \in Worlds /\ Hand(c, cur, world[cur])
      BY <1>0, <2>1 DEF HandCurrent, TypeOK
    <3>2. HubOK(subscribe(world[cur], c)) /\ HubOK(world[cur])
      BY <1>t, <3>1, HubOps
    <3> QED  BY <1>o, <3>1, <3>2 DEF Hand
  <2>2. CASE NoWorld(c) \/ Replace(c) \/ buildFails(c)
    BY <1>u, <2>2 DEF NoWorld, Replace, buildFails
  <2>3. CASE build(c)
    <3>1. PICK w \in Worlds :
             /\ \A x \in Worlds \ {w} : world'[x] = world[x]
             /\ world'[w] \in {Fresh, subscribe(Fresh, c)}
      BY <2>3, BuildIs
    <3>2. HubOK(Fresh) /\ HubOK(subscribe(Fresh, c))
      BY FreshIs, FreshType, HubOps
    <3> QED  BY <1>t, <3>1, <3>2 DEF HubInv
  <2> QED  BY <1>1, <2>1, <2>2, <2>3 DEF LockStep
<1>2. ASSUME NEW c \in Clients, StopSteps(c) \/ StopTimeout(c) PROVE HubInv'
  <2>p. client[c].pc \in Stopping
    BY <1>2 DEF StopSteps, StopTimeout, MarkStopping, CancelContext, CloseHub, GoroutinesDone,
           HandlersDone, CloseStore, StopStep, Stopping
  <2>c. cur \in Worlds
    BY <1>0, <2>p DEF LockInv, TypeOK
  <2>1. CASE MarkStopping(c)
    BY <1>0, <1>s, <1>t, <2>1 DEF MarkStopping, TypeOK, SameHub, WorldRec
  <2>2. CASE CancelContext(c)
    BY <1>0, <1>s, <1>t, <2>2 DEF CancelContext, TypeOK, SameHub, WorldRec
  <2>3. CASE CloseHub(c)
    <3>1. HubOK(closeAll(world[cur]))
      BY <1>t, <2>c, HubOps
    <3> QED  BY <1>o, <2>c, <2>3, <3>1 DEF CloseHub
  <2>4. CASE GoroutinesDone(c) \/ HandlersDone(c)
    BY <1>u, <2>4 DEF GoroutinesDone, HandlersDone
  <2>5. CASE StopTimeout(c)
    BY <1>0, <1>s, <1>t, <2>5 DEF StopTimeout, TypeOK, SameHub, WorldRec
  <2>6. CASE CloseStore(c)
    <3>1. CASE Quiet(cur)
      BY <1>o, <2>c, <2>6, <3>1, FreshIs DEF CloseStore
    <3>2. CASE ~Quiet(cur)
      <4>1. world' = [world EXCEPT ![cur].store = "closed"]
        BY <2>6, <3>2 DEF CloseStore
      <4> QED  BY <1>0, <1>s, <1>t, <4>1 DEF TypeOK, SameHub, WorldRec
    <3> QED  BY <3>1, <3>2
  <2> QED  BY <1>2, <2>1, <2>2, <2>3, <2>4, <2>5, <2>6 DEF StopSteps
<1>3. ASSUME NEW c \in Clients, Request(c) \/ Body(c) \/ EndStream(c) PROVE HubInv'
  <2> DEFINE w == client[c].w
  <2>1. CASE \/ Request(c) \/ Served(c) \/ SignalRun(c)
             \/ StartRefused(c) \/ StopScenario(c) \/ StopNothing(c)
    BY <1>u, <2>1 DEF Request, Served, SignalRun, StartRefused, StopScenario, StopNothing
  <2>2. CASE EndStream(c)
    <3>1. world' = [world EXCEPT ![w] = unsubscribe(@, c)] /\ client[c].pc = "stream"
      BY <2>2 DEF EndStream
    <3>2. w \in Worlds
      BY <1>0, <3>1 DEF HoldInv, Holding, TypeOK, ClientRec
    <3>3. HubOK(unsubscribe(world[w], c))
      BY <1>t, <3>2, HubOps
    <3> QED  BY <1>o, <3>1, <3>2, <3>3
  <2>3. CASE SetByHand(c)
    <3>1. PICK p, v : world' = [world EXCEPT ![w].env[p] = v, ![w].touched = @ \cup {p}]
      BY <2>3 DEF SetByHand
    <3>2. w \in Worlds
      BY <1>0, <2>3 DEF SetByHand, Control, HoldInv, Holding, TypeOK, ClientRec
    <3> HIDE DEF w
    <3>3. \A x \in Worlds \ {w} : world'[x] = world[x]
      BY <1>0, <3>1 DEF TypeOK
    <3>4. SameHub(world[w], world'[w])
      BY <1>0, <1>t, <3>1, <3>2 DEF TypeOK, SameHub, WorldRec
    <3>5. \A x \in Worlds : SameHub(world[x], world'[x])
      BY <3>3, <3>4 DEF SameHub
    <3> QED  BY <1>s, <3>5
  <2>4. CASE Restore(c)
    BY <1>0, <1>s, <1>t, <2>4 DEF Restore, TypeOK, SameHub, WorldRec
  <2>5. CASE StartScenario(c)
    <3>1. PICK r, n : world' = [world EXCEPT ![w] = SetTargets([@ EXCEPT !.cur = r], n)]
      BY <2>5 DEF StartScenario
    <3> QED  BY <1>0, <1>s, <1>t, <3>1 DEF TypeOK, SameHub, WorldRec, SetTargets
  <2> QED  BY <1>3, <2>1, <2>2, <2>3, <2>4, <2>5 DEF Body
<1>4. ASSUME NEW w \in Worlds, GoroutinesReturn(w) \/ GrowIdle(w) PROVE HubInv'
  <2>1. CASE GoroutinesReturn(w)
    BY <1>0, <1>s, <1>t, <2>1 DEF GoroutinesReturn, TypeOK, SameHub, WorldRec
  <2>2. CASE GrowIdle(w)
    <3>1. world' = [world EXCEPT ![w] = [world[w] EXCEPT !.idle = "long"]]
          /\ world[w].idle = "fresh"
      BY <2>2 DEF GrowIdle
    <3>2. HubOK([world[w] EXCEPT !.idle = "long"])
      BY <1>t, <3>1 DEF HubOK, WorldRec
    <3> QED  BY <1>o, <3>1, <3>2
  <2> QED  BY <1>4, <2>1, <2>2
<1>5. ASSUME NEW r \in Runs, RunnerStep(r) PROVE HubInv'
  <2>1. CASE NextPhase(r)
    BY <1>0, <1>s, <1>t, <2>1 DEF NextPhase, TypeOK, SetScenario, WorldRec, SameHub
  <2>f. CASE FirstPhase(r)
    BY <1>0, <1>s, <1>t, <2>f DEF FirstPhase, TypeOK, SetScenario, WorldRec, SameHub
  <2>2. CASE FreeSlot(r)
    BY <1>0, <1>s, <1>t, <2>2 DEF FreeSlot, TypeOK, WorldRec, SameHub
  <2>3. CASE ClearCard(r)
    BY <1>0, <1>s, <1>t, <2>3 DEF ClearCard, TypeOK, SetScenario, WorldRec, SameHub
  <2>4. CASE LastPhase(r)
    BY <1>0, <1>s, <1>t, <2>4 DEF LastPhase, Runner, TypeOK, SetScenario, WorldRec, SameHub
  <2>5. CASE PhaseCancelled(r)
    BY <1>0, <1>s, <1>t, <2>5 DEF PhaseCancelled, Runner, TypeOK, WorldRec, SameHub
  <2>6. CASE TailOpens(r) \/ TailEnds(r) \/ ClearTargets(r)
    BY <1>0, <1>s, <1>t, <2>6 DEF TailOpens, TailEnds, ClearTargets, Runner, TypeOK, SetScenario,
                                  SetTargets, WorldRec, SameHub
  <2> QED  BY <1>5, <2>f, <2>1, <2>2, <2>3, <2>4, <2>5, <2>6 DEF RunnerStep
<1> QED  BY <1>1, <1>2, <1>3, <1>4, <1>5 DEF Next

-----------------------------------------------------------------------------
\* The scenario slot, what it shows, and the environment.

\* A run at w that occupies the slot is the one in the slot.
LEMMA OneOccupant ==
    ASSUME TypeOK, SlotInv, NEW r \in Runs, NEW q \in Runs,
           run[r].w = run[q].w, run[r].pc \in Occupying, run[q].pc \in Occupying
    PROVE  r = q
BY DEF SlotInv

\* The environment stays and so do the phases.
LEMMA EnvStable ==
    ASSUME TypeOK, EnvInv,
           \A x \in Worlds : world'[x].env = world[x].env /\ world'[x].touched = world[x].touched,
           \A q \in Runs : run'[q].pc = "phase" <=> run[q].pc = "phase",
           \A q \in Runs : run[q].pc = "phase" => run'[q].w = run[q].w /\ run'[q].name = run[q].name
    PROVE  EnvInv'
<1> SUFFICES ASSUME NEW x \in Worlds, NEW p \in Parts, p \notin world'[x].touched
             PROVE  /\ (\A q \in Runs : run'[q].w = x => run'[q].pc # "phase")
                         => world'[x].env[p] = Base[p]
                    /\ \A q \in Runs : run'[q].w = x /\ run'[q].pc = "phase" =>
                          Exit(run'[q].name, world'[x].env)[p] = Base[p]
  BY DEF EnvInv
<1>1. /\ (\A q \in Runs : run[q].w = x => run[q].pc # "phase") => world[x].env[p] = Base[p]
      /\ \A q \in Runs : run[q].w = x /\ run[q].pc = "phase" =>
            Exit(run[q].name, world[x].env)[p] = Base[p]
  BY DEF EnvInv
<1> QED  BY <1>1

\* Steps that leave the slots, the cards and the environment alone.
LEMMA SlotStable ==
    ASSUME TypeOK, SlotInv, EnvInv,
           \A x \in Worlds :
             /\ world'[x].cur = world[x].cur /\ world'[x].targets = world[x].targets
             /\ world'[x].card = world[x].card
             /\ world'[x].env = world[x].env /\ world'[x].touched = world[x].touched,
           \A q \in Runs :
             run'[q].pc = run[q].pc /\ run'[q].w = run[q].w /\ run'[q].name = run[q].name,
           HoldInv
    PROVE  SlotInv' /\ EnvInv'
<1>1. EnvInv'
  BY EnvStable
<1>2. \A q \in Runs : run[q].pc \in Occupying => run[q].w \in Worlds
  BY DEF HoldInv, Occupying, TypeOK, RunRec
<1>3. \A x \in Worlds : world[x].cur # None => world[x].cur \in Runs
  BY DEF TypeOK, WorldRec
<1>4. SlotInv'
  BY <1>2, <1>3 DEF SlotInv
<1> QED  BY <1>1, <1>4

\* A World in which nothing runs is built, or forgotten.
LEMMA SlotRenewed ==
    ASSUME TypeOK, HoldInv, SlotInv, EnvInv, NEW w \in Worlds, Running(w) = {}, run' = run,
           \A x \in Worlds \ {w} : world'[x] = world[x],
           world'[w].cur = None, world'[w].targets = None, world'[w].card = None,
           world'[w].env = Base
    PROVE  SlotInv' /\ EnvInv'
<1>1. \A q \in Runs : run[q].w # w
  BY DEF Running
<1>2. \A q \in Runs : run[q].pc \in Occupying => run[q].w \in Worlds
  BY DEF HoldInv, Occupying, TypeOK, RunRec
<1>3. \A x \in Worlds : world[x].cur # None => world[x].cur \in Runs
  BY DEF TypeOK, WorldRec
<1>4. SlotInv'
  BY <1>1, <1>2, <1>3 DEF SlotInv
<1>5. EnvInv'
  BY <1>1 DEF EnvInv
<1> QED  BY <1>4, <1>5

LEMMA LockSlot ==
    ASSUME WorldInv, NEW c \in Clients, Request(c) \/ LockStep(c)
    PROVE  SlotInv' /\ EnvInv'
<1>0. TypeOK /\ HoldInv /\ SlotInv /\ EnvInv
  BY DEF WorldInv
<1>1. CASE Request(c) \/ NoWorld(c) \/ Replace(c) \/ buildFails(c)
  <2>1. world' = world /\ run' = run
    BY <1>1 DEF Request, NoWorld, Replace, buildFails
  <2> QED  BY <1>0, <2>1, SlotStable
<1>2. CASE HandCurrent(c)
  <2>1. cur \in Worlds /\ Hand(c, cur, world[cur]) /\ run' = run /\ world[cur] \in WorldRec
    BY <1>0, <1>2 DEF HandCurrent, TypeOK
  <2>2. SameButHub(world[cur], subscribe(world[cur], c))
    BY <2>1, HubKeeps
  <2>3. \A x \in Worlds :
             /\ world'[x].cur = world[x].cur /\ world'[x].targets = world[x].targets
             /\ world'[x].card = world[x].card
             /\ world'[x].env = world[x].env /\ world'[x].touched = world[x].touched
    BY <1>0, <2>1, <2>2 DEF Hand, TypeOK, SameButHub
  <2> QED  BY <1>0, <2>1, <2>3, SlotStable
<1>3. CASE build(c)
  <2>1. PICK w \in Worlds :
             /\ Running(w) = {} /\ run' = run
             /\ \A x \in Worlds \ {w} : world'[x] = world[x]
             /\ world'[w] \in {Fresh, subscribe(Fresh, c)}
    BY <1>3, BuildIs
  <2>2. SameButHub(Fresh, subscribe(Fresh, c))
    BY FreshType, HubKeeps
  <2>3. /\ world'[w].cur = None /\ world'[w].targets = None /\ world'[w].card = None
        /\ world'[w].env = Base
    BY <2>1, <2>2, FreshIs DEF SameButHub
  <2> QED  BY <1>0, <2>1, <2>3, SlotRenewed
<1> QED  BY <1>1, <1>2, <1>3 DEF LockStep

LEMMA StopSlot ==
    ASSUME WorldInv, NEW c \in Clients, StopSteps(c) \/ StopTimeout(c)
    PROVE  SlotInv' /\ EnvInv'
<1>0. TypeOK /\ HoldInv /\ LockInv /\ SlotInv /\ EnvInv
  BY DEF WorldInv
<1>p. client[c].pc \in Stopping /\ run' = run
  BY DEF StopSteps, StopTimeout, MarkStopping, CancelContext, CloseHub, GoroutinesDone,
         HandlersDone, CloseStore, StopStep, Stopping
<1>c. cur \in Worlds /\ world[cur] \in WorldRec
  BY <1>0, <1>p DEF LockInv, TypeOK
<1>s. ASSUME \A x \in Worlds :
             /\ world'[x].cur = world[x].cur /\ world'[x].targets = world[x].targets
             /\ world'[x].card = world[x].card
             /\ world'[x].env = world[x].env /\ world'[x].touched = world[x].touched
      PROVE  SlotInv' /\ EnvInv'
  BY <1>0, <1>p, <1>s, SlotStable
<1>1. CASE MarkStopping(c)
  BY <1>0, <1>c, <1>s, <1>1 DEF MarkStopping, TypeOK, WorldRec
<1>2. CASE CancelContext(c)
  BY <1>0, <1>c, <1>s, <1>2 DEF CancelContext, TypeOK, WorldRec
<1>3. CASE CloseHub(c)
  <2>1. SameButHub(world[cur], closeAll(world[cur]))
    BY <1>c, HubKeeps
  <2> QED  BY <1>0, <1>c, <1>s, <1>3, <2>1 DEF CloseHub, TypeOK, SameButHub
<1>4. CASE GoroutinesDone(c) \/ HandlersDone(c)
  BY <1>s, <1>4 DEF GoroutinesDone, HandlersDone
<1>5. CASE StopTimeout(c)
  BY <1>0, <1>c, <1>s, <1>5 DEF StopTimeout, TypeOK, WorldRec
<1>6. CASE CloseStore(c)
  <2>1. CASE Quiet(cur)
    <3>1. Running(cur) = {}
      BY <1>0, <1>c, <2>1, QuietMeans
    <3>2. world' = [world EXCEPT ![cur] = Absent]
      BY <1>6, <2>1 DEF CloseStore
    <3>3. /\ \A x \in Worlds \ {cur} : world'[x] = world[x]
          /\ world'[cur] = Absent
      BY <1>0, <1>c, <3>2 DEF TypeOK
    <3>4. /\ world'[cur].cur = None /\ world'[cur].targets = None /\ world'[cur].card = None
          /\ world'[cur].env = Base
      BY <3>3, FreshIs
    <3> QED  BY <1>0, <1>c, <1>p, <3>1, <3>3, <3>4, SlotRenewed
  <2>2. CASE ~Quiet(cur)
    <3>1. world' = [world EXCEPT ![cur].store = "closed"]
      BY <1>6, <2>2 DEF CloseStore
    <3> QED  BY <1>0, <1>c, <1>s, <3>1 DEF TypeOK, WorldRec
  <2> QED  BY <2>1, <2>2
<1> QED  BY <1>1, <1>2, <1>3, <1>4, <1>5, <1>6 DEF StopSteps

LEMMA WorldSlot ==
    ASSUME WorldInv, NEW w \in Worlds, GoroutinesReturn(w) \/ GrowIdle(w)
    PROVE  SlotInv' /\ EnvInv'
<1>0. TypeOK /\ HoldInv /\ SlotInv /\ EnvInv
  BY DEF WorldInv
<1>1. /\ run' = run
      /\ \A x \in Worlds :
             /\ world'[x].cur = world[x].cur /\ world'[x].targets = world[x].targets
             /\ world'[x].card = world[x].card
             /\ world'[x].env = world[x].env /\ world'[x].touched = world[x].touched
  BY <1>0 DEF GoroutinesReturn, GrowIdle, TypeOK, WorldRec
<1> QED  BY <1>0, <1>1, SlotStable

\* A part is at its base value, so exit leaves it there.
LEMMA ExitKeepsBase ==
    ASSUME NEW e \in EnvRec, NEW n \in Names, NEW p \in Parts, e[p] = Base[p]
    PROVE  Exit(n, e)[p] = Base[p]
BY ExitLocal, ExitBase

\* A request changes parts of the environment that it marks as touched, or puts
\* them at their base value.
LEMMA EnvByHand ==
    ASSUME TypeOK, HoldInv, EnvInv, NEW w \in Worlds, run' = run,
           \A x \in Worlds \ {w} : world'[x] = world[x],
           world'[w].env \in EnvRec, world[w].touched \subseteq world'[w].touched,
           \A p \in Parts \ world'[w].touched : world'[w].env[p] \in {world[w].env[p], Base[p]}
    PROVE  EnvInv'
<1> SUFFICES ASSUME NEW x \in Worlds, NEW p \in Parts, p \notin world'[x].touched
             PROVE  /\ (\A q \in Runs : run[q].w = x => run[q].pc # "phase")
                         => world'[x].env[p] = Base[p]
                    /\ \A q \in Runs : run[q].w = x /\ run[q].pc = "phase" =>
                          Exit(run[q].name, world'[x].env)[p] = Base[p]
  BY DEF EnvInv
<1>1. CASE x # w
  BY <1>1 DEF EnvInv
<1>2. CASE x = w
  <2>1. /\ (\A q \in Runs : run[q].w = x => run[q].pc # "phase") => world[x].env[p] = Base[p]
        /\ \A q \in Runs : run[q].w = x /\ run[q].pc = "phase" =>
              Exit(run[q].name, world[x].env)[p] = Base[p]
    BY <1>2 DEF EnvInv
  <2>2. world[x].env \in EnvRec /\ world'[x].env \in EnvRec
    BY <1>2 DEF TypeOK, WorldRec
  <2>3. \A q \in Runs : run[q].pc = "phase" => run[q].name \in Names
    BY DEF HoldInv, Occupying
  <2>4. CASE world'[x].env[p] = Base[p]
    BY <2>2, <2>3, <2>4, ExitKeepsBase
  <2>5. CASE world'[x].env[p] = world[x].env[p]
    <3>1. \A q \in Runs : run[q].w = x /\ run[q].pc = "phase" =>
              Exit(run[q].name, world'[x].env)[p] = Exit(run[q].name, world[x].env)[p]
      BY <2>2, <2>3, <2>5, ExitLocal
    <3> QED  BY <2>1, <2>5, <3>1
  <2> QED  BY <1>2, <2>4, <2>5
<1> QED  BY <1>1, <1>2

\* A scenario starts in a World whose slot is free.
LEMMA StartSlot ==
    ASSUME WorldInv, NEW c \in Clients, StartScenario(c)
    PROVE  SlotInv' /\ EnvInv'
<1>0. TypeOK /\ HoldInv /\ SlotInv /\ EnvInv
  BY DEF WorldInv
<1> DEFINE w == client[c].w
           r == CHOOSE r \in bound.runs : run[r].pc = "none"
<1>1. r \in Runs /\ run[r].pc = "none"
  BY <1>0, WorldAssumption DEF StartScenario, TypeOK
<1>2. PICK n \in bound.started :
        /\ run' = [run EXCEPT ![r] = [NoRun EXCEPT !.pc = "enter", !.w = w, !.name = n, !.i = 1]]
        /\ world' = [world EXCEPT ![w] = SetTargets([@ EXCEPT !.cur = r], n)]
  BY DEF StartScenario
<1>3. n \in Names /\ world[w].cur = None
  BY <1>0, WorldAssumption DEF TypeOK, StartScenario, MayStart
<1>4. w \in Worlds
  BY <1>0 DEF StartScenario, Control, HoldInv, Holding, TypeOK, ClientRec
<1> HIDE DEF w, r
<1>5. world[w] \in WorldRec /\ world[w].env \in EnvRec
  BY <1>0, <1>4 DEF TypeOK, WorldRec
<1>6. /\ \A x \in Worlds \ {w} : world'[x] = world[x]
      /\ world'[w].cur = r /\ world'[w].env = world[w].env
      /\ world'[w].touched = world[w].touched
  BY <1>0, <1>2, <1>4, <1>5 DEF TypeOK, WorldRec, SetTargets
<1>7. /\ \A q \in Runs \ {r} : run'[q] = run[q]
      /\ run'[r].pc = "enter" /\ run'[r].w = w /\ run'[r].name = n
  <2>1. NoRun \in RunRec
    BY DEF NoRun, RunRec
  <2>2. run'[r] = [NoRun EXCEPT !.pc = "enter", !.w = w, !.name = n, !.i = 1]
        /\ \A q \in Runs \ {r} : run'[q] = run[q]
    BY <1>0, <1>1, <1>2 DEF TypeOK
  <2> QED  BY <2>1, <2>2 DEF RunRec
<1>8. run[r].w = None /\ w # None
  BY <1>0, <1>1, <1>4, WorldAssumption DEF HoldInv
<1>o. "enter" \in Occupying /\ "none" \notin Occupying \cup {"targets"}
  BY DEF Occupying
<1>9. \A q \in Runs : run[q].pc \in Occupying => run[q].w \in Worlds /\ run[q].w # w
  BY <1>0, <1>3, WorldAssumption DEF HoldInv, Occupying, TypeOK, RunRec, SlotInv
<1>10. \A x \in Worlds : world[x].cur # None => world[x].cur \in Runs
  BY <1>0 DEF TypeOK, WorldRec
<1>11. SlotInv'
  <2>1. \A q \in Runs : run'[q].pc \in Occupying => world'[run'[q].w].cur = q
    BY <1>0, <1>6, <1>7, <1>9 DEF SlotInv
  <2>2. \A x \in Worlds : world'[x].cur # None =>
           run'[world'[x].cur].w = x /\ run'[world'[x].cur].pc \in Occupying
    BY <1>0, <1>1, <1>6, <1>7, <1>o, <1>10 DEF SlotInv
  <2>3. \A x \in Worlds : world'[x].targets # None =>
           \E q \in Runs : run'[q].w = x /\ run'[q].pc \in Occupying \cup {"targets"}
    BY <1>0, <1>1, <1>6, <1>7, <1>o DEF SlotInv
  <2>4. \A x \in Worlds : world'[x].card # None => \E q \in Runs : run'[q].w = x
    BY <1>0, <1>1, <1>6, <1>7, <1>8, WorldAssumption DEF SlotInv
  <2> QED  BY <2>1, <2>2, <2>3, <2>4 DEF SlotInv
<1>12. EnvInv'
  <2>1. \A x \in Worlds : world'[x].env = world[x].env /\ world'[x].touched = world[x].touched
    BY <1>6
  <2>2. /\ \A q \in Runs : run'[q].pc = "phase" <=> run[q].pc = "phase"
        /\ \A q \in Runs : run[q].pc = "phase" => run'[q].w = run[q].w /\ run'[q].name = run[q].name
    BY <1>1, <1>7
  <2> QED  BY <1>0, <2>1, <2>2, EnvStable
<1> QED  BY <1>11, <1>12

LEMMA BodySlot ==
    ASSUME WorldInv, NEW c \in Clients, Body(c) \/ EndStream(c)
    PROVE  SlotInv' /\ EnvInv'
<1>0. TypeOK /\ HoldInv /\ SlotInv /\ EnvInv /\ TypeOK'
  BY BodyTypes DEF WorldInv
<1> DEFINE w == client[c].w
<1>w. client[c].pc \in Holding => w \in Worlds /\ world[w] \in WorldRec /\ world[w].env \in EnvRec
  BY <1>0 DEF TypeOK, HoldInv, ClientRec, WorldRec
<1>1. CASE Served(c) \/ StartRefused(c) \/ StopNothing(c)
  <2>1. world' = world /\ run' = run
    BY <1>1 DEF Served, StartRefused, StopNothing
  <2> QED  BY <1>0, <2>1, SlotStable
<1>2. CASE SignalRun(c) \/ StopScenario(c)
  <2>1. world' = world
    BY <1>2 DEF SignalRun, StopScenario
  <2>2. \A q \in Runs : run'[q].pc = run[q].pc /\ run'[q].w = run[q].w /\ run'[q].name = run[q].name
    BY <1>0, <1>2 DEF SignalRun, StopScenario, TypeOK, RunRec
  <2> QED  BY <1>0, <2>1, <2>2, SlotStable
<1>3. CASE EndStream(c)
  <2>1. /\ client[c].pc = "stream" /\ run' = run
        /\ world' = [world EXCEPT ![w] = unsubscribe(@, c)]
    BY <1>3 DEF EndStream
  <2>2. w \in Worlds /\ world[w] \in WorldRec
    BY <1>w, <2>1 DEF Holding
  <2>3. SameButHub(world[w], unsubscribe(world[w], c))
    BY <2>2, HubKeeps
  <2> HIDE DEF w
  <2>4. \A x \in Worlds :
             /\ world'[x].cur = world[x].cur /\ world'[x].targets = world[x].targets
             /\ world'[x].card = world[x].card
             /\ world'[x].env = world[x].env /\ world'[x].touched = world[x].touched
    BY <1>0, <2>1, <2>2, <2>3 DEF TypeOK, SameButHub
  <2> QED  BY <1>0, <2>1, <2>4, SlotStable
<1>s. ASSUME w \in Worlds, \A x \in Worlds \ {w} : world'[x] = world[x], run' = run,
             world'[w].cur = world[w].cur, world'[w].targets = world[w].targets,
             world'[w].card = world[w].card
      PROVE  SlotInv'
  <2> HIDE DEF w
  <2>1. \A x \in Worlds :
             /\ world'[x].cur = world[x].cur /\ world'[x].targets = world[x].targets
             /\ world'[x].card = world[x].card
    BY <1>s
  <2>2. \A q \in Runs : run[q].pc \in Occupying => run[q].w \in Worlds
    BY <1>0 DEF HoldInv, Occupying, TypeOK, RunRec
  <2> QED  BY <1>0, <1>s, <2>1, <2>2 DEF SlotInv
<1>4. CASE SetByHand(c)
  <2>1. client[c].pc = "use" /\ run' = run
    BY <1>4 DEF SetByHand, Control
  <2>2. PICK p, v : world' = [world EXCEPT ![w].env[p] = v, ![w].touched = @ \cup {p}]
    BY <1>4 DEF SetByHand
  <2>3. w \in Worlds /\ world[w] \in WorldRec /\ world[w].env \in EnvRec
    BY <1>w, <2>1 DEF Holding
  <2>4. /\ \A x \in Worlds \ {w} : world'[x] = world[x]
        /\ world'[w] = [world[w] EXCEPT !.env = [world[w].env EXCEPT ![p] = v],
                                        !.touched = world[w].touched \cup {p}]
    BY <1>0, <2>2, <2>3 DEF TypeOK
  <2>5. /\ world'[w].cur = world[w].cur /\ world'[w].targets = world[w].targets
        /\ world'[w].card = world[w].card
        /\ world'[w].env = [world[w].env EXCEPT ![p] = v]
        /\ world'[w].touched = world[w].touched \cup {p}
    BY <2>3, <2>4 DEF WorldRec
  <2>6. SlotInv'
    BY <1>s, <2>1, <2>3, <2>4, <2>5
  <2>7. \A q \in Parts \ world'[w].touched : world'[w].env[q] = world[w].env[q]
    BY <2>3, <2>5 DEF EnvRec, Parts
  <2>8. world'[w].env \in EnvRec
    BY <1>0, <2>3 DEF TypeOK, WorldRec
  <2> HIDE DEF w
  <2>9. EnvInv'
    BY <1>0, <2>1, <2>3, <2>4, <2>5, <2>7, <2>8, EnvByHand
  <2> QED  BY <2>6, <2>9
<1>5. CASE Restore(c)
  <2>1. client[c].pc = "use" /\ run' = run /\ world' = [world EXCEPT ![w].env.key = TRUE]
    BY <1>5 DEF Restore, Control
  <2>2. w \in Worlds /\ world[w] \in WorldRec /\ world[w].env \in EnvRec
    BY <1>w, <2>1 DEF Holding
  <2>3. /\ \A x \in Worlds \ {w} : world'[x] = world[x]
        /\ world'[w] = [world[w] EXCEPT !.env = [world[w].env EXCEPT !.key = TRUE]]
    BY <1>0, <2>1, <2>2 DEF TypeOK
  <2>4. /\ world'[w].cur = world[w].cur /\ world'[w].targets = world[w].targets
        /\ world'[w].card = world[w].card
        /\ world'[w].env = [world[w].env EXCEPT !.key = TRUE]
        /\ world'[w].touched = world[w].touched
    BY <2>2, <2>3 DEF WorldRec
  <2>5. SlotInv'
    BY <1>s, <2>1, <2>2, <2>3, <2>4
  <2>6. \A q \in Parts : world'[w].env[q] \in {world[w].env[q], Base[q]}
    <3>1. \A q \in Parts \ {"key"} : world'[w].env[q] = world[w].env[q]
      BY <2>2, <2>4 DEF EnvRec, Parts
    <3>2. world'[w].env["key"] = TRUE
      BY <2>2, <2>4 DEF EnvRec
    <3>3. Base["key"] = TRUE
      BY DEF Base
    <3> QED  BY <3>1, <3>2, <3>3
  <2>7. world'[w].env \in EnvRec
    BY <1>0, <2>2 DEF TypeOK, WorldRec
  <2> HIDE DEF w
  <2>8. EnvInv'
    BY <1>0, <2>1, <2>2, <2>3, <2>4, <2>6, <2>7, EnvByHand
  <2> QED  BY <2>5, <2>8
<1>6. CASE StartScenario(c)
  BY <1>6, StartSlot
<1> QED  BY <1>1, <1>2, <1>3, <1>4, <1>5, <1>6 DEF Body

\* The World of a runner, and the others.
LEMMA RunnerFrame ==
    ASSUME WorldInv, NEW r \in Runs, RunnerStep(r)
    PROVE  /\ run[r].w \in Worlds /\ world[run[r].w] \in WorldRec
           /\ \A q \in Runs \ {r} : run'[q] = run[q]
           /\ \A x \in Worlds \ {run[r].w} : world'[x] = world[x]
           /\ world'[run[r].w].touched = world[run[r].w].touched
<1>0. TypeOK /\ HoldInv
  BY DEF WorldInv
<1> DEFINE w == run[r].w
<1>w. w \in Worlds /\ world[w] \in WorldRec
  <2>1. run[r].pc # "none"
    BY DEF RunnerStep, FirstPhase, NextPhase, PhaseOver, LastPhase, PhaseCancelled, TailOpens, TailEnds,
           FreeSlot, ClearTargets, ClearCard, AwaitersReturn, At
  <2> QED  BY <1>0, <2>1 DEF TypeOK, HoldInv, RunRec
<1>1. \A q \in Runs \ {r} : run'[q] = run[q]
  BY <1>0 DEF RunnerStep, FirstPhase, NextPhase, LastPhase, PhaseCancelled, TailOpens, TailEnds,
              FreeSlot, ClearTargets, ClearCard, AwaitersReturn, Runner, TypeOK
<1>2. \A x \in Worlds \ {w} : world'[x] = world[x]
  BY <1>0, <1>w DEF RunnerStep, FirstPhase, NextPhase, LastPhase, PhaseCancelled, TailOpens, TailEnds,
              FreeSlot, ClearTargets, ClearCard, AwaitersReturn, Runner, TypeOK
<1>3. world'[w].touched = world[w].touched
  <2>2. CASE NextPhase(r)
    BY <1>0, <1>w, <2>2 DEF NextPhase, TypeOK, SetScenario, WorldRec
  <2>f. CASE FirstPhase(r)
    BY <1>0, <1>w, <2>f DEF FirstPhase, TypeOK, SetScenario, WorldRec
  <2>3. CASE FreeSlot(r)
    BY <1>0, <1>w, <2>3 DEF FreeSlot, TypeOK, WorldRec
  <2>4. CASE ClearCard(r)
    BY <1>0, <1>w, <2>4 DEF ClearCard, TypeOK, SetScenario, WorldRec
  <2>5. CASE LastPhase(r)
    BY <1>0, <1>w, <2>5 DEF LastPhase, Runner, TypeOK, SetScenario, WorldRec
  <2>6. CASE PhaseCancelled(r)
    BY <1>0, <1>w, <2>6 DEF PhaseCancelled, Runner, TypeOK, WorldRec
  <2>7. CASE TailOpens(r) \/ TailEnds(r) \/ ClearTargets(r)
    BY <1>0, <1>w, <2>7 DEF TailOpens, TailEnds, ClearTargets, Runner, TypeOK, SetScenario,
                            SetTargets, WorldRec
  <2> QED  BY <2>f, <2>2, <2>3, <2>4, <2>5, <2>6, <2>7 DEF RunnerStep
<1> QED  BY <1>w, <1>1, <1>2, <1>3

\* A runner that still occupies its slot afterwards.
LEMMA OccupantSlot ==
    ASSUME WorldInv, NEW r \in Runs, RunnerStep(r),
           run[r].pc \in Occupying, run'[r].pc \in Occupying, run'[r].w = run[r].w,
           world'[run[r].w].cur = world[run[r].w].cur
    PROVE  SlotInv'
<1>0. TypeOK /\ HoldInv /\ SlotInv
  BY DEF WorldInv
<1> DEFINE w == run[r].w
<1>1. /\ w \in Worlds /\ world[w] \in WorldRec
      /\ \A q \in Runs \ {r} : run'[q] = run[q]
      /\ \A x \in Worlds \ {w} : world'[x] = world[x]
  BY RunnerFrame
<1>2. \A q \in Runs : run'[q].w = run[q].w /\ (run'[q].pc \in Occupying <=> run[q].pc \in Occupying)
  BY <1>1
<1>a. \A q \in Runs \ {r} : run'[q].pc = run[q].pc
  BY <1>1
<1>3. \A x \in Worlds : world'[x].cur = world[x].cur
  BY <1>1
<1>4. \A q \in Runs : run[q].pc \in Occupying => run[q].w \in Worlds
  BY <1>0 DEF HoldInv, Occupying, TypeOK, RunRec
<1>5. \A x \in Worlds : world[x].cur # None => world[x].cur \in Runs
  BY <1>0 DEF TypeOK, WorldRec
<1>6. \A q \in Runs : run'[q].pc \in Occupying => world'[run'[q].w].cur = q
  BY <1>0, <1>2, <1>3, <1>4 DEF SlotInv
<1>7. \A x \in Worlds : world'[x].cur # None =>
         run'[world'[x].cur].w = x /\ run'[world'[x].cur].pc \in Occupying
  BY <1>0, <1>2, <1>3, <1>5 DEF SlotInv
<1>8. \A x \in Worlds : world'[x].targets # None =>
         \E q \in Runs : run'[q].w = x /\ run'[q].pc \in Occupying \cup {"targets"}
  <2> TAKE x \in Worlds
  <2>1. CASE x = w
    BY <2>1
  <2>2. CASE x # w
    BY <1>0, <1>1, <1>2, <1>a, <2>2 DEF SlotInv
  <2> QED  BY <2>1, <2>2
<1>9. \A x \in Worlds : world'[x].card # None => \E q \in Runs : run'[q].w = x
  <2> TAKE x \in Worlds
  <2>1. CASE x = w
    BY <2>1
  <2>2. CASE x # w
    BY <1>0, <1>1, <1>2, <2>2 DEF SlotInv
  <2> QED  BY <2>1, <2>2
<1> QED  BY <1>6, <1>7, <1>8, <1>9 DEF SlotInv

\* The phase of r ends or gives way to the next.
LEMMA PhaseEnv ==
    ASSUME WorldInv, NEW r \in Runs, RunnerStep(r), run[r].pc = "phase",
           run'[r].w = run[r].w, run'[r].name = run[r].name,
           \/ run'[r].pc # "phase"
              /\ world'[run[r].w].env = Exit(run[r].name, world[run[r].w].env)
           \/ run'[r].pc = "phase"
              /\ \E i \in 1..3 : world'[run[r].w].env = Enter(run[r].name, i, world[run[r].w].env)
    PROVE  EnvInv'
<1>0. TypeOK /\ HoldInv /\ SlotInv /\ EnvInv
  BY DEF WorldInv
<1> DEFINE w == run[r].w
           n == run[r].name
<1>1. /\ w \in Worlds /\ world[w] \in WorldRec
      /\ \A q \in Runs \ {r} : run'[q] = run[q]
      /\ \A x \in Worlds \ {w} : world'[x] = world[x]
      /\ world'[w].touched = world[w].touched
  BY RunnerFrame
<1>o. "phase" \in Occupying
  BY DEF Occupying
<1>2. n \in Names /\ world[w].env \in EnvRec
  BY <1>0, <1>1, <1>o DEF HoldInv, WorldRec
<1>3. \A q \in Runs \ {r} : run[q].w = w => run[q].pc # "phase"
  BY <1>0, <1>o, OneOccupant
<1> SUFFICES ASSUME NEW x \in Worlds, NEW p \in Parts, p \notin world'[x].touched
             PROVE  /\ (\A q \in Runs : run'[q].w = x => run'[q].pc # "phase")
                         => world'[x].env[p] = Base[p]
                    /\ \A q \in Runs : run'[q].w = x /\ run'[q].pc = "phase" =>
                          Exit(run'[q].name, world'[x].env)[p] = Base[p]
  BY DEF EnvInv
<1>4. /\ (\A q \in Runs : run[q].w = x => run[q].pc # "phase") => world[x].env[p] = Base[p]
      /\ \A q \in Runs : run[q].w = x /\ run[q].pc = "phase" =>
            Exit(run[q].name, world[x].env)[p] = Base[p]
  <2>1. p \notin world[x].touched
    BY <1>1
  <2> QED  BY <1>0, <2>1 DEF EnvInv
<1>5. CASE x # w
  <2>1. \A q \in Runs : run'[q].w = x \/ run[q].w = x => run'[q] = run[q]
    BY <1>1, <1>5
  <2>2. world'[x] = world[x]
    BY <1>1, <1>5
  <2> QED  BY <1>4, <2>1, <2>2
<1>6. CASE x = w
  <2>1. Exit(n, world[w].env)[p] = Base[p]
    BY <1>4, <1>6
  <2>2. CASE run'[r].pc # "phase"
    <3>1. world'[w].env[p] = Base[p]
      BY <2>1, <2>2
    <3>2. \A q \in Runs : run'[q].w = w => run'[q].pc # "phase"
      BY <1>1, <1>3, <2>2
    <3> QED  BY <1>6, <3>1, <3>2
  <2>3. CASE run'[r].pc = "phase"
    <3>1. PICK i \in 1..3 : world'[w].env = Enter(n, i, world[w].env)
      BY <2>3
    <3>2. Exit(n, world'[w].env)[p] = Base[p]
      BY <1>2, <2>1, <3>1, ExitUndoes
    <3>3. \A q \in Runs : run'[q].w = w /\ run'[q].pc = "phase" => q = r
      BY <1>1, <1>3
    <3> QED  BY <1>6, <2>3, <3>2, <3>3
  <2> QED  BY <2>2, <2>3
<1> QED  BY <1>5, <1>6

\* The first phase of r begins: until then its World is as it was without it.
LEMMA FirstEnv ==
    ASSUME WorldInv, NEW r \in Runs, RunnerStep(r), run[r].pc = "enter",
           run'[r].pc = "phase", run'[r].w = run[r].w, run'[r].name = run[r].name,
           world'[run[r].w].env = Enter(run[r].name, 1, world[run[r].w].env)
    PROVE  EnvInv'
<1>0. TypeOK /\ HoldInv /\ SlotInv /\ EnvInv
  BY DEF WorldInv
<1> DEFINE w == run[r].w
           n == run[r].name
<1>1. /\ w \in Worlds /\ world[w] \in WorldRec
      /\ \A q \in Runs \ {r} : run'[q] = run[q]
      /\ \A x \in Worlds \ {w} : world'[x] = world[x]
      /\ world'[w].touched = world[w].touched
  BY RunnerFrame
<1>o. "phase" \in Occupying /\ "enter" \in Occupying
  BY DEF Occupying
<1>2. n \in Names /\ world[w].env \in EnvRec
  BY <1>0, <1>1, <1>o DEF HoldInv, WorldRec
<1>3. \A q \in Runs : run[q].w = w => run[q].pc # "phase"
  BY <1>0, <1>o, OneOccupant
<1> SUFFICES ASSUME NEW x \in Worlds, NEW p \in Parts, p \notin world'[x].touched
             PROVE  /\ (\A q \in Runs : run'[q].w = x => run'[q].pc # "phase")
                         => world'[x].env[p] = Base[p]
                    /\ \A q \in Runs : run'[q].w = x /\ run'[q].pc = "phase" =>
                          Exit(run'[q].name, world'[x].env)[p] = Base[p]
  BY DEF EnvInv
<1>4. /\ (\A q \in Runs : run[q].w = x => run[q].pc # "phase") => world[x].env[p] = Base[p]
      /\ \A q \in Runs : run[q].w = x /\ run[q].pc = "phase" =>
            Exit(run[q].name, world[x].env)[p] = Base[p]
  <2>1. p \notin world[x].touched
    BY <1>1
  <2> QED  BY <1>0, <2>1 DEF EnvInv
<1>5. CASE x # w
  <2>1. \A q \in Runs : run'[q].w = x \/ run[q].w = x => run'[q] = run[q]
    BY <1>1, <1>5
  <2>2. world'[x] = world[x]
    BY <1>1, <1>5
  <2> QED  BY <1>4, <2>1, <2>2
<1>6. CASE x = w
  <2>1. world[w].env[p] = Base[p]
    BY <1>3, <1>4, <1>6
  <2>2. Exit(n, world'[w].env)[p] = Base[p]
    <3>1. Exit(n, world[w].env)[p] = Base[p]
      BY <1>2, <2>1, ExitKeepsBase
    <3>2. 1 \in 1..3
      OBVIOUS
    <3>3. Exit(n, Enter(n, 1, world[w].env))[p] = Exit(n, world[w].env)[p]
      BY <1>2, <3>2, ExitUndoes
    <3> QED  BY <3>1, <3>3
  <2>3. \A q \in Runs : run'[q].w = w /\ run'[q].pc = "phase" => q = r
    BY <1>1, <1>3
  <2> QED  BY <1>6, <2>2, <2>3
<1> QED  BY <1>5, <1>6

LEMMA RunnerSlot ==
    ASSUME WorldInv, NEW r \in Runs, RunnerStep(r)
    PROVE  SlotInv' /\ EnvInv'
<1>0. TypeOK /\ HoldInv /\ SlotInv /\ EnvInv /\ TypeOK'
  BY RunnerStepTypes DEF WorldInv
<1> DEFINE w == run[r].w
           n == run[r].name
<1>1. /\ w \in Worlds /\ world[w] \in WorldRec
      /\ \A q \in Runs \ {r} : run'[q] = run[q]
      /\ \A x \in Worlds \ {w} : world'[x] = world[x]
      /\ world'[w].touched = world[w].touched
  BY RunnerFrame
<1>r. run[r] \in RunRec
  BY <1>0 DEF TypeOK
<1>o. Occupying = {"enter", "phase", "tail", "waiting", "free"}
  BY DEF Occupying
<1>u. ASSUME NEW to, NEW wr, Runner(r, to, wr)
      PROVE  run'[r].pc = to /\ run'[r].w = w /\ run'[r].name = n /\ world'[w] = wr
  BY <1>0, <1>1, <1>r, <1>u DEF Runner, TypeOK, RunRec
<1>4. \A q \in Runs : run[q].pc \in Occupying => run[q].w \in Worlds
  BY <1>0 DEF HoldInv, Occupying, TypeOK, RunRec
<1>5. \A x \in Worlds : world[x].cur # None => world[x].cur \in Runs
  BY <1>0 DEF TypeOK, WorldRec
\* The environment in the steps that are not about a phase.
<1>e. ASSUME world'[w].env = world[w].env, run[r].pc # "phase", run'[r].pc # "phase"
      PROVE  EnvInv'
  <2>1. \A x \in Worlds : world'[x].env = world[x].env /\ world'[x].touched = world[x].touched
    BY <1>1, <1>e
  <2>2. /\ \A q \in Runs : run'[q].pc = "phase" <=> run[q].pc = "phase"
        /\ \A q \in Runs : run[q].pc = "phase" => run'[q].w = run[q].w /\ run'[q].name = run[q].name
    BY <1>1, <1>e
  <2> QED  BY <1>0, <2>1, <2>2, EnvStable
<1>f. CASE FirstPhase(r)
  <2>1. /\ run[r].pc = "enter" /\ run' = [run EXCEPT ![r].pc = "phase"]
        /\ world' = [world EXCEPT ![w] = SetScenario([world[w] EXCEPT !.env = Enter(n, 1, @)], n)]
    BY <1>f DEF FirstPhase, At
  <2>2. run'[r].pc = "phase" /\ run'[r].w = w /\ run'[r].name = n
    BY <1>0, <1>r, <2>1 DEF TypeOK, RunRec
  <2>3. world'[w].cur = world[w].cur /\ world'[w].env = Enter(n, 1, world[w].env)
    BY <1>0, <1>1, <2>1 DEF TypeOK, SetScenario, WorldRec
  <2>4. SlotInv'
    BY <1>o, <2>1, <2>2, <2>3, OccupantSlot
  <2>5. EnvInv'
    BY <2>1, <2>2, <2>3, FirstEnv
  <2> QED  BY <2>4, <2>5
<1>6. CASE NextPhase(r)
  <2> DEFINE i == run[r].i + 1
  <2>1. /\ run[r].pc = "phase" /\ i <= PhaseCount(n)
        /\ run' = [run EXCEPT ![r].i = i]
        /\ world' = [world EXCEPT ![w] = SetScenario([world[w] EXCEPT !.env = Enter(n, i, @)], n)]
    BY <1>6 DEF NextPhase, PhaseOver, At
  <2>2. i \in 1..3
    BY <1>0, <1>o, <2>1 DEF HoldInv, PhaseCount
  <2> HIDE DEF i
  <2>3. run'[r].pc = "phase" /\ run'[r].w = w /\ run'[r].name = n
    BY <1>0, <1>r, <2>1 DEF TypeOK, RunRec
  <2>4. world'[w].cur = world[w].cur /\ world'[w].env = Enter(n, i, world[w].env)
    BY <1>0, <1>1, <2>1 DEF TypeOK, SetScenario, WorldRec
  <2>5. SlotInv'
    BY <1>o, <2>1, <2>3, <2>4, OccupantSlot
  <2>6. EnvInv'
    BY <2>1, <2>2, <2>3, <2>4, PhaseEnv
  <2> QED  BY <2>5, <2>6
<1>7. CASE LastPhase(r) \/ PhaseCancelled(r)
  <2>1. /\ run[r].pc = "phase"
        /\ \/ Runner(r, "tail", SetScenario([world[w] EXCEPT !.env = Exit(n, @)], n))
           \/ Runner(r, "free", [world[w] EXCEPT !.env = Exit(n, @)])
    BY <1>7 DEF LastPhase, PhaseCancelled, PhaseOver, At
  <2>2. run'[r].pc \in {"tail", "free"} /\ run'[r].w = w /\ run'[r].name = n
    BY <1>u, <2>1
  <2>3. world'[w].cur = world[w].cur /\ world'[w].env = Exit(n, world[w].env)
    <3> DEFINE x == [world[w] EXCEPT !.env = Exit(n, @)]
    <3>1. world'[w] \in {x, SetScenario(x, n)}
      BY <1>u, <2>1
    <3>2. x.cur = world[w].cur /\ x.env = Exit(n, world[w].env)
      BY <1>1 DEF WorldRec
    <3>3. SetScenario(x, n).cur = world[w].cur /\ SetScenario(x, n).env = Exit(n, world[w].env)
      BY <1>1 DEF WorldRec, SetScenario
    <3> QED  BY <3>1, <3>2, <3>3
  <2>4. SlotInv'
    BY <1>o, <2>1, <2>2, <2>3, OccupantSlot
  <2>5. EnvInv'
    BY <2>1, <2>2, <2>3, PhaseEnv
  <2> QED  BY <2>4, <2>5
<1>8. CASE TailOpens(r) \/ TailEnds(r)
  <2>1. /\ run[r].pc \in {"tail", "waiting"}
        /\ \/ Runner(r, "waiting", SetScenario(world[w], n))
           \/ Runner(r, "free", world[w])
    BY <1>8 DEF TailOpens, TailEnds, At
  <2>2. run'[r].pc \in {"waiting", "free"} /\ run'[r].w = w
    BY <1>u, <2>1
  <2>3. world'[w].cur = world[w].cur /\ world'[w].env = world[w].env
    BY <1>1, <1>u, <2>1 DEF SetScenario, WorldRec
  <2>4. SlotInv'
    BY <1>o, <2>1, <2>2, <2>3, OccupantSlot
  <2> QED  BY <1>e, <2>1, <2>2, <2>3, <2>4
<1>9. CASE FreeSlot(r)
  <2>1. /\ run[r].pc = "free"
        /\ run' = [run EXCEPT ![r] = [NoRun EXCEPT !.pc = "targets", !.w = w]]
        /\ world' = [world EXCEPT ![w].cur = None]
    BY <1>9 DEF FreeSlot, At
  <2>2. NoRun \in RunRec
    BY DEF NoRun, RunRec
  <2>3. run'[r].pc = "targets" /\ run'[r].w = w
    BY <1>0, <2>1, <2>2 DEF TypeOK, RunRec
  <2>4. /\ world'[w].cur = None /\ world'[w].env = world[w].env
    BY <1>0, <1>1, <2>1 DEF TypeOK, WorldRec
  <2>5. \A q \in Runs \ {r} : run[q].pc \in Occupying => run[q].w # w
    BY <1>0, <1>o, <2>1, OneOccupant
  <2>6. \A q \in Runs : run'[q].pc \in Occupying => world'[run'[q].w].cur = q
    BY <1>0, <1>1, <1>4, <1>o, <2>3, <2>5 DEF SlotInv
  <2>7. \A x \in Worlds : world'[x].cur # None =>
           run'[world'[x].cur].w = x /\ run'[world'[x].cur].pc \in Occupying
    <3> SUFFICES ASSUME NEW x \in Worlds, world'[x].cur # None
                 PROVE  run'[world'[x].cur].w = x /\ run'[world'[x].cur].pc \in Occupying
      OBVIOUS
    <3>1. x # w /\ world'[x] = world[x]
      BY <1>1, <2>4
    <3>2. world[x].cur \in Runs \ {r} /\ run[world[x].cur].w = x /\ run[world[x].cur].pc \in Occupying
      BY <1>0, <1>5, <3>1 DEF SlotInv
    <3> QED  BY <1>1, <3>1, <3>2
  <2>8. \A x \in Worlds : world'[x].targets # None =>
           \E q \in Runs : run'[q].w = x /\ run'[q].pc \in Occupying \cup {"targets"}
    <3> TAKE x \in Worlds
    <3>1. CASE x = w
      BY <2>3, <3>1
    <3>2. CASE x # w
      BY <1>0, <1>1, <3>2 DEF SlotInv
    <3> QED  BY <3>1, <3>2
  <2>9. \A x \in Worlds : world'[x].card # None => \E q \in Runs : run'[q].w = x
    <3> TAKE x \in Worlds
    <3>1. CASE x = w
      BY <2>3, <3>1
    <3>2. CASE x # w
      BY <1>0, <1>1, <3>2 DEF SlotInv
    <3> QED  BY <3>1, <3>2
  <2> QED  BY <1>e, <2>1, <2>3, <2>4, <2>6, <2>7, <2>8, <2>9 DEF SlotInv
<1>10. CASE ClearTargets(r)
  <2>1. run[r].pc = "targets" /\ Runner(r, "card", SetTargets(world[w], None))
    BY <1>10 DEF ClearTargets, At
  <2>2. run'[r].pc = "card" /\ run'[r].w = w
    BY <1>u, <2>1
  <2>3. /\ world'[w].cur = world[w].cur /\ world'[w].env = world[w].env
        /\ world'[w].targets = None /\ world'[w].card = world[w].card
    BY <1>1, <1>u, <2>1 DEF SetTargets, WorldRec
  <2>4. \A x \in Worlds : world'[x].cur = world[x].cur /\ world'[x].card = world[x].card
    BY <1>1, <2>3
  <2>5. \A q \in Runs : run'[q].w = run[q].w /\ (run'[q].pc \in Occupying <=> run[q].pc \in Occupying)
    BY <1>1, <1>o, <2>1, <2>2
  <2>6. \A x \in Worlds : world'[x].targets # None =>
           \E q \in Runs : run'[q].w = x /\ run'[q].pc \in Occupying \cup {"targets"}
    <3> SUFFICES ASSUME NEW x \in Worlds, world'[x].targets # None
                 PROVE  \E q \in Runs : run'[q].w = x /\ run'[q].pc \in Occupying \cup {"targets"}
      OBVIOUS
    <3>1. x # w /\ world'[x] = world[x]
      BY <1>1, <2>3
    <3> QED  BY <1>0, <1>1, <3>1 DEF SlotInv
  <2>7. SlotInv'
    BY <1>0, <1>4, <1>5, <2>4, <2>5, <2>6 DEF SlotInv
  <2> QED  BY <1>e, <2>1, <2>2, <2>3, <2>7
<1>11. CASE ClearCard(r)
  <2>1. /\ run[r].pc = "card" /\ run' = [run EXCEPT ![r] = NoRun]
        /\ world' = [world EXCEPT ![w] = SetScenario(@, None)]
    BY <1>11 DEF ClearCard, At
  <2>2. run'[r].pc = "none" /\ run'[r].w = None
    BY <1>0, <2>1 DEF TypeOK, NoRun
  <2>3. /\ world'[w].cur = world[w].cur /\ world'[w].env = world[w].env
        /\ world'[w].targets = world[w].targets /\ world'[w].card = None
    BY <1>0, <1>1, <2>1 DEF TypeOK, SetScenario, WorldRec
  <2>4. \A x \in Worlds : world'[x].cur = world[x].cur /\ world'[x].targets = world[x].targets
    BY <1>1, <2>3
  <2>5. \A q \in Runs : run[q].pc \in Occupying \cup {"targets"} => run'[q] = run[q]
    BY <1>1, <1>o, <2>1
  <2>6. \A q \in Runs : run'[q].pc \in Occupying => run'[q] = run[q]
    BY <1>1, <1>o, <2>2
  <2>7. \A x \in Worlds : world'[x].card # None => \E q \in Runs : run'[q].w = x
    <3> SUFFICES ASSUME NEW x \in Worlds, world'[x].card # None
                 PROVE  \E q \in Runs : run'[q].w = x
      OBVIOUS
    <3>1. x # w /\ world'[x] = world[x]
      BY <1>1, <2>3
    <3> QED  BY <1>0, <1>1, <3>1 DEF SlotInv
  <2>8. \A q \in Runs : run'[q].pc \in Occupying => world'[run'[q].w].cur = q
    BY <1>0, <1>4, <2>4, <2>6 DEF SlotInv
  <2>9. \A x \in Worlds : world'[x].cur # None =>
           run'[world'[x].cur].w = x /\ run'[world'[x].cur].pc \in Occupying
    BY <1>0, <1>5, <2>4, <2>5 DEF SlotInv
  <2>10. \A x \in Worlds : world'[x].targets # None =>
           \E q \in Runs : run'[q].w = x /\ run'[q].pc \in Occupying \cup {"targets"}
    BY <1>0, <2>4, <2>5 DEF SlotInv
  <2> QED  BY <1>e, <2>1, <2>2, <2>3, <2>7, <2>8, <2>9, <2>10 DEF SlotInv
<1> QED  BY <1>f, <1>6, <1>7, <1>8, <1>9, <1>10, <1>11 DEF RunnerStep

-----------------------------------------------------------------------------
\* The inductive invariant of a World's life: one holder of the lock, a stop
\* whose waits are not undone, a hub whose watcher is told in order, a slot
\* with one occupant, and an environment that exit puts back.
THEOREM WorldInvariant == Spec => []WorldInv
<1>1. WorldInv /\ [Next]_vars => WorldInv'
  <2> SUFFICES ASSUME WorldInv, [Next]_vars PROVE WorldInv'
    OBVIOUS
  <2>1. CASE Next
    <3>1. TypeOK' /\ HoldInv' /\ LockInv' /\ StopInv' /\ HubInv'
      BY <2>1, NextLock, NextHub
    <3>2. SlotInv' /\ EnvInv'
      BY <2>1, LockSlot, StopSlot, BodySlot, WorldSlot, RunnerSlot DEF Next
    <3> QED  BY <3>1, <3>2 DEF WorldInv
  <2>2. CASE UNCHANGED vars
    BY <2>2 DEF vars, WorldInv, TypeOK, HoldInv, LockInv, OneWorld, StopInv, Running, Holders,
                HubInv, SlotInv, EnvInv
  <2> QED  BY <2>1, <2>2
<1> QED  BY <1>1, InitWorld, PTL DEF Spec

\* The types, for every number of clients, Worlds and runners (TypeOK).
THEOREM WorldTypesHold == Spec => []TypeOK
<1>1. WorldInv => TypeOK
  BY DEF WorldInv
<1> QED  BY <1>1, WorldInvariant, PTL

\* Two reconnects, a reset and a control never leave two open Worlds, and no
\* open World is forgotten (Holder.Ensure, Acquire, Reset; holder.go:49-103).
THEOREM OneWorldAtATime == Spec => []OneWorld
<1>1. WorldInv => OneWorld
  BY DEF WorldInv, LockInv
<1> QED  BY <1>1, WorldInvariant, PTL

\* Stop closes the database only behind the last handler, runner and goroutine
\* of its World, unless it gave up waiting (World.Stop; world.go:235-252).
THEOREM StopWaitsForAll == Spec => []StopWaits
<1>1. WorldInv => StopWaits
  BY DEF WorldInv, StopInv, StopWaits
<1> QED  BY <1>1, WorldInvariant, PTL

\* The generator runs exactly while the hub has a viewer (hub.go:28-30,
\* watcher.Viewers; world.go:278-289).
THEOREM TrafficFollows == Spec => []TrafficFollowsViewers
<1>1. WorldInv => TrafficFollowsViewers
  BY DEF WorldInv, HubInv, HubOK, TrafficFollowsViewers
<1> QED  BY <1>1, WorldInvariant, PTL

\* However a run ends, what its scenario changed is back at its base value
\* (the exit functions and scenarios.run; scenarios.go:26-27).
THEOREM ScenariosRestore == Spec => []ExitRestores
<1>1. WorldInv => ExitRestores
  BY DEF WorldInv, EnvInv, ExitRestores, Running, At
<1> QED  BY <1>1, WorldInvariant, PTL

\* A World without runners has a free slot, no affected tenants and an empty
\* card (the last steps of scenarios.run; scenarios.go:320-322).
THEOREM QuietWorldIsIdle == Spec => []QuietIsIdle
<1>1. ASSUME WorldInv PROVE QuietIsIdle
  <2>0. TypeOK /\ SlotInv
    BY <1>1 DEF WorldInv
  <2>1. \A w \in Worlds : world[w].cur # None => world[w].cur \in Runs
    BY <2>0 DEF TypeOK, WorldRec
  <2> QED  BY <2>0, <2>1 DEF SlotInv, QuietIsIdle, Running
<1> QED  BY <1>1, WorldInvariant, PTL

=============================================================================
