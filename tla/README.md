# A TLA+ verification of the key kill switch

The repository is a multi-tenant message service in which every tenant's
messages are encrypted under a key (KEK) that the tenant keeps in its own KMS.
Disabling that key must stop the service from reading the tenant's messages
within one lease, a KMS outage must not lose messages, and one tenant's trouble
must not become another's. This directory models the parts of the Go program on
which those promises rest, checks them with TLC on small instances and proves
the safety properties with TLAPS for every value of the constants.

## Inventory

| Component | State | Operations | Talks to | Hard part | Correct when |
|---|---|---|---|---|---|
| Lease (`cmek/lease.go`) | SentAt | Renew, Usable, SoftDue, Backoff | key manager | the zero time; margins | a lease is usable for TTL - Early from the *send* instant |
| Key manager (`cmek/manager.go`, `fetcher.go`) | per tenant: state, lease, DEKs, active, pending, attempt, nextProbeAt, deniedAt, probing, waiters, inflight, mode | EncryptKey, DecryptKey, Hot, Warm, Tick, SetFetch; goroutines probe, warm, renew, generate, apply | KMS, DEK store, workers, ingest, sweep | calls run with the lock released; answers arrive late and out of order; singleflight | revocation is bounded, a deny sticks, no orphaned message, no stuck probe, counters exact |
| Fake KMS (`kms/`) | enabled flag, faults, ground truth | Revoke, Restore, SetFault, one call | key manager, checker | latency between send and the enabled check | ground truth is stamped in the flip's critical section |
| Store (`queue/store.go`) | messages and deks tables, ledger, gauges | Insert, Claim, Ack, Release, Dead, Reclaim, Expire, PutDEK | workers, ingest, sweep, checker | ledger beside the table; claims that time out under a worker; failing statements | ledger = table; nothing lost; nothing resurrected |
| Workers (`queue/workers.go`) | the batch in hand | loop | store, scheduler, key manager, sink | two workers with the same row | at-least-once delivery of everything deliverable |
| Scheduler (`queue/scheduler.go`) | two cursors, a turn | Next | store, gate, key manager | starvation | every ready, hot tenant gets a turn |
| Admission (`admit/gate.go`, `world/ingest.go`) | token buckets | Admit, FairShare, IngestID | ledger, key manager | unlocked reads before the insert, of counters that move one after the other | bounded overshoot of the caps |
| Sink (`traffic/sink.go`) | counts and a ring of instants | Deliver, DeliveredBetween | workers, checker | cancelled waits | independent evidence |
| Checker (`check/checker.go`) | resume points, red counters | s1 .. s4, l1, l4 | ledger, sink, truth | sampling between changes | no false red, no missed red |
| Scenarios (`world/scenarios.go`) | the running scenario | start, stop, restore, run | manager, KMS, metrics | exit path against the next start | one run at a time, everything restored |
| Holder, World (`world/`) | the current World, handler counts | Acquire, Ensure, Current, Reset, Stop, sweep | everything | stop against handlers and viewers | no store closed under a handler |
| Hub, metrics (`metrics/`) | subscribers | subscribe, cancel, broadcast, closeAll | holder, generator | order of viewer counts | no 0 after 1 |
| Generator, HTTP, page | - | - | ingest | - | - |

`PROJECT.json` lists the components with their status and, under `hazards`, what
in this code is hard to reach with a test, each at its line.

## Modules

| Module | Models |
|---|---|
| `Lease` | `cmek/lease.go`: the arithmetic, on discrete instants. Instant 0 is Go's zero time. |
| `KeyManager` | `cmek/manager.go`, `fetcher.go`, `envelope.go`, with the KMS flag of `kms/fake.go`, for one tenant |
| `RevocationContract` | nothing of the code: what the service promises the owner of one key |
| `KeyManagerRefinement` | the mapping under which `KeyManager` implements that contract |
| `Queue` | `queue/store.go`, `queue/workers.go` and the sink, for several tenants |
| `Scheduler` | `queue/scheduler.go`: the two-class ring, index by index |
| `Admission` | `admit/gate.go` and `world/ingest.go` against the ledger of `queue/store.go` |
| `Scenarios` | the table of `world/scenarios.go`: what each phase and each exit change (constant level) |
| `World` | `world/holder.go`, World.Stop, the hub of `metrics/hub.go`, the runner of `world/scenarios.go` and the handlers of `cmd/killswitch`; extends `Scenarios` |
| `Checker` | S3 of `check/checker.go` over the truth of `kms/` and the ring of `traffic/sink.go`, for one tenant |
| `MCKeyManager`, `MCFetchers`, `MCQueue`, `MCAdmission`, `MCWorld`, `MCChecker` | instances for TLC |
| `KeyManagerProofs` | proofs: the types of `KeyManager`, and which DEK a goroutine may carry |
| `RevocationProofs` | proofs: bounded revocation, the sticky deny, the refinement of the contract (extends `KeyManagerProofs`) |
| `FetcherProofs` | proofs: one probe, exact counters, the cold cache, no orphans (extends `KeyManagerProofs`) |
| `QueueProofs`, `SchedulerProofs`, `AdmissionProofs`, `WorldProofs`, `CheckerProofs` | proofs about the module in the name |

### KeyManager

A method of the Manager locks one tenant at a time and never holds the lock
across a KMS call, `sf.Do`, `PutDEK` or `Spawn`; tenants share only the
provider's semaphore. So one tenant is modelled, and the semaphore is a wait of
any length (`Acquire`, `BulkheadTimeout`). Each critical section is one action:

* `EncryptKey` is `EncryptProbe` (the inline probe of sync fetch),
  `EncryptRefused`, `EncryptHot`, `EncryptCold` with `BackCold` after the fetch,
  and `EncryptDirect` with `BackDirect`; `DecryptKey` likewise.
* A fetch is a goroutine (`proc[p]`): `Renew` decides between generate and
  unwrap, `Do` leads or joins the singleflight key, `Recheck*` asks again whether
  the call is needed, `Call` / `Acquire` / `Reply` are the KMS call, `PutDEK`
  persists a new DEK, `Apply*` are the rows of apply, `Land` ends the flight for
  its joiners, `BackProbe` clears `probing`.
* `Tick`, `HotKick`, `Warm` and `SetFetch` are the sweep, the scheduler's visit,
  the worker's request and the demo switch.
* A handle that was given out is a member of `handles` until it is used:
  `Seal`, `Open`, then `Deliver`, or `Refuse` once it is past its ValidUntil.
* Operations that only answer an error are stutters.

`revokedAt` and `lastUse` are ground truth: when the key was disabled, and when
a handle last sealed or delivered since. `Reading` is the set of clock values a
critical section may act on: most methods read the clock before they take the
lock, so a value may be `ClockLag` old. `OpenSlack` is the time from Open's check
to the instant the sink stamps the delivery; bounded revocation needs it to be at
most EarlyExpiry (1 s in the shipped parameters; the sink stamps before it
sleeps), which `ManagerAssumption` states.

External, and modelled from their use: singleflight (`Do`, `Land`) and the clock
(`Advance`). AEAD arithmetic is reduced to the id of the DEK. Two pairs of steps are
one action because nobody can tell them apart: the KMS's read of its flag and the
return of the in-flight unit by call's deferred function (`Reply`; a unit held
a little longer only refuses more), and the number of a new DEK and its write
(`PutDEK`; calls of one tenant that generate share a flight).

`RevocationContract` is the same service without leases, cache or calls: a key
that its owner disables and enables, uses of plaintext, a tenant that is parked
and taken back. Its guards are the promise: plaintext of a disabled key is used
for at most TTL, a tenant is parked only on a denial that the KMS gave while the
key was disabled, and taken back only if the key was enabled since. Under
`KeyManagerRefinement` (a denial is pending while a goroutine stands before
apply with it, parked is REVOKED, parkedAt is deniedAt) every step of every
goroutine is a step of the contract or a stutter: `ImplementsContract`.

### Queue

`row` is the messages table together with what became of deleted rows, the
ledger's counters are variables of their own, moved exactly where the code moves
them. Every Store method is one action (it holds `store.mu` throughout); a worker
is a process with a program counter, so claims time out (`Reclaim`), rows
expire, keys come and go (`KeyLost`, `KeyBack` stand for the whole key manager)
and other workers run between any two of its steps. Failing statements are
actions (`ClaimFails`, `AckFails`, the second disjuncts of `DeadLetter` and
`ReleaseRest`). Times are ages that saturate where Reclaim's and Expire's
comparisons stop changing, so the clock needs no bound.

### Scheduler

`Next` starts a call (one at a time, `s.mu`), `Hit`, `Step`, `FallThrough` and
`Miss` are scan's loop and the second pass. The ledger and the keys are not locked
meanwhile, so `Change` moves any tenant between not dispatchable, light and heavy at
any index; the three reads of one index (Ready, Backlog, Hot) are one step. `waited`
counts the turns given to others since a tenant entered its class; `steady` holds the tenants that stayed dispatchable in one class during the
call. The bounds of `Bound` are exact: N + ceil(N / LightTurns) turns for a light
tenant and N (LightTurns + 1) for a heavy one; one less fails in TLC for each
of N, LightTurns = (3, 2), (4, 2), (3, 1), (4, 3) and (2, 1). A tenant that changes class between the two
passes can be missed by both, so conservation is claimed of steady tenants only;
the worker then waits for Wake or IdlePoll.

### Admission

Admit takes no lock. A request (`req[r]`) reads ready, claimed, backlogged and
total in four steps, the last together with its three tests (`Shed`, `RateLimited`
for an empty bucket, `BacklogFull`, `Admitted`), fetches a key, and only then
inserts. Whoever has store.mu moves the counters one after the other in full view
of those readers: `Insert`, `InsertRow`, `InsertTotal` for an insert; for the workers
and the sweep `Claim` .. `ClaimMoved`, `Release` .. `ReleaseMoved` (also Reclaim),
`Settle` (Ack, Dead) or `Expire` and then `LeaveTotal` and `LeaveBacklogged`. `Queue` has
the same operations with their rows. `move` is what the holder of the lock has still
to do. A sweep over several tenants is one such sequence per tenant; the code keeps
store.mu over all of them, the model frees it in between, which only adds interleavings.

`Rows` is what the table holds, the rows that stand between two counters included.
A tenant's rows pass its cap by at most one per concurrent request plus the rows
that are claimed or released meanwhile, because backlogOf adds two loads and rows
on the move are seen by neither (`TenantBounded`). No j tenants are ever all above
the share of j by more than that (`ShareBounded`). What the design claims of the
sum, twice the global cap (`TotalWithinTwiceCap`), is false: finding 5.

### World and Scenarios

A handler is a client with a program counter: it waits for the holder's lock,
gets a World through the door its route uses (Acquire for a stream, Ensure for a
control or an event, Current for a read, Reset), holds it, does its work and
releases it. Reset and the idle rule run World.Stop step by step with the
holder's lock held (`MarkStopping` .. `CloseStore`), so every other handler,
runner and goroutine moves between those steps. `StopTimeout` may pass whenever a
handler, a runner or a goroutine of Start is left; a World closed under one of them
is remembered as `timedOut`. StartScenario holds the scenarios' lock over two steps:
`StartScenario` takes the slot and marks the targets, `FirstPhase` enters the first
phase, shows it and lets the runner go; what needs the same lock waits
(`Starting`), while an ending run clears targets and card before, between or after
them. A scenario runner is a process of its own: phases,
exit, tail, and the exit path in the three steps the code has (`FreeSlot` under
the lock, `ClearTargets`, `ClearCard`). `Scenarios` gives, for each of the eight
scenarios, what enter and exit change in the environment: faults and fetch
design per provider, multipliers, the revoked key.

Abstractions: which control a client sends is chosen when it gets its World; the
end of a phase and the exit after it are one step, since nobody else can tell
them apart; enter and the card of a phase are one step too, as whatever may come
between them (another run's cleanup, a request) commutes with one of the two; the
card is the name it shows; a closed World that nothing refers to
becomes a free slot, so builds are not bounded.

### Checker

Deliver stamps first and records after its latency (`Stamp`, `Record`); a pass
reads the truth, samples the sink's total when it sees a new revoke, and then
reads the sink once per window (`Scan`), with deliveries, flips and time between
any two of these reads. `log` and `caught` are ghosts: the stamp of every
delivery, and the numbers of those that S3 has counted.
`MaxGap` is the longest time from one pass's read of the truth to the next
one's sample; the code's comment on the resume point (checker.go:184-187) needs
it to be at most Lease (Interval is 1 s, Lease 30 s), which `CheckerAssumption` states.

## Runs

| Run | Instance | Checks | Result |
|---|---|---|---|
| `fetchers` | async fetch with 2 goroutines, or with 1 and 2 DEKs; 1 goroutine across all four designs | `TypeOK`, `BoundedRevocation`, `DenySticks`, `ParkedIsCold`, `OneProbe`, `CountersExact`, `NoOrphanMessage`, `ImplementsContract` | pass |
| `joiner` | 2 goroutines, async and pass-through | `JoinersShareTheCall` | violated: finding 1 |
| `orphan` | 2 goroutines, pass-through, 2 DEKs | `NoOrphanMessage` | violated: finding 2 |
| `race` | 2 tenants, 2 workers, 2 messages of every kind | `TypeOK`, `LedgerExact`, `NoLoss`, `SinkCovers`, `NoResurrection` | pass |
| `bound` | 1 tenant, 1 worker, 2 messages | `SinkBounded` | violated: finding 3 |
| `ring` | 3 tenants, LightTurns 2 | `TypeOK`, `NoStarvation`, `WorkConserving` | pass |
| `live` | 1 tenant, 2 workers, 2 messages | `EveryMessageArrives` | pass |
| `admission` | 3 tenants, 2 requests, caps of 3, 1 claimed row | `TypeOK`, `TenantBounded`, `ShareBounded` | pass |
| `overload` | 3 tenants, 1 request, global cap 4 | `TotalWithinTwiceCap` | violated: finding 5 |
| `world` | 2 clients, 2 Worlds, 2 runners, all scenarios | `TypeOK`, `OneWorld`, `StopWaits`, `TrafficFollowsViewers`, `ExitRestores`, `QuietIsIdle`, `RequestsFinish` | pass |
| `card` | 2 clients, 2 runners, one scenario | `CardIdleCanStart` | violated: finding 4 |
| `checker` | 2 workers, ring of 2, 3 deliveries, 3 key events, 5 instants | `TypeOK`, `NothingMissed`, `CountedOnce` | pass |

Every property of a passing run has a mutant in `PROJECT.json`: a plausible bug in
one definition under which TLC finds the property violated.

Two goroutines in sync fetch have no run: its inline probes are actions of the part
`modes`, and the invariants are proved for all designs (`NoOrphanMessage` for those with
a cache). The instance with
two goroutines and `Modes = {"async", "sync"}` (2.2 million states, four and a half
minutes) satisfies the same invariants.

### Bounds and why they are enough

* `Procs`: two goroutines inside the fetcher produce every pair of racing calls:
  a stale OK against a deny, a probe against a cold caller, a leader and a joiner.
  An operation that would start a third waits for one to finish.
* The three parts of `MCFetchers` (`race`, `modes`, `rotate`) split the state space as
  its header says. Each is explored completely; combinations of them (two goroutines
  across a switch or a rotation) are left to the proofs and to the runs `joiner` and
  `orphan`, where they lead to the findings.
* `MaxDEKs`: 2 allow one rotation, with old messages under the non-active DEK.
  `MaxHandles`: 1 outstanding handle, held for any time; handles do not interact.
* `TTL` 3, `SoftTTL` 1, `Early` 1 give an instant for each phase of a lease: fresh,
  soft-due, past Until. `joiner` and `orphan` take TTL 2, where soft-due and lapse coincide.
* `AttemptCap`: attempts are counted to here (delays are maximal from then on).
* The clock has no end. The VIEW `Relative` of `MCKeyManager` identifies states
  that differ only in instants further in the past than any guard or property
  can tell apart, and in the names of goroutines, so the state space is finite
  and no run stops at a horizon.
* `Ids`: two messages make a batch with a rest, a batch split between workers and
  an overtaken id. `SinkCap` saturates the sink's counter one above the number of
  messages: `SinkCovers` compares it with at most that many deliveries, and
  `SinkBounded` needs one excess delivery.
* `admission`: three tenants give three different shares (3, 1, 1 of a cap of 3),
  two requests the pair that passes a cap together, one claimed row the torn
  read of backlogOf. The backlog is bounded by the gate itself. `overload` needs no
  second request.
* `world`: two clients are a handler and the reset, viewer or start that races
  it; two Worlds are the current one and one that is closed but still held; two
  runners overlap only between `FreeSlot` and `ClearCard`. The five records of
  `MCBounds` split the state space by what a behaviour contains: a Stop that
  times out with one late handler, runner or goroutine, two overlapping runners, each of
  the eight scenarios, a key set by hand, a fetch design set by hand. Each is
  explored completely; combinations of them are not.
* `checker`: a lease of one instant lets two episodes and their windows fit in five
  instants; three deliveries overrun a ring of two; three key events are revoke,
  restore, revoke.
* Symmetry (tenants, workers, requests) is used in the safety runs only.

### Fairness

`EveryMessageArrives` is checked under `FairSpec`: a worker that can go on goes on
(a goroutine; its waits end by Wake, IdlePoll or the context), the sweep runs and
time passes (weak fairness), and the ring comes round to a tenant that keeps
having ready rows (strong fairness of `Pick`: the cursor moves past every tenant
it returns, and `NoStarvation` bounds the wait of a tenant that stays in its class). The property assumes what
the code cannot ensure: from some point on the tenant's key stays usable, the
World runs, store statements stop failing, and batches end within ClaimTimeout
(`Calm`). Without the last one a batch that always outlives its claim is
delivered but never acknowledged.

`RequestsFinish` of `World` is checked under its `FairSpec`: a handler that can
step again and again does step (strong fairness: it competes for the holder's
mutex, and Go's mutex hands itself to a waiter that has waited for a
millisecond), goroutines return when their context is done and a runner's timers
fire (weak fairness). Nothing is assumed of clients, who need not make requests
nor leave a stream, nor of StopTimeout, which need not pass: a request is
answered without it.

## Findings

1. **A joiner's type assertion** (`cmek/manager.go:158`). Flights led by `renew`
   and by `passThroughEncrypt` share the key `<tenant>/generate`, but renew's
   function returns nil. A pass-through caller that joins renew's flight, just
   after SetFetch switched the tenant, panics.
2. **A sealed message under a DEK that was never installed**
   (`cmek/manager.go:165`). apply ignores a stale OK of a generate;
   passThroughHandle hands its primitive out all the same if the tenant has
   meanwhile healed. The message is accepted and later dead-lettered as poison.
   In the cached designs the handle comes from `t.active`, and the property holds.
3. **S4's upper bound** (`check/checker.go:259`). `sink <= delivered + claimed` is
   false once a delivered row's claim is reclaimed, which at-least-once delivery
   allows; the light turns red although nothing is lost. The lower bound holds.
4. **The exit path of a scenario** (`world/scenarios.go:362`). The runner frees its
   slot and clears the targets and the card afterwards, outside the lock. A
   scenario started in between loses its affected set and its card: the card is
   idle, the scenario runs and the next Start is answered busy, which the comment
   at scenarios.go:320-322 excludes. `QuietIsIdle` shows what does hold: once the
   last runner is gone slot, targets and card are all clear.
5. **The total under fair share** (`admit/gate.go:62`). The design reference (item 7,
   `docs/plan/DESIGN-REFERENCE.md:1183`) says that fair share keeps the total within
   2 x GlobalCap, and L4 turns red above that (checker.go:364-374). It is false even
   without concurrency: whoever becomes the n-th backlogged tenant fills up to a share
   of GlobalCap / n while the earlier ones keep what their larger shares gave them.
   With a cap of 4 three tenants hold 5 + 3 + 2 = 10 rows; with the shipped 500 per
   tenant, 20,000 in all and 1,000 tenants the rule allows about 84,000. What does hold
   is the harmonic sum of the shares, theorem `AdmissionTotalBounded`.

Smaller observations, from reading and from TLC, that have no run:

* A scenario's exit sets base values, not those from before it, so a fault or a
  multiplier set by hand at the same place is gone afterwards; `ExitRestores`
  excepts the parts that were touched. SetCache(on) installs async whatever
  `/v1/keyfetch` had chosen (the snapshot keeps showing the chosen mode).
* A World that was never watched has no idleSince and is not rebuilt by the idle
  rule, whatever was done to it (holder.go:49-52 says when nobody has watched).
* S3 has blind spots that `hazards` lists at checker.go:197, 205 and 189: an earlier
  episode's deliveries when two flips fall between two passes, a delivery between
  two windows' reads, and a false red: a restore and a delivery after it that fall
  between the truth read and the sink read are counted, although checker.go:155-156
  and `docs/plan/DESIGN-REFERENCE.md:1258` ("deliveries after a restore are not
  counted") exclude it. In `Checker` TLC reaches such a count in ten states (revoke,
  read of the truth, restore, delivery, scan).
* A restore signals the running revocation after it has enabled the key; a
  revocation started between the two is ended by it (world.go:516-517).
* A metrics tick reads states before its lock and may stamp a recovery from before
  SetCleared (registry.go:750). At shutdown a World built after main's
  Current() is not stopped (main.go:69).

## Proofs

Every invariant and every action property of a passing run is also a theorem
for all values of the constants: any number of tenants, workers, goroutines,
requests, clients, Worlds and messages, any caps, leases and bounds. One is proved
with a restriction, `NoOrphanMessage` (see the fetcher below). The bounds
of a model (`MaxTime`, `MaxDEKs`, `SinkCap`, ...) are constants too, so the
theorems hold however large they are.

The assumptions are the named ones of the modules, which TLC evaluates in each run:

* `LeaseAssumption` (0 < Early < TTL), `BackoffAssumption`, `ManagerAssumption`
  (OpenSlack <= Early, at least one waiter; the rest are types);
* `QueueAssumption` (finitely many tenants and messages, batch size and limit at
  least 1, `SinkCap` at least the number of messages);
* `RingAssumption` (at least one tenant; LightTurns at least 1, otherwise
  NewScheduler takes the plain ring);
* `AdmissionAssumption` (finitely many tenants and requests, positive caps);
* `WorldAssumption` (finitely many clients and runs, `None` is none of them);
* `CheckerAssumption` (passes come within a lease).

Each proof has one inductive invariant. TLC checked it on the run's instance
before it was proved.

**Types of the key manager** (`TypeCorrect`). `TypeOK` includes
`hot, worn \subseteq deks` and `active \in deks \cup {0}`, which are not inductive
alone: apply caches the DEK of a goroutine's record, so `FetchInv` says which DEK
a goroutine may carry at each program counter (an unwrap carries a known DEK, a
numbered generate a DEK to be registered, a joiner one it may not touch).

**Revocation** (`RevocationBounded`, `DenyIsSticky`), from `RevocationInv`, the
conjunction of the two with

* `ClockOK`: no recorded instant lies in the future;
* `StampOK`: while the key is disabled the lease, and the send stamp of every OK
  on its way to apply, are not after the revoke;
* `HandleOK`: a handle's ValidUntil is at most revokedAt + TTL - Early while the
  key is disabled, and plaintext on its way to the sink was opened before that.

An OK is given only while the key is enabled, and the lease runs from its earlier
send instant, so every lease and every handle end by revokedAt + TTL - Early, and
delivery adds at most OpenSlack <= Early. A deny purges the lease at an instant
after the stamps of all answers given before the revoke, so each of those is stale
at apply. `StampIdle`, `StampFrame`, `StampMove` and `StampSpawn` carry the
goroutine part through each kind of step, and `RevocationInductive` has one case
per group of actions.

**Refinement** (`KeyManagerImplements`). With the same invariant, the initial
states of `KeyManager` map to those of `RevocationContract`, and every step is a
step of the contract or a stutter: flips and uses map to flips and uses, a deny at
apply to Park, an OK at apply that takes the tenant back to Unpark.

**The fetcher** (`OneProbeAtATime`, `CountersAreExact`, `ParkedHoldsNothing`), from
`FetcherInv`. The flag and the counters say nothing about where a goroutine is, so
`JobOK` fixes at which program counters a goroutine may hold the flag or a unit of
a cap; the lemmas `ManagerShape`, `FlightShape`, `KMSCallShape` and `ApplyShape`
reduce all actions to six shapes of change (a unit taken, given back, kept, ...),
and the counting is done once per shape. `CachedNeverOrphans` has the hypothesis
that the tenant stays in the designs with a cache: without it the property is
false, which is finding 2.

**The queue** (`QueueTypes`, `QueueLedgerExact`, `QueueNoLoss`, `QueueSinkCovers` and
the action property `QueueNoResurrection`), from `QueueInv`: `LedgerExact` and
`NoLoss` with `HoldsInv` (what a worker holds are inserted messages of its tenant,
whatever has become of their rows, and what it will acknowledge the sink has
seen), `SeenInv` and `SinkInv` (the sink counted at least the distinct messages it
has seen). Every statement of the store is a move of a set of rows from one state to
another; `MoveOne` and `MarkMoves` say what a move does to the counts, as
`changes()` reports it to the ledger.

**The ring** (`RingTypes`, `RingNeverStarves`, `RingConservesWork`), from `RingInv`.
`RankInv` is the ranking argument: the turns a tenant has waited plus the turns
that can still go to others before the cursor of its class reaches it stay within
`Bound`. A tenant that changes class behind the scan is `Missed`; `MissedInv` says
that such a tenant has not waited yet, which makes the rank survive class changes
in the middle of a call.

**Admission** (`AdmissionTypes`, `AdmissionTenantBounded`, `AdmissionShareBounded`,
`AdmissionTotalBounded`), from `AdmissionInv`. A bound on the rows is not
inductive, as requests past their test insert without looking again, so the
invariant weighs them: rows plus the requests that have passed, or may still
pass, the test. `ShareInv` does the same for each share: fewer than j tenants weigh
more than the share of j, because the rows of j tenants above it exceed the cap and
make `backlogged` at least j, so that a request which reads later is refused.
`GaugeInv` ties both gauges to the rows, up to the one move that whoever holds
store.mu is in the middle of. `AdmissionTotalBounded` is the bound on the whole backlog
that holds where the documented one fails: the rows fit under the staircase whose
column j is the share of j tenants high. It needs no induction: for each i there are at
most as many tenants with an i-th row as shares with an i-th cell
(`LevelUnderStair`), so that the rows map injectively into the staircase (`CellsFit`).

**The World** (`WorldTypesHold`, `OneWorldAtATime`, `StopWaitsForAll`,
`TrafficFollows`, `ScenariosRestore`, `QuietWorldIsIdle`), from `WorldInv`: `LockInv`
(only the handler that replaces the World is past Replace, and it holds the lock),
`StopInv` (what Stop has waited for does not come back, because stopping is set
before), `HubInv`, `SlotInv` (a run occupies its World's slot from before its first
phase until `FreeSlot`, and what is shown has a run that will clear it), `EnvInv` (every part nobody set by hand is at its
base value or will be once the running scenario exits).

**The checker** (`CheckerTypes`, `S3MissesNothing`, `S3CountsOnce`),
from `CheckerInv`. `ClockInv` and `PassInv` give the argument of the comment on the
resume point: a revoke that is new to a pass is not older than the last read of
the truth, so at the sample less than a lease has passed since it and nothing
recorded lies in its window. `RingInv` says that the ring holds the last `Ring`
stamps (two numbers less than `Ring` apart use two slots), `CaughtInv` that what was
counted lies behind the resume point or in an earlier window of this pass, so the
next read counts only new deliveries.

Only model-checked: the liveness properties `EveryMessageArrives` and
`RequestsFinish`, since the prover has neither fairness nor ENABLED;
`NoOrphanMessage` in the designs without a cache with a single goroutine (with two
it is false); and the five violations, which are counterexamples.

## Not modelled

Formatting, HTTP bodies and status codes, the snapshot, histograms, peaks, audit
text and logging; the L1 and L4 lights, which compare measured percentiles and
rates; S1 and S2, which forward one counter; the merging of fault scopes and the
text frame from which Classify reads a code back (a call's result is one of its
classes); the contents of a token bucket (a refusal may come at any time); the
generator's random source (events may arrive at any time); a claim cursor that
fails together with its `changes()` query, in which case the code says itself
that the ledger moves by the rows it drained; the number of attempts of a row (no
decision reads it); main's shutdown beside the holder; process crashes, since
the database is deleted at every start and nothing is recovered.

## Plan

1. Step properties on top of the inductive invariants: S3's counter and the gap
   light never go back, a closed World never opens again, a deny is left only
   through an OK sent after it.
2. The ledger that `Admission` moves and the one of `Queue` related by a refinement,
   so that the gate's bounds speak of the table's rows.
3. Healing of a parked tenant as liveness; the metrics tick against SetCleared.
