------------------------------- MODULE World -------------------------------
(***************************************************************************)
(* The life of a World: the holder that builds, shares and replaces it     *)
(* (internal/world/holder.go), Stop and its waits (world.go), the viewers' *)
(* hub (internal/metrics/hub.go), the scenario runner (scenarios.go) and   *)
(* the HTTP handlers that drive them (cmd/killswitch).  A handler is a     *)
(* client; each step is what the code does under one lock, or between two. *)
(***************************************************************************)
EXTENDS Naturals, FiniteSets, Scenarios

CONSTANTS
    Clients,    \* concurrent HTTP requests
    Worlds,     \* bound: Worlds not yet quiet at one time (a slot is reused)
    Runs,       \* bound: scenario runners alive at one time
    Bounds,     \* the further bounds a behaviour may have: records with
                \*   runs     the runners of Runs it uses
                \*   late     handlers, runners and goroutines a timed-out Stop leaves behind
                \*   started  the scenarios its clients start
                \*   touch    the parts of the environment its clients set by hand
    None

ASSUME WorldAssumption ==
    /\ Worlds # {} /\ IsFiniteSet(Clients) /\ IsFiniteSet(Runs)
    /\ None \notin Clients \cup Worlds \cup Runs
    /\ \A b \in Bounds : /\ b.runs \subseteq Runs /\ b.late \in Nat
                         /\ b.started \subseteq Names /\ b.touch \subseteq Parts

VARIABLES
    hmu,     \* the client that holds Holder.mu, or None
    cur,     \* Holder.cur: the current World, or None
    world,   \* the state of each World
    run,     \* the scenario runners
    client,  \* the handlers
    bound    \* the bounds of this behaviour, which never change

vars == <<hmu, cur, world, run, client, bound>>

-----------------------------------------------------------------------------
WorldRec ==
    [store : {"none", "open", "closed"},
     stopping : BOOLEAN,       \* scenarios.stopping
     cancelled : BOOLEAN,      \* the World's context is done
     closed : BOOLEAN,         \* hub.closed
     timedOut : BOOLEAN,       \* Stop gave up waiting
     busy : BOOLEAN,           \* a goroutine launched by Start still runs
     subs : SUBSET Clients,    \* hub.subs
     gen : BOOLEAN,            \* the generator is running
     idle : {"zero", "fresh", "long"}, \* idleSince: unset, set, past IdleRebuild
     cur : Runs \cup {None},           \* scenarios.cur
     targets : Names \cup {None},      \* whose affected set metrics holds
     card : Names \cup {None},         \* the scenario the snapshot shows
     env : EnvRec,
     touched : SUBSET Parts]   \* parts a request set by hand

Fresh ==
    [store |-> "open", stopping |-> FALSE, cancelled |-> FALSE, closed |-> FALSE,
     timedOut |-> FALSE, busy |-> TRUE, subs |-> {}, gen |-> FALSE, idle |-> "zero",
     cur |-> None, targets |-> None, card |-> None, env |-> Base, touched |-> {}]

Absent == [Fresh EXCEPT !.store = "none", !.busy = FALSE]

RunRec ==
    [pc : {"none", "enter", "phase", "tail", "waiting", "free", "targets", "card"},
     w : Worlds \cup {None}, name : Names \cup {None}, i : 0..3,
     cancel : BOOLEAN,      \* StopScenario called the run's cancel
     signal : BOOLEAN]      \* a token is in the run's signal channel

NoRun == [pc |-> "none", w |-> None, name |-> None, i |-> 0, cancel |-> FALSE,
          signal |-> FALSE]

ClientRec ==
    [pc : {"idle", "lock", "mark", "cancel", "closeAll", "goroutines", "handlers",
           "close", "build", "use", "signal", "await", "stream"},
     req : {"stream", "reset", "health", "control", None},
     w : Worlds \cup {None}, r : Runs \cup {None}]

Idle == [pc |-> "idle", req |-> None, w |-> None, r |-> None]

TypeOK ==
    /\ hmu \in Clients \cup {None}
    /\ cur \in Worlds \cup {None}
    /\ world \in [Worlds -> WorldRec]
    /\ run \in [Runs -> RunRec]
    /\ client \in [Clients -> ClientRec]
    /\ bound \in Bounds

\* main builds the first World before it serves.
Init ==
    /\ hmu = None
    /\ cur = CHOOSE w \in Worlds : TRUE
    /\ world = [w \in Worlds |-> IF w = cur THEN Fresh ELSE Absent]
    /\ run = [r \in Runs |-> NoRun]
    /\ client = [c \in Clients |-> Idle]
    /\ bound \in Bounds

\* The handlers counted on w: World.handlers.
Holders(w) == {c \in Clients : client[c].w = w}

Running(w) == {r \in Runs : run[r].w = w}

At(r, pc) == run[r].pc = pc

\* What Stop of w still waits for.
Left(w) == Cardinality(Holders(w)) + Cardinality(Running(w))
           + IF world[w].busy THEN 1 ELSE 0

Quiet(w) == Left(w) = 0

\* StartScenario holds w's scenarios.mu.
Starting(w) == world[w].cur # None /\ At(world[w].cur, "enter")

CtxDone(r) == world[run[r].w].cancelled \/ run[r].cancel

-----------------------------------------------------------------------------
\* The hub.  Viewers is the watcher it notifies, under hub.mu.
Viewers(wr, n) ==
    IF n = 0 THEN [wr EXCEPT !.idle = "fresh", !.gen = FALSE]
    ELSE [wr EXCEPT !.gen = TRUE, !.idle = "zero"]

subscribe(wr, c) ==
    IF wr.closed THEN wr
    ELSE LET s == wr.subs \cup {c} IN Viewers([wr EXCEPT !.subs = s], Cardinality(s))

\* Mutant of unsubscribe: every viewer that leaves pauses the traffic.
unsubscribeLast(wr, c) == Viewers([wr EXCEPT !.subs = @ \ {c}], 0)

unsubscribe(wr, c) ==
    LET s == wr.subs \ {c} IN
    IF wr.closed THEN [wr EXCEPT !.subs = s]
    ELSE Viewers([wr EXCEPT !.subs = s], Cardinality(s))

closeAll(wr) == Viewers([wr EXCEPT !.closed = TRUE, !.subs = {}], 0)

\* The registry: whose targets are marked affected, and whose card is shown
\* (None clears it).
SetTargets(wr, n) == [wr EXCEPT !.targets = n]

SetScenario(wr, n) == [wr EXCEPT !.card = n]

-----------------------------------------------------------------------------
\* The handlers.  A client goes to the holder's lock with a stream, a reset, a
\* read (health, tenant) or one of the requests that go through Ensure; which
\* of those it is shows only in its body.
Request(c) ==
    /\ client[c].pc = "idle"
    /\ \E q \in {"stream", "reset", "health", "control"} :
        client' = [client EXCEPT ![c].pc = "lock", ![c].req = q]
    /\ UNCHANGED <<hmu, cur, world, run, bound>>

\* The holder hands w to c: a stream subscribes and holds, the others hold.
Hand(c, w, wr) ==
    LET stream == client[c].req = "stream" IN
    /\ world' = [world EXCEPT ![w] = IF stream THEN subscribe(wr, c) ELSE wr]
    /\ client' = [client EXCEPT ![c].pc = IF stream THEN "stream" ELSE "use", ![c].w = w]

IdleTooLong(w) == world[w].subs = {} /\ world[w].idle = "long"

\* Acquire, Ensure and Current with a World to return.
HandCurrent(c) ==
    /\ client[c].pc = "lock" /\ hmu = None /\ cur # None
    /\ client[c].req # "reset"
    /\ client[c].req = "stream" => ~IdleTooLong(cur)
    /\ Hand(c, cur, world[cur])
    /\ UNCHANGED <<hmu, cur, run, bound>>

\* Current never builds: 503 no_world.
NoWorld(c) ==
    /\ client[c].pc = "lock" /\ hmu = None /\ cur = None
    /\ client[c].req = "health"
    /\ client' = [client EXCEPT ![c] = Idle]
    /\ UNCHANGED <<hmu, cur, world, run, bound>>

\* Reset, and Acquire of a World nobody has watched for too long: Stop it,
\* with the holder's lock held until the new World is there.
Replace(c) ==
    /\ client[c].pc = "lock" /\ hmu = None /\ cur # None
    /\ client[c].req = "reset" \/ (client[c].req = "stream" /\ IdleTooLong(cur))
    /\ hmu' = c
    /\ client' = [client EXCEPT ![c].pc = "mark"]
    /\ UNCHANGED <<cur, world, run, bound>>

\* Mutant of MayBuild: Ensure builds without looking for a current World.
MayBuildAlways(c) ==
    \/ client[c].pc = "lock" /\ hmu = None /\ client[c].req # "health"
    \/ client[c].pc = "build" /\ hmu = c

\* build is reached without a World, or after Stop of the old one.
MayBuild(c) ==
    \/ client[c].pc = "lock" /\ hmu = None /\ cur = None /\ client[c].req # "health"
    \/ client[c].pc = "build" /\ hmu = c

build(c) ==
    /\ MayBuild(c)
    /\ \E w \in Worlds : world[w].store # "open" /\ Quiet(w)
    /\ LET w == CHOOSE w \in Worlds : world[w].store # "open" /\ Quiet(w) IN
        /\ cur' = w
        /\ IF client[c].req = "reset"
           THEN /\ world' = [world EXCEPT ![w] = Fresh]
                /\ client' = [client EXCEPT ![c] = Idle]
           ELSE Hand(c, w, Fresh)
    /\ hmu' = None
    /\ UNCHANGED <<run, bound>>

buildFails(c) ==
    /\ MayBuild(c)
    /\ client' = [client EXCEPT ![c] = Idle]
    /\ hmu' = None /\ cur' = None
    /\ UNCHANGED <<world, run, bound>>

-----------------------------------------------------------------------------
\* World.Stop, by the client that holds the holder's lock.
StopStep(c, from, to) ==
    /\ client[c].pc = from
    /\ client' = [client EXCEPT ![c].pc = to]
    /\ UNCHANGED <<hmu, run, bound>>

MarkStopping(c) ==
    /\ StopStep(c, "mark", "cancel") /\ ~Starting(cur)
    /\ world' = [world EXCEPT ![cur].stopping = TRUE]
    /\ UNCHANGED cur

CancelContext(c) ==
    /\ StopStep(c, "cancel", "closeAll")
    /\ world' = [world EXCEPT ![cur].cancelled = TRUE]
    /\ UNCHANGED cur

CloseHub(c) ==
    /\ StopStep(c, "closeAll", "goroutines")
    /\ world' = [world EXCEPT ![cur] = closeAll(@)]
    /\ UNCHANGED cur

GoroutinesDone(c) ==
    /\ StopStep(c, "goroutines", "handlers")
    /\ Running(cur) = {} /\ ~world[cur].busy
    /\ UNCHANGED <<cur, world>>

HandlersDone(c) ==
    /\ StopStep(c, "handlers", "close")
    /\ Holders(cur) = {}
    /\ UNCHANGED <<cur, world>>

\* StopTimeout passes with a handler, a runner or a goroutine of Start left.
StopTimeout(c) ==
    /\ \/ StopStep(c, "goroutines", "close")
       \/ StopStep(c, "handlers", "close")
    /\ Left(cur) \in 1..bound.late
    /\ world' = [world EXCEPT ![cur].timedOut = TRUE]
    /\ UNCHANGED cur

\* A closed World that nothing refers to any more is garbage: what is left of
\* it is that it was closed.
CloseStore(c) ==
    /\ StopStep(c, "close", "build")
    /\ world' = [world EXCEPT ![cur] =
                    IF Quiet(cur) THEN Absent ELSE [@ EXCEPT !.store = "closed"]]
    /\ cur' = None

\* Workers, generator, metrics, sweep and checker return when the context is done.
GoroutinesReturn(w) ==
    /\ world[w].busy /\ world[w].cancelled
    /\ world' = [world EXCEPT ![w].busy = FALSE]
    /\ UNCHANGED <<hmu, cur, run, client, bound>>

-----------------------------------------------------------------------------
\* The handlers' bodies.  c holds its World; the last step releases it.
Control(c) == client[c].pc = "use" /\ client[c].req = "control"

Release(c) == client' = [client EXCEPT ![c] = Idle]

\* A read, an event, and a control that is refused (400, 404).
Served(c) ==
    /\ client[c].pc = "use"
    /\ Release(c)
    /\ UNCHANGED <<hmu, cur, world, run, bound>>

\* The stream ends when its client leaves or at StreamMaxAge, or when Stop has
\* closed its channel.
EndStream(c) ==
    /\ client[c].pc = "stream"
    /\ world' = [world EXCEPT ![client[c].w] = unsubscribe(@, c)]
    /\ Release(c)
    /\ UNCHANGED <<hmu, cur, run, bound>>

ChannelClosed(c) == client[c].pc = "stream" /\ c \notin world[client[c].w].subs

\* Nobody has watched w for longer than IdleRebuild.
GrowIdle(w) ==
    /\ ~world[w].closed /\ world[w].idle = "fresh"
    /\ world' = [world EXCEPT ![w].idle = "long"]
    /\ UNCHANGED <<hmu, cur, run, client, bound>>

\* A request sets a part of the environment by hand: a fault, a surge, the
\* fetch design, a revoke.
SetByHand(c) ==
    LET w == client[c].w IN
    /\ Control(c)
    /\ \E p \in bound.touch : \E v \in ByHand(p) :
        world' = [world EXCEPT ![w].env[p] = v, ![w].touched = @ \cup {p}]
    /\ Release(c)
    /\ UNCHANGED <<hmu, cur, run, bound>>

\* SetKey restore: the key first, the signal to a revocation run after it (a
\* token that comes after the phase is never read).
Restore(c) ==
    /\ Control(c)
    /\ world' = [world EXCEPT ![client[c].w].env.key = TRUE]
    /\ client' = [client EXCEPT ![c].pc = "signal"]
    /\ UNCHANGED <<hmu, cur, run, bound>>

SignalRun(c) ==
    LET w == client[c].w  r == world[w].cur IN
    /\ client[c].pc = "signal" /\ ~Starting(w)
    /\ run' = IF r # None /\ At(r, "phase") /\ run[r].name = "key_revocation"
              THEN [run EXCEPT ![r].signal = TRUE] ELSE run
    /\ Release(c)
    /\ UNCHANGED <<hmu, cur, world, bound>>

-----------------------------------------------------------------------------
\* Mutant of MayStart: a scenario may start in a World that is stopping.
MayStartAnytime(wr) == wr.cur = None

\* StartScenario and StopScenario.
MayStart(wr) == wr.cur = None /\ ~wr.stopping

\* The slot and the targets; the handler goes on with its run's first phase.
StartScenario(c) ==
    LET w == client[c].w
        r == CHOOSE r \in bound.runs : run[r].pc = "none" IN
    /\ Control(c) /\ MayStart(world[w])
    /\ \E q \in bound.runs : run[q].pc = "none"
    /\ \E n \in bound.started :
        /\ run' = [run EXCEPT ![r] = [NoRun EXCEPT !.pc = "enter", !.w = w, !.name = n,
                                                   !.i = 1]]
        /\ world' = [world EXCEPT ![w] = SetTargets([@ EXCEPT !.cur = r], n)]
    /\ client' = [client EXCEPT ![c].pc = "await", ![c].r = r]
    /\ UNCHANGED <<hmu, cur, bound>>

\* 409 busy.
StartRefused(c) ==
    LET w == client[c].w IN
    /\ Control(c) /\ ~MayStart(world[w]) /\ ~Starting(w)
    /\ Release(c)
    /\ UNCHANGED <<hmu, cur, world, run, bound>>

StopScenario(c) ==
    LET w == client[c].w  r == world[w].cur IN
    /\ Control(c) /\ r # None /\ ~Starting(w)
    /\ run' = [run EXCEPT ![r].cancel = TRUE]
    /\ client' = [client EXCEPT ![c].pc = "await", ![c].r = r]
    /\ UNCHANGED <<hmu, cur, world, bound>>

StopNothing(c) ==
    /\ Control(c) /\ world[client[c].w].cur = None
    /\ Release(c)
    /\ UNCHANGED <<hmu, cur, world, run, bound>>

\* The handlers that wait for r return.
AwaitersReturn(r) ==
    client' = [c \in Clients |->
                 IF client[c].pc = "await" /\ client[c].r = r THEN Idle ELSE client[c]]

\* The handler that starts r enters the first phase and shows it, lets the
\* runner go and returns.  An ending run clears targets and card without the
\* lock: its cleanup comes before, between or after these two steps.
FirstPhase(r) ==
    LET n == run[r].name  w == run[r].w  wr == world[w] IN
    /\ At(r, "enter")
    /\ run' = [run EXCEPT ![r].pc = "phase"]
    /\ world' = [world EXCEPT ![w] = SetScenario([wr EXCEPT !.env = Enter(n, 1, @)], n)]
    /\ AwaitersReturn(r)
    /\ UNCHANGED <<hmu, cur, bound>>

\* The runner.  A step of r's runner moves it on and leaves its World as wr.
Runner(r, to, wr) ==
    /\ run' = [run EXCEPT ![r].pc = to, ![r].signal = FALSE]
    /\ world' = [world EXCEPT ![run[r].w] = wr]
    /\ UNCHANGED <<hmu, cur, client, bound>>

PhaseOver(r) == At(r, "phase") /\ (Timed(run[r].name) \/ run[r].signal)

\* The timer of a phase with another after it: enter that one and show it.
NextPhase(r) ==
    LET n == run[r].name  i == run[r].i + 1  w == run[r].w  wr == world[w] IN
    /\ PhaseOver(r) /\ i <= PhaseCount(n)
    /\ run' = [run EXCEPT ![r].i = i]
    /\ world' = [world EXCEPT ![w] = SetScenario([wr EXCEPT !.env = Enter(n, i, @)], n)]
    /\ UNCHANGED <<hmu, cur, client, bound>>

\* The last phase ends by its timer or by the signal: exit, and the tail begins
\* with the recovery on the card.
LastPhase(r) ==
    LET n == run[r].name  wr == world[run[r].w] IN
    /\ PhaseOver(r) /\ run[r].i = PhaseCount(n)
    /\ Runner(r, "tail", SetScenario([wr EXCEPT !.env = Exit(n, @)], n))

\* Mutant of PhaseCancelled: a cancelled run leaves without exit.
PhaseDropped(r) ==
    At(r, "phase") /\ CtxDone(r) /\ Runner(r, "free", world[run[r].w])

\* A cancel ends any phase: exit, and no tail.
PhaseCancelled(r) ==
    LET wr == world[run[r].w] IN
    /\ At(r, "phase") /\ CtxDone(r)
    /\ Runner(r, "free", [wr EXCEPT !.env = Exit(run[r].name, @)])

\* The minimum tail has passed and the drain is pending: an open-ended card.
TailOpens(r) ==
    At(r, "tail") /\ Runner(r, "waiting", SetScenario(world[run[r].w], run[r].name))

\* Mutant of TailEnds: the tail polls for a recovery that never comes.
TailPolls(r) ==
    /\ At(r, "tail") \/ At(r, "waiting")
    /\ Runner(r, run[r].pc, world[run[r].w])

\* Recovered, ScenarioTailMax (both after the minimum), or a cancel.
TailEnds(r) ==
    /\ At(r, "waiting") \/ (At(r, "tail") /\ CtxDone(r))
    /\ Runner(r, "free", world[run[r].w])

\* The slot is free: nobody can reach this run any more.
FreeSlot(r) ==
    /\ At(r, "free")
    /\ run' = [run EXCEPT ![r] = [NoRun EXCEPT !.pc = "targets", !.w = run[r].w]]
    /\ world' = [world EXCEPT ![run[r].w].cur = None]
    /\ UNCHANGED <<hmu, cur, client, bound>>

\* Mutant of ClearTargets: the affected set of an ended run stays.
KeepTargets(r) == At(r, "targets") /\ Runner(r, "card", world[run[r].w])

ClearTargets(r) ==
    At(r, "targets") /\ Runner(r, "card", SetTargets(world[run[r].w], None))

\* The card, then cancel, close(done), wg.Done: the StopScenario calls that
\* await r return.
ClearCard(r) ==
    /\ At(r, "card")
    /\ world' = [world EXCEPT ![run[r].w] = SetScenario(@, None)]
    /\ run' = [run EXCEPT ![r] = NoRun]
    /\ AwaitersReturn(r)
    /\ UNCHANGED <<hmu, cur, bound>>

-----------------------------------------------------------------------------
LockStep(c) == HandCurrent(c) \/ NoWorld(c) \/ Replace(c) \/ build(c) \/ buildFails(c)

StopSteps(c) ==
    \/ MarkStopping(c) \/ CancelContext(c) \/ CloseHub(c)
    \/ GoroutinesDone(c) \/ HandlersDone(c) \/ CloseStore(c)

Body(c) ==
    \/ Served(c) \/ SetByHand(c) \/ Restore(c) \/ SignalRun(c)
    \/ StartScenario(c) \/ StartRefused(c) \/ StopScenario(c) \/ StopNothing(c)

RunnerStep(r) ==
    \/ FirstPhase(r) \/ NextPhase(r) \/ LastPhase(r) \/ PhaseCancelled(r)
    \/ TailOpens(r) \/ TailEnds(r) \/ FreeSlot(r) \/ ClearTargets(r) \/ ClearCard(r)

\* What a handler does unless it waits; a stream ends by itself only when its
\* channel is closed.
HandlerStep(c) ==
    LockStep(c) \/ StopSteps(c) \/ Body(c) \/ (ChannelClosed(c) /\ EndStream(c))

Next ==
    \/ \E c \in Clients :
        \/ Request(c) \/ LockStep(c) \/ StopSteps(c) \/ StopTimeout(c)
        \/ Body(c) \/ EndStream(c)
    \/ \E w \in Worlds : GoroutinesReturn(w) \/ GrowIdle(w)
    \/ \E r \in Runs : RunnerStep(r)

Spec == Init /\ [][Next]_vars

\* Goroutines are scheduled, timers fire, a mutex is granted to every waiter
\* in time; clients owe nothing (they need not make requests or leave a stream)
\* and StopTimeout need not pass.
Fairness ==
    /\ \A c \in Clients : SF_vars(HandlerStep(c))
    /\ \A w \in Worlds : WF_vars(GoroutinesReturn(w))
    /\ \A r \in Runs : WF_vars(RunnerStep(r))

FairSpec == Spec /\ Fairness

-----------------------------------------------------------------------------
\* There is at most one live World and it is the one the holder hands out: two
\* reconnects, a reset and a control never build twice, and no World with an
\* open database is forgotten (holder.go:49-51).
OneWorld == \A w \in Worlds : world[w].store = "open" => w = cur

\* Stop closes the database only when no goroutine, no runner and no handler of
\* that World is left, unless StopTimeout passed: a scenario cannot start behind
\* the wait and a handler cannot take a World that is being stopped
\* (world.go:235-252, scenarios.go:251-253).
StopWaits ==
    \A w \in Worlds : world[w].store = "closed" /\ ~world[w].timedOut => Quiet(w)

\* Traffic runs in a World exactly while somebody watches it, and a watched
\* World is never counted idle: the counts reach the watcher in order, also
\* when Stop closes the hub under its viewers (hub.go:28-30, world.go:278-289).
TrafficFollowsViewers ==
    \A w \in Worlds :
        /\ world[w].gen <=> world[w].subs # {}
        /\ world[w].subs # {} => world[w].idle = "zero"

\* Outside the phases of a scenario everything it changed is back at its base
\* value, whether the run ended, was stopped or was cancelled with its World,
\* except for the parts requests set by hand (scenarios.go:26-27).
ExitRestores ==
    \A w \in Worlds :
        (\A r \in Running(w) : ~At(r, "phase")) =>
            \A p \in Parts \ world[w].touched : world[w].env[p] = Base[p]

\* When the last runner of a World is gone the World is idle for everyone: the
\* slot is free, no tenant is marked affected and the card is empty, however
\* the end of one run and the start of the next interleaved (scenarios.go:320-322).
QuietIsIdle ==
    \A w \in Worlds :
        Running(w) = {} => /\ world[w].cur = None
                           /\ world[w].targets = None /\ world[w].card = None

\* A poller that sees the card idle can start a scenario (scenarios.go:321-322),
\* unless another start is under way.
CardIdleCanStart ==
    \A w \in Worlds :
        world[w].card = None /\ ~world[w].stopping /\ ~Starting(w) => MayStart(world[w])

\* Every request other than a stream is answered: a reset that holds the
\* holder's lock while it waits for the handlers, a stop that waits for its
\* runner, requests that queue behind both (holder.go:92-103, scenarios.go:289-302).
RequestsFinish ==
    \A c \in Clients :
        (client[c].pc # "idle" /\ client[c].req # "stream") ~> (client[c].pc = "idle")
=============================================================================
