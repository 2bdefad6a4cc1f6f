------------------------------- MODULE Queue -------------------------------
(***************************************************************************)
(* The message queue: internal/queue/store.go (the SQLite rows and the     *)
(* in-memory ledger beside them) and the worker loop of workers.go, with   *)
(* the sink of internal/traffic at its end.                                *)
(*                                                                         *)
(* Every method of the Store holds store.mu for its whole body and is one  *)
(* action.  A worker is a process: between its Claim, each message and its *)
(* Ack, claims time out and are reclaimed, other workers claim the same    *)
(* rows, rows expire and keys stop being usable.                           *)
(***************************************************************************)
EXTENDS Integers, FiniteSets

CONSTANTS
    Tenants,
    Workers,
    Ids,           \* bound: message ids ever allocated, a set of integers
    Kinds,         \* the kinds of messages that arrive
    ClaimBatch,    \* cfg.ClaimBatch
    ClaimTimeout,  \* cfg.ClaimTimeout
    Retention,     \* P.Retention
    ExpireLimit,   \* P.ExpireLimit
    SinkCap        \* the sink's counter is followed up to here

AllKinds == {"good", "poison", "refused"}

ASSUME QueueAssumption ==
    /\ IsFiniteSet(Tenants) /\ IsFiniteSet(Ids) /\ Ids \subseteq Int
    /\ Kinds \subseteq AllKinds
    /\ ClaimBatch \in Nat \ {0} /\ ClaimTimeout \in Nat /\ Retention \in Nat
    /\ ExpireLimit \in Nat \ {0}
    /\ SinkCap \in Nat /\ SinkCap >= Cardinality(Ids)

VARIABLES
    row,        \* the messages table, and what became of deleted rows
    accepted, delivered, expired, ready, claimed, deadN,  \* the ledger
    total, backlogged,                                    \* its two gauges
    worker,     \* the worker goroutines
    usable,     \* the tenants whose key can open messages now
    stopping,   \* the World's context is cancelled
    sink,       \* the sink's own count of deliveries
    seen        \* ground truth: ids the sink has accepted at least once

ledger == <<accepted, delivered, expired, ready, claimed, deadN, total, backlogged>>
vars == <<row, ledger, worker, usable, stopping, sink, seen>>

Stored  == {"ready", "claimed", "dead"}
RowStates == Stored \cup {"none", "acked", "expired"}

\* left is claimed_until - now and age is now - enqueued_at; both stop where the
\* comparisons of Reclaim and Expire no longer change.
Row == [st : RowStates, of : Tenants, kind : AllKinds,
        left : -1 .. ClaimTimeout, age : 0 .. Retention + 1]

WorkerRec == [pc : {"next", "claim", "work", "deliver", "stopped"},
              t : Tenants, todo : SUBSET Ids, cur : SUBSET Ids,
              acked : SUBSET Ids]

Counter == [Tenants -> Nat]

\* The types, and that no counter or gauge of the ledger (store.go Store) ever
\* goes below zero.
TypeOK ==
    /\ row \in [Ids -> Row]
    /\ accepted \in Counter /\ delivered \in Counter /\ expired \in Counter
    /\ ready \in Counter /\ claimed \in Counter /\ deadN \in Counter
    /\ total \in Nat /\ backlogged \in Nat
    /\ worker \in [Workers -> WorkerRec]
    /\ usable \subseteq Tenants /\ stopping \in BOOLEAN
    /\ sink \in [Tenants -> 0 .. SinkCap] /\ seen \subseteq Ids

Zero == [t \in Tenants |-> 0]

Init ==
    /\ \E t \in Tenants :
          /\ row = [i \in Ids |-> [st |-> "none", of |-> t, kind |-> "good",
                                   left |-> 0, age |-> 0]]
          /\ worker = [w \in Workers |-> [pc |-> "next", t |-> t, todo |-> {},
                                          cur |-> {}, acked |-> {}]]
    /\ accepted = Zero /\ delivered = Zero /\ expired = Zero
    /\ ready = Zero /\ claimed = Zero /\ deadN = Zero
    /\ total = 0 /\ backlogged = 0
    /\ usable = Tenants /\ stopping = FALSE
    /\ sink = Zero /\ seen = {}

-----------------------------------------------------------------------------
(* Parts of the Store's methods.                                           *)

Rows(st, t) == {i \in Ids : row[i].st = st /\ row[i].of = t}

\* ORDER BY id LIMIT n.
First(S, n) == {i \in S : Cardinality({j \in S : j < i}) < n}

\* UPDATE ... SET state = st WHERE id IN S (left is set by Claim alone).
Mark(S, st) == [i \in Ids |-> IF i \in S THEN [row[i] EXCEPT !.st = st, !.left = 0]
                                         ELSE row[i]]

Plus(counter, t, n) == [counter EXCEPT ![t] = @ + n]

\* Mutant of Backlog: only the ready rows count.
BacklogReady(t) == ready[t]

\* backlogOf, and the backlogged gauge after tenant t loses n rows of it.
Backlog(t) == ready[t] + claimed[t]

\* Mutant of LeaveBacklog: no test that the statement changed a row.
LeaveBacklogUnchecked(t, n) ==
    backlogged' = IF Backlog(t) = n THEN backlogged - 1 ELSE backlogged

LeaveBacklog(t, n) ==
    backlogged' = IF n > 0 /\ Backlog(t) = n THEN backlogged - 1 ELSE backlogged

\* Mutant of Affected: the statements do not test state='claimed'.
AffectedAny(S) == S

\* The rows of S that an UPDATE or DELETE with "state='claimed'" affects.
Affected(S) == {i \in S : row[i].st = "claimed"}

-----------------------------------------------------------------------------
(* Ingest, the sweep, the keys and the clock.                              *)

\* Ids are allocated before the lock is taken, so they arrive in any order; a
\* handler that is still running inserts after the context ended too.
Insert(i, t, kind) ==
    /\ row[i].st = "none"
    /\ row' = [row EXCEPT ![i] = [st |-> "ready", of |-> t, kind |-> kind,
                                  left |-> 0, age |-> 0]]
    /\ backlogged' = IF Backlog(t) = 0 THEN backlogged + 1 ELSE backlogged
    /\ accepted' = Plus(accepted, t, 1) /\ ready' = Plus(ready, t, 1)
    /\ total' = total + 1
    /\ UNCHANGED <<delivered, expired, claimed, deadN, worker, usable, stopping,
                   sink, seen>>

\* The claims that have timed out.
Late == {i \in Ids : row[i].st = "claimed" /\ row[i].left < 0}

\* Mutant of Reclaim: the rows go back and the ledger does not follow.
ReclaimUncounted ==
    /\ Late # {} /\ row' = Mark(Late, "ready")
    /\ UNCHANGED <<ledger, worker, usable, stopping, sink, seen>>

\* Counts per tenant and updates in one critical section.
Reclaim ==
    LET late == Late
        of(t) == Cardinality({i \in late : row[i].of = t})
    IN  /\ late # {} /\ row' = Mark(late, "ready")
        /\ claimed' = [t \in Tenants |-> claimed[t] - of(t)]
        /\ ready' = [t \in Tenants |-> ready[t] + of(t)]
        /\ UNCHANGED <<accepted, delivered, expired, deadN, total, backlogged,
                       worker, usable, stopping, sink, seen>>

\* Retention: only ready rows expire, at most ExpireLimit of them.
Expire ==
    LET old == First({i \in Ids : row[i].st = "ready" /\ row[i].age > Retention},
                     ExpireLimit)
        of(t) == Cardinality({i \in old : row[i].of = t})
        emptied == {t \in Tenants : of(t) > 0 /\ Backlog(t) = of(t)}
    IN  /\ old # {} /\ row' = Mark(old, "expired")
        /\ expired' = [t \in Tenants |-> expired[t] + of(t)]
        /\ ready' = [t \in Tenants |-> ready[t] - of(t)]
        /\ total' = total - Cardinality(old)
        /\ backlogged' = backlogged - Cardinality(emptied)
        /\ UNCHANGED <<accepted, delivered, claimed, deadN, worker, usable,
                       stopping, sink, seen>>

\* A tenant's lease lapses, its key is parked or its DEK is cold, or it heals.
KeyLost(t) ==
    /\ t \in usable /\ usable' = usable \ {t}
    /\ UNCHANGED <<row, ledger, worker, stopping, sink, seen>>

KeyBack(t) ==
    /\ t \notin usable /\ usable' = usable \cup {t}
    /\ UNCHANGED <<row, ledger, worker, stopping, sink, seen>>

Advance ==
    /\ row' = [i \in Ids |->
         [row[i] EXCEPT
            !.left = IF row[i].st = "claimed" /\ @ >= 0 THEN @ - 1 ELSE @,
            !.age = IF row[i].st \in {"ready", "claimed"} /\ @ <= Retention
                    THEN @ + 1 ELSE @]]
    /\ row' # row
    /\ UNCHANGED <<ledger, worker, usable, stopping, sink, seen>>

\* World.Stop cancels the context.
Stop ==
    /\ ~stopping /\ stopping' = TRUE
    /\ UNCHANGED <<row, ledger, worker, usable, sink, seen>>

-----------------------------------------------------------------------------
(* A worker.                                                               *)

Exit(w) ==
    /\ worker[w].pc = "next" /\ stopping
    /\ worker' = [worker EXCEPT ![w].pc = "stopped"]
    /\ UNCHANGED <<row, ledger, usable, stopping, sink, seen>>

\* Sched.Next: a tenant with ready rows that Gate.Hot admits.
Pick(w, t) ==
    /\ worker[w].pc = "next" /\ ~stopping
    /\ ready[t] > 0 /\ t \in usable
    /\ worker' = [worker EXCEPT ![w].pc = "claim", ![w].t = t]
    /\ UNCHANGED <<row, ledger, usable, stopping, sink, seen>>

\* The UPDATE of Claim; todo is what the worker gets to see of the batch.
ClaimRows(w, batch, todo) ==
    LET t == worker[w].t
        n == Cardinality(batch)
    IN  /\ row' = [i \in Ids |->
             IF i \in batch
             THEN [row[i] EXCEPT !.st = "claimed", !.left = ClaimTimeout]
             ELSE row[i]]
        /\ ready' = Plus(ready, t, -n) /\ claimed' = Plus(claimed, t, n)
        /\ worker' = [worker EXCEPT ![w].pc = IF todo = {} THEN "next" ELSE "work",
                                    ![w].todo = todo]
        /\ UNCHANGED <<accepted, delivered, expired, deadN, total, backlogged,
                       usable, stopping, sink, seen>>

Batch(w) == First(Rows("ready", worker[w].t), ClaimBatch)

Claim(w) ==
    /\ worker[w].pc = "claim" /\ Batch(w) # {}
    /\ ClaimRows(w, Batch(w), Batch(w))

\* Another worker took the rows, or the statement failed: nothing changes.
ClaimNothing(w) ==
    worker[w].pc = "claim" /\ ClaimRows(w, {}, {})

\* A cursor that fails has updated the rows (the ledger follows changes()) and
\* the worker drops the batch: only Reclaim brings these rows back.
ClaimFails(w) ==
    /\ worker[w].pc = "claim" /\ Batch(w) # {}
    /\ ClaimRows(w, Batch(w), {})

\* Dead: one claimed row; a store error, or a row that is not claimed any more,
\* changes nothing.  The worker goes on with the next message either way.
DeadLetter(w, i) ==
    LET t == worker[w].t
        n == Cardinality(Affected({i}))
    IN  /\ \/ /\ row' = Mark(Affected({i}), "dead")
              /\ claimed' = Plus(claimed, t, -n) /\ deadN' = Plus(deadN, t, n)
              /\ total' = total - n /\ LeaveBacklog(t, n)
           \/ UNCHANGED <<row, claimed, deadN, total, backlogged>>
        /\ worker' = [worker EXCEPT ![w].pc = "work", ![w].cur = {},
                                    ![w].todo = @ \ {i}]
        /\ UNCHANGED <<accepted, delivered, expired, ready, usable, stopping>>

\* Release: the unprocessed rest goes back to ready; the loop breaks.
ReleaseRest(w) ==
    LET t == worker[w].t
        rest == Affected(worker[w].todo)
        n == Cardinality(rest)
    IN  /\ \/ /\ row' = Mark(rest, "ready")
              /\ claimed' = Plus(claimed, t, -n) /\ ready' = Plus(ready, t, n)
           \/ UNCHANGED <<row, claimed, ready>>
        /\ worker' = [worker EXCEPT ![w].pc = "work", ![w].cur = {},
                                    ![w].todo = {}]
        /\ UNCHANGED <<accepted, delivered, expired, deadN, total, backlogged,
                       usable, stopping, sink, seen>>

\* DecryptKey and Open of the next message: a foreign DEK or an envelope that
\* does not open is poison, ...
Poison(w) ==
    /\ worker[w].pc = "work"
    /\ \E i \in worker[w].todo : row[i].kind = "poison" /\ DeadLetter(w, i)
    /\ UNCHANGED <<sink, seen>>

\* ... a key that is not usable, or a lease that lapses, releases the rest, ...
KeyNotUsable(w) ==
    /\ worker[w].pc = "work" /\ worker[w].todo # {}
    /\ worker[w].t \notin usable
    /\ ReleaseRest(w)

\* ... and otherwise the plaintext goes to the sink.
Decrypt(w) ==
    /\ worker[w].pc = "work" /\ worker[w].t \in usable
    /\ \E i \in worker[w].todo :
          /\ row[i].kind # "poison"
          /\ worker' = [worker EXCEPT ![w].pc = "deliver", ![w].cur = {i}]
    /\ UNCHANGED <<row, ledger, usable, stopping, sink, seen>>

Deliver(w) ==
    /\ worker[w].pc = "deliver"
    /\ \E i \in worker[w].cur :
          /\ row[i].kind = "good"
          /\ sink' = [sink EXCEPT ![worker[w].t] = IF @ < SinkCap THEN @ + 1 ELSE @]
          /\ seen' = seen \cup {i}
          /\ worker' = [worker EXCEPT ![w].pc = "work", ![w].cur = {},
                                      ![w].todo = @ \ {i}, ![w].acked = @ \cup {i}]
    /\ UNCHANGED <<row, ledger, usable, stopping>>

\* The sink refuses a payload that names another tenant (S2 evidence).
Refused(w) ==
    /\ worker[w].pc = "deliver" /\ ~stopping
    /\ \E i \in worker[w].cur : row[i].kind = "refused" /\ DeadLetter(w, i)
    /\ UNCHANGED <<sink, seen>>

\* The context ends while the sink sleeps, or by the time it has refused: the
\* message was not delivered and its row goes back with the rest.
StopInSink(w) ==
    /\ worker[w].pc = "deliver" /\ stopping
    /\ ReleaseRest(w)

\* Mutant of AckIds: the whole batch is acknowledged, released rows too.
AckClaimed(w) == {i \in Ids : row[i].st = "claimed" /\ row[i].of = worker[w].t}

\* What the Ack at the end of a batch names: the delivered messages alone.
AckIds(w) == worker[w].acked

\* Ack deletes what is still claimed, whoever holds the claim by now.
Ack(w) ==
    LET t == worker[w].t
        gone == Affected(AckIds(w))
        n == Cardinality(gone)
    IN  /\ worker[w].pc = "work" /\ worker[w].todo = {}
        /\ row' = Mark(gone, "acked")
        /\ delivered' = Plus(delivered, t, n) /\ claimed' = Plus(claimed, t, -n)
        /\ total' = total - n /\ LeaveBacklog(t, n)
        /\ worker' = [worker EXCEPT ![w].pc = "next", ![w].acked = {}]
        /\ UNCHANGED <<accepted, expired, ready, deadN, usable, stopping, sink,
                       seen>>

\* An Ack that fails leaves the rows claimed: they will be delivered again.
AckFails(w) ==
    /\ worker[w].pc = "work" /\ worker[w].todo = {} /\ worker[w].acked # {}
    /\ worker' = [worker EXCEPT ![w].pc = "next", ![w].acked = {}]
    /\ UNCHANGED <<row, ledger, usable, stopping, sink, seen>>

-----------------------------------------------------------------------------
Ingest == \E i \in Ids, t \in Tenants, kind \in Kinds : Insert(i, t, kind)

Outside ==
    \/ Reclaim \/ Expire \/ Advance \/ Stop
    \/ \E t \in Tenants : KeyLost(t) \/ KeyBack(t)

Work(w) ==
    \/ Exit(w) \/ (\E t \in Tenants : Pick(w, t)) \/ Claim(w)
    \/ ClaimNothing(w) \/ ClaimFails(w)
    \/ Poison(w) \/ KeyNotUsable(w) \/ Decrypt(w)
    \/ Deliver(w) \/ Refused(w) \/ StopInSink(w) \/ Ack(w) \/ AckFails(w)

Next == Ingest \/ Outside \/ \E w \in Workers : Work(w)

Spec == Init /\ [][Next]_vars

\* A worker never stands still while it can go on; the sweep keeps running and
\* time passes; and the ring comes round to a tenant that keeps having ready rows.
Fairness ==
    /\ \A w \in Workers : WF_vars(Work(w))
    /\ \A t \in Tenants : SF_vars(\E w \in Workers : Pick(w, t))
    /\ WF_vars(Reclaim) /\ WF_vars(Advance)

FairSpec == Spec /\ Fairness

-----------------------------------------------------------------------------
(* What the code promises.                                                 *)

Held(st, t) == Cardinality(Rows(st, t))

\* The ledger is the table: every counter moved by exactly the rows that the
\* statement changed, whatever was reclaimed, expired or claimed in between
\* (store.go Claim, Ack, Release, Dead, Reclaim, Expire; the S4 census).
LedgerExact ==
    /\ \A t \in Tenants :
          /\ ready[t] = Held("ready", t) /\ claimed[t] = Held("claimed", t)
          /\ deadN[t] = Held("dead", t) /\ delivered[t] = Held("acked", t)
          /\ expired[t] = Held("expired", t)
          /\ accepted[t] = delivered[t] + ready[t] + claimed[t] + expired[t]
                           + deadN[t]
    /\ total = Cardinality({i \in Ids : row[i].st \in {"ready", "claimed"}})
    /\ backlogged = Cardinality({t \in Tenants : Backlog(t) > 0})

\* S4, no loss: a message leaves the table only after the sink has it or its
\* retention is over, and only a message that can never be delivered is
\* dead-lettered (workers.go loop: "releases the remaining rows untouched").
NoLoss ==
    \A i \in Ids : /\ row[i].st = "acked" => i \in seen
                   /\ row[i].st = "dead" => row[i].kind # "good"

\* The service's delivered count is covered by the sink's own count
\* (checker.go s4, lower bound).
SinkCovers == \A t \in Tenants : delivered[t] <= sink[t]

\* The checker's full bound, "delivered <= sink <= delivered + claimed"
\* (docs/plan/M5.md, checker.go s4).
SinkBounded == \A t \in Tenants : sink[t] <= delivered[t] + claimed[t]

\* A row whose outcome is decided never comes back: no late Release, Reclaim or
\* Ack of a worker that lost its claim resurrects it.
Settled(i) == row[i].st \in {"acked", "expired", "dead"}
NoResurrection ==
    [][\A i \in Ids : Settled(i) => row'[i].st = row[i].st]_vars

\* A step of a store that answers and of workers that finish in time.
Calm ==
    /\ \A w \in Workers : /\ ~ClaimFails(w) /\ ~AckFails(w)
                          /\ ClaimNothing(w) => Batch(w) = {}
    /\ Reclaim => \A w \in Workers : \A i \in worker[w].todo \cup worker[w].acked :
                      row[i].left >= 0

\* L3: once a tenant's key stays usable, the World runs on and the store has
\* stopped failing, every deliverable message reaches the sink or outlives its
\* retention, also one whose claim was lost with a failed cursor or Ack
\* (Reclaim: at-least-once delivery).
Waiting(i, t) ==
    /\ row[i].st \in {"ready", "claimed"} /\ row[i].of = t
    /\ row[i].kind = "good" /\ i \notin seen
EveryMessageArrives ==
    \A i \in Ids, t \in Tenants :
        <>[][Calm]_vars /\ <>[](t \in usable /\ ~stopping)
            => (Waiting(i, t) ~> ~Waiting(i, t))
=============================================================================
