----------------------------- MODULE Admission -----------------------------
(***************************************************************************)
(* The admission gate of internal/admit and the ingest path of             *)
(* internal/world that it guards.  A request decides on four lock-free     *)
(* ledger reads (ready and claimed of its tenant, the number of backlogged *)
(* tenants, the total) and inserts its row much later, under store.mu; the *)
(* other requests, the workers and the sweep move the ledger in between.   *)
(* The lock does not hide anything from the readers: whoever has it moves  *)
(* the counters one after the other.                                       *)
(***************************************************************************)
EXTENDS Integers, FiniteSets

CONSTANTS
    Tenants,
    Requests,    \* requests inside Ingest at once (handlers and generator loops)
    TenantCap,   \* cfg.TenantCap
    GlobalCap,   \* cfg.GlobalCap
    FairShareOn, \* cfg.FairShare
    MaxClaimed   \* bound: rows of one tenant that are claimed at once

ASSUME AdmissionAssumption ==
    /\ IsFiniteSet(Requests) /\ IsFiniteSet(Tenants) /\ {"free", "store"} \cap Requests = {}
    /\ TenantCap \in Nat \ {0} /\ GlobalCap \in Nat \ {0}
    /\ FairShareOn \in BOOLEAN /\ MaxClaimed \in Nat

VARIABLES
    ready,       \* s.ready
    claimed,     \* s.claimed
    backlogged,  \* s.backlogged
    total,       \* s.total
    mu,          \* store.mu: the request in Insert, Store for the others, or Free
    move,        \* what those others have still to move
    req          \* the requests inside IngestID

ledger == <<ready, claimed, backlogged, total, mu, move>>
vars == <<ready, claimed, backlogged, total, mu, move, req>>

Free == "free"
Store == "store"
NoTenant == "none"
PCs == {"idle", "claimed", "share", "total", "insert", "row", "count"}

RequestRec ==
    [pc : PCs, tenant : Tenants \cup {NoTenant},
     bl : Nat,          \* the one Backlog(idx) read (first half: ready)
     within : BOOLEAN]  \* bl <= FairShare()

Idle == [pc |-> "idle", tenant |-> NoTenant, bl |-> 0, within |-> TRUE]

MoveRec ==
    [next : {"none", "claimed", "ready", "total", "backlogged"}, \* the next counter
     tenant : Tenants \cup {NoTenant}, n : Nat]

NoMove == [next |-> "none", tenant |-> NoTenant, n |-> 0]

TypeOK ==
    /\ ready \in [Tenants -> Nat] /\ claimed \in [Tenants -> 0 .. MaxClaimed]
    /\ backlogged \in 0 .. Cardinality(Tenants) /\ total \in Nat
    /\ mu \in Requests \cup {Free, Store} /\ move \in MoveRec
    /\ req \in [Requests -> RequestRec]

Backlog(t) == ready[t] + claimed[t]

Init ==
    /\ ready = [t \in Tenants |-> 0] /\ claimed = [t \in Tenants |-> 0]
    /\ backlogged = 0 /\ total = 0 /\ mu = Free /\ move = NoMove
    /\ req = [r \in Requests |-> Idle]

Goto(r, pc) == req' = [req EXCEPT ![r].pc = pc]

\* A request that is answered leaves nothing behind.
Answered(r) == req' = [req EXCEPT ![r] = Idle]

-----------------------------------------------------------------------------
(* Admit, read by read.                                                    *)

\* Ingest of an event of tenant t; backlogOf loads ready first ...
Arrive(r, t) ==
    /\ req[r].pc = "idle"
    /\ req' = [req EXCEPT ![r] =
         [pc |-> "claimed", tenant |-> t, bl |-> ready[t], within |-> TRUE]]
    /\ UNCHANGED ledger

\* ... and claimed second: rows that moved in between count twice or not at all.
ReadClaimed(r) ==
    /\ req[r].pc = "claimed"
    /\ req' = [req EXCEPT ![r].bl = @ + claimed[req[r].tenant], ![r].pc = "share"]
    /\ UNCHANGED ledger

\* Mutant of FairShare: the cap is not divided among the backlogged tenants.
WholeCap(n) == GlobalCap

FairShare(n) == GlobalCap \div (IF n < 1 THEN 1 ELSE n)

ReadShare(r) ==
    /\ req[r].pc = "share"
    /\ req' = [req EXCEPT ![r].pc = "total",
         ![r].within = ~FairShareOn \/ req[r].bl <= FairShare(backlogged)]
    /\ UNCHANGED ledger

\* The global cap sheds those over their share, or everyone without fair share.
Overloaded(r) == total >= GlobalCap /\ (~FairShareOn \/ ~req[r].within)

\* Mutant of UnderCap: off by one.
AtCap(r) == req[r].bl <= TenantCap

UnderCap(r) == req[r].bl < TenantCap

\* Total is the last read of Admit; its three tests follow in their order.
Shed(r) ==
    /\ req[r].pc = "total" /\ Overloaded(r)
    /\ Answered(r)
    /\ UNCHANGED ledger

\* The token bucket is empty.  A token that was taken is not given back.
RateLimited(r) ==
    /\ req[r].pc = "total" /\ ~Overloaded(r)
    /\ Answered(r)
    /\ UNCHANGED ledger

BacklogFull(r) ==
    /\ req[r].pc = "total" /\ ~Overloaded(r) /\ ~UnderCap(r)
    /\ Answered(r)
    /\ UNCHANGED ledger

\* What Admit read is not looked at again.
Admitted(r) ==
    /\ req[r].pc = "total" /\ ~Overloaded(r) /\ UnderCap(r)
    /\ req' = [req EXCEPT ![r] =
         [pc |-> "insert", tenant |-> req[r].tenant, bl |-> 0, within |-> TRUE]]
    /\ UNCHANGED ledger

-----------------------------------------------------------------------------
(* The rest of IngestID.                                                   *)

\* EncryptKey, Seal or the insert statement fails: the ledger does not move.
IngestFails(r) ==
    /\ req[r].pc = "insert"
    /\ Answered(r)
    /\ UNCHANGED ledger

\* Insert takes store.mu, writes the row and counts its tenant as backlogged ...
Insert(r) ==
    LET t == req[r].tenant
    IN  /\ req[r].pc = "insert" /\ mu = Free
        /\ mu' = r
        /\ backlogged' = IF Backlog(t) = 0 THEN backlogged + 1 ELSE backlogged
        /\ Goto(r, "row")
        /\ UNCHANGED <<ready, claimed, total, move>>

\* ... then counts the row as ready ...
InsertRow(r) ==
    /\ req[r].pc = "row"
    /\ ready' = [ready EXCEPT ![req[r].tenant] = @ + 1]
    /\ Goto(r, "count")
    /\ UNCHANGED <<claimed, backlogged, total, mu, move>>

\* ... and in the total; the event is answered.
InsertTotal(r) ==
    /\ req[r].pc = "count"
    /\ total' = total + 1 /\ mu' = Free
    /\ Answered(r)
    /\ UNCHANGED <<ready, claimed, backlogged, move>>

-----------------------------------------------------------------------------
(* The workers and the sweep, as the ledger sees them.  The first counter   *)
(* moves with the statement, under store.mu, the others after it.          *)

\* store.mu is taken by one of them, which goes on with another counter.
Lock(next, t, k) ==
    /\ mu = Free /\ mu' = Store
    /\ move' = [next |-> next, tenant |-> t, n |-> k]

Unlock == mu' = Free /\ move' = NoMove

\* Store.Claim takes k rows of the batch out of ready ...
Claim(t, k) ==
    /\ k <= ready[t] /\ claimed[t] + k <= MaxClaimed
    /\ Lock("claimed", t, k)
    /\ ready' = [ready EXCEPT ![t] = @ - k]
    /\ UNCHANGED <<claimed, backlogged, total, req>>

\* ... and counts them as claimed.
ClaimMoved ==
    /\ move.next = "claimed" /\ Unlock
    /\ claimed' = [claimed EXCEPT ![move.tenant] = @ + move.n]
    /\ UNCHANGED <<ready, backlogged, total, req>>

\* Store.Release and Store.Reclaim take k rows out of claimed ...
Release(t, k) ==
    /\ k <= claimed[t]
    /\ Lock("ready", t, k)
    /\ claimed' = [claimed EXCEPT ![t] = @ - k]
    /\ UNCHANGED <<ready, backlogged, total, req>>

\* ... and count them as ready.
ReleaseMoved ==
    /\ move.next = "ready" /\ Unlock
    /\ ready' = [ready EXCEPT ![move.tenant] = @ + move.n]
    /\ UNCHANGED <<claimed, backlogged, total, req>>

\* Store.Ack and Store.Dead: claimed first.
Settle(t, k) ==
    /\ k <= claimed[t]
    /\ Lock("total", t, k)
    /\ claimed' = [claimed EXCEPT ![t] = @ - k]
    /\ UNCHANGED <<ready, backlogged, total, req>>

\* Store.Expire: ready first.
Expire(t, k) ==
    /\ k <= ready[t]
    /\ Lock("total", t, k)
    /\ ready' = [ready EXCEPT ![t] = @ - k]
    /\ UNCHANGED <<claimed, backlogged, total, req>>

\* Mutant of Emptied: whatever leaves un-counts its tenant.
EmptiedAlways(t) == TRUE

Emptied(t) == Backlog(t) = 0

\* The rows that left leave the total ...
LeaveTotal ==
    /\ move.next = "total"
    /\ total' = total - move.n
    /\ IF Emptied(move.tenant)
       THEN move' = [move EXCEPT !.next = "backlogged"] /\ UNCHANGED mu
       ELSE Unlock
    /\ UNCHANGED <<ready, claimed, backlogged, req>>

\* ... and the last of a tenant un-count it.
LeaveBacklogged ==
    /\ move.next = "backlogged" /\ Unlock
    /\ backlogged' = backlogged - 1
    /\ UNCHANGED <<ready, claimed, total, req>>

-----------------------------------------------------------------------------
Admit(r) ==
    \/ \E t \in Tenants : Arrive(r, t)
    \/ ReadClaimed(r) \/ ReadShare(r)
    \/ Shed(r) \/ RateLimited(r) \/ BacklogFull(r) \/ Admitted(r)

IngestID(r) == IngestFails(r) \/ Insert(r) \/ InsertRow(r) \/ InsertTotal(r)

Ledger ==
    \/ ClaimMoved \/ ReleaseMoved \/ LeaveTotal \/ LeaveBacklogged
    \/ \E t \in Tenants :
        \/ \E k \in 1 .. MaxClaimed : Claim(t, k) \/ Release(t, k) \/ Settle(t, k)
        \/ \E k \in 1 .. ready[t] : Expire(t, k)

Next == (\E r \in Requests : Admit(r) \/ IngestID(r)) \/ Ledger

Spec == Init /\ [][Next]_vars

-----------------------------------------------------------------------------
(* What the gate promises although it holds no lock.                       *)

\* The rows of a tenant in the table: those on their way between ready and
\* claimed are in neither counter.
Moving(t) == IF move.next \in {"claimed", "ready"} /\ move.tenant = t THEN move.n ELSE 0
Rows(t) == Backlog(t) + Moving(t)

\* The rows by which unlocked reads may miss a limit of one tenant: one per
\* request that decided before the limit was reached, and the rows that
\* backlogOf's two loads miss because they are claimed or released meanwhile.
Slack == Cardinality(Requests) + MaxClaimed

\* A tenant's rows exceed its cap by no more than that, whatever happens
\* between the read of the backlog and the insert (gate.go Admit).
TenantBounded == \A t \in Tenants : Rows(t) <= TenantCap - 1 + Slack

\* No j tenants are all above the share of j tenants by more than the slack:
\* whoever grows while j tenants are backlogged stops at GlobalCap / j, however
\* old the backlogged count and the total it decided on (gate.go Admit, FairShare).
ShareBounded ==
    FairShareOn => \A j \in 1 .. Cardinality(Tenants) :
        Cardinality({t \in Tenants : Rows(t) > GlobalCap \div j + Slack}) < j

\* Fair share keeps the whole backlog within twice the global cap (the design
\* reference, item 7, and L4 of checker.go, which turns red above that): the
\* tenants that are within their share when the cap is reached add at most one
\* more cap.
TotalWithinTwiceCap == FairShareOn => total <= 2 * GlobalCap
=============================================================================
