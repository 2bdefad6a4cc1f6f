-------------------------- MODULE AdmissionProofs --------------------------
(***************************************************************************)
(* Proofs about the admission gate, for every number of tenants and of     *)
(* requests and for all caps.                                              *)
(***************************************************************************)
EXTENDS Admission, FunctionTheorems, FiniteSetTheorems, TLAPS

-----------------------------------------------------------------------------
(* Counting.                                                               *)

\* A subset of a finite set has no more elements than the set.
LEMMA SubsetCount ==
    ASSUME NEW S, IsFiniteSet(S), NEW T, T \subseteq S
    PROVE  /\ IsFiniteSet(T)
           /\ Cardinality(T) \in Nat /\ Cardinality(S) \in Nat
           /\ Cardinality(T) <= Cardinality(S)
  BY FS_Subset, FS_CardinalityType

\* The shares of j tenants, each rounded up past the next integer, exceed the cap.
LEMMA ShareRounding ==
    ASSUME NEW g \in Nat, NEW j \in Nat \ {0}
    PROVE  /\ g \div j \in Nat
           /\ j * (g \div j + 1) > g
  OBVIOUS

\* A share of more tenants is no larger.
LEMMA ShareMonotone ==
    ASSUME NEW g \in Nat, NEW j \in Nat \ {0}, NEW n \in Nat, n >= j
    PROVE  g \div n <= g \div j
  OBVIOUS

\* The rows of a ledger f, as a set: the k-th row of tenant t.
CellsOf(f) == {p \in Tenants \X Nat : 1 <= p[2] /\ p[2] <= f[p[1]]}

\* n more rows of one tenant are n more cells.
LEMMA CellsGrow ==
    ASSUME NEW f \in [Tenants -> Nat], NEW t \in Tenants, NEW n \in Nat,
           IsFiniteSet(CellsOf(f))
    PROVE  LET g == [f EXCEPT ![t] = @ + n]
           IN  /\ IsFiniteSet(CellsOf(g))
               /\ Cardinality(CellsOf(f)) \in Nat
               /\ Cardinality(CellsOf(g)) = Cardinality(CellsOf(f)) + n
<1> DEFINE g == [f EXCEPT ![t] = @ + n]
           I == f[t] + 1 .. f[t] + n
           new == {t} \X I
<1>1. IsFiniteSet(I) /\ Cardinality(I) = n
  <2>1. f[t] + 1 \in Int /\ f[t] + n \in Int
    OBVIOUS
  <2>2. Cardinality(I) = IF f[t] + 1 > f[t] + n THEN 0 ELSE (f[t] + n) - (f[t] + 1) + 1
    BY <2>1, FS_Interval
  <2> QED  BY <2>1, <2>2, FS_Interval
<1>2. IsFiniteSet({t}) /\ Cardinality({t}) = 1
  BY FS_Singleton
<1> HIDE DEF I
<1>3. IsFiniteSet(new) /\ Cardinality(new) = n
  <2>1. IsFiniteSet(new) /\ Cardinality(new) = Cardinality({t}) * Cardinality(I)
    BY <1>1, <1>2, FS_Product
  <2> QED  BY <2>1, <1>1, <1>2
<1>4. CellsOf(g) = CellsOf(f) \cup new
  <2>1. ASSUME NEW p \in Tenants \X Nat
        PROVE  p \in CellsOf(g) <=> p \in CellsOf(f) \cup new
    <3>1. CASE p[1] = t
      <4>1. p = <<p[1], p[2]>> /\ p[2] \in Nat
        OBVIOUS
      <4>2. p \in new <=> p[2] \in I
        BY <3>1, <4>1
      <4>3. g[p[1]] = f[t] + n
        BY <3>1
      <4> QED  BY <3>1, <4>1, <4>2, <4>3 DEF CellsOf, I
    <3>2. CASE p[1] # t
      <4>1. p \notin new
        BY <3>2
      <4>2. g[p[1]] = f[p[1]]
        BY <3>2
      <4> QED  BY <4>1, <4>2 DEF CellsOf
    <3> QED  BY <3>1, <3>2
  <2>2. new \subseteq Tenants \X Nat
    BY DEF I
  <2>3. CellsOf(g) \subseteq Tenants \X Nat /\ CellsOf(f) \subseteq Tenants \X Nat
    BY DEF CellsOf
  <2> QED  BY <2>1, <2>2, <2>3
<1>5. CellsOf(f) \cap new = {}
  BY DEF CellsOf, I
<1>6. /\ IsFiniteSet(CellsOf(f) \cup new)
      /\ Cardinality(CellsOf(f) \cup new) =
            Cardinality(CellsOf(f)) + Cardinality(new) - Cardinality(CellsOf(f) \cap new)
  BY <1>3, FS_Union
<1>7. Cardinality(CellsOf(f)) \in Nat
  BY FS_CardinalityType
<1>8. Cardinality({}) = 0
  BY FS_EmptySet
<1> HIDE DEF g, new
<1>9. IsFiniteSet(CellsOf(g)) /\ Cardinality(CellsOf(g)) = Cardinality(CellsOf(f)) + n
  <2>1. Cardinality(CellsOf(f) \cup new) = Cardinality(CellsOf(f)) + n - 0
    BY <1>3, <1>5, <1>6, <1>8
  <2>2. Cardinality(CellsOf(f) \cup new) = Cardinality(CellsOf(f)) + n
    BY <2>1, <1>7
  <2> QED  BY <1>4, <1>6, <2>2
<1> QED  BY <1>7, <1>9 DEF g

\* k rows of one tenant less are k cells less.
LEMMA CellsShrink ==
    ASSUME NEW f \in [Tenants -> Nat], NEW t \in Tenants, NEW k \in Nat,
           k <= f[t], IsFiniteSet(CellsOf(f))
    PROVE  LET g == [f EXCEPT ![t] = @ - k]
           IN  /\ IsFiniteSet(CellsOf(g))
               /\ Cardinality(CellsOf(g)) \in Nat
               /\ Cardinality(CellsOf(g)) = Cardinality(CellsOf(f)) - k
<1> DEFINE g == [f EXCEPT ![t] = @ - k]
<1>1. g \in [Tenants -> Nat] /\ [g EXCEPT ![t] = @ + k] = f
  <2>1. g \in [Tenants -> Nat] /\ f[t] - k + k = f[t]
    OBVIOUS
  <2>2. \A u \in Tenants : [g EXCEPT ![t] = @ + k][u] = f[u]
    BY <2>1
  <2> QED  BY <2>1, <2>2
<1>2. IsFiniteSet(CellsOf(g))
  <2>1. CellsOf(g) \subseteq CellsOf(f)
    BY DEF CellsOf
  <2> QED  BY <2>1, SubsetCount
<1> HIDE DEF g
<1>3. /\ Cardinality(CellsOf(g)) \in Nat
      /\ Cardinality(CellsOf(f)) = Cardinality(CellsOf(g)) + k
  BY <1>1, <1>2, CellsGrow
<1> QED  BY <1>2, <1>3 DEF g

\* Tenants with more than n rows each account for n + 1 cells each.
LEMMA CellsCover ==
    ASSUME NEW f \in [Tenants -> Nat], IsFiniteSet(CellsOf(f)), IsFiniteSet(Tenants),
           NEW S, S \subseteq Tenants, NEW n \in Nat, \A t \in S : f[t] > n
    PROVE  /\ Cardinality(S) \in Nat
           /\ Cardinality(S) * (n + 1) <= Cardinality(CellsOf(f))
<1> DEFINE I == 1 .. n + 1
<1>1. IsFiniteSet(I) /\ Cardinality(I) = n + 1
  BY FS_Interval
<1>2. IsFiniteSet(S) /\ Cardinality(S) \in Nat
  BY SubsetCount
<1>3. S \X I \subseteq CellsOf(f)
  BY DEF CellsOf
<1> HIDE DEF I
<1>4. Cardinality(S \X I) = Cardinality(S) * Cardinality(I)
  BY <1>1, <1>2, FS_Product
<1> QED  BY <1>1, <1>2, <1>3, <1>4, SubsetCount

-----------------------------------------------------------------------------
(* The inductive invariant.                                                *)

\* Who holds store.mu, and what is under way there.
RequestInv ==
    /\ ready \in [Tenants -> Nat] /\ claimed \in [Tenants -> 0 .. MaxClaimed]
    /\ backlogged \in Int /\ total \in Int
    /\ mu \in Requests \cup {Free, Store} /\ move \in MoveRec
    /\ req \in [Requests -> RequestRec]
    /\ \A r \in Requests :
        /\ req[r].pc # "idle" => req[r].tenant \in Tenants
        /\ req[r].pc \in {"insert", "row"} => req[r].bl < TenantCap
        /\ req[r].pc \in {"row", "count"} <=> mu = r
        /\ req[r].pc = "count" => Backlog(req[r].tenant) > 0
    /\ mu # Store => move = NoMove
    /\ mu = Store => move.next # "none" /\ move.tenant \in Tenants /\ move.n > 0
    /\ \A t \in Tenants : claimed[t] + Moving(t) <= MaxClaimed
    /\ move.next = "backlogged" => Backlog(move.tenant) = 0

load == [t \in Tenants |-> Rows(t)]

\* The tenants the gauge counts: those with rows, the one whose first row is
\* about to be counted and the one whose last row has just left.
Held(t) ==
    \/ mu \in Requests /\ req[mu].pc = "row" /\ req[mu].tenant = t
    \/ move.next \in {"total", "backlogged"} /\ move.tenant = t
Counted == {t \in Tenants : load[t] > 0 \/ Held(t)}

\* The rows that left the table and not yet the total, and the one that entered
\* the table and not yet the total.
Leaving == IF move.next = "total" THEN move.n ELSE 0
Arriving == IF mu \in Requests /\ req[mu].pc = "count" THEN 1 ELSE 0

GaugeInv ==
    /\ IsFiniteSet(CellsOf(load))
    /\ total = Cardinality(CellsOf(load)) + Leaving - Arriving
    /\ backlogged = Cardinality(Counted)

\* The requests that may still insert a row although ...
Deciding == {r \in Requests : req[r].pc \notin {"idle", "count"}}

\* ... they read a backlog under the tenant's cap, and
UnderTenantCap == {r \in Deciding : req[r].bl < TenantCap}

\* ... they read one within the share of j tenants or have passed that test.
PassedShare(r) ==
    (req[r].pc = "total" /\ req[r].within) \/ req[r].pc \in {"insert", "row"}
UnderShare(j) == {r \in Deciding : req[r].bl <= GlobalCap \div j \/ PassedShare(r)}

Of(L, t) == {r \in L : req[r].tenant = t}

\* The rows a tenant has when all of L have inserted theirs.
CapWeight(t) == Rows(t) + Cardinality(Of(UnderTenantCap, t))
ShareWeight(j, t) == Rows(t) + Cardinality(Of(UnderShare(j), t))

CapInv == \A t \in Tenants : CapWeight(t) <= TenantCap - 1 + Slack

Above(j) == {t \in Tenants : ShareWeight(j, t) > GlobalCap \div j + Slack}

ShareInv ==
    FairShareOn => \A j \in 1 .. Cardinality(Tenants) : Cardinality(Above(j)) < j

AdmissionInv == RequestInv /\ GaugeInv /\ CapInv /\ ShareInv

-----------------------------------------------------------------------------
(* RequestInv and GaugeInv.                                                *)

LEMMA IdleType ==
    /\ Idle \in RequestRec /\ NoMove \in MoveRec
    /\ Free \notin Requests /\ Store \notin Requests /\ Free # Store
  BY AdmissionAssumption DEF Idle, RequestRec, PCs, NoTenant, Free, Store, NoMove, MoveRec

\* The initial state satisfies it.
LEMMA InitRequest == Init => RequestInv
  BY IdleType, AdmissionAssumption DEF Init, RequestInv, Idle, Backlog, Moving, NoMove

\* A step of one request that leaves the ledger alone.
LEMMA LedgerStays ==
    ASSUME RequestInv, NEW r \in Requests, UNCHANGED ledger,
           NEW q \in RequestRec, req' = [req EXCEPT ![r] = q],
           req[r].pc \notin {"row", "count"}, q.pc \notin {"row", "count"},
           q.pc # "idle" => q.tenant \in Tenants,
           q.pc = "insert" => q.bl < TenantCap
    PROVE  RequestInv'
<1>1. ready' = ready /\ claimed' = claimed /\ backlogged' = backlogged /\ total' = total
      /\ mu' = mu /\ move' = move
  BY DEF ledger
<1>2. req' \in [Requests -> RequestRec] /\ req'[r] = q
      /\ \A p \in Requests \ {r} : req'[p] = req[p]
  BY DEF RequestInv
<1>3. mu # r
  BY DEF RequestInv
<1>4. \A t : Backlog(t)' = Backlog(t) /\ Moving(t)' = Moving(t)
  BY <1>1 DEF Backlog, Moving
<1>5. ASSUME NEW p \in Requests
      PROVE  /\ req'[p].pc # "idle" => req'[p].tenant \in Tenants
             /\ req'[p].pc \in {"insert", "row"} => req'[p].bl < TenantCap
             /\ req'[p].pc \in {"row", "count"} <=> mu' = p
             /\ req'[p].pc = "count" => Backlog(req[p].tenant)' > 0
  <2>1. CASE p = r
    BY <1>1, <1>2, <1>3, <2>1
  <2>2. CASE p # r
    <3>1. req'[p] = req[p]
      BY <1>2, <2>2
    <3>2. Backlog(req[p].tenant)' = Backlog(req[p].tenant)
      BY <1>1, <3>1 DEF Backlog
    <3> QED  BY <1>1, <3>1, <3>2 DEF RequestInv
  <2> QED  BY <2>1, <2>2
<1>6. (move.next = "backlogged" => Backlog(move.tenant) = 0)'
  BY <1>1 DEF RequestInv, Backlog
<1> QED  BY <1>1, <1>2, <1>4, <1>5, <1>6 DEF RequestInv

\* Every step of the gate, the ingest path and the ledger keeps it.
LEMMA StepRequest ==
    ASSUME RequestInv, [Next]_vars
    PROVE  RequestInv'
<1> USE IdleType, AdmissionAssumption
<1>1. ASSUME NEW r \in Requests, NEW t \in Tenants, Arrive(r, t)
      PROVE  RequestInv'
  <2> DEFINE q == [pc |-> "claimed", tenant |-> t, bl |-> ready[t], within |-> TRUE]
  <2>1. q \in RequestRec /\ q.pc = "claimed" /\ q.tenant = t
    BY DEF RequestInv, RequestRec, PCs
  <2>2. req[r].pc = "idle" /\ req' = [req EXCEPT ![r] = q] /\ UNCHANGED ledger
    BY <1>1 DEF Arrive
  <2> HIDE DEF q
  <2> QED  BY <2>1, <2>2, LedgerStays
<1>2. ASSUME NEW r \in Requests, ReadClaimed(r)
      PROVE  RequestInv'
  <2> DEFINE q == [req[r] EXCEPT !.bl = @ + claimed[req[r].tenant], !.pc = "share"]
  <2>1. req[r] \in RequestRec /\ req[r].tenant \in Tenants /\ req[r].pc = "claimed"
    BY <1>2 DEF ReadClaimed, RequestInv
  <2>2. claimed[req[r].tenant] \in Nat /\ req[r].bl \in Nat
    BY <2>1 DEF RequestInv, RequestRec
  <2>3. q \in RequestRec /\ q.pc = "share" /\ q.tenant = req[r].tenant
    <3> DEFINE b == req[r].bl + claimed[req[r].tenant]
    <3>1. b \in Nat /\ q = [req[r] EXCEPT !.bl = b, !.pc = "share"]
      BY <2>1, <2>2 DEF RequestRec
    <3> HIDE DEF b, q
    <3> QED  BY <2>1, <3>1 DEF RequestRec, PCs
  <2>4. req' = [req EXCEPT ![r] = q] /\ UNCHANGED ledger
    BY <1>2, <2>1 DEF ReadClaimed, RequestInv
  <2> HIDE DEF q
  <2> QED  BY <2>1, <2>3, <2>4, LedgerStays
<1>3. ASSUME NEW r \in Requests, ReadShare(r)
      PROVE  RequestInv'
  <2> DEFINE w == ~FairShareOn \/ req[r].bl <= FairShare(backlogged)
             q == [req[r] EXCEPT !.pc = "total", !.within = w]
  <2>1. req[r] \in RequestRec /\ req[r].tenant \in Tenants /\ req[r].pc = "share"
    BY <1>3 DEF ReadShare, RequestInv
  <2>2. w \in BOOLEAN
    OBVIOUS
  <2>3. req' = [req EXCEPT ![r] = q] /\ UNCHANGED ledger
    BY <1>3 DEF ReadShare, RequestInv
  <2> HIDE DEF w
  <2>4. q \in RequestRec /\ q.pc = "total" /\ q.tenant = req[r].tenant
    BY <2>1, <2>2 DEF RequestRec, PCs
  <2> HIDE DEF q
  <2> QED  BY <2>1, <2>3, <2>4, LedgerStays
<1>4. ASSUME NEW r \in Requests,
             Shed(r) \/ RateLimited(r) \/ BacklogFull(r) \/ IngestFails(r)
      PROVE  RequestInv'
  <2>1. req[r].pc \in {"total", "insert"} /\ req' = [req EXCEPT ![r] = Idle]
        /\ UNCHANGED ledger
    BY <1>4 DEF Shed, RateLimited, BacklogFull, IngestFails, Answered
  <2>2. Idle.pc = "idle"
    BY DEF Idle
  <2> QED  BY <2>1, <2>2, LedgerStays
<1>5. ASSUME NEW r \in Requests, Admitted(r)
      PROVE  RequestInv'
  <2> DEFINE q == [pc |-> "insert", tenant |-> req[r].tenant, bl |-> 0, within |-> TRUE]
  <2>1. req[r] \in RequestRec /\ req[r].tenant \in Tenants /\ req[r].pc = "total"
    BY <1>5 DEF Admitted, RequestInv
  <2>2. q \in RequestRec /\ q.pc = "insert" /\ q.tenant \in Tenants /\ q.bl < TenantCap
    BY <2>1 DEF RequestRec, PCs
  <2>3. req' = [req EXCEPT ![r] = q] /\ UNCHANGED ledger
    BY <1>5 DEF Admitted
  <2> HIDE DEF q
  <2> QED  BY <2>1, <2>2, <2>3, LedgerStays
<1>6. ASSUME NEW r \in Requests, Insert(r)
      PROVE  RequestInv'
  <2>1. mu = Free /\ move = NoMove /\ \A q \in Requests : req[q].pc \notin {"row", "count"}
    BY <1>6 DEF Insert, RequestInv
  <2> QED  BY <1>6, <2>1
           DEF Insert, Goto, RequestInv, RequestRec, PCs, Backlog, Moving, NoMove
<1>7. ASSUME NEW r \in Requests, InsertRow(r)
      PROVE  RequestInv'
  <2>1. mu = r /\ move = NoMove /\ \A q \in Requests : req[q].pc \in {"row", "count"} => q = r
    BY <1>7 DEF InsertRow, RequestInv
  <2> QED  BY <1>7, <2>1
           DEF InsertRow, Goto, RequestInv, RequestRec, PCs, Backlog, Moving, NoMove
<1>8. ASSUME NEW r \in Requests, InsertTotal(r)
      PROVE  RequestInv'
  <2>1. mu = r /\ move = NoMove /\ \A q \in Requests : req[q].pc \in {"row", "count"} => q = r
    BY <1>8 DEF InsertTotal, RequestInv
  <2> QED  BY <1>8, <2>1
           DEF InsertTotal, Answered, Idle, RequestInv, RequestRec, Backlog, Moving, NoMove
<1>9. ASSUME NEW t \in Tenants, NEW k \in Nat \ {0},
             Claim(t, k) \/ Release(t, k) \/ Settle(t, k) \/ Expire(t, k)
      PROVE  RequestInv'
  <2>1. mu = Free /\ mu' = Store /\ req' = req /\ UNCHANGED <<total, backlogged>>
    BY <1>9 DEF Claim, Release, Settle, Expire, Lock
  <2>2. move = NoMove /\ \A r \in Requests : req[r].pc \notin {"row", "count"}
    BY <2>1 DEF RequestInv
  <2>3. move' \in MoveRec /\ move'.next \in {"claimed", "ready", "total"}
        /\ move'.tenant = t /\ move'.n = k
    BY <1>9 DEF Claim, Release, Settle, Expire, Lock, MoveRec
  <2>4. ready' \in [Tenants -> Nat] /\ claimed' \in [Tenants -> 0 .. MaxClaimed]
    BY <1>9 DEF Claim, Release, Settle, Expire, RequestInv
  <2>5. \A u \in Tenants : claimed'[u] + Moving(u)' <= MaxClaimed
    BY <1>9, <2>2, <2>3, <2>4 DEF Claim, Release, Settle, Expire, Lock, RequestInv, Moving, NoMove
  <2> QED  BY <2>1, <2>2, <2>3, <2>4, <2>5 DEF RequestInv
<1>10. ASSUME ClaimMoved \/ ReleaseMoved \/ LeaveTotal \/ LeaveBacklogged
       PROVE  RequestInv'
  <2>1. mu = Store /\ req' = req /\ \A r \in Requests : req[r].pc \notin {"row", "count"}
    BY <1>10 DEF ClaimMoved, ReleaseMoved, LeaveTotal, LeaveBacklogged, RequestInv, NoMove
  <2>2. move.tenant \in Tenants /\ move.n \in Nat \ {0} /\ move \in MoveRec
    BY <2>1 DEF RequestInv, MoveRec
  <2>3. /\ ready' \in [Tenants -> Nat] /\ claimed' \in [Tenants -> 0 .. MaxClaimed]
        /\ backlogged' \in Int /\ total' \in Int
    BY <1>10, <2>2 DEF ClaimMoved, ReleaseMoved, LeaveTotal, LeaveBacklogged, RequestInv,
                       Moving
  <2>4. CASE mu' = Free /\ move' = NoMove
    <3>1. \A u \in Tenants : claimed'[u] <= MaxClaimed /\ Moving(u)' = 0
      BY <2>3, <2>4 DEF Moving, NoMove
    <3> QED  BY <2>1, <2>3, <2>4, <3>1 DEF RequestInv, NoMove
  <2>5. CASE /\ LeaveTotal /\ Backlog(move.tenant) = 0
             /\ move' = [move EXCEPT !.next = "backlogged"] /\ mu' = mu
    <3>1. move' \in MoveRec /\ move'.next = "backlogged" /\ move'.tenant = move.tenant
          /\ move'.n = move.n
      BY <2>2, <2>5 DEF MoveRec
    <3>2. ready' = ready /\ claimed' = claimed
      BY <2>5 DEF LeaveTotal
    <3>3. \A u \in Tenants : Moving(u)' = 0
      BY <3>1 DEF Moving
    <3>4. (Backlog(move.tenant) = 0)'
      BY <2>5, <3>1, <3>2 DEF Backlog
    <3> QED  BY <2>1, <2>2, <2>3, <2>5, <3>1, <3>2, <3>3, <3>4 DEF RequestInv
  <2> QED  BY <1>10, <2>4, <2>5
           DEF ClaimMoved, ReleaseMoved, LeaveTotal, LeaveBacklogged, Unlock, Emptied
<1>11. CASE UNCHANGED vars
  BY <1>11 DEF vars, RequestInv, Backlog, Moving
<1> QED
  BY <1>1, <1>2, <1>3, <1>4, <1>5, <1>6, <1>7, <1>8, <1>9, <1>10, <1>11
     DEF Next, Admit, IngestID, Ledger, RequestInv

LEMMA LoadType ==
    ASSUME RequestInv
    PROVE  /\ load \in [Tenants -> Nat]
           /\ \A t \in Tenants : /\ load[t] = Rows(t) /\ Rows(t) \in Nat
                                 /\ Backlog(t) \in Nat /\ Moving(t) \in Nat
                                 /\ Rows(t) = Backlog(t) + Moving(t)
<1>1. ASSUME NEW t \in Tenants
      PROVE  Backlog(t) \in Nat /\ Moving(t) \in Nat /\ Rows(t) = Backlog(t) + Moving(t)
  BY AdmissionAssumption DEF RequestInv, Backlog, Moving, MoveRec, Rows
<1> QED  BY <1>1 DEF load

\* Outside the two halves of a claim or a release the counters have all rows.
LEMMA RowsCounted ==
    ASSUME RequestInv, move.next \notin {"claimed", "ready"}
    PROVE  \A t \in Tenants : Rows(t) = Backlog(t)
  BY LoadType DEF Moving

LEMMA InitGauge == Init => GaugeInv
<1> SUFFICES ASSUME Init PROVE GaugeInv
  OBVIOUS
<1>1. \A t \in Tenants : load[t] = 0 /\ ~Held(t)
  BY IdleType DEF Init, load, Rows, Moving, NoMove, Backlog, Held
<1>2. CellsOf(load) = {} /\ Counted = {}
  BY <1>1 DEF CellsOf, Counted
<1>3. Leaving = 0 /\ Arriving = 0 /\ total = 0 /\ backlogged = 0
  BY IdleType DEF Init, Leaving, Arriving, NoMove
<1> QED  BY <1>2, <1>3, FS_EmptySet DEF GaugeInv

\* The steps that change nothing the gauges count.
Still ==
    /\ \A t \in Tenants : Rows(t)' = Rows(t) /\ (Held(t)' <=> Held(t))
    /\ UNCHANGED <<backlogged, total, Leaving, Arriving>>

\* A request that leaves the ledger alone, before it inserts.
LEMMA RequestStill ==
    ASSUME RequestInv, NEW r \in Requests, UNCHANGED ledger,
           req[r].pc \notin {"row", "count"}, \A q \in Requests \ {r} : req'[q] = req[q]
    PROVE  Still
<1>1. mu # r
  BY DEF RequestInv
<1>2. mu' = mu /\ move' = move /\ UNCHANGED <<ready, claimed, backlogged, total>>
  BY DEF ledger
<1>3. mu \in Requests => req'[mu] = req[mu]
  BY <1>1
<1> QED  BY <1>2, <1>3 DEF Still, Rows, Moving, Backlog, Held, Leaving, Arriving

LEMMA StillSteps ==
    ASSUME RequestInv, [Next]_vars
    PROVE  \/ Still
           \/ \E r \in Requests : Insert(r) \/ InsertRow(r) \/ InsertTotal(r)
           \/ \E t \in Tenants, k \in Nat \ {0} : Settle(t, k) \/ Expire(t, k)
           \/ LeaveTotal \/ LeaveBacklogged
<1> USE AdmissionAssumption, IdleType
<1>1. ASSUME NEW r \in Requests, Admit(r) \/ IngestFails(r)
      PROVE  Still
  <2>1. UNCHANGED ledger /\ req[r].pc \notin {"row", "count"}
    BY <1>1 DEF Admit, Arrive, ReadClaimed, ReadShare, Shed, RateLimited, BacklogFull,
                Admitted, IngestFails
  <2>2. \A q \in Requests \ {r} : req'[q] = req[q]
    BY <1>1 DEF Admit, Arrive, ReadClaimed, ReadShare, Shed, RateLimited, BacklogFull,
                Admitted, IngestFails, Answered, RequestInv
  <2> QED  BY <2>1, <2>2, RequestStill
<1>2. ASSUME NEW t \in Tenants, NEW k \in Nat, Claim(t, k) \/ Release(t, k)
      PROVE  Still
  <2>1. /\ move = NoMove /\ move'.next \in {"claimed", "ready"}
        /\ move'.tenant = t /\ move'.n = k /\ mu \notin Requests /\ mu' \notin Requests
        /\ UNCHANGED <<backlogged, total>>
    BY <1>2 DEF Claim, Release, Lock, RequestInv
  <2>2. \A u \in Tenants : Rows(u)' = Rows(u)
    BY <1>2, <2>1 DEF Claim, Release, Lock, Rows, Moving, Backlog, RequestInv, NoMove
  <2>3. \A u \in Tenants : ~Held(u) /\ ~Held(u)'
    BY <2>1 DEF Held, NoMove
  <2>4. Leaving = 0 /\ Leaving' = 0 /\ Arriving = 0 /\ Arriving' = 0
    BY <2>1 DEF Leaving, Arriving, NoMove
  <2> QED  BY <2>1, <2>2, <2>3, <2>4 DEF Still
<1>3. ASSUME ClaimMoved \/ ReleaseMoved
      PROVE  Still
  <2>1. /\ move' = NoMove /\ move.next \in {"claimed", "ready"}
        /\ mu = Store /\ mu' = Free /\ move.tenant \in Tenants /\ move.n \in Nat
        /\ UNCHANGED <<backlogged, total>>
    BY <1>3 DEF ClaimMoved, ReleaseMoved, Unlock, RequestInv, NoMove, MoveRec
  <2>2. \A u \in Tenants : Rows(u)' = Rows(u)
    BY <1>3, <2>1 DEF ClaimMoved, ReleaseMoved, Rows, Moving, Backlog, RequestInv, NoMove
  <2>3. \A u \in Tenants : ~Held(u) /\ ~Held(u)'
    BY <2>1 DEF Held, NoMove
  <2>4. Leaving = 0 /\ Leaving' = 0 /\ Arriving = 0 /\ Arriving' = 0
    BY <2>1 DEF Leaving, Arriving, NoMove
  <2> QED  BY <2>1, <2>2, <2>3, <2>4 DEF Still
<1>4. CASE UNCHANGED vars
  BY <1>4 DEF vars, Still, Rows, Moving, Backlog, Held, Leaving, Arriving
<1> QED
  BY <1>1, <1>2, <1>3, <1>4 DEF Next, IngestID, Ledger, RequestInv

LEMMA CountedType ==
    /\ IsFiniteSet(Counted) /\ Cardinality(Counted) \in Nat
    /\ Cardinality(Counted) <= Cardinality(Tenants)
  BY SubsetCount, AdmissionAssumption DEF Counted

\* The gauges follow the rows through every step of every request and worker.
LEMMA StepGauge ==
    ASSUME RequestInv, RequestInv', GaugeInv, [Next]_vars
    PROVE  GaugeInv'
<1> USE IdleType, LoadType
<1>1. CASE Still
  <2>1. load' = load
    BY <1>1 DEF Still, load
  <2>2. CellsOf(load)' = CellsOf(load) /\ Counted' = Counted
    BY <1>1, <2>1 DEF CellsOf, Counted, Still
  <2> QED  BY <1>1, <2>2 DEF Still, GaugeInv
<1>2. ASSUME NEW r \in Requests, Insert(r)
      PROVE  GaugeInv'
  <2> DEFINE t == req[r].tenant
  <2>1. /\ t \in Tenants /\ mu = Free /\ mu' = r /\ move = NoMove /\ move' = NoMove
        /\ req'[r].pc = "row" /\ req'[r].tenant = t /\ total' = total
    BY <1>2 DEF Insert, Goto, RequestInv
  <2>2. \A u \in Tenants : Rows(u)' = Rows(u) /\ Rows(u) = Backlog(u)
    BY <1>2, <2>1, RowsCounted DEF Insert, Rows, Moving, Backlog, NoMove
  <2>3. load' = load
    BY <2>2 DEF load
  <2>4. CellsOf(load)' = CellsOf(load)
    BY <2>3 DEF CellsOf
  <2>5. Leaving = 0 /\ Leaving' = 0 /\ Arriving = 0 /\ Arriving' = 0
    BY <2>1 DEF Leaving, Arriving, NoMove
  <2>6. \A u \in Tenants : ~Held(u) /\ (Held(u)' <=> u = t)
    BY <2>1 DEF Held, NoMove
  <2>7. Counted' = Counted \cup {t} /\ (t \in Counted <=> Backlog(t) # 0)
    BY <2>1, <2>2, <2>3, <2>6 DEF Counted
  <2>8. backlogged' = Cardinality(Counted')
    BY <1>2, <2>7, CountedType, FS_AddElement DEF Insert, GaugeInv
  <2> QED  BY <2>1, <2>4, <2>5, <2>8 DEF GaugeInv
<1>3. ASSUME NEW r \in Requests, InsertRow(r)
      PROVE  GaugeInv'
  <2> DEFINE t == req[r].tenant
  <2>1. /\ t \in Tenants /\ mu = r /\ mu' = r /\ move = NoMove /\ move' = NoMove
        /\ req[r].pc = "row" /\ req'[r].pc = "count"
        /\ total' = total /\ backlogged' = backlogged
    BY <1>3 DEF InsertRow, Goto, RequestInv
  <2>2. \A u \in Tenants : Rows(u)' = IF u = t THEN Rows(u) + 1 ELSE Rows(u)
    BY <1>3, <2>1 DEF InsertRow, RequestInv, Rows, Moving, Backlog, NoMove
  <2>3. load' = [load EXCEPT ![t] = @ + 1]
    BY <2>1, <2>2 DEF load
  <2>4. /\ IsFiniteSet(CellsOf(load'))
        /\ Cardinality(CellsOf(load')) = Cardinality(CellsOf(load)) + 1
        /\ Cardinality(CellsOf(load)) \in Nat
    BY <2>1, <2>3, CellsGrow DEF GaugeInv
  <2>5. CellsOf(load)' = CellsOf(load')
    BY DEF CellsOf
  <2>6. Leaving = 0 /\ Leaving' = 0 /\ Arriving = 0 /\ Arriving' = 1
    BY <2>1 DEF Leaving, Arriving, NoMove
  <2>7. \A u \in Tenants : (Held(u) <=> u = t) /\ ~Held(u)'
    BY <2>1 DEF Held, NoMove
  <2>8. Counted' = Counted
    BY <2>1, <2>2, <2>3, <2>7 DEF Counted
  <2> QED  BY <2>1, <2>4, <2>5, <2>6, <2>8 DEF GaugeInv
<1>4. ASSUME NEW r \in Requests, InsertTotal(r)
      PROVE  GaugeInv'
  <2>1. /\ mu = r /\ mu' = Free /\ move = NoMove /\ move' = NoMove
        /\ req[r].pc = "count" /\ total' = total + 1 /\ backlogged' = backlogged
    BY <1>4 DEF InsertTotal, RequestInv
  <2>2. \A u \in Tenants : Rows(u)' = Rows(u)
    BY <1>4, <2>1 DEF InsertTotal, Rows, Moving, Backlog
  <2>3. load' = load
    BY <2>2 DEF load
  <2>4. Leaving = 0 /\ Leaving' = 0 /\ Arriving = 1 /\ Arriving' = 0
    BY <2>1 DEF Leaving, Arriving, NoMove
  <2>5. \A u \in Tenants : ~Held(u) /\ ~Held(u)'
    BY <2>1 DEF Held, NoMove
  <2>6. CellsOf(load)' = CellsOf(load) /\ Counted' = Counted
    BY <2>3, <2>5 DEF CellsOf, Counted
  <2>7. Cardinality(CellsOf(load)) \in Nat
    BY FS_CardinalityType DEF GaugeInv
  <2> QED  BY <2>1, <2>4, <2>6, <2>7 DEF GaugeInv
<1>5. ASSUME NEW t \in Tenants, NEW k \in Nat \ {0}, Settle(t, k) \/ Expire(t, k)
      PROVE  GaugeInv'
  <2>1. /\ mu = Free /\ mu' = Store /\ move = NoMove
        /\ move'.next = "total" /\ move'.tenant = t /\ move'.n = k
        /\ total' = total /\ backlogged' = backlogged
    BY <1>5 DEF Settle, Expire, Lock, RequestInv
  <2>2. /\ \A u \in Tenants : Rows(u)' = IF u = t THEN Rows(u) - k ELSE Rows(u)
        /\ k <= Rows(t)
    BY <1>5, <2>1, AdmissionAssumption
       DEF Settle, Expire, RequestInv, Rows, Moving, Backlog, NoMove
  <2>3. load' = [load EXCEPT ![t] = @ - k] /\ k <= load[t]
    BY <2>2 DEF load
  <2>4. /\ IsFiniteSet(CellsOf(load'))
        /\ Cardinality(CellsOf(load')) = Cardinality(CellsOf(load)) - k
    BY <2>3, CellsShrink DEF GaugeInv
  <2>5. CellsOf(load)' = CellsOf(load') /\ Cardinality(CellsOf(load)) \in Nat
    BY FS_CardinalityType DEF CellsOf, GaugeInv
  <2>6. Leaving = 0 /\ Leaving' = k /\ Arriving = 0 /\ Arriving' = 0
    BY <2>1 DEF Leaving, Arriving, NoMove
  <2>7. \A u \in Tenants : ~Held(u) /\ (Held(u)' <=> u = t)
    BY <2>1 DEF Held, NoMove
  <2>8. Counted' = Counted
    BY <2>2, <2>3, <2>7 DEF Counted
  <2> QED  BY <2>1, <2>4, <2>5, <2>6, <2>8 DEF GaugeInv
<1>6. ASSUME LeaveTotal
      PROVE  GaugeInv'
  <2>1. /\ mu = Store /\ mu' \in {Free, Store} /\ move.tenant \in Tenants /\ move.n \in Nat
        /\ total' = total - move.n /\ backlogged' = backlogged
        /\ UNCHANGED <<ready, claimed>> /\ move.next = "total"
    BY <1>6 DEF LeaveTotal, Unlock, RequestInv, NoMove, MoveRec
  <2>2. \/ move' = NoMove /\ Backlog(move.tenant) # 0
        \/ move'.next = "backlogged" /\ move'.tenant = move.tenant /\ Backlog(move.tenant) = 0
    BY <1>6 DEF LeaveTotal, Unlock, Emptied, RequestInv, MoveRec
  <2>3. \A u \in Tenants : Rows(u)' = Rows(u) /\ Rows(u) = Backlog(u)
    <3>1. \A u \in Tenants : Moving(u) = 0 /\ Moving(u)' = 0
      BY <2>1, <2>2 DEF Moving, NoMove
    <3>2. \A u \in Tenants : Backlog(u)' = Backlog(u) /\ Backlog(u) \in Nat
      BY <2>1 DEF Backlog
    <3> QED  BY <3>1, <3>2 DEF Rows
  <2>4. load' = load
    BY <2>3 DEF load
  <2>5. Leaving = move.n /\ Leaving' = 0 /\ Arriving = 0 /\ Arriving' = 0
    BY <2>1, <2>2 DEF Leaving, Arriving, NoMove
  <2>6. \A u \in Tenants : /\ Held(u) <=> u = move.tenant
                           /\ Held(u)' <=> u = move.tenant /\ Backlog(u) = 0
    BY <2>1, <2>2 DEF Held, NoMove
  <2>7. CellsOf(load)' = CellsOf(load) /\ Counted' = Counted
    BY <2>3, <2>4, <2>6 DEF CellsOf, Counted
  <2>8. Cardinality(CellsOf(load)) \in Nat
    BY FS_CardinalityType DEF GaugeInv
  <2> QED  BY <2>1, <2>5, <2>7, <2>8 DEF GaugeInv
<1>7. ASSUME LeaveBacklogged
      PROVE  GaugeInv'
  <2> DEFINE t == move.tenant
  <2>1. /\ mu = Store /\ mu' = Free /\ move' = NoMove /\ t \in Tenants
        /\ total' = total /\ backlogged' = backlogged - 1
        /\ UNCHANGED <<ready, claimed>> /\ move.next = "backlogged" /\ Backlog(t) = 0
    BY <1>7 DEF LeaveBacklogged, Unlock, RequestInv, NoMove
  <2>2. \A u \in Tenants : Rows(u)' = Rows(u) /\ Rows(u) = Backlog(u)
    BY <2>1 DEF Rows, Moving, Backlog, NoMove, RequestInv
  <2>3. load' = load
    BY <2>2 DEF load
  <2>4. Leaving = 0 /\ Leaving' = 0 /\ Arriving = 0 /\ Arriving' = 0
    BY <2>1 DEF Leaving, Arriving, NoMove
  <2>5. \A u \in Tenants : (Held(u) <=> u = t) /\ ~Held(u)'
    BY <2>1 DEF Held, NoMove
  <2>6. CellsOf(load)' = CellsOf(load) /\ Counted' = Counted \ {t} /\ t \in Counted
    BY <2>1, <2>2, <2>3, <2>5 DEF CellsOf, Counted
  <2>7. backlogged' = Cardinality(Counted')
    BY <2>1, <2>6, CountedType, FS_RemoveElement DEF GaugeInv
  <2> QED  BY <2>1, <2>4, <2>6, <2>7 DEF GaugeInv
<1> QED  BY <1>1, <1>2, <1>3, <1>4, <1>5, <1>6, <1>7, StillSteps

-----------------------------------------------------------------------------
(* The two bounds.                                                         *)

LEMMA OfCount ==
    ASSUME NEW L, L \subseteq Requests, NEW t
    PROVE  /\ IsFiniteSet(Of(L, t)) /\ Cardinality(Of(L, t)) \in Nat
           /\ Cardinality(Requests) \in Nat
           /\ Cardinality(Of(L, t)) <= Cardinality(Requests)
<1>1. Of(L, t) \subseteq Requests
  BY DEF Of
<1> QED  BY <1>1, SubsetCount, AdmissionAssumption

\* What the weights are made of, before and after a step.
LEMMA WeightTypes ==
    ASSUME RequestInv, NEW t \in Tenants
    PROVE  /\ Rows(t) \in Nat
           /\ IsFiniteSet(Of(UnderTenantCap, t))
           /\ Cardinality(Of(UnderTenantCap, t)) \in 0 .. Cardinality(Requests)
           /\ \A j : /\ IsFiniteSet(Of(UnderShare(j), t))
                     /\ Cardinality(Of(UnderShare(j), t)) \in 0 .. Cardinality(Requests)
           /\ Cardinality(Requests) \in Nat /\ Slack = Cardinality(Requests) + MaxClaimed
           /\ MaxClaimed \in Nat
<1>1. UnderTenantCap \subseteq Requests /\ \A j : UnderShare(j) \subseteq Requests
  BY DEF UnderTenantCap, UnderShare, Deciding
<1>2. /\ IsFiniteSet(Of(UnderTenantCap, t))
      /\ Cardinality(Of(UnderTenantCap, t)) \in 0 .. Cardinality(Requests)
      /\ Cardinality(Requests) \in Nat
  BY <1>1, OfCount
<1>3. ASSUME NEW j
      PROVE  /\ IsFiniteSet(Of(UnderShare(j), t))
             /\ Cardinality(Of(UnderShare(j), t)) \in 0 .. Cardinality(Requests)
  BY <1>1, OfCount
<1> QED  BY <1>2, <1>3, LoadType, AdmissionAssumption DEF Slack

\* The same counts after a step.
LEMMA WeightTypesNext ==
    ASSUME RequestInv', NEW t \in Tenants
    PROVE  /\ Rows(t)' \in Nat
           /\ Cardinality(Of(UnderTenantCap, t)') \in 0 .. Cardinality(Requests)
           /\ \A j : Cardinality(Of(UnderShare(j), t)') \in 0 .. Cardinality(Requests)
<1>1. Of(UnderTenantCap, t)' \subseteq Requests /\ \A j : Of(UnderShare(j), t)' \subseteq Requests
  BY DEF Of, UnderTenantCap, UnderShare, Deciding
<1>2. ASSUME NEW A, A \subseteq Requests
      PROVE  Cardinality(A) \in 0 .. Cardinality(Requests)
  BY <1>2, SubsetCount, AdmissionAssumption
<1>3. Backlog(t)' \in Nat /\ Moving(t)' \in Nat
  BY AdmissionAssumption DEF RequestInv, Backlog, Moving, MoveRec
<1>4. Rows(t)' \in Nat
  BY <1>3 DEF Rows
<1> QED  BY <1>1, <1>2, <1>4

\* Reads and answers only take requests out of the sets, and workers only rows
\* out of the backlog.
Lighter(t) ==
    /\ Rows(t)' <= Rows(t)
    /\ Of(UnderTenantCap, t)' \subseteq Of(UnderTenantCap, t)

LighterShare(j, t) ==
    /\ Rows(t)' <= Rows(t)
    /\ Of(UnderShare(j), t)' \subseteq Of(UnderShare(j), t)

LEMMA LighterWeight ==
    ASSUME RequestInv, RequestInv', NEW t \in Tenants
    PROVE  /\ Lighter(t) => CapWeight(t)' <= CapWeight(t)
           /\ \A j : LighterShare(j, t) => ShareWeight(j, t)' <= ShareWeight(j, t)
<1>1. ASSUME NEW A, NEW B, IsFiniteSet(B), A \subseteq B
      PROVE  Cardinality(A) <= Cardinality(B) /\ Cardinality(A) \in Nat
             /\ Cardinality(B) \in Nat
  BY <1>1, SubsetCount
<1>2. Rows(t) \in Nat /\ Rows(t)' \in Nat
  BY WeightTypes, WeightTypesNext
<1>3. Lighter(t) => CapWeight(t)' <= CapWeight(t)
  <2> SUFFICES ASSUME Lighter(t) PROVE CapWeight(t)' <= CapWeight(t)
    OBVIOUS
  <2>1. /\ Cardinality(Of(UnderTenantCap, t)') <= Cardinality(Of(UnderTenantCap, t))
        /\ Cardinality(Of(UnderTenantCap, t)') \in Nat
        /\ Cardinality(Of(UnderTenantCap, t)) \in Nat
    BY <1>1, WeightTypes DEF Lighter
  <2> QED  BY <1>2, <2>1 DEF CapWeight, Lighter
<1>4. ASSUME NEW j, LighterShare(j, t)
      PROVE  ShareWeight(j, t)' <= ShareWeight(j, t)
  <2>1. /\ Cardinality(Of(UnderShare(j), t)') <= Cardinality(Of(UnderShare(j), t))
        /\ Cardinality(Of(UnderShare(j), t)') \in Nat
        /\ Cardinality(Of(UnderShare(j), t)) \in Nat
    BY <1>1, <1>4, WeightTypes DEF LighterShare
  <2> QED  BY <1>2, <1>4, <2>1 DEF ShareWeight, LighterShare
<1> QED  BY <1>3, <1>4

\* The steps that are none of the gate's decisions and insert nothing.
Quiet ==
    \/ \E r \in Requests :
        \/ ReadClaimed(r) \/ Shed(r) \/ RateLimited(r) \/ BacklogFull(r)
        \/ IngestFails(r) \/ Insert(r) \/ InsertTotal(r)
    \/ \E t \in Tenants, k \in Nat :
        Claim(t, k) \/ Release(t, k) \/ Settle(t, k) \/ Expire(t, k)
    \/ ClaimMoved \/ ReleaseMoved \/ LeaveTotal \/ LeaveBacklogged
    \/ UNCHANGED vars

LEMMA StepCases ==
    ASSUME RequestInv, [Next]_vars
    PROVE  \/ Quiet
           \/ \E r \in Requests, t \in Tenants : Arrive(r, t)
           \/ \E r \in Requests : ReadShare(r) \/ Admitted(r) \/ InsertRow(r)
  BY AdmissionAssumption DEF Next, Admit, IngestID, Ledger, Quiet, RequestInv

\* A request that only moves on, or leaves, joins neither set.
Fades(r) ==
    /\ \A q \in Requests \ {r} : req'[q] = req[q]
    /\ \/ req'[r].pc \in {"idle", "count"}
       \/ /\ req[r].pc \notin {"idle", "count"}
          /\ req'[r].tenant = req[r].tenant
          /\ req'[r].bl >= req[r].bl \/ (PassedShare(r) /\ req[r].bl < TenantCap)
          /\ PassedShare(r)' => PassedShare(r)

LEMMA FadesShrinks ==
    ASSUME RequestInv, RequestInv', NEW r \in Requests, Fades(r),
           NEW t \in Tenants, Rows(t)' <= Rows(t)
    PROVE  Lighter(t) /\ \A j \in Nat \ {0} : LighterShare(j, t)
<1>1. \A q \in Requests : req[q].bl \in Nat /\ req'[q].bl \in Nat
  BY DEF RequestInv, RequestRec
<1>2. \A q \in Requests \ {r} : PassedShare(q)' <=> PassedShare(q)
  BY DEF Fades, PassedShare
<1>3. Of(UnderTenantCap, t)' \subseteq Of(UnderTenantCap, t)
  BY <1>1, AdmissionAssumption DEF Fades, Of, UnderTenantCap, Deciding
<1>4. ASSUME NEW j \in Nat \ {0}
      PROVE  Of(UnderShare(j), t)' \subseteq Of(UnderShare(j), t)
  <2> DEFINE G == GlobalCap \div j
  <2>1. G \in Nat
    BY AdmissionAssumption, ShareRounding
  <2>2. ASSUME NEW q \in Of(UnderShare(j), t)'
        PROVE  q \in Of(UnderShare(j), t)
    <3>1. /\ q \in Requests /\ req'[q].pc \notin {"idle", "count"} /\ req'[q].tenant = t
          /\ req'[q].bl <= G \/ PassedShare(q)'
      BY <2>2 DEF Of, UnderShare, Deciding
    <3>2. CASE q = r
      BY <1>1, <2>1, <3>1, <3>2 DEF Fades, Of, UnderShare, Deciding
    <3>3. CASE q # r
      BY <1>1, <1>2, <3>1, <3>3 DEF Fades, Of, UnderShare, Deciding
    <3> QED  BY <3>2, <3>3
  <2> QED  BY <2>2
<1> QED  BY <1>3, <1>4 DEF Lighter, LighterShare

LEMMA QuietLighter ==
    ASSUME RequestInv, RequestInv', Quiet, NEW t \in Tenants
    PROVE  Lighter(t) /\ \A j \in Nat \ {0} : LighterShare(j, t)
<1>1. Rows(t) \in Nat /\ Rows(t)' \in Nat
  BY LoadType, WeightTypesNext
<1>2. ASSUME NEW r \in Requests,
             \/ ReadClaimed(r) \/ Shed(r) \/ RateLimited(r) \/ BacklogFull(r)
             \/ IngestFails(r) \/ Insert(r) \/ InsertTotal(r)
      PROVE  Lighter(t) /\ \A j \in Nat \ {0} : LighterShare(j, t)
  <2>1. Rows(t)' = Rows(t)
    BY <1>2 DEF ReadClaimed, Shed, RateLimited, BacklogFull, IngestFails, Insert, InsertTotal,
                ledger, Backlog, Moving, Rows
  <2>2. CASE Answered(r)
    BY <1>1, <2>1, <2>2, FadesShrinks DEF Answered, Fades, Idle, RequestInv
  <2>3. CASE ReadClaimed(r)
    <3>1. req[r].tenant \in Tenants /\ claimed[req[r].tenant] \in Nat /\ req[r].bl \in Nat
      BY <2>3, AdmissionAssumption DEF ReadClaimed, RequestInv, RequestRec
    <3>2. Fades(r)
      BY <2>3, <3>1 DEF ReadClaimed, Fades, PassedShare, RequestInv, RequestRec
    <3> QED  BY <1>1, <2>1, <3>2, FadesShrinks
  <2>4. CASE req[r].pc = "insert" /\ Goto(r, "row")
    <3>1. Fades(r)
      BY <2>4 DEF Goto, Fades, PassedShare, RequestInv, RequestRec
    <3> QED  BY <1>1, <2>1, <3>1, FadesShrinks
  <2> QED
    BY <1>2, <2>2, <2>3, <2>4
       DEF Shed, RateLimited, BacklogFull, IngestFails, Insert, InsertTotal
<1>3. ASSUME req' = req, Rows(t)' <= Rows(t)
      PROVE  Lighter(t) /\ \A j \in Nat \ {0} : LighterShare(j, t)
  BY <1>3 DEF Lighter, LighterShare, Of, UnderTenantCap, UnderShare, Deciding, PassedShare
<1>4. ASSUME NEW u \in Tenants, NEW k \in Nat,
             Claim(u, k) \/ Release(u, k) \/ Settle(u, k) \/ Expire(u, k)
      PROVE  req' = req /\ Rows(t)' <= Rows(t)
  <2>1. /\ move = NoMove /\ req' = req /\ move'.tenant = u /\ move'.n = k
        /\ move'.next \in {"claimed", "ready", "total"}
    BY <1>4, IdleType DEF Claim, Release, Settle, Expire, Lock, RequestInv
  <2>2. Rows(t)' <= Rows(t)
    BY <1>4, <2>1, AdmissionAssumption
       DEF Claim, Release, Settle, Expire, Lock, RequestInv, Backlog, Moving, Rows, NoMove
  <2> QED  BY <2>1, <2>2
<1>5. ASSUME ClaimMoved \/ ReleaseMoved \/ LeaveTotal \/ LeaveBacklogged
      PROVE  req' = req /\ Rows(t)' <= Rows(t)
  <2>1. /\ req' = req /\ move.tenant \in Tenants /\ move.n \in Nat
        /\ move'.next \in {"none", "backlogged"}
    BY <1>5, IdleType DEF ClaimMoved, ReleaseMoved, LeaveTotal, LeaveBacklogged, Unlock,
                          RequestInv, NoMove, MoveRec
  <2>2. CASE ClaimMoved \/ ReleaseMoved
    BY <1>1, <2>1, <2>2
       DEF ClaimMoved, ReleaseMoved, Unlock, RequestInv, Backlog, Moving, Rows, NoMove
  <2>3. CASE LeaveTotal \/ LeaveBacklogged
    <3>1. Backlog(t)' = Backlog(t) /\ Moving(t)' = 0
      BY <2>1, <2>3 DEF LeaveTotal, LeaveBacklogged, Backlog, Moving
    <3> QED  BY <2>1, <3>1, LoadType DEF Rows
  <2> QED  BY <1>5, <2>2, <2>3
<1>6. CASE UNCHANGED vars
  BY <1>1, <1>3, <1>6 DEF vars, Backlog, Moving, Rows
<1> QED  BY <1>2, <1>3, <1>4, <1>5, <1>6 DEF Quiet

\* A request that arrives joins a set only if it read few ready rows: then its
\* tenant has at most MaxClaimed rows more, and no more requests than there are.
LEMMA ArriveWeight ==
    ASSUME RequestInv, RequestInv', NEW r \in Requests, NEW t \in Tenants, Arrive(r, t)
    PROVE  /\ \A u \in Tenants : \/ CapWeight(u)' <= TenantCap - 1 + Slack
                                 \/ CapWeight(u)' <= CapWeight(u)
           /\ \A u \in Tenants, j \in Nat \ {0} :
                \/ ShareWeight(j, u)' <= GlobalCap \div j + Slack
                \/ ShareWeight(j, u)' <= ShareWeight(j, u)
<1>1. \A u \in Tenants : /\ Rows(u)' = Rows(u) /\ Rows(u) \in Nat
                         /\ ready[u] \in Nat /\ Rows(u) <= ready[u] + MaxClaimed
  <2>1. \A u \in Tenants : Rows(u)' = Rows(u)
    BY DEF Arrive, ledger, Backlog, Moving, Rows
  <2>2. \A u \in Tenants : /\ ready[u] \in Nat /\ claimed[u] \in Nat
                           /\ claimed[u] + Moving(u) <= MaxClaimed
    BY AdmissionAssumption DEF RequestInv
  <2> QED  BY <2>1, <2>2, LoadType, AdmissionAssumption DEF Backlog
<1>2. /\ \A q \in Requests \ {r} : req'[q] = req[q]
      /\ req'[r].tenant = t /\ req'[r].bl = ready[t] /\ req'[r].pc = "claimed"
  BY DEF Arrive, RequestInv
<1>3. \A u \in Tenants : Of(UnderTenantCap, u)' \subseteq Of(UnderTenantCap, u)
                         \/ (u = t /\ ready[t] < TenantCap)
  BY <1>2 DEF Of, UnderTenantCap, Deciding
<1>4. ASSUME NEW u \in Tenants, NEW j \in Nat \ {0}
      PROVE  Of(UnderShare(j), u)' \subseteq Of(UnderShare(j), u)
             \/ (u = t /\ ready[t] <= GlobalCap \div j)
  BY <1>2 DEF Of, UnderShare, Deciding, PassedShare
<1>5. \A u \in Tenants : \/ CapWeight(u)' <= TenantCap - 1 + Slack
                         \/ CapWeight(u)' <= CapWeight(u)
  <2> TAKE u \in Tenants
  <2>1. CASE Of(UnderTenantCap, u)' \subseteq Of(UnderTenantCap, u)
    BY <1>1, <2>1, LighterWeight DEF Lighter
  <2>2. CASE u = t /\ ready[t] < TenantCap
    BY <1>1, <2>2, WeightTypes, WeightTypesNext, AdmissionAssumption DEF CapWeight
  <2> QED  BY <1>3, <2>1, <2>2
<1>6. ASSUME NEW u \in Tenants, NEW j \in Nat \ {0}
      PROVE  \/ ShareWeight(j, u)' <= GlobalCap \div j + Slack
             \/ ShareWeight(j, u)' <= ShareWeight(j, u)
  <2>1. CASE Of(UnderShare(j), u)' \subseteq Of(UnderShare(j), u)
    BY <1>1, <2>1, LighterWeight DEF LighterShare
  <2>2. CASE u = t /\ ready[t] <= GlobalCap \div j
    <3> DEFINE G == GlobalCap \div j
    <3>1. G \in Nat
      BY AdmissionAssumption, ShareRounding
    <3> HIDE DEF G
    <3>2. ready[t] <= G
      BY <2>2 DEF G
    <3>3. ShareWeight(j, u)' <= G + Slack
      BY <1>1, <2>2, <3>1, <3>2, WeightTypes, WeightTypesNext DEF ShareWeight
    <3> QED  BY <3>3 DEF G
  <2> QED  BY <1>4, <2>1, <2>2
<1> QED  BY <1>5, <1>6

\* An insert turns a request of the set into a row: the weight stays.
LEMMA InsertWeight ==
    ASSUME RequestInv, RequestInv', NEW r \in Requests, InsertRow(r), NEW u \in Tenants
    PROVE  /\ CapWeight(u)' <= CapWeight(u)
           /\ \A j \in Nat \ {0} : ShareWeight(j, u)' <= ShareWeight(j, u)
<1> DEFINE t == req[r].tenant
<1>1. /\ t \in Tenants /\ req[r].pc = "row"
      /\ \A q \in Requests \ {r} : req'[q] = req[q]
      /\ req'[r].pc = "count"
  BY DEF InsertRow, Goto, RequestInv
<1>2. Rows(u)' = IF u = t THEN Rows(u) + 1 ELSE Rows(u)
  <2>1. move = NoMove /\ move' = NoMove
    BY <1>1, IdleType DEF InsertRow, RequestInv
  <2> QED  BY <1>1, <2>1, AdmissionAssumption
           DEF InsertRow, RequestInv, Backlog, Moving, Rows, NoMove
<1>3. /\ Of(UnderTenantCap, u)' = Of(UnderTenantCap, u) \ {r}
      /\ u = t => r \in Of(UnderTenantCap, u)
  BY <1>1 DEF RequestInv, Of, UnderTenantCap, Deciding
<1>4. ASSUME NEW j \in Nat \ {0}
      PROVE  /\ Of(UnderShare(j), u)' = Of(UnderShare(j), u) \ {r}
             /\ u = t => r \in Of(UnderShare(j), u)
  BY <1>1 DEF Of, UnderShare, Deciding, PassedShare
<1>5. CapWeight(u)' <= CapWeight(u)
  <2>1. Cardinality(Of(UnderTenantCap, u)') =
            IF r \in Of(UnderTenantCap, u) THEN Cardinality(Of(UnderTenantCap, u)) - 1
                                           ELSE Cardinality(Of(UnderTenantCap, u))
    BY <1>3, WeightTypes, FS_RemoveElement
  <2> QED  BY <1>2, <1>3, <2>1, WeightTypes DEF CapWeight
<1>6. ASSUME NEW j \in Nat \ {0}
      PROVE  ShareWeight(j, u)' <= ShareWeight(j, u)
  <2>1. Cardinality(Of(UnderShare(j), u)') =
            IF r \in Of(UnderShare(j), u) THEN Cardinality(Of(UnderShare(j), u)) - 1
                                          ELSE Cardinality(Of(UnderShare(j), u))
    BY <1>4, WeightTypes, FS_RemoveElement
  <2> QED  BY <1>2, <1>4, <2>1, WeightTypes DEF ShareWeight
<1> QED  BY <1>5, <1>6

\* The share test does not touch the set of the tenant's cap.
LEMMA ReadWeight ==
    ASSUME RequestInv, RequestInv', NEW r \in Requests, ReadShare(r) \/ Admitted(r),
           NEW t \in Tenants
    PROVE  Lighter(t)
<1>1. Rows(t)' <= Rows(t)
  BY LoadType DEF ReadShare, Admitted, ledger, Backlog, Moving, Rows
<1>2. /\ \A q \in Requests \ {r} : req'[q] = req[q]
      /\ req'[r].tenant = req[r].tenant
      /\ req'[r].bl = req[r].bl \/ req[r].bl < TenantCap
      /\ req[r].pc \notin {"idle", "count"}
  <2>1. CASE ReadShare(r)
    BY <2>1 DEF ReadShare, RequestInv, RequestRec
  <2>2. CASE Admitted(r)
    BY <2>2 DEF Admitted, UnderCap, RequestInv, RequestRec
  <2> QED  BY <2>1, <2>2
<1>3. Of(UnderTenantCap, t)' \subseteq Of(UnderTenantCap, t)
  BY <1>2 DEF Of, UnderTenantCap, Deciding
<1> QED  BY <1>1, <1>3 DEF Lighter

\* The cap of a tenant: every step keeps its weight within the bound.
LEMMA StepCap ==
    ASSUME RequestInv, RequestInv', CapInv, [Next]_vars
    PROVE  CapInv'
<1> SUFFICES ASSUME NEW t \in Tenants
             PROVE  CapWeight(t)' <= TenantCap - 1 + Slack
  BY DEF CapInv, Slack
<1>1. \/ CapWeight(t)' <= TenantCap - 1 + Slack
      \/ CapWeight(t)' <= CapWeight(t)
  <2>1. CASE Quiet
    BY <2>1, QuietLighter, LighterWeight
  <2>2. CASE \E r \in Requests, u \in Tenants : Arrive(r, u)
    BY <2>2, ArriveWeight
  <2>3. CASE \E r \in Requests : ReadShare(r) \/ Admitted(r)
    BY <2>3, ReadWeight, LighterWeight
  <2>4. CASE \E r \in Requests : InsertRow(r)
    BY <2>4, InsertWeight
  <2> QED  BY <2>1, <2>2, <2>3, <2>4, StepCases
<1>2. CapWeight(t) <= TenantCap - 1 + Slack
  BY DEF CapInv
<1>3. CapWeight(t) \in Int /\ CapWeight(t)' \in Int /\ TenantCap \in Int /\ Slack \in Int
  BY WeightTypes, WeightTypesNext, AdmissionAssumption DEF CapWeight
<1> QED  BY <1>1, <1>2, <1>3

\* A tenant above the share of j tenants has more rows than that share.
LEMMA AboveBacklog ==
    ASSUME RequestInv', NEW j \in Nat \ {0}, NEW t \in Above(j)'
    PROVE  t \in Tenants /\ Rows(t)' > GlobalCap \div j
<1> DEFINE G == GlobalCap \div j
<1>1. G \in Nat
  BY AdmissionAssumption, ShareRounding
<1>2. t \in Tenants /\ ShareWeight(j, t)' > G + Slack
  BY DEF Above, Slack
<1>3. /\ Rows(t)' \in Nat
      /\ Cardinality(Of(UnderShare(j), t)') \in 0 .. Cardinality(Requests)
      /\ Cardinality(Requests) \in Nat
  BY <1>2, WeightTypesNext, FS_CardinalityType, AdmissionAssumption
<1> HIDE DEF G
<1>4. Rows(t)' > G
  BY <1>1, <1>2, <1>3, AdmissionAssumption DEF ShareWeight, Slack
<1> QED  BY <1>2, <1>4 DEF G

\* A request that finds itself within its share: either fewer than j tenants
\* are backlogged, or its backlog is within the share of j tenants.
LEMMA ReadShareAbove ==
    ASSUME RequestInv, RequestInv', GaugeInv, FairShareOn, NEW r \in Requests, ReadShare(r),
           NEW j \in Nat \ {0}
    PROVE  \/ Cardinality(Above(j)') < j
           \/ \A t \in Tenants : LighterShare(j, t)
<1>1. \A t \in Tenants : Rows(t)' = Rows(t)
  BY DEF ReadShare, ledger, Backlog, Moving, Rows
<1>2. /\ \A q \in Requests \ {r} : req'[q] = req[q]
      /\ req'[r].tenant = req[r].tenant /\ req'[r].bl = req[r].bl /\ req'[r].pc = "total"
      /\ req[r].pc = "share" /\ req'[r].within = (req[r].bl <= FairShare(backlogged))
      /\ req[r].bl \in Nat
  BY DEF ReadShare, RequestInv, RequestRec
<1>3. backlogged = Cardinality(Counted) /\ backlogged \in Nat
  BY CountedType DEF GaugeInv
<1>4. CASE backlogged < j
  <2>1. Above(j)' \subseteq Counted
    <3> SUFFICES ASSUME NEW t \in Above(j)' PROVE t \in Counted
      OBVIOUS
    <3>1. t \in Tenants /\ Rows(t)' > GlobalCap \div j /\ GlobalCap \div j \in Nat
      BY AboveBacklog, AdmissionAssumption, ShareRounding
    <3> DEFINE G == GlobalCap \div j
    <3> HIDE DEF G
    <3>2. t \in Tenants /\ Rows(t) > G /\ G \in Nat
      BY <1>1, <3>1 DEF G
    <3> QED  BY <3>2, LoadType DEF Counted
  <2>2. Cardinality(Above(j)') \in Nat /\ Cardinality(Above(j)') <= Cardinality(Counted)
    BY <2>1, CountedType, SubsetCount
  <2> QED  BY <1>3, <1>4, <2>2
<1>5. CASE backlogged >= j
  <2>1. FairShare(backlogged) <= GlobalCap \div j
    <3>1. FairShare(backlogged) = GlobalCap \div backlogged
      BY <1>3, <1>5 DEF FairShare
    <3> QED  BY <1>3, <1>5, <3>1, ShareMonotone, AdmissionAssumption
  <2>2. FairShare(backlogged) \in Nat /\ GlobalCap \div j \in Nat
    BY <1>3, AdmissionAssumption, ShareRounding DEF FairShare
  <2>3. PassedShare(r)' => req[r].bl <= GlobalCap \div j
    <3> DEFINE G == GlobalCap \div j
               F == FairShare(backlogged)
    <3>1. F \in Nat /\ G \in Nat /\ F <= G /\ (PassedShare(r)' => req[r].bl <= F)
      BY <1>2, <2>1, <2>2 DEF PassedShare
    <3> HIDE DEF F, G
    <3>2. PassedShare(r)' => req[r].bl <= G
      BY <1>2, <3>1
    <3> QED  BY <3>2 DEF G
  <2>4. \A q \in Requests \ {r} : PassedShare(q)' <=> PassedShare(q)
    BY <1>2 DEF PassedShare
  <2>5. ASSUME NEW t \in Tenants
        PROVE  LighterShare(j, t)
    <3>1. Of(UnderShare(j), t)' \subseteq Of(UnderShare(j), t)
      BY <1>2, <2>3, <2>4 DEF Of, UnderShare, Deciding
    <3> QED  BY <1>1, <3>1, LoadType DEF LighterShare
  <2> QED  BY <2>5
<1> QED  BY <1>3, <1>4, <1>5

\* A request that passes the global cap over its share read a total below the
\* cap: j tenants above the share of j tenants would have more rows than that.
LEMMA AdmittedAbove ==
    ASSUME RequestInv, RequestInv', GaugeInv, FairShareOn, NEW r \in Requests, Admitted(r),
           NEW j \in Nat \ {0}
    PROVE  \/ Cardinality(Above(j)') < j
           \/ \A t \in Tenants : LighterShare(j, t)
<1>1. \A t \in Tenants : Rows(t)' = Rows(t)
  BY DEF Admitted, ledger, Backlog, Moving, Rows
<1>2. CASE req[r].within
  <2>1. Fades(r)
    BY <1>2 DEF Admitted, UnderCap, Fades, PassedShare, RequestInv, RequestRec
  <2> QED  BY <1>1, <2>1, LoadType, FadesShrinks
<1>5. CASE total < GlobalCap
  <2> DEFINE G == GlobalCap \div j
             A == Above(j)'
  <2>1. G \in Nat /\ j * (G + 1) > GlobalCap
    BY AdmissionAssumption, ShareRounding
  <2>2. A \subseteq Tenants /\ \A t \in A : load[t] > G
    BY <1>1, AboveBacklog, LoadType
  <2> HIDE DEF A, G
  <2>3. Cardinality(A) \in Nat /\ Cardinality(A) * (G + 1) <= Cardinality(CellsOf(load))
    BY <2>1, <2>2, LoadType, CellsCover, AdmissionAssumption DEF GaugeInv
  <2>4. Cardinality(CellsOf(load)) <= GlobalCap /\ Cardinality(CellsOf(load)) \in Int
    <3>1. Leaving \in Nat /\ Arriving \in {0, 1}
      BY DEF Leaving, Arriving, RequestInv, MoveRec
    <3>2. Cardinality(CellsOf(load)) \in Nat
      BY FS_CardinalityType DEF GaugeInv
    <3> QED  BY <1>5, <3>1, <3>2, AdmissionAssumption DEF GaugeInv, RequestInv
  <2>5. Cardinality(A) < j
    <3> SUFFICES ASSUME Cardinality(A) >= j PROVE FALSE
      BY <2>3
    <3>1. Cardinality(A) * (G + 1) >= j * (G + 1)
      BY <2>1, <2>3
    <3> QED  BY <2>1, <2>3, <2>4, <3>1, AdmissionAssumption
  <2> QED  BY <2>5 DEF A
<1> QED
  BY <1>2, <1>5, AdmissionAssumption DEF Admitted, Overloaded, RequestInv

\* The share: no step takes j tenants above the share of j tenants.
LEMMA StepShare ==
    ASSUME RequestInv, RequestInv', GaugeInv, ShareInv, [Next]_vars
    PROVE  ShareInv'
<1> SUFFICES ASSUME FairShareOn, NEW j \in 1 .. Cardinality(Tenants)
             PROVE  Cardinality(Above(j)') < j
  BY DEF ShareInv
<1>1. j \in Nat \ {0}
  BY FS_CardinalityType, AdmissionAssumption
<1>2. ASSUME Above(j)' \subseteq Above(j)
      PROVE  Cardinality(Above(j)') < j
  <2>1. IsFiniteSet(Above(j)) /\ Cardinality(Above(j)) \in Nat
    BY SubsetCount, AdmissionAssumption DEF Above
  <2>2. Cardinality(Above(j)') \in Nat /\ Cardinality(Above(j)') <= Cardinality(Above(j))
    BY <1>2, <2>1, SubsetCount
  <2>3. Cardinality(Above(j)) < j
    BY DEF ShareInv
  <2> QED  BY <1>1, <2>1, <2>2, <2>3
<1>3. ASSUME \A t \in Tenants : \/ ShareWeight(j, t)' <= GlobalCap \div j + Slack
                                \/ ShareWeight(j, t)' <= ShareWeight(j, t)
      PROVE  Above(j)' \subseteq Above(j)
  <2> DEFINE G == GlobalCap \div j
  <2>1. G \in Nat
    BY <1>1, AdmissionAssumption, ShareRounding
  <2>2. \A t \in Tenants :
            ShareWeight(j, t) \in Int /\ ShareWeight(j, t)' \in Int /\ Slack \in Int
    BY WeightTypes, WeightTypesNext DEF ShareWeight
  <2>3. \A t \in Tenants : ShareWeight(j, t)' <= G + Slack
                           \/ ShareWeight(j, t)' <= ShareWeight(j, t)
    BY <1>3
  <2>4. /\ Above(j) = {t \in Tenants : ShareWeight(j, t) > G + Slack}
        /\ Above(j)' = {t \in Tenants : ShareWeight(j, t)' > G + Slack}
    BY DEF Above, Slack
  <2> HIDE DEF G
  <2> QED  BY <2>1, <2>2, <2>3, <2>4
<1>4. ASSUME \A t \in Tenants : LighterShare(j, t)
      PROVE  Above(j)' \subseteq Above(j)
  BY <1>3, <1>4, LighterWeight
<1>5. CASE Quiet
  BY <1>1, <1>2, <1>4, <1>5, QuietLighter
<1>6. CASE \E r \in Requests, u \in Tenants : Arrive(r, u)
  BY <1>1, <1>2, <1>3, <1>6, ArriveWeight
<1>7. CASE \E r \in Requests : ReadShare(r)
  BY <1>1, <1>2, <1>4, <1>7, ReadShareAbove
<1>8. CASE \E r \in Requests : Admitted(r)
  BY <1>1, <1>2, <1>4, <1>8, AdmittedAbove
<1>9. CASE \E r \in Requests : InsertRow(r)
  BY <1>1, <1>2, <1>3, <1>9, InsertWeight
<1> QED  BY <1>5, <1>6, <1>7, <1>8, <1>9, StepCases

LEMMA InitBounds == Init => CapInv /\ ShareInv
<1> SUFFICES ASSUME Init PROVE CapInv /\ ShareInv
  OBVIOUS
<1>1. Deciding = {}
  BY DEF Init, Deciding, Idle
<1>2. \A t \in Tenants : Of(UnderTenantCap, t) = {} /\ \A j : Of(UnderShare(j), t) = {}
  BY <1>1 DEF Of, UnderTenantCap, UnderShare
<1>3. /\ \A t \in Tenants : Rows(t) = 0
      /\ Cardinality({}) = 0 /\ Slack \in Nat
  BY FS_EmptySet, FS_CardinalityType, AdmissionAssumption
     DEF Init, Backlog, Moving, NoMove, Rows, Slack
<1>4. \A t \in Tenants : CapWeight(t) = 0 /\ \A j : ShareWeight(j, t) = 0
  BY <1>2, <1>3 DEF CapWeight, ShareWeight
<1>5. CapInv
  BY <1>3, <1>4, AdmissionAssumption DEF CapInv
<1>6. ASSUME NEW j \in Nat \ {0}
      PROVE  Cardinality(Above(j)) < j
  <2>1. GlobalCap \div j \in Nat
    BY AdmissionAssumption, ShareRounding
  <2>2. Above(j) = {}
    BY <1>3, <1>4, <2>1 DEF Above
  <2> QED  BY <1>3, <2>2
<1>7. 1 .. Cardinality(Tenants) \subseteq Nat \ {0}
  BY FS_CardinalityType, AdmissionAssumption
<1> QED  BY <1>5, <1>6, <1>7 DEF ShareInv

\* The inductive invariant holds in every reachable state.
THEOREM AdmissionInvariant == Spec => []AdmissionInv
<1>1. Init => AdmissionInv
  BY InitRequest, InitGauge, InitBounds DEF AdmissionInv
<1>2. AdmissionInv /\ [Next]_vars => AdmissionInv'
  BY StepRequest, StepGauge, StepCap, StepShare DEF AdmissionInv
<1> QED  BY <1>1, <1>2, PTL DEF Spec

\* The counters and gauges of the ledger keep their types: none goes below zero
\* and no more tenants are counted as backlogged than there are (store.go
\* Store), although an insert moves them one after the other.
THEOREM AdmissionTypes == Spec => []TypeOK
<1>1. ASSUME AdmissionInv PROVE TypeOK
  <2> USE <1>1 DEF AdmissionInv
  <2>1. backlogged \in 0 .. Cardinality(Tenants)
    BY CountedType, FS_CardinalityType, AdmissionAssumption DEF GaugeInv, RequestInv
  <2>2. total \in Nat
    <3>1. Cardinality(CellsOf(load)) \in Nat /\ Leaving \in Nat
      BY FS_CardinalityType DEF GaugeInv, RequestInv, Leaving, MoveRec
    <3>2. CASE Arriving = 0
      BY <3>1, <3>2 DEF GaugeInv
    <3>3. CASE Arriving # 0
      <4>1. mu \in Requests /\ req[mu].pc = "count"
        BY <3>3 DEF Arriving
      <4>2. req[mu].tenant \in Tenants /\ Backlog(req[mu].tenant) > 0
        BY <4>1 DEF RequestInv
      <4> DEFINE S == {req[mu].tenant}
      <4>3. S \subseteq Tenants /\ \A t \in S : load[t] > 0
        BY <4>2, LoadType
      <4>4. Cardinality(S) = 1
        BY FS_Singleton
      <4> HIDE DEF S
      <4>5. Cardinality(S) * (0 + 1) <= Cardinality(CellsOf(load))
        BY <4>3, LoadType, CellsCover, AdmissionAssumption DEF GaugeInv
      <4>6. Arriving = 1
        BY <4>1 DEF Arriving
      <4> QED  BY <3>1, <4>4, <4>5, <4>6 DEF GaugeInv
    <3> QED  BY <3>2, <3>3
  <2> QED  BY <2>1, <2>2 DEF TypeOK, RequestInv
<1> QED  BY <1>1, AdmissionInvariant, PTL

\* A tenant's backlog passes its cap by no more than the slack, for any number
\* of requests that decided before the cap was reached (gate.go Admit).
THEOREM AdmissionTenantBounded == Spec => []TenantBounded
<1>1. ASSUME AdmissionInv PROVE TenantBounded
  <2> SUFFICES ASSUME NEW t \in Tenants PROVE Rows(t) <= TenantCap - 1 + Slack
    BY DEF TenantBounded
  <2>1. CapWeight(t) <= TenantCap - 1 + Slack
    BY <1>1 DEF AdmissionInv, CapInv
  <2> QED  BY <1>1, <2>1, WeightTypes, AdmissionAssumption DEF AdmissionInv, CapWeight
<1> QED  BY <1>1, AdmissionInvariant, PTL

\* No j tenants are all above the share of j tenants by more than the slack
\* (gate.go Admit, FairShare), for any number of tenants and requests.
THEOREM AdmissionShareBounded == Spec => []ShareBounded
<1>1. ASSUME AdmissionInv PROVE ShareBounded
  <2> SUFFICES ASSUME FairShareOn, NEW j \in 1 .. Cardinality(Tenants)
               PROVE  Cardinality({t \in Tenants :
                                     Rows(t) > GlobalCap \div j + Slack}) < j
    BY DEF ShareBounded
  <2> DEFINE G == GlobalCap \div j
             B == {t \in Tenants : Rows(t) > G + Slack}
  <2>1. j \in Nat \ {0} /\ G \in Nat
    BY FS_CardinalityType, AdmissionAssumption, ShareRounding
  <2>2. Above(j) = {t \in Tenants : ShareWeight(j, t) > G + Slack}
    BY DEF Above
  <2>3. B \subseteq Above(j)
    <3> HIDE DEF G
    <3> QED  BY <1>1, <2>1, <2>2, WeightTypes DEF AdmissionInv, ShareWeight
  <2>4. Cardinality(Above(j)) < j /\ IsFiniteSet(Above(j))
    BY <1>1, SubsetCount, AdmissionAssumption DEF AdmissionInv, ShareInv, Above
  <2>5. Cardinality(B) <= Cardinality(Above(j)) /\ Cardinality(B) \in Nat
        /\ Cardinality(Above(j)) \in Nat
    BY <2>3, <2>4, SubsetCount
  <2> HIDE DEF B
  <2>6. Cardinality(B) < j
    BY <2>1, <2>4, <2>5
  <2> QED  BY <2>6 DEF B
<1> QED  BY <1>1, AdmissionInvariant, PTL
-----------------------------------------------------------------------------
(* The whole backlog.                                                      *)

\* A share never grows with the number of tenants it is divided among.
LEMMA ShareFalls ==
    ASSUME NEW g \in Nat, NEW j \in Nat \ {0}, NEW m \in Nat \ {0}, j <= m
    PROVE  g \div j \in Nat /\ g \div m \in Nat /\ g \div m <= g \div j /\ g \div j <= g
<1> DEFINE p == g \div j
           q == g \div m
<1>1. p \in Nat /\ q \in Nat /\ j * p <= g /\ g < j * (p + 1) /\ m * q <= g
  BY ShareRounding
<1> HIDE DEF p, q
<1>2. q <= p
  <2> SUFFICES ASSUME p + 1 <= q PROVE FALSE
    BY <1>1
  <2>1. j * (p + 1) <= m * (p + 1) /\ m * (p + 1) <= m * q
    BY <1>1
  <2> QED  BY <1>1, <2>1
<1>3. p <= g
  <2>1. p <= j * p
    BY <1>1
  <2> QED  BY <1>1, <2>1
<1> QED  BY <1>1, <1>2, <1>3 DEF p, q

\* A finite set fits into one that has as many elements.
LEMMA FitsInto ==
    ASSUME NEW S, IsFiniteSet(S), NEW T, IsFiniteSet(T), Cardinality(S) <= Cardinality(T)
    PROVE  \E f \in [S -> T] : \A a, b \in S : f[a] = f[b] => a = b
<1>1. Cardinality(S) \in Nat /\ ExistsBijection(1 .. Cardinality(S), S)
  BY FS_CardinalityType
<1>2. Cardinality(T) \in Nat /\ ExistsBijection(1 .. Cardinality(T), T)
  BY FS_CardinalityType
<1>3. ExistsBijection(S, 1 .. Cardinality(S))
  BY <1>1, Fun_ExistsBijSymmetric
<1>4. PICK g \in [S -> 1 .. Cardinality(S)] : \A a, b \in S : g[a] = g[b] => a = b
  BY <1>3 DEF ExistsBijection, Bijection, Injection, IsInjective
<1>5. PICK h \in [1 .. Cardinality(T) -> T] :
        \A a, b \in 1 .. Cardinality(T) : h[a] = h[b] => a = b
  BY <1>2 DEF ExistsBijection, Bijection, Injection, IsInjective
<1>6. 1 .. Cardinality(S) \subseteq 1 .. Cardinality(T)
  BY <1>1, <1>2
<1> DEFINE f == [s \in S |-> h[g[s]]]
<1>7. f \in [S -> T]
  BY <1>4, <1>5, <1>6
<1>8. \A a, b \in S : f[a] = f[b] => a = b
  BY <1>4, <1>5, <1>6
<1> QED  BY <1>7, <1>8

\* The shares of 1, 2, ... tenants, each with its slack, added up: the cells
\* <<j, i>> of a staircase whose j-th column is the share of j tenants high.
Staircase ==
    {c \in (1 .. Cardinality(Tenants)) \X (1 .. GlobalCap + Slack) :
        c[2] <= GlobalCap \div c[1] + Slack}

HarmonicBound == Cardinality(Staircase)

\* The tenants with an i-th row, and the shares that have an i-th row.
Level(i) == {t \in Tenants : load[t] >= i}
Stair(i) == {j \in 1 .. Cardinality(Tenants) : GlobalCap \div j + Slack >= i}

\* There are no more of the first than of the second: m tenants with an i-th row
\* are not all above the share of m.
LEMMA LevelUnderStair ==
    ASSUME load \in [Tenants -> Nat], ShareBounded, FairShareOn, NEW i \in Nat \ {0}
    PROVE  /\ IsFiniteSet(Level(i)) /\ IsFiniteSet(Stair(i))
           /\ Cardinality(Level(i)) <= Cardinality(Stair(i))
<1> DEFINE N == Cardinality(Tenants)
           m == Cardinality(Level(i))
<1>1. IsFiniteSet(Level(i)) /\ m \in Nat /\ N \in Nat /\ m <= N
  BY SubsetCount, AdmissionAssumption DEF Level
<1>2. IsFiniteSet(1 .. N)
  BY <1>1, FS_Interval
<1>3. IsFiniteSet(Stair(i)) /\ Cardinality(Stair(i)) \in Nat
  BY <1>2, SubsetCount DEF Stair
<1>4. CASE m = 0
  BY <1>1, <1>3, <1>4
<1>5. CASE m # 0
  <2> DEFINE q == GlobalCap \div m
             B == {t \in Tenants : Rows(t) > q + Slack}
  <2>1. m \in 1 .. N /\ m \in Nat \ {0} /\ q \in Nat /\ Slack \in Nat
    <3>1. m \in 1 .. N /\ m \in Nat \ {0}
      BY <1>1, <1>5
    <3>2. Slack \in Nat
      BY FS_CardinalityType, AdmissionAssumption DEF Slack
    <3> HIDE DEF m
    <3>3. q \in Nat
      BY <3>1, ShareRounding, AdmissionAssumption
    <3> QED  BY <3>1, <3>2, <3>3
  <2>2. Cardinality(B) < m
    <3> HIDE DEF m
    <3> QED  BY <2>1 DEF ShareBounded
  <2>3. q + Slack >= i
    <3> SUFFICES ASSUME q + Slack < i PROVE FALSE
      BY <2>1
    <3> HIDE DEF q
    <3>1. Level(i) \subseteq B
      BY <2>1 DEF Level, load
    <3>2. B \subseteq Tenants
      OBVIOUS
    <3>3. IsFiniteSet(B)
      BY <3>2, SubsetCount, AdmissionAssumption
    <3> HIDE DEF B
    <3>4. m <= Cardinality(B) /\ Cardinality(B) \in Nat
      BY <3>1, <3>3, SubsetCount
    <3> QED  BY <1>1, <2>2, <3>4
  <2> HIDE DEF m
  <2>4. ASSUME NEW j \in 1 .. m PROVE j \in Stair(i)
    <3>1. j \in Nat \ {0} /\ j <= m /\ j \in 1 .. N
      BY <1>1, <2>1
    <3>2. GlobalCap \div j \in Nat /\ q <= GlobalCap \div j
      BY <2>1, <3>1, ShareFalls, AdmissionAssumption
    <3>3. GlobalCap \div j + Slack >= i
      <4> DEFINE s == GlobalCap \div j
      <4> HIDE DEF s, q
      <4>1. s \in Nat /\ q <= s
        BY <3>2 DEF s
      <4>2. s + Slack >= i
        BY <2>1, <2>3, <4>1
      <4> QED  BY <4>2 DEF s
    <3> QED  BY <3>1, <3>3 DEF Stair
  <2>5. Cardinality(1 .. m) = m
    BY <2>1, FS_Interval
  <2>6. Cardinality(1 .. m) <= Cardinality(Stair(i))
    BY <1>3, <2>4, SubsetCount
  <2>7. m <= Cardinality(Stair(i))
    BY <2>5, <2>6
  <2> QED  BY <1>1, <1>3, <2>7 DEF m
<1> QED  BY <1>4, <1>5

\* The rows of all tenants fit, level by level, under the staircase of shares.
LEMMA CellsFit ==
    ASSUME load \in [Tenants -> Nat], ShareBounded, FairShareOn
    PROVE  /\ HarmonicBound \in Nat
           /\ Cardinality(CellsOf(load)) <= HarmonicBound
<1> DEFINE N == Cardinality(Tenants)
           fits(i, f) == f \in [Level(i) -> Stair(i)]
                         /\ \A a, b \in Level(i) : f[a] = f[b] => a = b
           into(i) == CHOOSE f : fits(i, f)
           F == [c \in CellsOf(load) |-> <<into(c[2])[c[1]], c[2]>>]
<1>1. N \in Nat /\ Slack \in Nat /\ GlobalCap \in Nat
  BY FS_CardinalityType, AdmissionAssumption DEF Slack
<1>2. ASSUME NEW i \in Nat \ {0} PROVE fits(i, into(i))
  <2>1. \E f : fits(i, f)
    BY LevelUnderStair, FitsInto
  <2> HIDE DEF fits
  <2> QED  BY <2>1
<1> HIDE DEF into
<1>3. ASSUME NEW c \in CellsOf(load)
      PROVE  /\ c[2] \in Nat \ {0} /\ c[1] \in Level(c[2]) /\ c = <<c[1], c[2]>>
             /\ into(c[2])[c[1]] \in Stair(c[2])
  <2>1. c[2] \in Nat \ {0} /\ c[1] \in Level(c[2]) /\ c = <<c[1], c[2]>>
    BY DEF CellsOf, Level
  <2> QED  BY <1>2, <2>1
<1>4. ASSUME NEW i \in Nat \ {0}, NEW j \in Stair(i) PROVE <<j, i>> \in Staircase
  <2>1. j \in 1 .. N /\ GlobalCap \div j + Slack >= i /\ j \in Nat \ {0}
    BY <1>1 DEF Stair
  <2>2. GlobalCap \div j \in Nat /\ GlobalCap \div j <= GlobalCap
    <3>1. j <= j
      BY <2>1
    <3> QED  BY <1>1, <2>1, <3>1, ShareFalls
  <2> DEFINE s == GlobalCap \div j
  <2>3. i \in 1 .. GlobalCap + Slack /\ i <= s + Slack
    <3> HIDE DEF s
    <3>1. s \in Nat /\ s <= GlobalCap /\ s + Slack >= i
      BY <2>1, <2>2 DEF s
    <3> QED  BY <1>1, <3>1
  <2> QED  BY <2>1, <2>3 DEF Staircase
<1>5. F \in [CellsOf(load) -> Staircase]
  BY <1>3, <1>4
<1>6. ASSUME NEW c \in CellsOf(load), NEW e \in CellsOf(load), F[c] = F[e] PROVE c = e
  <2>1. F[c] = <<into(c[2])[c[1]], c[2]>> /\ F[e] = <<into(e[2])[e[1]], e[2]>>
    OBVIOUS
  <2>2. c[2] = e[2] /\ into(c[2])[c[1]] = into(c[2])[e[1]]
    BY <1>6, <2>1
  <2>3. c[1] = e[1]
    BY <1>2, <1>3, <2>2
  <2> QED  BY <1>3, <2>2, <2>3
<1>7. IsFiniteSet(Staircase)
  <2>1. IsFiniteSet(1 .. N) /\ IsFiniteSet(1 .. GlobalCap + Slack)
    BY <1>1, FS_Interval
  <2>2. IsFiniteSet((1 .. N) \X (1 .. GlobalCap + Slack))
    BY <2>1, FS_Product
  <2> QED  BY <2>2, SubsetCount DEF Staircase
<1> HIDE DEF F
<1>8. F \in Injection(CellsOf(load), Staircase)
  BY <1>5, <1>6, Fun_IsInj
<1>9. Cardinality(CellsOf(load)) <= Cardinality(Staircase)
  BY <1>7, <1>8, FS_Injection
<1> QED  BY <1>7, <1>9, FS_CardinalityType DEF HarmonicBound

\* The rows of all tenants stay within the harmonic sum of the shares of 1, 2, ...
\* tenants, for every number of tenants and of requests and for all caps: the
\* bound that holds where twice the cap does not (gate.go FairShare).
THEOREM AdmissionTotalBounded ==
    Spec => [](FairShareOn => Cardinality(CellsOf(load)) <= HarmonicBound)
<1>1. AdmissionInv /\ ShareBounded =>
        (FairShareOn => Cardinality(CellsOf(load)) <= HarmonicBound)
  BY LoadType, CellsFit DEF AdmissionInv
<1> QED  BY <1>1, AdmissionInvariant, AdmissionShareBounded, PTL

=============================================================================
