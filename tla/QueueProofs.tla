---------------------------- MODULE QueueProofs ----------------------------
(***************************************************************************)
(* Proofs about the queue, for every number of tenants, workers, messages, *)
(* batch sizes and timeouts.                                               *)
(***************************************************************************)
EXTENDS Queue, FiniteSetTheorems, TLAPS

-----------------------------------------------------------------------------
(* The inductive invariant.                                                *)

Counters == [Tenants -> Int]

\* The types without the lower bounds of the ledger, which LedgerExact implies.
Types ==
    /\ row \in [Ids -> Row]
    /\ accepted \in Counters /\ delivered \in Counters /\ expired \in Counters
    /\ ready \in Counters /\ claimed \in Counters /\ deadN \in Counters
    /\ total \in Int /\ backlogged \in Int
    /\ worker \in [Workers -> WorkerRec]
    /\ usable \subseteq Tenants /\ stopping \in BOOLEAN
    /\ sink \in [Tenants -> 0 .. SinkCap] /\ seen \subseteq Ids

\* A worker that holds nothing may be given another tenant.  What it holds are
\* messages of its tenant, whatever has become of their rows since it claimed
\* them, and it acknowledges what the sink has seen.
HoldsInv ==
    \A w \in Workers :
        /\ worker[w].pc \in {"next", "claim", "stopped"}
             => worker[w].todo = {} /\ worker[w].acked = {}
        /\ worker[w].cur \subseteq worker[w].todo
        /\ worker[w].acked \subseteq seen
        /\ \A i \in worker[w].todo \cup worker[w].acked :
             row[i].of = worker[w].t /\ row[i].st # "none"

\* An id the sink has seen was inserted: it is not inserted again.
SeenInv == \A i \in seen : row[i].st # "none"

SeenOf(t) == {i \in seen : row[i].of = t}

\* The sink counted every message it has seen, up to the bound of its counter.
SinkInv == \A t \in Tenants : Cardinality(SeenOf(t)) <= sink[t]

QueueInv == Types /\ LedgerExact /\ HoldsInv /\ SeenInv /\ NoLoss /\ SinkInv

-----------------------------------------------------------------------------
(* Counting rows.                                                          *)

\* A subset of a finite set has no more elements than the set.
LEMMA SubsetCount ==
    ASSUME NEW S, IsFiniteSet(S), NEW T, T \subseteq S
    PROVE  /\ IsFiniteSet(T)
           /\ Cardinality(T) \in Nat /\ Cardinality(S) \in Nat
           /\ Cardinality(T) <= Cardinality(S)
  BY FS_Subset, FS_CardinalityType

\* Adding, and taking away, a part of a finite set.
LEMMA PartCount ==
    ASSUME NEW S, IsFiniteSet(S), NEW T, IsFiniteSet(T)
    PROVE  /\ T \subseteq S => Cardinality(S \ T) = Cardinality(S) - Cardinality(T)
           /\ T \cap S = {} => Cardinality(S \cup T) = Cardinality(S) + Cardinality(T)
<1>1. ASSUME T \subseteq S
      PROVE  Cardinality(S \ T) = Cardinality(S) - Cardinality(T)
  <2>1. S \cap T = T
    BY <1>1
  <2> QED  BY <2>1, FS_Difference
<1>2. ASSUME T \cap S = {}
      PROVE  Cardinality(S \cup T) = Cardinality(S) + Cardinality(T)
  <2>1. S \cap T = {} /\ Cardinality({}) = 0
    BY <1>2, FS_EmptySet
  <2>2. Cardinality(S \cup T) = Cardinality(S) + Cardinality(T) - Cardinality(S \cap T)
    BY FS_Union
  <2>3. Cardinality(S) \in Nat /\ Cardinality(T) \in Nat
    BY FS_CardinalityType
  <2>4. Cardinality(S \cup T) = Cardinality(S) + Cardinality(T) - 0
    BY <2>1, <2>2
  <2> QED  BY <2>3, <2>4
<1> QED  BY <1>1, <1>2

\* The rows of S change their state from one to another, and no row anything else
\* that the ledger counts.
Moves(S, from, to) ==
    /\ S \subseteq Ids /\ \A i \in S : row[i].st = from
    /\ row' \in [Ids -> Row]
    /\ \A i \in Ids : /\ row'[i].of = row[i].of /\ row'[i].kind = row[i].kind
                      /\ row'[i].st = IF i \in S THEN to ELSE row[i].st

LEMMA MarkMoves ==
    ASSUME row \in [Ids -> Row], NEW S, S \subseteq Ids, NEW from, NEW to \in RowStates,
           \A i \in S : row[i].st = from, row' = Mark(S, to)
    PROVE  Moves(S, from, to)
<1>1. ASSUME NEW i \in Ids, NEW st \in RowStates
      PROVE  [row[i] EXCEPT !.st = st, !.left = 0] \in Row
  <2>1. 0 \in -1 .. ClaimTimeout
    BY QueueAssumption
  <2> QED  BY <2>1 DEF Row
<1>2. row' \in [Ids -> Row]
  BY <1>1 DEF Mark
<1>3. ASSUME NEW i \in Ids
      PROVE  /\ row'[i].of = row[i].of /\ row'[i].kind = row[i].kind
             /\ row'[i].st = IF i \in S THEN to ELSE row[i].st
  BY DEF Mark, Row
<1> QED  BY <1>2, <1>3 DEF Moves

OfTenant(S, t) == {i \in S : row[i].of = t}
Live == {i \in Ids : row[i].st \in {"ready", "claimed"}}

LEMMA HeldTypes ==
    \A st, t : /\ IsFiniteSet(Rows(st, t)) /\ Held(st, t) \in Nat
               /\ IsFiniteSet(Live) /\ Cardinality(Live) \in Nat
<1>1. \A st, t : Rows(st, t) \subseteq Ids
  BY DEF Rows
<1>2. Live \subseteq Ids
  BY DEF Live
<1> QED  BY <1>1, <1>2, SubsetCount, QueueAssumption DEF Held

\* What a move of S does to the counts of one tenant, ...
LEMMA MoveHeld ==
    ASSUME row \in [Ids -> Row], NEW S, NEW from, NEW to, from # to, Moves(S, from, to),
           NEW t \in Tenants
    PROVE  /\ Cardinality(OfTenant(S, t)) \in Nat
           /\ Cardinality(OfTenant(S, t)) <= Held(from, t)
           /\ Held(from, t)' = Held(from, t) - Cardinality(OfTenant(S, t))
           /\ Held(to, t)' = Held(to, t) + Cardinality(OfTenant(S, t))
           /\ \A st : st \notin {from, to} => Held(st, t)' = Held(st, t)
<1> DEFINE P == OfTenant(S, t)
<1>1. IsFiniteSet(P) /\ P \subseteq Rows(from, t) /\ P \cap Rows(to, t) = {}
  <2>1. P \subseteq Ids /\ P \subseteq Rows(from, t) /\ P \cap Rows(to, t) = {}
    BY DEF OfTenant, Moves, Rows
  <2> QED  BY <2>1, SubsetCount, QueueAssumption
<1>2. Rows(from, t)' = Rows(from, t) \ P
  BY DEF OfTenant, Moves, Rows
<1>3. Rows(to, t)' = Rows(to, t) \cup P
  BY DEF OfTenant, Moves, Rows
<1>4. ASSUME NEW st, st \notin {from, to}
      PROVE  Rows(st, t)' = Rows(st, t)
  BY <1>4 DEF OfTenant, Moves, Rows
<1> HIDE DEF P
<1>5. Cardinality(Rows(from, t)') = Cardinality(Rows(from, t)) - Cardinality(P)
  BY <1>1, <1>2, HeldTypes, PartCount
<1>6. Cardinality(Rows(to, t)') = Cardinality(Rows(to, t)) + Cardinality(P)
  BY <1>1, <1>3, HeldTypes, PartCount
<1>7. Cardinality(P) \in Nat /\ Cardinality(P) <= Cardinality(Rows(from, t))
  BY <1>1, HeldTypes, SubsetCount
<1> QED  BY <1>4, <1>5, <1>6, <1>7 DEF Held, P

\* ... and to the number of rows that are ready or claimed.
LEMMA MoveLive ==
    ASSUME row \in [Ids -> Row], NEW S, NEW from \in {"ready", "claimed"}, NEW to,
           Moves(S, from, to)
    PROVE  /\ IsFiniteSet(S) /\ Cardinality(S) \in Nat
           /\ to \in {"ready", "claimed"} => Cardinality(Live)' = Cardinality(Live)
           /\ to \notin {"ready", "claimed"}
                => Cardinality(Live)' = Cardinality(Live) - Cardinality(S)
<1>1. S \subseteq Live
  BY DEF Moves, Live
<1>2. IsFiniteSet(S) /\ Cardinality(S) \in Nat
  BY <1>1, HeldTypes, SubsetCount
<1>3. to \in {"ready", "claimed"} => Live' = Live
  BY DEF Moves, Live
<1>4. ASSUME to \notin {"ready", "claimed"}
      PROVE  Cardinality(Live)' = Cardinality(Live) - Cardinality(S)
  <2>1. Live' = Live \ S
    BY <1>4 DEF Moves, Live
  <2> QED  BY <1>1, <1>2, <2>1, HeldTypes, PartCount
<1> QED  BY <1>2, <1>3, <1>4

-----------------------------------------------------------------------------
(* The backlogged gauge.                                                   *)

InBacklog == {t \in Tenants : Backlog(t) > 0}

LEMMA InBacklogType == IsFiniteSet(InBacklog) /\ Cardinality(InBacklog) \in Nat
  BY SubsetCount, QueueAssumption DEF InBacklog

\* n rows of tenant t leave the backlog.
LEMMA LeaveGauge ==
    ASSUME NEW t \in Tenants, NEW n \in Nat, LeaveBacklog(t, n),
           \A u \in Tenants : Backlog(u) \in Nat,
           n <= Backlog(t), Backlog(t)' = Backlog(t) - n,
           \A u \in Tenants \ {t} : Backlog(u)' = Backlog(u),
           backlogged = Cardinality(InBacklog)
    PROVE  backlogged' = Cardinality(InBacklog)'
<1>1. CASE n > 0 /\ Backlog(t) = n
  <2>1. InBacklog' = InBacklog \ {t} /\ t \in InBacklog
    BY <1>1 DEF InBacklog
  <2> QED  BY <1>1, <2>1, InBacklogType, FS_RemoveElement DEF LeaveBacklog
<1>2. CASE ~(n > 0 /\ Backlog(t) = n)
  <2>1. InBacklog' = InBacklog
    BY <1>2 DEF InBacklog
  <2> QED  BY <1>2, <2>1 DEF LeaveBacklog
<1> QED  BY <1>1, <1>2

-----------------------------------------------------------------------------
(* The ledger follows the table.                                           *)

\* A move of rows of one tenant, as its statement's changes() reports it.
LEMMA MoveOne ==
    ASSUME row \in [Ids -> Row], NEW S, NEW from, NEW to, from # to, Moves(S, from, to),
           NEW t \in Tenants, \A i \in S : row[i].of = t
    PROVE  /\ Cardinality(S) \in Nat /\ Cardinality(S) <= Held(from, t)
           /\ Held(from, t)' = Held(from, t) - Cardinality(S)
           /\ Held(to, t)' = Held(to, t) + Cardinality(S)
           /\ \A st : st \notin {from, to} => Held(st, t)' = Held(st, t)
           /\ \A u \in Tenants \ {t} : \A st : Held(st, u)' = Held(st, u)
<1>1. OfTenant(S, t) = S /\ \A u : u # t => OfTenant(S, u) = {}
  BY DEF OfTenant
<1>2. ASSUME NEW u \in Tenants \ {t}, NEW st
      PROVE  Held(st, u)' = Held(st, u)
  <2>1. Cardinality(OfTenant(S, u)) = 0
    BY <1>1, FS_EmptySet
  <2>2. /\ Held(from, u)' = Held(from, u) - 0 /\ Held(to, u)' = Held(to, u) + 0
        /\ \A x : x \notin {from, to} => Held(x, u)' = Held(x, u)
    BY <2>1, MoveHeld
  <2> QED  BY <2>2, HeldTypes
<1> QED  BY <1>1, <1>2, MoveHeld

\* LedgerExact with its two gauges named.
LEMMA LedgerParts ==
    LedgerExact <=>
        /\ \A t \in Tenants :
            /\ ready[t] = Held("ready", t) /\ claimed[t] = Held("claimed", t)
            /\ deadN[t] = Held("dead", t) /\ delivered[t] = Held("acked", t)
            /\ expired[t] = Held("expired", t)
            /\ accepted[t] = delivered[t] + ready[t] + claimed[t] + expired[t] + deadN[t]
        /\ total = Cardinality(Live)
        /\ backlogged = Cardinality(InBacklog)
  BY DEF LedgerExact, Live, InBacklog

LEMMA LedgerPartsNext ==
    LedgerExact' <=>
        /\ \A t \in Tenants :
            /\ ready'[t] = Held("ready", t)' /\ claimed'[t] = Held("claimed", t)'
            /\ deadN'[t] = Held("dead", t)' /\ delivered'[t] = Held("acked", t)'
            /\ expired'[t] = Held("expired", t)'
            /\ accepted'[t] = delivered'[t] + ready'[t] + claimed'[t] + expired'[t]
                              + deadN'[t]
        /\ total' = Cardinality(Live)'
        /\ backlogged' = Cardinality(InBacklog)'
  BY DEF LedgerExact, Live, InBacklog

LEMMA BacklogTypes ==
    ASSUME Types, LedgerExact
    PROVE  \A t \in Tenants : Backlog(t) \in Nat /\ ready[t] \in Nat /\ claimed[t] \in Nat
  BY HeldTypes, LedgerParts DEF Backlog

\* Steps that change no row's state, tenant or kind, and no counter.
TableStill ==
    /\ row' \in [Ids -> Row]
    /\ \A i \in Ids : /\ row'[i].st = row[i].st /\ row'[i].of = row[i].of
                      /\ row'[i].kind = row[i].kind

LEMMA StillLedger ==
    ASSUME Types, LedgerExact, TableStill, UNCHANGED ledger
    PROVE  LedgerExact'
<1>1. \A st, t : Rows(st, t)' = Rows(st, t)
  BY DEF TableStill, Rows
<1>2. \A st, t : Held(st, t)' = Held(st, t)
  BY <1>1 DEF Held
<1>3. Live' = Live
  BY DEF TableStill, Live
<1>4. InBacklog' = InBacklog
  BY DEF InBacklog, Backlog, ledger
<1> QED  BY <1>2, <1>3, <1>4, LedgerParts, LedgerPartsNext DEF ledger

LEMMA InsertLedger ==
    ASSUME Types, LedgerExact, NEW i \in Ids, NEW t \in Tenants, NEW kind, Insert(i, t, kind)
    PROVE  LedgerExact'
<1>1. row[i].st = "none" /\ \A j \in Ids \ {i} : row'[j] = row[j]
  BY DEF Insert, Types
<1>2. row'[i].st = "ready" /\ row'[i].of = t
  BY DEF Insert, Types
<1>3. Rows("ready", t)' = Rows("ready", t) \cup {i} /\ i \notin Rows("ready", t)
  BY <1>1, <1>2 DEF Rows
<1>4. \A st \in RowStates \ {"none"}, u \in Tenants :
        st # "ready" \/ u # t => Rows(st, u)' = Rows(st, u)
  BY <1>1, <1>2 DEF Rows
<1>5. Held("ready", t)' = Held("ready", t) + 1
  BY <1>3, HeldTypes, FS_AddElement DEF Held
<1>6. \A st \in RowStates \ {"none"}, u \in Tenants :
        st # "ready" \/ u # t => Held(st, u)' = Held(st, u)
  BY <1>4 DEF Held
<1>7. Live' = Live \cup {i} /\ i \notin Live
  BY <1>1, <1>2 DEF Live
<1>8. Cardinality(Live)' = Cardinality(Live) + 1
  BY <1>7, HeldTypes, FS_AddElement
<1>9. /\ \A u \in Tenants : Backlog(u)' = IF u = t THEN Backlog(t) + 1 ELSE Backlog(u)
  BY DEF Insert, Plus, Backlog, Types, Counters
<1>10. InBacklog' = InBacklog \cup {t} /\ (t \in InBacklog <=> Backlog(t) # 0)
  BY <1>9, BacklogTypes DEF InBacklog
<1>11. backlogged' = Cardinality(InBacklog)'
  BY <1>10, InBacklogType, FS_AddElement, LedgerParts DEF Insert
<1>12. ASSUME NEW u \in Tenants
       PROVE  /\ ready'[u] = Held("ready", u)' /\ claimed'[u] = Held("claimed", u)'
              /\ deadN'[u] = Held("dead", u)' /\ delivered'[u] = Held("acked", u)'
              /\ expired'[u] = Held("expired", u)'
              /\ accepted'[u] = delivered'[u] + ready'[u] + claimed'[u] + expired'[u]
                                + deadN'[u]
  <2>1. {"ready", "claimed", "dead", "acked", "expired"} \subseteq RowStates \ {"none"}
    BY DEF RowStates, Stored
  <2>2. /\ claimed' = claimed /\ deadN' = deadN /\ delivered' = delivered
        /\ expired' = expired
        /\ ready'[u] = IF u = t THEN ready[u] + 1 ELSE ready[u]
        /\ accepted'[u] = IF u = t THEN accepted[u] + 1 ELSE accepted[u]
    BY DEF Insert, Plus, Types, Counters
  <2>3. /\ Held("claimed", u)' = Held("claimed", u) /\ Held("dead", u)' = Held("dead", u)
        /\ Held("acked", u)' = Held("acked", u)
        /\ Held("expired", u)' = Held("expired", u)
        /\ Held("ready", u)' = IF u = t THEN Held("ready", u) + 1 ELSE Held("ready", u)
    BY <1>5, <1>6, <2>1
  <2>4. /\ accepted[u] \in Int /\ delivered[u] \in Int /\ ready[u] \in Int
        /\ claimed[u] \in Int /\ expired[u] \in Int /\ deadN[u] \in Int
    BY DEF Types, Counters
  <2>5. /\ ready[u] = Held("ready", u) /\ claimed[u] = Held("claimed", u)
        /\ deadN[u] = Held("dead", u) /\ delivered[u] = Held("acked", u)
        /\ expired[u] = Held("expired", u)
        /\ accepted[u] = delivered[u] + ready[u] + claimed[u] + expired[u] + deadN[u]
    BY LedgerParts
  <2>6. CASE u = t
    BY <2>2, <2>3, <2>4, <2>5, <2>6
  <2>7. CASE u # t
    BY <2>2, <2>3, <2>4, <2>5, <2>7
  <2> QED  BY <2>6, <2>7
<1>13. total' = Cardinality(Live)'
  BY <1>8, LedgerParts DEF Insert
<1> QED  BY <1>11, <1>12, <1>13, LedgerPartsNext

\* How a count of rows in state st changes when n rows go from one state to another.
Diff(st, from, to, n) == IF st = from THEN -n ELSE IF st = to THEN n ELSE 0

\* Every counter moves by the rows of its tenant that S moves.
Follows(S, from, to) ==
    /\ accepted' = accepted
    /\ \A t \in Tenants :
        LET n == Cardinality(OfTenant(S, t)) IN
        /\ ready'[t] = ready[t] + Diff("ready", from, to, n)
        /\ claimed'[t] = claimed[t] + Diff("claimed", from, to, n)
        /\ deadN'[t] = deadN[t] + Diff("dead", from, to, n)
        /\ delivered'[t] = delivered[t] + Diff("acked", from, to, n)
        /\ expired'[t] = expired[t] + Diff("expired", from, to, n)

Counted == {"ready", "claimed", "dead", "acked", "expired"}

\* Then the counters are exact after the move when they were before it.
LEMMA MoveLedger ==
    ASSUME Types, LedgerExact, NEW S, NEW from \in {"ready", "claimed"},
           NEW to \in Counted, from # to, Moves(S, from, to), Follows(S, from, to),
           total' = total - (IF to \in {"ready", "claimed"} THEN 0 ELSE Cardinality(S)),
           backlogged' = Cardinality(InBacklog)'
    PROVE  LedgerExact'
<1>1. ASSUME NEW t \in Tenants
      PROVE  /\ ready'[t] = Held("ready", t)' /\ claimed'[t] = Held("claimed", t)'
             /\ deadN'[t] = Held("dead", t)' /\ delivered'[t] = Held("acked", t)'
             /\ expired'[t] = Held("expired", t)'
             /\ accepted'[t] = delivered'[t] + ready'[t] + claimed'[t] + expired'[t]
                               + deadN'[t]
  <2> DEFINE n == Cardinality(OfTenant(S, t))
  <2>1. /\ n \in Nat
        /\ Held(from, t)' = Held(from, t) - n /\ Held(to, t)' = Held(to, t) + n
        /\ \A st : st \notin {from, to} => Held(st, t)' = Held(st, t)
    BY MoveHeld DEF Types
  <2>2. /\ ready'[t] = ready[t] + Diff("ready", from, to, n)
        /\ claimed'[t] = claimed[t] + Diff("claimed", from, to, n)
        /\ deadN'[t] = deadN[t] + Diff("dead", from, to, n)
        /\ delivered'[t] = delivered[t] + Diff("acked", from, to, n)
        /\ expired'[t] = expired[t] + Diff("expired", from, to, n)
        /\ accepted'[t] = accepted[t]
    BY DEF Follows
  <2> HIDE DEF n
  <2>3. \A st \in Counted : Held(st, t)' = Held(st, t) + Diff(st, from, to, n)
    BY <2>1, HeldTypes DEF Diff
  <2>4. /\ ready[t] = Held("ready", t) /\ claimed[t] = Held("claimed", t)
        /\ deadN[t] = Held("dead", t) /\ delivered[t] = Held("acked", t)
        /\ expired[t] = Held("expired", t)
        /\ accepted[t] = delivered[t] + ready[t] + claimed[t] + expired[t] + deadN[t]
    BY LedgerParts
  <2>5. /\ ready'[t] = Held("ready", t)' /\ claimed'[t] = Held("claimed", t)'
        /\ deadN'[t] = Held("dead", t)' /\ delivered'[t] = Held("acked", t)'
        /\ expired'[t] = Held("expired", t)'
    BY <2>2, <2>3, <2>4 DEF Counted
  <2>6. Diff("ready", from, to, n) + Diff("claimed", from, to, n) + Diff("dead", from, to, n)
        + Diff("acked", from, to, n) + Diff("expired", from, to, n) = 0
    BY <2>1 DEF Diff, Counted
  <2>7. \A st : Diff(st, from, to, n) \in Int
    BY <2>1 DEF Diff
  <2>8. /\ accepted[t] \in Int /\ delivered[t] \in Int /\ ready[t] \in Int
        /\ claimed[t] \in Int /\ expired[t] \in Int /\ deadN[t] \in Int
    BY DEF Types, Counters
  <2>9. accepted'[t] = delivered'[t] + ready'[t] + claimed'[t] + expired'[t] + deadN'[t]
    BY <2>2, <2>4, <2>6, <2>7, <2>8
  <2> QED  BY <2>5, <2>9
<1>2. total' = Cardinality(Live)'
  <2>1. total = Cardinality(Live) /\ Cardinality(Live) \in Nat
    BY LedgerParts, HeldTypes
  <2>2. row \in [Ids -> Row]
    BY DEF Types
  <2>3. CASE to \in {"ready", "claimed"}
    <3>1. Cardinality(Live)' = Cardinality(Live)
      BY <2>2, <2>3, MoveLive
    <3> QED  BY <2>1, <2>3, <3>1
  <2>4. CASE to \notin {"ready", "claimed"}
    <3>1. Cardinality(Live)' = Cardinality(Live) - Cardinality(S)
      BY <2>2, <2>4, MoveLive
    <3> QED  BY <2>1, <2>4, <3>1
  <2> QED  BY <2>3, <2>4
<1> QED  BY <1>1, <1>2, LedgerPartsNext

\* The claims that have timed out go back.
LEMMA ReclaimLedger ==
    ASSUME Types, LedgerExact, Reclaim
    PROVE  Moves(Late, "claimed", "ready") /\ LedgerExact'
<1>1. Moves(Late, "claimed", "ready")
  <2>1. Late \subseteq Ids /\ \A i \in Late : row[i].st = "claimed"
    BY DEF Late
  <2>2. "ready" \in RowStates
    BY DEF RowStates, Stored
  <2> QED  BY <2>1, <2>2, MarkMoves DEF Reclaim, Types
<1>2. \A t \in Tenants : Cardinality(OfTenant(Late, t)) \in Nat
  BY <1>1, MoveHeld DEF Types
<1>3. /\ \A t \in Tenants :
            /\ claimed'[t] = claimed[t] - Cardinality(OfTenant(Late, t))
            /\ ready'[t] = ready[t] + Cardinality(OfTenant(Late, t))
            /\ claimed[t] \in Int /\ ready[t] \in Int
            /\ delivered[t] \in Int /\ expired[t] \in Int /\ deadN[t] \in Int
      /\ UNCHANGED <<accepted, delivered, expired, deadN, total, backlogged>>
  BY DEF Reclaim, OfTenant, Types, Counters
<1>4. Follows(Late, "claimed", "ready") /\ \A t \in Tenants : Backlog(t)' = Backlog(t)
  BY <1>2, <1>3 DEF Follows, Diff, Backlog
<1>5. InBacklog' = InBacklog
  BY <1>4 DEF InBacklog
<1>6. total' = total - 0 /\ backlogged' = Cardinality(InBacklog)'
  BY <1>5, LedgerParts DEF Reclaim, Types
<1> QED  BY <1>1, <1>4, <1>6, MoveLedger DEF Counted

\* Ready rows past their retention leave.
LEMMA ExpireLedger ==
    ASSUME Types, LedgerExact, Expire
    PROVE  (\E S : Moves(S, "ready", "expired")) /\ LedgerExact'
<1> DEFINE old == First({i \in Ids : row[i].st = "ready" /\ row[i].age > Retention},
                        ExpireLimit)
           of(t) == Cardinality({i \in old : row[i].of = t})
           emptied == {t \in Tenants : of(t) > 0 /\ Backlog(t) = of(t)}
<1>1. /\ row' = Mark(old, "expired")
      /\ expired' = [t \in Tenants |-> expired[t] + of(t)]
      /\ ready' = [t \in Tenants |-> ready[t] - of(t)]
      /\ total' = total - Cardinality(old)
      /\ backlogged' = backlogged - Cardinality(emptied)
      /\ UNCHANGED <<accepted, delivered, claimed, deadN>>
  BY DEF Expire
<1>2. old \subseteq Ids /\ \A i \in old : row[i].st = "ready"
  BY DEF First
<1> HIDE DEF old
<1>3. Moves(old, "ready", "expired")
  <2>1. "expired" \in RowStates
    BY DEF RowStates
  <2> QED  BY <1>1, <1>2, <2>1, MarkMoves DEF Types
<1>4. /\ \A t \in Tenants : /\ of(t) = Cardinality(OfTenant(old, t)) /\ of(t) \in Nat
                            /\ of(t) <= ready[t]
  BY <1>3, MoveHeld, LedgerParts DEF Types, OfTenant
<1>5. Follows(old, "ready", "expired")
  BY <1>1, <1>4 DEF Follows, Diff, Types, Counters
<1>6. \A t \in Tenants : Backlog(t)' = Backlog(t) - of(t) /\ of(t) <= Backlog(t)
                         /\ Backlog(t) \in Nat /\ of(t) \in Nat
  BY <1>1, <1>4, BacklogTypes DEF Backlog
<1>7. backlogged' = Cardinality(InBacklog)'
  <2> HIDE DEF of
  <2>1. InBacklog' = InBacklog \ emptied /\ emptied \subseteq InBacklog
    BY <1>6 DEF InBacklog
  <2>2. IsFiniteSet(emptied)
    BY <2>1, InBacklogType, SubsetCount
  <2> HIDE DEF emptied
  <2>3. Cardinality(InBacklog') = Cardinality(InBacklog) - Cardinality(emptied)
    BY <2>1, <2>2, InBacklogType, PartCount
  <2> QED  BY <1>1, <2>3, LedgerParts
<1>8. LedgerExact'
  BY <1>1, <1>3, <1>5, <1>7, MoveLedger DEF Counted
<1> QED  BY <1>3, <1>8

\* The worker's statements are about rows of its tenant: claims, ...
LEMMA ClaimLedger ==
    ASSUME Types, LedgerExact, NEW w \in Workers, NEW batch, NEW todo,
           batch \subseteq Rows("ready", worker[w].t), ClaimRows(w, batch, todo)
    PROVE  Moves(batch, "ready", "claimed") /\ LedgerExact'
<1> DEFINE t == worker[w].t
           n == Cardinality(batch)
<1>0. t \in Tenants /\ row \in [Ids -> Row]
  BY DEF Types, WorkerRec
<1>1. Moves(batch, "ready", "claimed")
  <2>1. /\ "claimed" \in RowStates /\ ClaimTimeout \in -1 .. ClaimTimeout
    BY QueueAssumption DEF RowStates, Stored
  <2>2. ASSUME NEW i \in Ids
        PROVE  [row[i] EXCEPT !.st = "claimed", !.left = ClaimTimeout] \in Row
    BY <1>0, <2>1 DEF Row
  <2>3. row' \in [Ids -> Row]
    BY <1>0, <2>2 DEF ClaimRows
  <2>4. ASSUME NEW i \in Ids
        PROVE  /\ row'[i].of = row[i].of /\ row'[i].kind = row[i].kind
               /\ row'[i].st = IF i \in batch THEN "claimed" ELSE row[i].st
    BY <1>0 DEF ClaimRows, Row
  <2>5. batch \subseteq Ids /\ \A i \in batch : row[i].st = "ready"
    BY DEF Rows
  <2> QED  BY <2>3, <2>4, <2>5 DEF Moves
<1>2. /\ OfTenant(batch, t) = batch
      /\ \A u : u # t => OfTenant(batch, u) = {}
  BY DEF OfTenant, Rows
<1>3. n \in Nat /\ Cardinality({}) = 0
  BY <1>0, <1>1, MoveLive, FS_EmptySet
<1>4. /\ ready' = [ready EXCEPT ![t] = @ + (-n)] /\ claimed' = [claimed EXCEPT ![t] = @ + n]
      /\ UNCHANGED <<accepted, delivered, expired, deadN, total, backlogged>>
  BY DEF ClaimRows, Plus
<1> HIDE DEF n, t
<1>5. \A u \in Tenants : Cardinality(OfTenant(batch, u)) = IF u = t THEN n ELSE 0
  BY <1>2, <1>3 DEF n
<1>6. /\ Follows(batch, "ready", "claimed")
      /\ \A u \in Tenants : Backlog(u)' = Backlog(u)
  <2>1. \A u \in Tenants :
            /\ ready'[u] = ready[u] + (IF u = t THEN -n ELSE 0)
            /\ claimed'[u] = claimed[u] + (IF u = t THEN n ELSE 0)
            /\ ready[u] \in Int /\ claimed[u] \in Int
            /\ delivered[u] \in Int /\ expired[u] \in Int /\ deadN[u] \in Int
    BY <1>0, <1>3, <1>4 DEF Types, Counters
  <2>2. \A u \in Tenants : Backlog(u)' = Backlog(u)
    BY <1>3, <2>1 DEF Backlog
  <2>3. Follows(batch, "ready", "claimed")
    BY <1>3, <1>4, <1>5, <2>1 DEF Follows, Diff
  <2> QED  BY <2>2, <2>3
<1>7. InBacklog' = InBacklog
  BY <1>6 DEF InBacklog
<1>8. total' = total - 0 /\ backlogged' = Cardinality(InBacklog)'
  BY <1>4, <1>7, LedgerParts DEF Types
<1> QED  BY <1>1, <1>6, <1>8, MoveLedger DEF Counted

\* ... and the statements with "state='claimed'", which report the rows they changed.
LEMMA AffectedMoves ==
    ASSUME Types, NEW S, S \subseteq Ids, NEW to \in RowStates, row' = Mark(Affected(S), to)
    PROVE  Moves(Affected(S), "claimed", to)
<1>1. Affected(S) \subseteq Ids /\ \A i \in Affected(S) : row[i].st = "claimed"
  BY DEF Affected
<1> QED  BY <1>1, MarkMoves DEF Types

LEMMA AffectedCount ==
    ASSUME Types, LedgerExact, NEW S, S \subseteq Ids, NEW to \in Counted \ {"claimed"},
           row' = Mark(Affected(S), to), NEW t \in Tenants, \A i \in S : row[i].of = t
    PROVE  /\ Moves(Affected(S), "claimed", to)
           /\ Cardinality(Affected(S)) \in Nat
           /\ Cardinality(Affected(S)) <= claimed[t]
           /\ \A u \in Tenants : Cardinality(OfTenant(Affected(S), u)) =
                                    IF u = t THEN Cardinality(Affected(S)) ELSE 0
<1>1. Moves(Affected(S), "claimed", to)
  BY AffectedMoves DEF Counted, RowStates, Stored
<1>2. \A i \in Affected(S) : row[i].of = t
  BY DEF Affected
<1>3. /\ Cardinality(Affected(S)) \in Nat
      /\ Cardinality(Affected(S)) <= Held("claimed", t)
  BY <1>1, <1>2, MoveOne DEF Types
<1>4. /\ OfTenant(Affected(S), t) = Affected(S)
      /\ \A u : u # t => OfTenant(Affected(S), u) = {}
  BY <1>2 DEF OfTenant
<1> QED  BY <1>1, <1>3, <1>4, FS_EmptySet, LedgerParts

LEMMA ReleaseLedger ==
    ASSUME Types, LedgerExact, NEW S, S \subseteq Ids, NEW t \in Tenants,
           \A i \in S : row[i].of = t, row' = Mark(Affected(S), "ready"),
           claimed' = Plus(claimed, t, -Cardinality(Affected(S))),
           ready' = Plus(ready, t, Cardinality(Affected(S))),
           UNCHANGED <<accepted, delivered, expired, deadN, total, backlogged>>
    PROVE  LedgerExact'
<1> DEFINE A == Affected(S)
           n == Cardinality(A)
<1>1. /\ Moves(A, "claimed", "ready") /\ n \in Nat
      /\ \A u \in Tenants : Cardinality(OfTenant(A, u)) = IF u = t THEN n ELSE 0
  BY AffectedCount DEF Counted
<1>2. /\ claimed' = [claimed EXCEPT ![t] = @ + (-n)] /\ ready' = [ready EXCEPT ![t] = @ + n]
  BY DEF Plus
<1> HIDE DEF n, A
<1>3. /\ Follows(A, "claimed", "ready")
      /\ \A u \in Tenants : Backlog(u)' = Backlog(u)
  <2>1. \A u \in Tenants :
            /\ ready'[u] = ready[u] + (IF u = t THEN n ELSE 0)
            /\ claimed'[u] = claimed[u] + (IF u = t THEN -n ELSE 0)
            /\ ready[u] \in Int /\ claimed[u] \in Int
            /\ delivered[u] \in Int /\ expired[u] \in Int /\ deadN[u] \in Int
    BY <1>1, <1>2 DEF Types, Counters
  <2>2. \A u \in Tenants : Backlog(u)' = Backlog(u)
    BY <1>1, <2>1 DEF Backlog
  <2>3. Follows(A, "claimed", "ready")
    BY <1>1, <2>1 DEF Follows, Diff
  <2> QED  BY <2>2, <2>3
<1>4. InBacklog' = InBacklog
  BY <1>3 DEF InBacklog
<1>5. total' = total - 0 /\ backlogged' = Cardinality(InBacklog)'
  BY <1>4, LedgerParts DEF Types
<1> QED  BY <1>1, <1>3, <1>5, MoveLedger DEF Counted

\* Ack and Dead, which differ in the counter the rows are added to.
LEMMA LeaveLedger ==
    ASSUME Types, LedgerExact, NEW S, S \subseteq Ids, NEW t \in Tenants,
           \A i \in S : row[i].of = t, NEW to \in {"acked", "dead"},
           row' = Mark(Affected(S), to),
           claimed' = Plus(claimed, t, -Cardinality(Affected(S))),
           delivered' = IF to = "acked" THEN Plus(delivered, t, Cardinality(Affected(S)))
                                        ELSE delivered,
           deadN' = IF to = "dead" THEN Plus(deadN, t, Cardinality(Affected(S))) ELSE deadN,
           total' = total - Cardinality(Affected(S)),
           LeaveBacklog(t, Cardinality(Affected(S))),
           UNCHANGED <<accepted, expired, ready>>
    PROVE  LedgerExact'
<1> DEFINE A == Affected(S)
           n == Cardinality(A)
<1>1. /\ Moves(A, "claimed", to) /\ n \in Nat /\ n <= claimed[t]
      /\ \A u \in Tenants : Cardinality(OfTenant(A, u)) = IF u = t THEN n ELSE 0
  BY AffectedCount DEF Counted
<1>2. /\ claimed' = [claimed EXCEPT ![t] = @ + (-n)]
      /\ delivered' = IF to = "acked" THEN [delivered EXCEPT ![t] = @ + n] ELSE delivered
      /\ deadN' = IF to = "dead" THEN [deadN EXCEPT ![t] = @ + n] ELSE deadN
      /\ total' = total - n /\ LeaveBacklog(t, n)
  BY DEF Plus
<1> HIDE DEF n, A
<1>3. Follows(A, "claimed", to)
  BY <1>1, <1>2 DEF Follows, Diff, Types, Counters
<1>4. /\ \A u \in Tenants : Backlog(u) \in Nat
      /\ n <= Backlog(t) /\ Backlog(t)' = Backlog(t) - n
      /\ \A u \in Tenants \ {t} : Backlog(u)' = Backlog(u)
  BY <1>1, <1>2, BacklogTypes DEF Backlog, Types, Counters
<1>5. backlogged' = Cardinality(InBacklog)'
  BY <1>1, <1>2, <1>4, LeaveGauge, LedgerParts
<1>6. total' = total - Cardinality(A)
  BY <1>2 DEF n
<1> QED  BY <1>1, <1>3, <1>5, <1>6, MoveLedger DEF Counted

-----------------------------------------------------------------------------
(* The steps, seen from the table.                                         *)

\* No row changes its tenant or kind, appears, or leaves a final state.
RowsKept ==
    /\ row' \in [Ids -> Row]
    /\ \A i \in Ids :
        /\ row'[i].of = row[i].of /\ row'[i].kind = row[i].kind
        /\ row'[i].st = "none" <=> row[i].st = "none"
        /\ Settled(i) => row'[i].st = row[i].st

LEMMA MovesKept ==
    ASSUME NEW S, NEW from \in {"ready", "claimed"}, NEW to \in RowStates \ {"none"},
           Moves(S, from, to)
    PROVE  RowsKept
  BY DEF Moves, RowsKept, Settled

LEMMA StillKept == TableStill => RowsKept
  BY DEF TableStill, RowsKept, Settled

LEMMA SameStill == Types /\ row' = row => TableStill
  BY DEF Types, TableStill

LEMMA AdvanceStill ==
    ASSUME Types, Advance
    PROVE  TableStill
<1>1. ASSUME NEW i \in Ids
      PROVE  /\ row'[i] \in Row
             /\ row'[i].st = row[i].st /\ row'[i].of = row[i].of
             /\ row'[i].kind = row[i].kind
  <2>1. /\ row[i].left \in -1 .. ClaimTimeout /\ row[i].age \in 0 .. Retention + 1
        /\ row[i] \in Row
    BY DEF Types, Row
  <2> DEFINE l == IF row[i].st = "claimed" /\ row[i].left >= 0 THEN row[i].left - 1
                                                                ELSE row[i].left
             a == IF row[i].st \in {"ready", "claimed"} /\ row[i].age <= Retention
                  THEN row[i].age + 1 ELSE row[i].age
  <2>2. l \in -1 .. ClaimTimeout /\ a \in 0 .. Retention + 1
    BY <2>1, QueueAssumption
  <2>3. row'[i] = [row[i] EXCEPT !.left = l, !.age = a]
    BY DEF Advance
  <2> HIDE DEF l, a
  <2> QED  BY <2>1, <2>2, <2>3 DEF Row
<1>2. DOMAIN row' = Ids /\ row' = [i \in Ids |-> row'[i]]
  BY DEF Advance
<1>3. row' \in [Ids -> Row]
  BY <1>1, <1>2
<1> QED  BY <1>1, <1>3 DEF TableStill

LEMMA BatchRows == \A w : Batch(w) \subseteq Rows("ready", worker[w].t)
  BY DEF Batch, First

\* Dead of one message that its worker holds, Release of the rest, Ack of what
\* was delivered: the ledger follows, or the statement failed and nothing moves.
LEMMA DeadTable ==
    ASSUME Types, LedgerExact, HoldsInv, NEW w \in Workers, NEW i \in worker[w].todo,
           DeadLetter(w, i)
    PROVE  RowsKept /\ LedgerExact'
<1> DEFINE t == worker[w].t
<1>1. i \in Ids /\ t \in Tenants /\ row[i].of = t
  BY DEF Types, WorkerRec, HoldsInv
<1>2. CASE UNCHANGED <<row, claimed, deadN, total, backlogged>>
  <2>1. TableStill /\ UNCHANGED ledger
    BY <1>2, SameStill DEF DeadLetter, ledger
  <2> QED  BY <2>1, StillKept, StillLedger
<1>3. CASE /\ row' = Mark(Affected({i}), "dead")
           /\ claimed' = Plus(claimed, t, -Cardinality(Affected({i})))
           /\ deadN' = Plus(deadN, t, Cardinality(Affected({i})))
           /\ total' = total - Cardinality(Affected({i}))
           /\ LeaveBacklog(t, Cardinality(Affected({i})))
  <2>1. Moves(Affected({i}), "claimed", "dead")
    BY <1>1, <1>3, AffectedMoves DEF RowStates, Stored
  <2>2. delivered' = delivered /\ UNCHANGED <<accepted, expired, ready>>
    BY DEF DeadLetter
  <2>3. LedgerExact'
    BY <1>1, <1>3, <2>2, LeaveLedger
  <2> QED  BY <2>1, <2>3, MovesKept DEF RowStates, Stored
<1> QED  BY <1>2, <1>3 DEF DeadLetter

LEMMA ReleaseTable ==
    ASSUME Types, LedgerExact, HoldsInv, NEW w \in Workers, ReleaseRest(w)
    PROVE  RowsKept /\ LedgerExact'
<1> DEFINE t == worker[w].t
           S == worker[w].todo
<1>1. S \subseteq Ids /\ t \in Tenants /\ \A i \in S : row[i].of = t
  BY DEF Types, WorkerRec, HoldsInv
<1>2. CASE UNCHANGED <<row, claimed, ready>>
  <2>1. TableStill /\ UNCHANGED ledger
    BY <1>2, SameStill DEF ReleaseRest, ledger
  <2> QED  BY <2>1, StillKept, StillLedger
<1>3. CASE /\ row' = Mark(Affected(S), "ready")
           /\ claimed' = Plus(claimed, t, -Cardinality(Affected(S)))
           /\ ready' = Plus(ready, t, Cardinality(Affected(S)))
  <2>1. Moves(Affected(S), "claimed", "ready")
    BY <1>1, <1>3, AffectedMoves DEF RowStates, Stored
  <2>2. UNCHANGED <<accepted, delivered, expired, deadN, total, backlogged>>
    BY DEF ReleaseRest
  <2>3. LedgerExact'
    BY <1>1, <1>3, <2>2, ReleaseLedger
  <2> QED  BY <2>1, <2>3, MovesKept DEF RowStates, Stored
<1> QED  BY <1>2, <1>3 DEF ReleaseRest

LEMMA AckTable ==
    ASSUME Types, LedgerExact, HoldsInv, NEW w \in Workers, Ack(w)
    PROVE  RowsKept /\ LedgerExact'
<1> DEFINE t == worker[w].t
           S == worker[w].acked
<1>1. S \subseteq Ids /\ t \in Tenants /\ \A i \in S : row[i].of = t
  BY DEF Types, WorkerRec, HoldsInv
<1>2. /\ row' = Mark(Affected(S), "acked")
      /\ claimed' = Plus(claimed, t, -Cardinality(Affected(S)))
      /\ delivered' = Plus(delivered, t, Cardinality(Affected(S)))
      /\ total' = total - Cardinality(Affected(S))
      /\ LeaveBacklog(t, Cardinality(Affected(S)))
      /\ deadN' = deadN /\ UNCHANGED <<accepted, expired, ready>>
  BY DEF Ack, AckIds
<1>3. Moves(Affected(S), "claimed", "acked")
  BY <1>1, <1>2, AffectedMoves DEF RowStates
<1>4. LedgerExact'
  BY <1>1, <1>2, LeaveLedger
<1> QED  BY <1>3, <1>4, MovesKept DEF RowStates

\* Every step inserts one row, or keeps the rows; and the ledger follows it.
LEMMA TableStep ==
    ASSUME Types, LedgerExact, HoldsInv, [Next]_vars
    PROVE  /\ LedgerExact'
           /\ Ingest \/ RowsKept
<1>1. ASSUME NEW i \in Ids, NEW t \in Tenants, NEW kind \in Kinds, Insert(i, t, kind)
      PROVE  LedgerExact'
  BY <1>1, InsertLedger
<1>2. CASE Reclaim
  BY <1>2, ReclaimLedger, MovesKept DEF RowStates, Stored
<1>3. CASE Expire
  BY <1>3, ExpireLedger, MovesKept DEF RowStates, Stored
<1>4. ASSUME TableStill, UNCHANGED ledger
      PROVE  RowsKept /\ LedgerExact'
  BY <1>4, StillKept, StillLedger
<1>5. CASE Advance
  BY <1>4, <1>5, AdvanceStill DEF Advance
<1>6. ASSUME UNCHANGED <<row, ledger>>
      PROVE  RowsKept /\ LedgerExact'
  BY <1>4, <1>6, SameStill DEF ledger
<1>7. ASSUME NEW w \in Workers, Claim(w) \/ ClaimNothing(w) \/ ClaimFails(w)
      PROVE  RowsKept /\ LedgerExact'
  <2>1. \E batch, todo : batch \subseteq Rows("ready", worker[w].t) /\ ClaimRows(w, batch, todo)
    BY <1>7, BatchRows DEF Claim, ClaimNothing, ClaimFails
  <2> QED  BY <2>1, ClaimLedger, MovesKept DEF RowStates, Stored
<1>8. ASSUME NEW w \in Workers, Poison(w) \/ Refused(w)
      PROVE  RowsKept /\ LedgerExact'
  <2>1. \E i \in worker[w].todo : DeadLetter(w, i)
    BY <1>8 DEF Poison, Refused, HoldsInv
  <2> QED  BY <2>1, DeadTable
<1>9. ASSUME NEW w \in Workers, KeyNotUsable(w) \/ StopInSink(w)
      PROVE  RowsKept /\ LedgerExact'
  BY <1>9, ReleaseTable DEF KeyNotUsable, StopInSink
<1>10. ASSUME NEW w \in Workers, Ack(w)
       PROVE  RowsKept /\ LedgerExact'
  BY <1>10, AckTable
<1>11. ASSUME NEW w \in Workers,
              Exit(w) \/ (\E t \in Tenants : Pick(w, t)) \/ Decrypt(w) \/ Deliver(w) \/ AckFails(w)
       PROVE  RowsKept /\ LedgerExact'
  BY <1>6, <1>11 DEF Exit, Pick, Decrypt, Deliver, AckFails
<1>12. CASE Stop \/ \E t \in Tenants : KeyLost(t) \/ KeyBack(t)
  BY <1>6, <1>12 DEF Stop, KeyLost, KeyBack
<1>13. CASE UNCHANGED vars
  BY <1>6, <1>13 DEF vars
<1> QED
  BY <1>1, <1>2, <1>3, <1>5, <1>7, <1>8, <1>9, <1>10, <1>11, <1>12, <1>13
     DEF Next, Ingest, Outside, Work

-----------------------------------------------------------------------------
(* The other parts of the invariant.                                       *)

\* The counters stay functions; their values are those of LedgerExact.
FunctionsNext ==
    /\ accepted' = [t \in Tenants |-> accepted'[t]]
    /\ delivered' = [t \in Tenants |-> delivered'[t]]
    /\ expired' = [t \in Tenants |-> expired'[t]]
    /\ ready' = [t \in Tenants |-> ready'[t]]
    /\ claimed' = [t \in Tenants |-> claimed'[t]]
    /\ deadN' = [t \in Tenants |-> deadN'[t]]

LEMMA StepFunctions ==
    ASSUME Types, [Next]_vars
    PROVE  FunctionsNext
<1> USE DEF Types, Counters, FunctionsNext
<1>1. ASSUME NEW i \in Ids, NEW t \in Tenants, NEW kind \in Kinds, Insert(i, t, kind)
      PROVE  FunctionsNext
  BY <1>1 DEF Insert, Plus
<1>2. CASE Reclaim
  BY <1>2 DEF Reclaim
<1>3. CASE Expire
  BY <1>3 DEF Expire
<1>4. ASSUME UNCHANGED ledger
      PROVE  FunctionsNext
  BY <1>4 DEF ledger
<1>5. CASE Advance \/ Stop \/ \E t \in Tenants : KeyLost(t) \/ KeyBack(t)
  BY <1>4, <1>5 DEF Advance, Stop, KeyLost, KeyBack
<1>6. ASSUME NEW w \in Workers, Claim(w) \/ ClaimNothing(w) \/ ClaimFails(w)
      PROVE  FunctionsNext
  BY <1>6 DEF Claim, ClaimNothing, ClaimFails, ClaimRows, Plus
<1>7. ASSUME NEW w \in Workers, Poison(w) \/ Refused(w)
      PROVE  FunctionsNext
  BY <1>7 DEF Poison, Refused, DeadLetter, Plus
<1>8. ASSUME NEW w \in Workers, KeyNotUsable(w) \/ StopInSink(w)
      PROVE  FunctionsNext
  BY <1>8 DEF KeyNotUsable, StopInSink, ReleaseRest, Plus
<1>9. ASSUME NEW w \in Workers, Ack(w)
      PROVE  FunctionsNext
  BY <1>9 DEF Ack, Plus
<1>10. ASSUME NEW w \in Workers,
              Exit(w) \/ (\E t \in Tenants : Pick(w, t)) \/ Decrypt(w) \/ Deliver(w) \/ AckFails(w)
       PROVE  FunctionsNext
  BY <1>4, <1>10 DEF Exit, Pick, Decrypt, Deliver, AckFails
<1>11. CASE UNCHANGED vars
  BY <1>4, <1>11 DEF vars
<1> QED
  BY <1>1, <1>2, <1>3, <1>5, <1>6, <1>7, <1>8, <1>9, <1>10, <1>11
     DEF Next, Ingest, Outside, Work

\* What a step does to the workers, the keys, the context and the sink.
LEMMA StepWorkers ==
    ASSUME Types, [Next]_vars
    PROVE  /\ worker' \in [Workers -> WorkerRec]
           /\ usable' \subseteq Tenants /\ stopping' \in BOOLEAN
           /\ sink' \in [Tenants -> 0 .. SinkCap] /\ seen' \subseteq Ids
<1> DEFINE Goal == /\ worker' \in [Workers -> WorkerRec]
                   /\ usable' \subseteq Tenants /\ stopping' \in BOOLEAN
                   /\ sink' \in [Tenants -> 0 .. SinkCap] /\ seen' \subseteq Ids
<1> USE DEF Types
<1>1. CASE Ingest \/ Outside
  BY <1>1 DEF Ingest, Insert, Outside, Reclaim, Expire, Advance, Stop, KeyLost, KeyBack
<1>2. ASSUME NEW w \in Workers, Exit(w) \/ (\E t \in Tenants : Pick(w, t))
      PROVE  Goal
  BY <1>2 DEF Exit, Pick, WorkerRec
<1>3. ASSUME NEW w \in Workers, Claim(w) \/ ClaimNothing(w) \/ ClaimFails(w)
      PROVE  Goal
  <2>1. Batch(w) \subseteq Ids /\ {} \subseteq Ids
    BY BatchRows DEF Rows
  <2>2. ASSUME NEW batch, NEW todo \in SUBSET Ids, ClaimRows(w, batch, todo)
        PROVE  Goal
    BY <2>2 DEF ClaimRows, WorkerRec
  <2> QED  BY <1>3, <2>1, <2>2 DEF Claim, ClaimNothing, ClaimFails
<1>4. ASSUME NEW w \in Workers, Poison(w) \/ Refused(w)
      PROVE  Goal
  <2>1. PICK i : DeadLetter(w, i)
    BY <1>4 DEF Poison, Refused
  <2>2. worker' = [worker EXCEPT ![w].pc = "work", ![w].cur = {}, ![w].todo = @ \ {i}]
    BY <2>1 DEF DeadLetter
  <2>3. worker' \in [Workers -> WorkerRec]
    <3>1. worker[w] \in WorkerRec /\ worker[w].todo \ {i} \in SUBSET Ids
      BY DEF WorkerRec
    <3>2. [worker[w] EXCEPT !.pc = "work", !.cur = {}, !.todo = @ \ {i}] \in WorkerRec
      BY <3>1 DEF WorkerRec
    <3> QED  BY <2>2, <3>2
  <2> QED  BY <1>4, <2>1, <2>3 DEF Poison, Refused, DeadLetter
<1>5. ASSUME NEW w \in Workers, KeyNotUsable(w) \/ StopInSink(w)
      PROVE  Goal
  BY <1>5 DEF KeyNotUsable, StopInSink, ReleaseRest, WorkerRec
<1>6. ASSUME NEW w \in Workers, Decrypt(w)
      PROVE  Goal
  <2>1. PICK i \in worker[w].todo :
          worker' = [worker EXCEPT ![w].pc = "deliver", ![w].cur = {i}]
    BY <1>6 DEF Decrypt
  <2>2. {i} \in SUBSET Ids
    BY DEF WorkerRec
  <2>3. worker' \in [Workers -> WorkerRec]
    BY <2>1, <2>2 DEF WorkerRec
  <2> QED  BY <1>6, <2>3 DEF Decrypt
<1>7. ASSUME NEW w \in Workers, Deliver(w)
      PROVE  Goal
  <2>1. PICK i \in worker[w].cur :
          /\ sink' = [sink EXCEPT ![worker[w].t] = IF @ < SinkCap THEN @ + 1 ELSE @]
          /\ seen' = seen \cup {i}
          /\ worker' = [worker EXCEPT ![w].pc = "work", ![w].cur = {},
                                      ![w].todo = @ \ {i}, ![w].acked = @ \cup {i}]
    BY <1>7 DEF Deliver
  <2>2. i \in Ids /\ worker[w].t \in Tenants
    BY DEF WorkerRec
  <2>3. worker' \in [Workers -> WorkerRec]
    BY <2>1, <2>2 DEF WorkerRec
  <2>4. sink' \in [Tenants -> 0 .. SinkCap]
    BY <2>1, <2>2, QueueAssumption
  <2> QED  BY <1>7, <2>1, <2>2, <2>3, <2>4 DEF Deliver
<1>8. ASSUME NEW w \in Workers, Ack(w) \/ AckFails(w)
      PROVE  Goal
  BY <1>8 DEF Ack, AckFails, WorkerRec
<1>9. CASE UNCHANGED vars
  BY <1>9 DEF vars
<1> QED
  BY <1>1, <1>2, <1>3, <1>4, <1>5, <1>6, <1>7, <1>8, <1>9 DEF Next, Work

\* A row that exists keeps its tenant and its kind and does not vanish.
RowsStay ==
    \A i \in Ids : row[i].st # "none" =>
        /\ row'[i].st # "none" /\ row'[i].of = row[i].of /\ row'[i].kind = row[i].kind

LEMMA StepRowsStay ==
    ASSUME Types, Ingest \/ RowsKept
    PROVE  row' \in [Ids -> Row] /\ RowsStay
<1>1. CASE RowsKept
  BY <1>1 DEF RowsKept, RowsStay
<1>2. ASSUME NEW i \in Ids, NEW t \in Tenants, NEW kind \in Kinds, Insert(i, t, kind)
      PROVE  row' \in [Ids -> Row] /\ RowsStay
  <2>1. [st |-> "ready", of |-> t, kind |-> kind, left |-> 0, age |-> 0] \in Row
    BY QueueAssumption DEF Row, RowStates, Stored
  <2> QED  BY <1>2, <2>1 DEF Insert, Types, RowsStay
<1> QED  BY <1>1, <1>2 DEF Ingest

\* A step of worker w: the others hold what they held.
HoldsNext(w) ==
    /\ \A v \in Workers \ {w} : worker'[v] = worker[v]
    /\ worker'[w].pc \in {"next", "claim", "stopped"}
         => worker'[w].todo = {} /\ worker'[w].acked = {}
    /\ worker'[w].cur \subseteq worker'[w].todo
    /\ worker'[w].acked \subseteq seen'
    /\ \A i \in worker'[w].todo \cup worker'[w].acked :
         i \in Ids /\ row[i].of = worker'[w].t /\ row[i].st # "none"

LEMMA HoldsOne ==
    ASSUME Types, HoldsInv, RowsStay, seen \subseteq seen', NEW w \in Workers, HoldsNext(w)
    PROVE  HoldsInv'
<1> SUFFICES ASSUME NEW v \in Workers
             PROVE  /\ worker'[v].pc \in {"next", "claim", "stopped"}
                         => worker'[v].todo = {} /\ worker'[v].acked = {}
                    /\ worker'[v].cur \subseteq worker'[v].todo
                    /\ worker'[v].acked \subseteq seen'
                    /\ \A i \in worker'[v].todo \cup worker'[v].acked :
                         row'[i].of = worker'[v].t /\ row'[i].st # "none"
  BY DEF HoldsInv
<1>1. CASE v = w
  BY <1>1 DEF HoldsNext, RowsStay
<1>2. CASE v # w
  <2>1. worker'[v] = worker[v] /\ worker[v].todo \cup worker[v].acked \subseteq Ids
    BY <1>2 DEF HoldsNext, Types, WorkerRec
  <2> QED  BY <2>1 DEF HoldsInv, RowsStay
<1> QED  BY <1>1, <1>2

LEMMA HoldsSame ==
    ASSUME Types, HoldsInv, RowsStay, seen' = seen, worker' = worker
    PROVE  HoldsInv'
<1>1. ASSUME NEW v \in Workers
      PROVE  worker[v].todo \cup worker[v].acked \subseteq Ids
  BY DEF Types, WorkerRec
<1> QED  BY <1>1 DEF HoldsInv, RowsStay

LEMMA StepHolds ==
    ASSUME Types, HoldsInv, RowsStay, [Next]_vars
    PROVE  HoldsInv'
<1>0. ASSUME NEW w \in Workers
      PROVE  /\ worker[w].todo \subseteq Ids /\ worker[w].acked \subseteq Ids
             /\ worker[w].cur \subseteq worker[w].todo
             /\ worker[w].acked \subseteq seen
             /\ worker[w].pc \in {"next", "claim", "stopped"}
                  => worker[w].todo = {} /\ worker[w].acked = {}
             /\ \A i \in worker[w].todo \cup worker[w].acked :
                  row[i].of = worker[w].t /\ row[i].st # "none"
             /\ worker \in [Workers -> WorkerRec] /\ worker[w] \in WorkerRec
  BY DEF Types, WorkerRec, HoldsInv
<1>1. CASE Ingest \/ Outside
  BY <1>1, HoldsSame
     DEF Ingest, Insert, Outside, Reclaim, Expire, Advance, Stop, KeyLost, KeyBack
<1>2. ASSUME NEW w \in Workers, Exit(w) \/ (\E t \in Tenants : Pick(w, t))
      PROVE  HoldsInv'
  <2>1. HoldsNext(w) /\ seen' = seen
    BY <1>0, <1>2 DEF Exit, Pick, HoldsNext, WorkerRec
  <2> QED  BY <2>1, HoldsOne
<1>3. ASSUME NEW w \in Workers, Claim(w) \/ ClaimNothing(w) \/ ClaimFails(w)
      PROVE  HoldsInv'
  <2>1. PICK batch, todo : /\ ClaimRows(w, batch, todo)
                           /\ todo \subseteq Rows("ready", worker[w].t)
    BY <1>3, BatchRows DEF Claim, ClaimNothing, ClaimFails
  <2>2. /\ worker' = [worker EXCEPT ![w].pc = IF todo = {} THEN "next" ELSE "work",
                                    ![w].todo = todo]
        /\ worker[w].pc = "claim" /\ seen' = seen
    BY <1>3, <2>1 DEF Claim, ClaimNothing, ClaimFails, ClaimRows
  <2>3. \A i \in todo : i \in Ids /\ row[i].of = worker[w].t /\ row[i].st # "none"
    BY <2>1 DEF Rows
  <2>4. worker[w].cur = {} /\ worker[w].acked = {}
    BY <1>0, <2>2
  <2>5. /\ worker'[w].todo = todo /\ worker'[w].cur = {} /\ worker'[w].acked = {}
        /\ worker'[w].t = worker[w].t
        /\ worker'[w].pc = IF todo = {} THEN "next" ELSE "work"
        /\ \A v \in Workers \ {w} : worker'[v] = worker[v]
    BY <1>0, <2>2, <2>4 DEF WorkerRec
  <2>6. HoldsNext(w)
    BY <2>3, <2>5 DEF HoldsNext
  <2> QED  BY <2>2, <2>6, HoldsOne
<1>4. ASSUME NEW w \in Workers, Poison(w) \/ Refused(w)
      PROVE  HoldsInv'
  <2>1. PICK i : DeadLetter(w, i)
    BY <1>4 DEF Poison, Refused
  <2>2. /\ worker' = [worker EXCEPT ![w].pc = "work", ![w].cur = {}, ![w].todo = @ \ {i}]
        /\ seen' = seen
    BY <1>4, <2>1 DEF DeadLetter, Poison, Refused
  <2>3. HoldsNext(w)
    BY <1>0, <2>2 DEF HoldsNext, WorkerRec
  <2> QED  BY <2>2, <2>3, HoldsOne
<1>5. ASSUME NEW w \in Workers, KeyNotUsable(w) \/ StopInSink(w)
      PROVE  HoldsInv'
  <2>1. /\ worker' = [worker EXCEPT ![w].pc = "work", ![w].cur = {}, ![w].todo = {}]
        /\ seen' = seen
    BY <1>5 DEF KeyNotUsable, StopInSink, ReleaseRest
  <2>2. HoldsNext(w)
    BY <1>0, <2>1 DEF HoldsNext, WorkerRec
  <2> QED  BY <2>1, <2>2, HoldsOne
<1>6. ASSUME NEW w \in Workers, Decrypt(w)
      PROVE  HoldsInv'
  <2>1. PICK i \in worker[w].todo :
          worker' = [worker EXCEPT ![w].pc = "deliver", ![w].cur = {i}]
    BY <1>6 DEF Decrypt
  <2>2. HoldsNext(w) /\ seen' = seen
    BY <1>0, <1>6, <2>1 DEF Decrypt, HoldsNext, WorkerRec
  <2> QED  BY <2>2, HoldsOne
<1>7. ASSUME NEW w \in Workers, Deliver(w)
      PROVE  HoldsInv'
  <2>1. PICK i \in worker[w].cur :
          /\ seen' = seen \cup {i}
          /\ worker' = [worker EXCEPT ![w].pc = "work", ![w].cur = {},
                                      ![w].todo = @ \ {i}, ![w].acked = @ \cup {i}]
    BY <1>7 DEF Deliver
  <2>2. /\ worker'[w].todo = worker[w].todo \ {i} /\ worker'[w].cur = {}
        /\ worker'[w].acked = worker[w].acked \cup {i} /\ worker'[w].t = worker[w].t
        /\ worker'[w].pc = "work"
        /\ \A v \in Workers \ {w} : worker'[v] = worker[v]
    BY <1>0, <2>1 DEF WorkerRec
  <2>3. HoldsNext(w)
    BY <1>0, <2>1, <2>2 DEF HoldsNext
  <2> QED  BY <2>1, <2>3, HoldsOne
<1>8. ASSUME NEW w \in Workers, Ack(w) \/ AckFails(w)
      PROVE  HoldsInv'
  <2>1. /\ worker' = [worker EXCEPT ![w].pc = "next", ![w].acked = {}]
        /\ worker[w].todo = {} /\ seen' = seen
    BY <1>8 DEF Ack, AckFails
  <2>2. HoldsNext(w)
    BY <1>0, <2>1 DEF HoldsNext, WorkerRec
  <2> QED  BY <2>1, <2>2, HoldsOne
<1>9. CASE UNCHANGED vars
  BY <1>9, HoldsSame DEF vars
<1> QED
  BY <1>1, <1>2, <1>3, <1>4, <1>5, <1>6, <1>7, <1>8, <1>9 DEF Next, Work

\* Only a delivery touches the sink.
LEMMA SeenStep ==
    ASSUME [Next]_vars
    PROVE  \/ seen' = seen /\ sink' = sink
           \/ \E w \in Workers : \E i \in worker[w].cur :
                /\ seen' = seen \cup {i} /\ row' = row
                /\ sink' = [sink EXCEPT ![worker[w].t] = IF @ < SinkCap THEN @ + 1 ELSE @]
<1>1. CASE Ingest \/ Outside
  BY <1>1 DEF Ingest, Insert, Outside, Reclaim, Expire, Advance, Stop, KeyLost, KeyBack
<1>2. ASSUME NEW w \in Workers, Exit(w) \/ (\E t \in Tenants : Pick(w, t)) \/ Decrypt(w)
                                \/ Ack(w) \/ AckFails(w) \/ Poison(w) \/ Refused(w)
      PROVE  seen' = seen /\ sink' = sink
  BY <1>2 DEF Exit, Pick, Decrypt, Ack, AckFails, Poison, Refused
<1>3. ASSUME NEW w \in Workers, Claim(w) \/ ClaimNothing(w) \/ ClaimFails(w)
                                \/ KeyNotUsable(w) \/ StopInSink(w)
      PROVE  seen' = seen /\ sink' = sink
  BY <1>3 DEF Claim, ClaimNothing, ClaimFails, ClaimRows, KeyNotUsable, StopInSink,
              ReleaseRest
<1>4. ASSUME NEW w \in Workers, Deliver(w)
      PROVE  \E i \in worker[w].cur :
                /\ seen' = seen \cup {i} /\ row' = row
                /\ sink' = [sink EXCEPT ![worker[w].t] = IF @ < SinkCap THEN @ + 1 ELSE @]
  BY <1>4 DEF Deliver
<1>5. CASE UNCHANGED vars
  BY <1>5 DEF vars
<1> QED  BY <1>1, <1>2, <1>3, <1>4, <1>5 DEF Next, Work

LEMMA StepSink ==
    ASSUME Types, HoldsInv, SeenInv, SinkInv, RowsStay, row' \in [Ids -> Row], [Next]_vars
    PROVE  SeenInv' /\ SinkInv'
<1>0. seen \subseteq Ids /\ sink \in [Tenants -> 0 .. SinkCap]
  BY DEF Types
<1>1. CASE seen' = seen /\ sink' = sink
  <2>1. SeenInv'
    BY <1>0, <1>1 DEF SeenInv, RowsStay
  <2>2. \A t \in Tenants : SeenOf(t)' = SeenOf(t)
    BY <1>0, <1>1 DEF SeenInv, RowsStay, SeenOf
  <2> QED  BY <1>1, <2>1, <2>2 DEF SinkInv
<1>2. ASSUME NEW w \in Workers, NEW i \in worker[w].cur,
             seen' = seen \cup {i}, row' = row,
             sink' = [sink EXCEPT ![worker[w].t] = IF @ < SinkCap THEN @ + 1 ELSE @]
      PROVE  SeenInv' /\ SinkInv'
  <2> DEFINE t == worker[w].t
  <2>1. i \in Ids /\ t \in Tenants /\ row[i].of = t /\ row[i].st # "none"
    BY DEF Types, WorkerRec, HoldsInv
  <2>2. SeenInv'
    BY <1>2, <2>1 DEF SeenInv
  <2>3. ASSUME NEW u \in Tenants
        PROVE  Cardinality(SeenOf(u)') <= sink'[u]
    <3>1. IsFiniteSet(SeenOf(u)) /\ Cardinality(SeenOf(u)) \in Nat
      BY <1>0, SubsetCount, QueueAssumption DEF SeenOf
    <3>2. Cardinality(SeenOf(u)) <= sink[u] /\ sink[u] \in 0 .. SinkCap
      BY <1>0 DEF SinkInv
    <3>3. CASE u # t
      <4>1. SeenOf(u)' = SeenOf(u) /\ sink'[u] = sink[u]
        BY <1>0, <1>2, <2>1, <3>3 DEF SeenOf
      <4> QED  BY <3>2, <4>1
    <3>4. CASE u = t
      <4>1. SeenOf(u)' = SeenOf(u) \cup {i}
        <5>1. SeenOf(u)' = {x \in seen \cup {i} : row[x].of = u}
          BY <1>2 DEF SeenOf
        <5> QED  BY <2>1, <3>4, <5>1 DEF SeenOf
      <4>2. sink'[u] = IF sink[u] < SinkCap THEN sink[u] + 1 ELSE sink[u]
        BY <1>0, <1>2, <2>1, <3>4
      <4>3. SeenOf(u)' \subseteq Ids
        BY <1>0, <2>1, <4>1 DEF SeenOf
      <4>4. /\ Cardinality(SeenOf(u)') <= Cardinality(Ids)
            /\ Cardinality(Ids) \in Nat /\ Cardinality(SeenOf(u)') \in Nat
        BY <4>3, SubsetCount, QueueAssumption
      <4>5. Cardinality(SeenOf(u)') <= Cardinality(SeenOf(u)) + 1
        <5>1. Cardinality(SeenOf(u) \cup {i}) =
                IF i \in SeenOf(u) THEN Cardinality(SeenOf(u)) ELSE Cardinality(SeenOf(u)) + 1
          BY <3>1, FS_AddElement
        <5> QED  BY <3>1, <4>1, <5>1
      <4> QED  BY <3>1, <3>2, <4>2, <4>4, <4>5, QueueAssumption
    <3> QED  BY <3>3, <3>4
  <2> QED  BY <2>2, <2>3 DEF SinkInv
<1> QED  BY <1>1, <1>2, SeenStep

\* What may become of a row: acknowledged only when the sink has the message,
\* dead only when the message can never be delivered.
Fate(i) ==
    /\ row'[i].st = "acked" => row[i].st = "acked" \/ i \in seen
    /\ row'[i].st = "dead" =>
         row[i].st = "dead" \/ (row[i].st = "claimed" /\ row[i].kind # "good")

LEMMA MovesFate ==
    ASSUME NEW S, NEW from, NEW to \in {"ready", "claimed", "expired"}, Moves(S, from, to)
    PROVE  \A i \in Ids : Fate(i)
  BY DEF Moves, Fate

LEMMA StepFate ==
    ASSUME Types, LedgerExact, HoldsInv, [Next]_vars
    PROVE  \A i \in Ids : Fate(i)
<1>1. CASE Ingest
  BY <1>1 DEF Ingest, Insert, Types, Fate
<1>2. CASE Reclaim
  BY <1>2, ReclaimLedger, MovesFate
<1>3. CASE Expire
  BY <1>3, ExpireLedger, MovesFate
<1>4. CASE TableStill
  BY <1>4 DEF TableStill, Fate
<1>5. CASE Advance
  BY <1>4, <1>5, AdvanceStill
<1>6. CASE row' = row
  BY <1>4, <1>6, SameStill
<1>7. ASSUME NEW w \in Workers, Claim(w) \/ ClaimNothing(w) \/ ClaimFails(w)
      PROVE  \A i \in Ids : Fate(i)
  <2>1. \E batch, todo : batch \subseteq Rows("ready", worker[w].t) /\ ClaimRows(w, batch, todo)
    BY <1>7, BatchRows DEF Claim, ClaimNothing, ClaimFails
  <2> QED  BY <2>1, ClaimLedger, MovesFate
<1>8. ASSUME NEW w \in Workers, Poison(w) \/ Refused(w)
      PROVE  \A i \in Ids : Fate(i)
  <2>1. PICK i \in worker[w].todo : row[i].kind # "good" /\ DeadLetter(w, i)
    BY <1>8 DEF Poison, Refused, HoldsInv
  <2>2. CASE row' = Mark(Affected({i}), "dead")
    <3>1. {i} \subseteq Ids
      BY DEF Types, WorkerRec
    <3>2. Moves(Affected({i}), "claimed", "dead")
      BY <2>2, <3>1, AffectedMoves DEF RowStates, Stored
    <3> QED  BY <2>1, <3>2 DEF Moves, Affected, Fate
  <2> QED  BY <1>6, <2>1, <2>2 DEF DeadLetter
<1>9. ASSUME NEW w \in Workers, KeyNotUsable(w) \/ StopInSink(w)
      PROVE  \A i \in Ids : Fate(i)
  <2>1. CASE row' = Mark(Affected(worker[w].todo), "ready")
    <3>1. worker[w].todo \subseteq Ids
      BY DEF Types, WorkerRec
    <3>2. Moves(Affected(worker[w].todo), "claimed", "ready")
      BY <2>1, <3>1, AffectedMoves DEF RowStates, Stored
    <3> QED  BY <3>2, MovesFate
  <2> QED  BY <1>6, <1>9, <2>1 DEF KeyNotUsable, StopInSink, ReleaseRest
<1>10. ASSUME NEW w \in Workers, Ack(w)
       PROVE  \A i \in Ids : Fate(i)
  <2>1. worker[w].acked \subseteq Ids /\ worker[w].acked \subseteq seen
    BY DEF Types, WorkerRec, HoldsInv
  <2>2. Moves(Affected(worker[w].acked), "claimed", "acked")
    BY <1>10, <2>1, AffectedMoves DEF Ack, AckIds, RowStates
  <2> QED  BY <2>1, <2>2 DEF Moves, Affected, Fate
<1>11. ASSUME NEW w \in Workers,
              Exit(w) \/ (\E t \in Tenants : Pick(w, t)) \/ Decrypt(w) \/ Deliver(w) \/ AckFails(w)
       PROVE  row' = row
  BY <1>11 DEF Exit, Pick, Decrypt, Deliver, AckFails
<1>12. CASE Stop \/ \E t \in Tenants : KeyLost(t) \/ KeyBack(t)
  BY <1>6, <1>12 DEF Stop, KeyLost, KeyBack
<1>13. CASE UNCHANGED vars
  BY <1>6, <1>13 DEF vars
<1> QED
  BY <1>1, <1>2, <1>3, <1>5, <1>6, <1>7, <1>8, <1>9, <1>10, <1>11, <1>12, <1>13
     DEF Next, Outside, Work

LEMMA StepNoLoss ==
    ASSUME Types, SeenInv, NoLoss, RowsStay, row' \in [Ids -> Row], seen \subseteq seen',
           \A i \in Ids : Fate(i)
    PROVE  NoLoss'
<1> SUFFICES ASSUME NEW i \in Ids
             PROVE  /\ row'[i].st = "acked" => i \in seen'
                    /\ row'[i].st = "dead" => row'[i].kind # "good"
  BY DEF NoLoss
<1>1. Fate(i)
  OBVIOUS
<1>2. CASE row[i].st = "none"
  BY <1>1, <1>2 DEF Fate
<1>3. CASE row[i].st # "none"
  BY <1>1, <1>3 DEF Fate, NoLoss, RowsStay
<1> QED  BY <1>2, <1>3

-----------------------------------------------------------------------------
(* The theorems.                                                           *)

LEMMA InitQueue == Init => QueueInv
<1> SUFFICES ASSUME Init PROVE QueueInv
  OBVIOUS
<1>1. PICK t0 \in Tenants :
        /\ row = [i \in Ids |-> [st |-> "none", of |-> t0, kind |-> "good",
                                 left |-> 0, age |-> 0]]
        /\ worker = [w \in Workers |-> [pc |-> "next", t |-> t0, todo |-> {},
                                        cur |-> {}, acked |-> {}]]
  BY DEF Init
<1>2. Types
  <2>1. [st |-> "none", of |-> t0, kind |-> "good", left |-> 0, age |-> 0] \in Row
    BY QueueAssumption DEF Row, RowStates, AllKinds
  <2>2. [pc |-> "next", t |-> t0, todo |-> {}, cur |-> {}, acked |-> {}] \in WorkerRec
    BY DEF WorkerRec
  <2>3. Zero \in Counters /\ Zero \in [Tenants -> 0 .. SinkCap]
    BY QueueAssumption DEF Zero, Counters
  <2>4. row \in [Ids -> Row] /\ worker \in [Workers -> WorkerRec]
    BY <1>1, <2>1, <2>2
  <2>5. /\ accepted \in Counters /\ delivered \in Counters /\ expired \in Counters
        /\ ready \in Counters /\ claimed \in Counters /\ deadN \in Counters
        /\ sink \in [Tenants -> 0 .. SinkCap]
    BY <2>3 DEF Init
  <2>6. /\ total \in Int /\ backlogged \in Int
        /\ usable \subseteq Tenants /\ stopping \in BOOLEAN /\ seen \subseteq Ids
    <3>1. total = 0 /\ backlogged = 0 /\ usable = Tenants /\ stopping = FALSE /\ seen = {}
      BY DEF Init
    <3>2. total \in Int /\ backlogged \in Int
      BY <3>1
    <3>3. usable \subseteq Tenants /\ stopping \in BOOLEAN /\ seen \subseteq Ids
      BY <3>1, Zenon
    <3> QED  BY <3>2, <3>3
  <2> QED  BY <2>4, <2>5, <2>6 DEF Types
<1>3. LedgerExact
  <2>1. \A st \in Counted, t \in Tenants : Rows(st, t) = {}
    BY <1>1 DEF Rows, Counted
  <2>2. \A st \in Counted, t \in Tenants : Held(st, t) = 0
    BY <2>1, FS_EmptySet DEF Held
  <2>3. Live = {} /\ InBacklog = {}
    BY <1>1 DEF Live, InBacklog, Backlog, Init, Zero
  <2>4. Cardinality(Live) = 0 /\ Cardinality(InBacklog) = 0
    BY <2>3, FS_EmptySet
  <2>5. \A t \in Tenants :
            /\ ready[t] = 0 /\ claimed[t] = 0 /\ deadN[t] = 0 /\ delivered[t] = 0
            /\ expired[t] = 0 /\ accepted[t] = 0
    BY DEF Init, Zero
  <2>6. \A t \in Tenants :
            /\ Held("ready", t) = 0 /\ Held("claimed", t) = 0 /\ Held("dead", t) = 0
            /\ Held("acked", t) = 0 /\ Held("expired", t) = 0
    BY <2>2 DEF Counted
  <2>7. total = Cardinality(Live) /\ backlogged = Cardinality(InBacklog)
    BY <2>4 DEF Init
  <2>8. 0 = 0 + 0 + 0 + 0 + 0
    OBVIOUS
  <2> QED  BY <2>5, <2>6, <2>7, <2>8, LedgerParts
<1>4. HoldsInv /\ SeenInv /\ NoLoss
  BY <1>1 DEF HoldsInv, SeenInv, NoLoss, Init
<1>5. SinkInv
  <2>1. \A t \in Tenants : SeenOf(t) = {} /\ sink[t] = 0
    BY DEF SeenOf, Init, Zero
  <2> QED  BY <2>1, FS_EmptySet DEF SinkInv
<1> QED  BY <1>2, <1>3, <1>4, <1>5 DEF QueueInv

LEMMA StepQueue ==
    ASSUME QueueInv, [Next]_vars
    PROVE  QueueInv'
<1> USE DEF QueueInv
<1>1. LedgerExact' /\ (Ingest \/ RowsKept)
  BY TableStep
<1>2. row' \in [Ids -> Row] /\ RowsStay
  BY <1>1, StepRowsStay
<1>3. Types'
  <2>1. FunctionsNext
    BY StepFunctions
  <2>2. \A st, t : Held(st, t)' \in Nat /\ Cardinality(Live)' \in Nat
    <3>1. \A st, t : Rows(st, t)' \subseteq Ids /\ Live' \subseteq Ids
      BY DEF Rows, Live
    <3> QED  BY <3>1, SubsetCount, QueueAssumption DEF Held
  <2>3. Cardinality(InBacklog)' \in Nat
    <3>1. InBacklog' \subseteq Tenants
      BY DEF InBacklog
    <3> QED  BY <3>1, SubsetCount, QueueAssumption
  <2>4. \A t \in Tenants :
            /\ ready'[t] \in Int /\ claimed'[t] \in Int /\ deadN'[t] \in Int
            /\ delivered'[t] \in Int /\ expired'[t] \in Int /\ accepted'[t] \in Int
    BY <1>1, <2>2, LedgerPartsNext
  <2>5. /\ ready' \in Counters /\ claimed' \in Counters /\ deadN' \in Counters
        /\ delivered' \in Counters /\ expired' \in Counters /\ accepted' \in Counters
    BY <2>1, <2>4 DEF FunctionsNext, Counters
  <2>6. total' \in Int /\ backlogged' \in Int
    BY <1>1, <2>2, <2>3, LedgerPartsNext
  <2> QED  BY <1>2, <2>5, <2>6, StepWorkers DEF Types
<1>4. HoldsInv'
  BY <1>2, StepHolds
<1>5. SeenInv' /\ SinkInv'
  BY <1>2, StepSink
<1>6. NoLoss'
  <2>1. seen \subseteq seen'
    BY SeenStep
  <2> QED  BY <1>2, <2>1, StepFate, StepNoLoss
<1> QED  BY <1>1, <1>3, <1>4, <1>5, <1>6

\* The inductive invariant holds in every reachable state.
THEOREM QueueInvariant == Spec => []QueueInv
<1> QED  BY InitQueue, StepQueue, PTL DEF Spec

\* The ledger is the table, for any number of tenants, workers and messages:
\* every counter moves by exactly the rows a statement changed, whatever was
\* reclaimed, expired or claimed in between (store.go, the S4 census).
THEOREM QueueLedgerExact == Spec => []LedgerExact
<1>1. QueueInv => LedgerExact
  BY DEF QueueInv
<1> QED  BY <1>1, QueueInvariant, PTL

\* No counter or gauge of the ledger goes below zero (store.go Store).
THEOREM QueueTypes == Spec => []TypeOK
<1>1. ASSUME QueueInv PROVE TypeOK
  <2> USE <1>1 DEF QueueInv
  <2>1. \A t \in Tenants :
            /\ ready[t] \in Nat /\ claimed[t] \in Nat /\ deadN[t] \in Nat
            /\ delivered[t] \in Nat /\ expired[t] \in Nat /\ accepted[t] \in Nat
    BY HeldTypes, LedgerParts
  <2>2. total \in Nat /\ backlogged \in Nat
    BY HeldTypes, InBacklogType, LedgerParts
  <2>3. /\ ready \in Counter /\ claimed \in Counter /\ deadN \in Counter
        /\ delivered \in Counter /\ expired \in Counter /\ accepted \in Counter
    BY <2>1 DEF Types, Counters, Counter
  <2> QED  BY <2>2, <2>3 DEF Types, TypeOK
<1> QED  BY <1>1, QueueInvariant, PTL

\* S4, no loss: a message leaves the table only after the sink has it or its
\* retention is over, and only an undeliverable one is dead-lettered
\* (workers.go loop), with any number of workers racing for its row.
THEOREM QueueNoLoss == Spec => []NoLoss
<1>1. QueueInv => NoLoss
  BY DEF QueueInv
<1> QED  BY <1>1, QueueInvariant, PTL

\* The sink's count covers the service's (checker.go s4): every acknowledged row
\* is a message the sink has counted.
THEOREM QueueSinkCovers == Spec => []SinkCovers
<1>1. ASSUME QueueInv PROVE SinkCovers
  <2> USE <1>1 DEF QueueInv
  <2> SUFFICES ASSUME NEW t \in Tenants PROVE delivered[t] <= sink[t]
    BY DEF SinkCovers
  <2>1. Rows("acked", t) \subseteq SeenOf(t) /\ SeenOf(t) \subseteq Ids
    BY DEF Rows, SeenOf, NoLoss, Types
  <2>2. IsFiniteSet(SeenOf(t))
    BY <2>1, SubsetCount, QueueAssumption
  <2>3. /\ Cardinality(Rows("acked", t)) <= Cardinality(SeenOf(t))
        /\ Cardinality(Rows("acked", t)) \in Nat /\ Cardinality(SeenOf(t)) \in Nat
    BY <2>1, <2>2, SubsetCount
  <2>4. delivered[t] = Cardinality(Rows("acked", t)) /\ Cardinality(SeenOf(t)) <= sink[t]
        /\ sink[t] \in Int
    BY LedgerParts DEF Held, SinkInv, Types
  <2> QED  BY <2>3, <2>4
<1> QED  BY <1>1, QueueInvariant, PTL

\* A row whose outcome is decided never comes back: no late Release, Reclaim,
\* Dead or Ack of a worker that lost its claim changes its state (store.go).
THEOREM QueueNoResurrection == Spec => NoResurrection
<1>1. ASSUME QueueInv, [Next]_vars
      PROVE  [\A i \in Ids : Settled(i) => row'[i].st = row[i].st]_vars
  <2>1. CASE RowsKept
    BY <2>1 DEF RowsKept
  <2>2. CASE Ingest
    BY <1>1, <2>2 DEF Ingest, Insert, Settled, QueueInv, Types
  <2> QED  BY <1>1, <2>1, <2>2, TableStep DEF QueueInv
<1> QED  BY <1>1, QueueInvariant, PTL DEF Spec, NoResurrection
=============================================================================
