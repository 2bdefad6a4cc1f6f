-------------------------- MODULE SchedulerProofs ---------------------------
(***************************************************************************)
(* The ring of the scheduler, for every number of tenants and every number *)
(* of light turns, with the tenants' classes changing during a scan.       *)
(*                                                                         *)
(* NoStarvation is a bound on the past; what decreases is the future: the  *)
(* turns that are left until the ring must come round to a tenant.  A      *)
(* tenant that enters a class behind the scan's back is Missed by the call *)
(* in progress, once, and that is where the bound is tight.                *)
(***************************************************************************)
EXTENDS Scheduler, TLAPS

\* How far ahead of the cursor cur tenant i is.
Offset(cur, i) == IF i >= cur THEN i - cur ELSE i + N - cur

\* The call in progress will not look at tenant i in its class any more.
Missed(i) ==
    /\ scan.on
    /\ \/ scan.want = class[i] /\ Offset(Cursor, i) < scan.k
       \/ TwoClass /\ scan.pass = 0 /\ scan.want # class[i]

\* The class a call looks for follows from the turn and the pass.
TurnInv ==
    scan.on => IF TwoClass
               THEN scan.want = IF scan.pass = 1 THEN Preferred ELSE Other(Preferred)
               ELSE scan.want = "light" /\ scan.pass = 0

\* A missed tenant entered its class during this call: it has not waited yet.
MissedInv == \A i \in Index : Missed(i) => waited[i] = 0
SteadyInv == \A i \in steady : class[i] # "none" /\ ~Missed(i)
NoneInv == \A i \in Index : class[i] = "none" => waited[i] = 0

\* The turns a tenant i that has waited w turns may have waited in the end, with
\* the cursor of its class at cur and turn t.
LightRank(w, cur, t, i) ==
    w + Offset(cur, i)
    + IF TwoClass THEN (t + Offset(cur, i)) \div LightTurns ELSE 0

HeavyRank(w, cur, t, i) ==
    w + (LightTurns - t) + Offset(cur, i) * (LightTurns + 1)

RankInv ==
    \A i \in Index :
        /\ class[i] = "light" => LightRank(waited[i], cursorA, turn, i) <= Bound("light")
        /\ class[i] = "heavy" => HeavyRank(waited[i], cursorB, turn, i) <= Bound("heavy")

RingInv == TypeOK /\ TurnInv /\ MissedInv /\ SteadyInv /\ NoneInv /\ RankInv

-----------------------------------------------------------------------------
(* Arithmetic.                                                             *)

LEMMA DivShift ==
    ASSUME NEW m \in Nat \ {0}, NEW a \in Nat
    PROVE  /\ a \div m \in Nat
           /\ (m + a) \div m = 1 + (a \div m)
  OBVIOUS

LEMMA DivMono ==
    ASSUME NEW m \in Nat \ {0}, NEW a \in Nat, NEW b \in Nat, a <= b
    PROVE  a \div m <= b \div m
  OBVIOUS

LEMMA MulDrop ==
    ASSUME NEW m \in Nat, NEW a \in Nat, NEW b \in Nat, a <= b - 1
    PROVE  a * m \in Nat /\ b * m \in Nat /\ a * m + m <= b * m
  OBVIOUS

-----------------------------------------------------------------------------
(* The ring.                                                               *)

LEMMA OffsetType ==
    ASSUME NEW cur \in Index, NEW i \in Index
    PROVE  Offset(cur, i) \in Nat /\ Offset(cur, i) <= N - 1
  BY RingAssumption DEF Index, Offset

\* One lap of modular arithmetic, without the modulus.
LEMMA RingMod ==
    ASSUME NEW cur \in Index, NEW k \in Index
    PROVE  (cur + k) % N = IF cur + k < N THEN cur + k ELSE cur + k - N
<1>1. N \in Nat \ {0} /\ cur \in Nat /\ k \in Nat /\ cur + k < 2 * N
  BY RingAssumption DEF Index
<1> QED  BY <1>1

\* The index k steps after the cursor is the only one at offset k.
LEMMA VisitOffset ==
    ASSUME NEW cur \in Index, NEW k \in Index
    PROVE  /\ (cur + k) % N \in Index
           /\ Offset(cur, (cur + k) % N) = k
           /\ \A i \in Index : Offset(cur, i) = k => i = (cur + k) % N
<1>1. (cur + k) % N = IF cur + k < N THEN cur + k ELSE cur + k - N
  BY RingMod
<1> QED  BY <1>1, RingAssumption DEF Index, Offset

\* A cursor that moves past a tenant at offset k comes closer to those behind it.
LEMMA PastOffset ==
    ASSUME NEW cur \in Index, NEW k \in Index, NEW i \in Index
    PROVE  LET a == (cur + k) % N
           IN  /\ Past(a) \in Index
               /\ Offset(cur, i) > k => Offset(Past(a), i) <= Offset(cur, i) - 1
<1> DEFINE a == (cur + k) % N
<1>1. a = IF cur + k < N THEN cur + k ELSE cur + k - N
  BY RingMod
<1>2. a \in Index
  BY <1>1, RingAssumption DEF Index
<1> HIDE DEF a
<1>3. Past(a) = IF a + 1 < N THEN a + 1 ELSE a + 1 - N
  <2>1. N \in Nat \ {0} /\ a + 1 \in Nat /\ a + 1 < 2 * N
    BY <1>2, RingAssumption DEF Index
  <2>2. (a + 1) % N = IF a + 1 < N THEN a + 1 ELSE a + 1 - N
    BY <1>2, <2>1 DEF Index
  <2> QED  BY <2>2 DEF Past
<1>4. Past(a) \in Index
  BY <1>2, <1>3, RingAssumption DEF Index
<1>5. Offset(cur, i) > k => Offset(Past(a), i) <= Offset(cur, i) - 1
  BY <1>1, <1>2, <1>3, RingAssumption DEF Index, Offset
<1> QED  BY <1>4, <1>5 DEF a

LEMMA CursorType ==
    ASSUME TypeOK
    PROVE  Cursor \in Index /\ At \in Index
<1>1. Cursor \in Index /\ scan.k \in Index
  BY DEF TypeOK, Cursor
<1> QED  BY <1>1, VisitOffset DEF At

LEMMA BoundType == \A c : Bound(c) \in Nat
<1>0. N \in Nat \ {0} /\ LightTurns \in Nat \ {0} /\ N + LightTurns - 1 \in Nat
  BY RingAssumption
<1>1. ((N + LightTurns - 1) \div LightTurns) \in Nat
  BY <1>0, DivShift
<1>2. N * (LightTurns + 1) \in Nat
  BY <1>0
<1> QED  BY <1>0, <1>1, <1>2 DEF Bound

\* A tenant that has waited for at most one turn is within its bound.
LEMMA LightFits ==
    ASSUME NEW o \in Nat, o <= N - 1, NEW t \in 0 .. LightTurns
    PROVE  1 + o + (IF TwoClass THEN (t + o) \div LightTurns ELSE 0) <= Bound("light")
<1> DEFINE L == LightTurns
<1>0. N \in Nat \ {0} /\ L \in Nat \ {0} /\ TwoClass \in BOOLEAN
  BY RingAssumption
<1>1. CASE ~TwoClass
  BY <1>0, <1>1 DEF Bound
<1>2. CASE TwoClass
  <2>1. t + o \in Nat /\ L + (N - 1) \in Nat /\ t + o <= L + (N - 1)
    BY <1>0
  <2>2. (t + o) \div L <= (L + (N - 1)) \div L
    BY <1>0, <2>1, DivMono
  <2>3. L + (N - 1) = N + L - 1
    BY <1>0
  <2>4. (L + (N - 1)) \div L \in Nat /\ (t + o) \div L \in Nat
    BY <1>0, <2>1, DivShift
  <2>5. Bound("light") = N + ((L + (N - 1)) \div L)
    BY <1>2, <2>3 DEF Bound
  <2> HIDE DEF L
  <2>6. 1 + o + ((t + o) \div L) <= N + ((L + (N - 1)) \div L)
    BY <1>0, <2>2, <2>4
  <2> QED  BY <1>2, <2>5, <2>6 DEF L
<1> QED  BY <1>0, <1>1, <1>2

LEMMA HeavyFits ==
    ASSUME TwoClass, NEW o \in Nat, o <= N - 1, NEW t \in 0 .. LightTurns
    PROVE  1 + (LightTurns - t) + o * (LightTurns + 1) <= Bound("heavy")
<1>0. N \in Nat \ {0} /\ LightTurns \in Nat \ {0}
  BY RingAssumption
<1>1. Bound("heavy") = N * (LightTurns + 1)
  BY DEF Bound
<1>2. /\ o * (LightTurns + 1) \in Nat /\ N * (LightTurns + 1) \in Nat
      /\ o * (LightTurns + 1) + (LightTurns + 1) <= N * (LightTurns + 1)
  BY <1>0, MulDrop
<1> QED  BY <1>0, <1>1, <1>2

LEMMA ShortWait ==
    ASSUME NEW w \in Nat, w <= 1, NEW cur \in Index, NEW t \in 0 .. LightTurns,
           NEW i \in Index
    PROVE  /\ LightRank(w, cur, t, i) <= Bound("light")
           /\ TwoClass => HeavyRank(w, cur, t, i) <= Bound("heavy")
<1>0. /\ LightTurns \in Nat \ {0} /\ N \in Nat \ {0} /\ t \in Nat
      /\ TwoClass \in BOOLEAN
  BY RingAssumption
<1> DEFINE o == Offset(cur, i)
           q == IF TwoClass THEN (t + o) \div LightTurns ELSE 0
           m == o * (LightTurns + 1)
<1>1. o \in Nat /\ o <= N - 1
  BY OffsetType
<1> HIDE DEF o
<1>2. q \in Nat /\ m \in Nat
  <2>1. t + o \in Nat
    BY <1>0, <1>1
  <2>2. (t + o) \div LightTurns \in Nat
    BY <1>0, <2>1, DivShift
  <2> QED  BY <1>0, <1>1, <2>2, MulDrop
<1>3. 1 + o + q <= Bound("light")
  BY <1>0, <1>1, LightFits
<1>4. TwoClass => 1 + (LightTurns - t) + m <= Bound("heavy")
  BY <1>0, <1>1, HeavyFits
<1>5. Bound("light") \in Nat /\ Bound("heavy") \in Nat
  BY BoundType
<1>6. LightRank(w, cur, t, i) = w + o + q /\ HeavyRank(w, cur, t, i) = w + (LightTurns - t) + m
  BY DEF LightRank, HeavyRank, o
<1> HIDE DEF q, m
<1> QED  BY <1>0, <1>1, <1>2, <1>3, <1>4, <1>5, <1>6

LEMMA InitRing == Init => RingInv
<1> SUFFICES ASSUME Init PROVE RingInv
  OBVIOUS
<1>0. 0 \in Index /\ N \in Nat \ {0} /\ LightTurns \in Nat \ {0} /\ TwoClass \in BOOLEAN
  BY RingAssumption DEF Index
<1>1. TypeOK
  BY <1>0 DEF Init, TypeOK, NoCall
<1>2. ~scan.on /\ steady = {} /\ \A i \in Index : waited[i] = 0
  BY DEF Init, NoCall
<1>3. TurnInv /\ MissedInv /\ SteadyInv /\ NoneInv
  BY <1>2 DEF TurnInv, MissedInv, SteadyInv, NoneInv, Missed
<1>4. \A i \in Index : class[i] = "heavy" => TwoClass
  BY DEF Init, Classes
<1>5. RankInv
  BY <1>1, <1>2, <1>4, ShortWait DEF RankInv, TypeOK
<1> QED  BY <1>1, <1>3, <1>5 DEF RingInv

\* Rows arrive, keys lapse: only the tenant itself is affected, and it starts
\* waiting anew.
LEMMA ChangeRing ==
    ASSUME RingInv, NEW i \in Index, NEW c \in Classes, Change(i, c)
    PROVE  RingInv'
<1>0. TypeOK /\ TurnInv /\ MissedInv /\ SteadyInv /\ NoneInv /\ RankInv
  BY DEF RingInv
<1>1. TypeOK'
  BY <1>0 DEF TypeOK, Change
<1>2. UNCHANGED <<cursorA, cursorB, turn, scan>> /\ waited'[i] = 0 /\ steady' = steady \ {i}
      /\ \A j \in Index \ {i} : class'[j] = class[j] /\ waited'[j] = waited[j]
  BY <1>0 DEF Change, TypeOK
<1>3. TurnInv'
  BY <1>0, <1>2 DEF TurnInv, Preferred
<1>4. \A j \in Index \ {i} : Missed(j)' <=> Missed(j)
  BY <1>2 DEF Missed, Cursor
<1>5. MissedInv' /\ NoneInv'
  BY <1>0, <1>2, <1>4 DEF MissedInv, NoneInv
<1>6. SteadyInv'
  BY <1>0, <1>2, <1>4 DEF SteadyInv, TypeOK
<1>7. RankInv'
  <2>1. ASSUME NEW j \in Index, class'[j] = "light"
        PROVE  LightRank(waited'[j], cursorA', turn', j) <= Bound("light")
    BY <1>0, <1>1, <1>2, <2>1, ShortWait DEF RankInv, TypeOK
  <2>2. ASSUME NEW j \in Index, class'[j] = "heavy"
        PROVE  HeavyRank(waited'[j], cursorB', turn', j) <= Bound("heavy")
    <3>1. TwoClass
      BY <1>1, <2>2 DEF TypeOK, Classes
    <3> QED  BY <1>0, <1>1, <1>2, <2>2, <3>1, ShortWait DEF RankInv, TypeOK
  <2> QED  BY <2>1, <2>2 DEF RankInv
<1> QED  BY <1>1, <1>3, <1>5, <1>6, <1>7 DEF RingInv

\* A new call has missed nobody.
LEMMA NextRing ==
    ASSUME RingInv, Next
    PROVE  RingInv'
<1>0. TypeOK /\ TurnInv /\ MissedInv /\ SteadyInv /\ NoneInv /\ RankInv
  BY DEF RingInv
<1>a. 0 \in Index /\ TwoClass \in BOOLEAN
  BY RingAssumption DEF Index
<1>1. TypeOK'
  BY <1>0, <1>a DEF TypeOK, Next, Preferred
<1>2. /\ UNCHANGED <<class, cursorA, cursorB, turn, waited>>
      /\ scan'.on = TRUE /\ scan'.want = Preferred /\ scan'.k = 0
      /\ scan'.pass = IF TwoClass THEN 1 ELSE 0
      /\ steady' = {i \in Index : class[i] # "none"}
  BY DEF Next
<1>3. TurnInv'
  BY <1>2, <1>a DEF TurnInv, Preferred
<1>4. \A j \in Index : ~Missed(j)'
  <2>1. Cursor' \in Index
    BY <1>0, <1>2 DEF Cursor, TypeOK
  <2>2. \A j \in Index : Offset(Cursor', j) \in Nat
    BY <2>1, OffsetType
  <2> QED  BY <1>2, <2>2 DEF Missed
<1>5. MissedInv' /\ NoneInv' /\ SteadyInv' /\ RankInv'
  BY <1>0, <1>2, <1>4 DEF MissedInv, NoneInv, SteadyInv, RankInv
<1> QED  BY <1>1, <1>3, <1>5 DEF RingInv

\* The tenant that is passed over is not of the class looked for: nobody is
\* missed who was not.
LEMMA StepRing ==
    ASSUME RingInv, Step
    PROVE  RingInv'
<1>0. TypeOK /\ TurnInv /\ MissedInv /\ SteadyInv /\ NoneInv /\ RankInv
  BY DEF RingInv
<1>1. /\ UNCHANGED <<class, cursorA, cursorB, turn, waited, steady>>
      /\ scan.on /\ class[At] # scan.want /\ scan.k < N - 1
      /\ scan' = [scan EXCEPT !.k = @ + 1] /\ scan.k \in Index
  BY <1>0 DEF Step, LastK, TypeOK
<1>a. scan.k + 1 \in Index
  BY <1>1, RingAssumption DEF Index
<1>2. /\ scan'.on = scan.on /\ scan'.want = scan.want /\ scan'.pass = scan.pass
      /\ scan'.k = scan.k + 1
  BY <1>0, <1>1 DEF TypeOK
<1>3. TypeOK'
  BY <1>0, <1>1, <1>a DEF TypeOK
<1>4. TurnInv'
  BY <1>0, <1>1, <1>2 DEF TurnInv, Preferred
<1>5. \A j \in Index : Missed(j)' <=> Missed(j)
  <2> TAKE j \in Index
  <2>1. Cursor' = Cursor /\ Cursor \in Index
    BY <1>0, <1>1, <1>2 DEF Cursor, TypeOK
  <2>2. Offset(Cursor, j) \in Nat /\ scan.k \in Nat
    BY <1>1, <2>1, OffsetType DEF Index
  <2>3. Offset(Cursor, j) = scan.k => j = At
    BY <1>1, <2>1, VisitOffset DEF At
  <2>4. scan.want = class[j] => (Offset(Cursor, j) < scan.k + 1 <=> Offset(Cursor, j) < scan.k)
    BY <1>1, <2>2, <2>3
  <2> QED  BY <1>1, <1>2, <2>1, <2>4 DEF Missed
<1>6. MissedInv' /\ NoneInv' /\ RankInv'
  BY <1>0, <1>1, <1>5 DEF MissedInv, NoneInv, RankInv
<1>7. SteadyInv'
  BY <1>0, <1>1, <1>5 DEF SteadyInv, TypeOK
<1> QED  BY <1>3, <1>4, <1>6, <1>7 DEF RingInv

\* The whole ring was looked at: whoever is of that class now was missed.
LEMMA AllVisited ==
    ASSUME TypeOK, scan.on, class[At] # scan.want, scan.k = LastK,
           NEW j \in Index, class[j] = scan.want
    PROVE  Missed(j)
<1>1. Cursor \in Index /\ scan.k \in Index /\ scan.k = N - 1
  BY DEF Cursor, TypeOK, LastK
<1>2. Offset(Cursor, j) \in Nat /\ Offset(Cursor, j) <= N - 1 /\ scan.k \in Nat
  BY <1>1, OffsetType DEF Index
<1>3. Offset(Cursor, j) # scan.k
  BY <1>1, VisitOffset DEF At
<1>4. Offset(Cursor, j) < scan.k
  BY <1>1, <1>2, <1>3
<1> QED  BY <1>4 DEF Missed

\* The other class is scanned next: the same tenants are missed.
LEMMA FallThroughRing ==
    ASSUME RingInv, FallThrough
    PROVE  RingInv'
<1>0. TypeOK /\ TurnInv /\ MissedInv /\ SteadyInv /\ NoneInv /\ RankInv
  BY DEF RingInv
<1>1. /\ UNCHANGED <<class, cursorA, cursorB, turn, waited, steady>>
      /\ scan.on /\ class[At] # scan.want /\ scan.k = LastK /\ scan.pass = 1
      /\ scan' = [scan EXCEPT !.want = Other(@), !.k = 0, !.pass = 0]
  BY DEF FallThrough
<1>a. 0 \in Index /\ scan.want \in {"light", "heavy"} /\ Other(scan.want) \in {"light", "heavy"}
  BY <1>0, RingAssumption DEF Index, TypeOK, Other
<1>2. /\ scan'.on = scan.on /\ scan'.want = Other(scan.want) /\ scan'.pass = 0
      /\ scan'.k = 0
  BY <1>0, <1>1 DEF TypeOK
<1>3. TypeOK'
  <2>1. scan \in [on : BOOLEAN, want : {"light", "heavy"}, k : Index, pass : 0 .. 1]
    BY <1>0 DEF TypeOK
  <2>2. scan' = [on |-> scan.on, want |-> Other(scan.want), k |-> 0, pass |-> 0]
    BY <1>1, <2>1
  <2>a. scan.on \in BOOLEAN /\ 0 \in 0 .. 1
    BY <2>1
  <2>3. scan' \in [on : BOOLEAN, want : {"light", "heavy"}, k : Index, pass : 0 .. 1]
    BY <1>a, <2>2, <2>a
  <2> QED  BY <1>0, <1>1, <2>3 DEF TypeOK
<1>4. TwoClass /\ scan.want = Preferred
  BY <1>0, <1>1 DEF TurnInv
<1>5. TurnInv'
  BY <1>1, <1>2, <1>4 DEF TurnInv, Preferred
<1>6. \A j \in Index : class[j] # "none" /\ Missed(j)' => Missed(j)
  <2> TAKE j \in Index
  <2>1. Cursor' \in Index
    BY <1>0, <1>1 DEF Cursor, TypeOK
  <2>2. Offset(Cursor', j) \in Nat
    BY <2>1, OffsetType
  <2>3. Missed(j)' => class[j] # Other(scan.want)
    BY <1>1, <1>2, <2>2 DEF Missed
  <2>4. class[j] # "none" /\ class[j] # Other(scan.want) => class[j] = scan.want
    BY <1>0, <1>a DEF TypeOK, Classes, Other
  <2> QED  BY <1>0, <1>1, <2>3, <2>4, AllVisited
<1>7. MissedInv' /\ NoneInv' /\ RankInv'
  BY <1>0, <1>1, <1>6 DEF MissedInv, NoneInv, RankInv
<1>8. SteadyInv'
  BY <1>0, <1>1, <1>6 DEF SteadyInv, TypeOK
<1> QED  BY <1>3, <1>5, <1>7, <1>8 DEF RingInv

LEMMA MissRing ==
    ASSUME RingInv, Miss
    PROVE  RingInv'
<1>0. TypeOK /\ NoneInv /\ RankInv
  BY DEF RingInv
<1>1. UNCHANGED <<class, cursorA, cursorB, turn, waited>> /\ scan' = NoCall /\ steady' = {}
  BY DEF Miss
<1>2. TypeOK'
  BY <1>0, <1>1, RingAssumption DEF TypeOK, NoCall, Index
<1>3. ~scan'.on
  BY <1>1 DEF NoCall
<1>4. TurnInv' /\ MissedInv' /\ SteadyInv'
  BY <1>1, <1>3 DEF TurnInv, MissedInv, SteadyInv, Missed
<1>5. NoneInv' /\ RankInv'
  BY <1>0, <1>1 DEF NoneInv, RankInv
<1> QED  BY <1>2, <1>4, <1>5 DEF RingInv

-----------------------------------------------------------------------------
(* A hit: the tenant that is returned waits no more, and every other one   *)
(* comes a turn closer - unless the call had missed it.                    *)

LEMMA RankType ==
    ASSUME NEW w \in Nat, NEW cur \in Index, NEW t \in 0 .. LightTurns, NEW i \in Index
    PROVE  /\ LightRank(w, cur, t, i) \in Int /\ w <= LightRank(w, cur, t, i)
           /\ HeavyRank(w, cur, t, i) \in Int /\ w <= HeavyRank(w, cur, t, i)
<1> DEFINE o == Offset(cur, i)
           q == IF TwoClass THEN (t + o) \div LightTurns ELSE 0
           m == o * (LightTurns + 1)
<1>0. o \in Nat /\ LightTurns \in Nat \ {0} /\ t \in Nat /\ t <= LightTurns
  BY OffsetType, RingAssumption
<1> HIDE DEF o
<1>1. t + o \in Nat
  BY <1>0
<1>2. (t + o) \div LightTurns \in Nat
  BY <1>0, <1>1, DivShift
<1>3. q \in Nat /\ m \in Nat
  BY <1>0, <1>2
<1>4. LightRank(w, cur, t, i) = w + o + q /\ HeavyRank(w, cur, t, i) = w + (LightTurns - t) + m
  BY DEF LightRank, HeavyRank, o
<1> HIDE DEF q, m
<1> QED  BY <1>0, <1>3, <1>4

\* The turn after a hit.
LEMMA AdvancedType ==
    ASSUME TypeOK
    PROVE  /\ Advanced \in 0 .. LightTurns
           /\ TwoClass => Advanced = IF turn < LightTurns THEN turn + 1 ELSE 0
<1>1. turn \in Nat /\ turn <= LightTurns /\ LightTurns \in Nat \ {0}
  BY RingAssumption DEF TypeOK
<1>2. (turn + 1) % (LightTurns + 1) = IF turn < LightTurns THEN turn + 1 ELSE 0
  BY <1>1
<1> QED  BY <1>1, <1>2 DEF Advanced, TypeOK

\* A light tenant, when a light one is returned before it ...
LEMMA LightCloser ==
    ASSUME NEW w \in Nat, NEW cur \in Index, NEW cur2 \in Index, NEW i \in Index,
           NEW t \in 0 .. LightTurns, NEW t2 \in 0 .. LightTurns,
           TwoClass => t2 = IF t < LightTurns THEN t + 1 ELSE 0,
           Offset(cur2, i) <= Offset(cur, i) - 1
    PROVE  LightRank(w + 1, cur2, t2, i) <= LightRank(w, cur, t, i)
<1> DEFINE o == Offset(cur, i)
           o2 == Offset(cur2, i)
           L == LightTurns
<1>0. o \in Nat /\ o2 \in Nat /\ o2 <= o - 1 /\ L \in Nat \ {0} /\ t \in Nat /\ t2 \in Nat
      /\ TwoClass \in BOOLEAN
  BY OffsetType, RingAssumption
<1> HIDE DEF o, o2, L
<1>1. CASE ~TwoClass
  BY <1>0, <1>1 DEF LightRank, o, o2
<1>2. CASE TwoClass
  <2>1. t2 + o2 \in Nat /\ t + o \in Nat /\ t2 + o2 <= t + o
    BY <1>0, <1>2 DEF L
  <2>2. (t2 + o2) \div L <= (t + o) \div L
    BY <1>0, <2>1, DivMono
  <2> DEFINE q == (t + o) \div L
             q2 == (t2 + o2) \div L
  <2>3. q \in Nat /\ q2 \in Nat /\ q2 <= q
    BY <1>0, <2>1, <2>2, DivShift
  <2>4. /\ LightRank(w + 1, cur2, t2, i) = w + 1 + o2 + q2
        /\ LightRank(w, cur, t, i) = w + o + q
    BY <1>2 DEF LightRank, o, o2, L
  <2> HIDE DEF q, q2
  <2> QED  BY <1>0, <2>3, <2>4
<1> QED  BY <1>0, <1>1, <1>2

\* ... and when it is the turn of a heavy one.
LEMMA LightHeavyTurn ==
    ASSUME TwoClass, NEW w \in Nat, NEW cur \in Index, NEW i \in Index
    PROVE  LightRank(w + 1, cur, 0, i) <= LightRank(w, cur, LightTurns, i)
<1> DEFINE o == Offset(cur, i)
           L == LightTurns
           q == o \div L
<1>0. o \in Nat /\ L \in Nat \ {0}
  BY OffsetType, RingAssumption
<1> HIDE DEF o, L
<1>1. q \in Nat /\ (L + o) \div L = 1 + q
  BY <1>0, DivShift
<1>2. 0 + o = o
  BY <1>0
<1>3. /\ LightRank(w + 1, cur, 0, i) = w + 1 + o + q
      /\ LightRank(w, cur, L, i) = w + o + (1 + q)
  BY <1>1, <1>2 DEF LightRank, o, L
<1> HIDE DEF q
<1>4. LightRank(w + 1, cur, 0, i) <= LightRank(w, cur, L, i)
  BY <1>0, <1>1, <1>3
<1> QED  BY <1>4 DEF L

\* A heavy tenant, when a heavy one is returned before it ...
LEMMA HeavyCloser ==
    ASSUME TwoClass, NEW w \in Nat, NEW cur \in Index, NEW cur2 \in Index, NEW i \in Index,
           NEW t \in 0 .. LightTurns,
           Offset(cur2, i) <= Offset(cur, i) - 1
    PROVE  HeavyRank(w + 1, cur2, IF t < LightTurns THEN t + 1 ELSE 0, i)
             <= HeavyRank(w, cur, t, i)
<1> DEFINE o == Offset(cur, i)
           o2 == Offset(cur2, i)
           m == o * (LightTurns + 1)
           m2 == o2 * (LightTurns + 1)
           t2 == IF t < LightTurns THEN t + 1 ELSE 0
<1>0. o \in Nat /\ o2 \in Nat /\ o2 <= o - 1 /\ LightTurns \in Nat \ {0} /\ t \in Nat
  BY OffsetType, RingAssumption
<1> HIDE DEF o, o2
<1>1. m \in Nat /\ m2 \in Nat /\ m2 + (LightTurns + 1) <= m
  BY <1>0, MulDrop
<1>2. /\ HeavyRank(w + 1, cur2, t2, i) = w + 1 + (LightTurns - t2) + m2
      /\ HeavyRank(w, cur, t, i) = w + (LightTurns - t) + m
  BY DEF HeavyRank, o, o2
<1> HIDE DEF m, m2
<1>3. t2 \in Nat /\ t2 <= LightTurns
  BY <1>0
<1>4. HeavyRank(w + 1, cur2, t2, i) <= HeavyRank(w, cur, t, i)
  BY <1>0, <1>1, <1>2, <1>3
<1> QED  BY <1>4

\* ... and when it is the turn of a light one.
LEMMA HeavyLightTurn ==
    ASSUME TwoClass, NEW w \in Nat, NEW cur \in Index, NEW i \in Index,
           NEW t \in 0 .. LightTurns, t < LightTurns
    PROVE  HeavyRank(w + 1, cur, t + 1, i) <= HeavyRank(w, cur, t, i)
<1> DEFINE m == Offset(cur, i) * (LightTurns + 1)
<1>0. Offset(cur, i) \in Nat /\ LightTurns \in Nat \ {0} /\ t \in Nat
  BY OffsetType, RingAssumption
<1>1. m \in Nat
  BY <1>0
<1>2. /\ HeavyRank(w + 1, cur, t + 1, i) = w + 1 + (LightTurns - (t + 1)) + m
      /\ HeavyRank(w, cur, t, i) = w + (LightTurns - t) + m
  BY DEF HeavyRank
<1> HIDE DEF m
<1> QED  BY <1>0, <1>1, <1>2

LEMMA HitRing ==
    ASSUME RingInv, Hit
    PROVE  RingInv'
<1>0. TypeOK /\ TurnInv /\ MissedInv /\ SteadyInv /\ NoneInv /\ RankInv
  BY DEF RingInv
<1>1. /\ scan.on /\ class[At] = scan.want /\ class' = class
      /\ cursorA' = IF scan.want = "light" THEN Past(At) ELSE cursorA
      /\ cursorB' = IF scan.want = "heavy" THEN Past(At) ELSE cursorB
      /\ turn' = Advanced /\ scan' = NoCall /\ steady' = {}
      /\ waited' = [i \in Index |-> IF i = At \/ class[i] = "none" THEN 0 ELSE waited[i] + 1]
  BY DEF Hit
<1>2. At \in Index /\ Cursor \in Index /\ scan.k \in Index /\ Past(At) \in Index
  <2>1. Cursor \in Index /\ scan.k \in Index
    BY <1>0 DEF TypeOK, Cursor
  <2> QED  BY <1>0, <2>1, CursorType, PastOffset DEF At
<1>3. TypeOK'
  <2>1. NoCall \in [on : BOOLEAN, want : {"light", "heavy"}, k : Index, pass : 0 .. 1]
    BY RingAssumption DEF NoCall, Index
  <2>2. waited' \in [Index -> Nat]
    BY <1>0, <1>1 DEF TypeOK
  <2>3. turn' \in 0 .. LightTurns
    BY <1>0, <1>1, AdvancedType
  <2> QED  BY <1>0, <1>1, <1>2, <2>1, <2>2, <2>3 DEF TypeOK
<1>4. ~scan'.on
  BY <1>1 DEF NoCall
<1>5. TurnInv' /\ MissedInv' /\ SteadyInv' /\ NoneInv'
  BY <1>1, <1>4 DEF TurnInv, MissedInv, SteadyInv, Missed, NoneInv
<1>6. RankInv'
  <2>0. /\ turn \in 0 .. LightTurns /\ turn' \in 0 .. LightTurns
        /\ TwoClass => turn' = IF turn < LightTurns THEN turn + 1 ELSE 0
        /\ cursorA \in Index /\ cursorB \in Index /\ cursorA' \in Index /\ cursorB' \in Index
    BY <1>0, <1>1, <1>3, AdvancedType DEF TypeOK
  <2>1. ASSUME NEW i \in Index, class[i] # "none", Missed(i) \/ i = At
        PROVE  /\ class'[i] = "light" => LightRank(waited'[i], cursorA', turn', i) <= Bound("light")
               /\ class'[i] = "heavy" => HeavyRank(waited'[i], cursorB', turn', i) <= Bound("heavy")
    <3>1. waited'[i] \in Nat /\ waited'[i] <= 1
      BY <1>0, <1>1, <2>1 DEF MissedInv, TypeOK
    <3>2. class'[i] = "heavy" => TwoClass
      BY <1>3 DEF TypeOK, Classes
    <3> QED  BY <2>0, <3>1, <3>2, ShortWait
  <2>2. ASSUME NEW i \in Index, class[i] # "none", ~Missed(i), i # At
        PROVE  /\ class'[i] = "light" => LightRank(waited'[i], cursorA', turn', i) <= Bound("light")
               /\ class'[i] = "heavy" => HeavyRank(waited'[i], cursorB', turn', i) <= Bound("heavy")
    <3>0. waited'[i] = waited[i] + 1 /\ waited[i] \in Nat /\ class'[i] = class[i]
      BY <1>0, <1>1, <2>2 DEF TypeOK
    <3>1. scan.want = class[i] => Offset(Past(At), i) <= Offset(Cursor, i) - 1
      <4>1. Offset(Cursor, i) \in Nat /\ scan.k \in Nat
        BY <1>2, OffsetType DEF Index
      <4>2. Offset(Cursor, i) # scan.k
        BY <1>2, <2>2, VisitOffset DEF At
      <4>3. scan.want = class[i] => Offset(Cursor, i) > scan.k
        BY <1>1, <2>2, <4>1, <4>2 DEF Missed
      <4> QED  BY <1>2, <4>3, PastOffset DEF At
    <3>2. scan.want # class[i] => TwoClass /\ scan.want = Preferred
      <4>1. ~TwoClass => class[i] = "light" /\ scan.want = "light"
        BY <1>0, <1>1, <2>2 DEF TypeOK, Classes, TurnInv
      <4>2. TwoClass /\ scan.want # class[i] => scan.pass # 0
        BY <1>1, <2>2 DEF Missed
      <4>3. scan.pass \in {0, 1}
        BY <1>0 DEF TypeOK
      <4>4. TwoClass /\ scan.pass = 1 => scan.want = Preferred
        BY <1>0, <1>1 DEF TurnInv
      <4> QED  BY <4>1, <4>2, <4>3, <4>4
    <3>a. Bound("light") \in Nat /\ Bound("heavy") \in Nat
      BY BoundType
    <3>3. CASE class[i] = "light"
      <4>0. LightRank(waited[i], cursorA, turn, i) <= Bound("light")
        BY <1>0, <3>3 DEF RankInv
      <4>1. LightRank(waited[i] + 1, cursorA', turn', i) <= LightRank(waited[i], cursorA, turn, i)
        <5>1. CASE scan.want = "light"
          <6>1. cursorA' = Past(At) /\ Cursor = cursorA
            BY <1>1, <5>1 DEF Cursor
          <6>2. Offset(cursorA', i) <= Offset(cursorA, i) - 1
            BY <3>1, <3>3, <5>1, <6>1
          <6> QED  BY <2>0, <3>0, <6>2, LightCloser
        <5>2. CASE scan.want # "light"
          <6>1. TwoClass /\ turn = LightTurns /\ cursorA' = cursorA
            BY <1>1, <2>0, <3>2, <3>3, <5>2, RingAssumption DEF Preferred
          <6>2. turn' = 0
            BY <2>0, <6>1, RingAssumption
          <6> QED  BY <2>0, <3>0, <6>1, <6>2, LightHeavyTurn
        <5> QED  BY <5>1, <5>2
      <4>2. LightRank(waited[i] + 1, cursorA', turn', i) \in Int
        <5>1. waited[i] + 1 \in Nat /\ cursorA' \in Index /\ turn' \in 0 .. LightTurns
          BY <2>0, <3>0
        <5> QED  BY ONLY <5>1, i \in Index, RankType, Zenon
      <4>3. LightRank(waited[i], cursorA, turn, i) \in Int
        <5>1. cursorA \in Index /\ turn \in 0 .. LightTurns
          BY <1>0 DEF TypeOK
        <5> QED  BY <3>0, <5>1, RankType, Zenon
      <4> QED  BY <3>0, <3>3, <3>a, <4>0, <4>1, <4>2, <4>3
    <3>4. CASE class[i] = "heavy"
      <4>0. HeavyRank(waited[i], cursorB, turn, i) <= Bound("heavy") /\ TwoClass
        BY <1>0, <3>4 DEF RankInv, TypeOK, Classes
      <4>1. HeavyRank(waited[i] + 1, cursorB', turn', i) <= HeavyRank(waited[i], cursorB, turn, i)
        <5>1. CASE scan.want = "heavy"
          <6>1. cursorB' = Past(At) /\ Cursor = cursorB
            BY <1>1, <5>1 DEF Cursor
          <6>2. Offset(cursorB', i) <= Offset(cursorB, i) - 1
            BY <3>1, <3>4, <5>1, <6>1
          <6> QED  BY <2>0, <3>0, <4>0, <6>2, HeavyCloser
        <5>2. CASE scan.want # "heavy"
          <6>1. turn < LightTurns /\ cursorB' = cursorB
            BY <1>1, <2>0, <3>2, <3>4, <4>0, <5>2, RingAssumption DEF Preferred
          <6>2. turn' = turn + 1
            BY <2>0, <4>0, <6>1
          <6> QED  BY <2>0, <3>0, <4>0, <6>1, <6>2, HeavyLightTurn
        <5> QED  BY <5>1, <5>2
      <4>2. HeavyRank(waited[i] + 1, cursorB', turn', i) \in Int
        <5>1. waited[i] + 1 \in Nat /\ cursorB' \in Index /\ turn' \in 0 .. LightTurns
          BY <2>0, <3>0
        <5> QED  BY ONLY <5>1, i \in Index, RankType, Zenon
      <4>3. HeavyRank(waited[i], cursorB, turn, i) \in Int
        <5>1. cursorB \in Index /\ turn \in 0 .. LightTurns
          BY <1>0 DEF TypeOK
        <5> QED  BY <3>0, <5>1, RankType, Zenon
      <4> QED  BY <3>0, <3>4, <3>a, <4>0, <4>1, <4>2, <4>3
    <3> QED  BY <1>0, <3>0, <3>3, <3>4
  <2> QED  BY <1>1, <2>1, <2>2 DEF RankInv
<1> QED  BY <1>3, <1>5, <1>6 DEF RingInv

-----------------------------------------------------------------------------
\* The inductive invariant of the ring.
THEOREM RingInvariant == Spec => []RingInv
<1>1. RingInv /\ [Steps]_vars => RingInv'
  <2> SUFFICES ASSUME RingInv, [Steps]_vars PROVE RingInv'
    OBVIOUS
  <2>1. CASE Steps
    BY <2>1, ChangeRing, NextRing, HitRing, StepRing, FallThroughRing, MissRing DEF Steps
  <2>2. CASE UNCHANGED vars
    BY <2>2 DEF vars, RingInv, TypeOK, TurnInv, Preferred, MissedInv, SteadyInv, Missed,
                Cursor, NoneInv, RankInv
  <2> QED  BY <2>1, <2>2
<1> QED  BY <1>1, InitRing, PTL DEF Spec

\* The cursors and the turn never leave the ring and the round.
THEOREM RingTypes == Spec => []TypeOK
<1>1. RingInv => TypeOK
  BY DEF RingInv
<1> QED  BY <1>1, RingInvariant, PTL

\* No starvation, for every number of tenants and of light turns, while classes
\* change in the middle of a scan: a tenant that stays in its class is returned
\* after N + ceil(N / LightTurns) turns at most if it is within its fair share,
\* after N * (LightTurns + 1) if it is over it, after N in the plain ring.
THEOREM RingNeverStarves == Spec => []NoStarvation
<1>1. RingInv => NoStarvation
  <2> SUFFICES ASSUME RingInv, NEW i \in Index PROVE waited[i] <= Bound(class[i])
    BY DEF NoStarvation
  <2>0. TypeOK /\ NoneInv /\ RankInv
    BY DEF RingInv
  <2>1. /\ waited[i] \in Nat /\ turn \in 0 .. LightTurns /\ cursorA \in Index
        /\ cursorB \in Index /\ class[i] \in {"none", "light", "heavy"}
    BY <2>0 DEF TypeOK, Classes
  <2>2. \A c : Bound(c) \in Nat
    BY BoundType
  <2>3. /\ waited[i] <= LightRank(waited[i], cursorA, turn, i)
        /\ waited[i] <= HeavyRank(waited[i], cursorB, turn, i)
        /\ LightRank(waited[i], cursorA, turn, i) \in Int
        /\ HeavyRank(waited[i], cursorB, turn, i) \in Int
    BY <2>1, RankType
  <2>4. CASE class[i] = "none"
    BY <2>0, <2>2, <2>4 DEF NoneInv
  <2>5. CASE class[i] = "light"
    BY <2>0, <2>1, <2>2, <2>3, <2>5 DEF RankInv
  <2>6. CASE class[i] = "heavy"
    BY <2>0, <2>1, <2>2, <2>3, <2>6 DEF RankInv
  <2> QED  BY <2>1, <2>4, <2>5, <2>6
<1> QED  BY <1>1, RingInvariant, PTL

\* Work conservation, for every ring: a worker is sent away only if no tenant
\* was dispatchable in one class for as long as Next scanned.
THEOREM RingConservesWork == Spec => []WorkConserving
<1>1. RingInv => WorkConserving
  <2> SUFFICES ASSUME RingInv, Exhausted, NEW i \in steady PROVE FALSE
    BY DEF WorkConserving
  <2>0. TypeOK /\ TurnInv /\ SteadyInv /\ i \in Index
    BY DEF RingInv, TypeOK
  <2>1. scan.on /\ class[At] # scan.want /\ scan.k = LastK /\ scan.pass = 0
    BY DEF Exhausted
  <2>2. class[i] # "none" /\ ~Missed(i)
    BY <2>0 DEF SteadyInv
  <2>3. class[i] # scan.want
    BY <2>0, <2>1, <2>2, AllVisited
  <2>4. ~TwoClass
    BY <2>1, <2>2, <2>3 DEF Missed
  <2>5. class[i] = "light" /\ scan.want = "light"
    BY <2>0, <2>1, <2>2, <2>4 DEF TypeOK, Classes, TurnInv
  <2> QED  BY <2>3, <2>5
<1> QED  BY <1>1, RingInvariant, PTL
=============================================================================
