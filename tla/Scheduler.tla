----------------------------- MODULE Scheduler -----------------------------
(***************************************************************************)
(* The fair ring of internal/queue/scheduler.go.  Workers call Next one at *)
(* a time (s.mu), but the ledger and the keys that scan reads are not      *)
(* locked: a tenant's class may change between any two indexes it visits.  *)
(*                                                                         *)
(* A tenant's class is what scan's condition makes of it: "none" when it   *)
(* has no ready rows or Gate.Hot refuses it, else "light" when its backlog *)
(* is within the fair share and "heavy" when it is over.                   *)
(***************************************************************************)
EXTENDS Integers, FiniteSets

CONSTANTS
    N,           \* len(cfg.Tenants)
    TwoClass,    \* cfg.TwoClass: the interleaved pass, else the plain ring
    LightTurns   \* cfg.LightTurns

ASSUME RingAssumption ==
    /\ N \in Nat \ {0} /\ TwoClass \in BOOLEAN
    /\ LightTurns \in Nat \ {0}     \* NewScheduler: otherwise TwoClass is off

VARIABLES
    class,             \* what scan would read of each tenant
    cursorA, cursorB,  \* the cursors of the light and of the heavy class
    turn,              \* s.turn
    scan,              \* the Next call that holds s.mu
    waited,            \* ground truth: tenants returned since each tenant has
                       \* been in its class and not returned itself
    steady             \* ground truth: dispatchable tenants whose class has not
                       \* changed since the Next call began

vars == <<class, cursorA, cursorB, turn, scan, waited, steady>>

Index == 0 .. N - 1
Classes == IF TwoClass THEN {"none", "light", "heavy"} ELSE {"none", "light"}

\* pass counts the scans the call has still to make after this one.
NoCall == [on |-> FALSE, want |-> "light", k |-> 0, pass |-> 0]

\* The longest a tenant of a class may wait, in turns.
Bound(c) ==
    IF ~TwoClass THEN N
    ELSE IF c = "light" THEN N + ((N + LightTurns - 1) \div LightTurns)
    ELSE N * (LightTurns + 1)

\* The types, and that the cursors stay inside the ring and the turn inside a
\* round (Next's and scan's modular arithmetic).
TypeOK ==
    /\ class \in [Index -> Classes]
    /\ cursorA \in Index /\ cursorB \in Index /\ turn \in 0 .. LightTurns
    /\ scan \in [on : BOOLEAN, want : {"light", "heavy"}, k : Index, pass : 0 .. 1]
    /\ waited \in [Index -> Nat] /\ steady \subseteq Index

Init ==
    /\ class \in [Index -> Classes]
    /\ cursorA = 0 /\ cursorB = 0 /\ turn = 0
    /\ scan = NoCall
    /\ waited = [i \in Index |-> 0] /\ steady = {}

-----------------------------------------------------------------------------
\* Rows arrive or are claimed, the fair share moves, a key lapses or heals.
Change(i, c) ==
    /\ c # class[i] /\ class' = [class EXCEPT ![i] = c]
    /\ waited' = [waited EXCEPT ![i] = 0]
    /\ steady' = steady \ {i}
    /\ UNCHANGED <<cursorA, cursorB, turn, scan>>

Other(c) == IF c = "light" THEN "heavy" ELSE "light"

\* The class whose turn it is.
Preferred == IF ~TwoClass \/ turn < LightTurns THEN "light" ELSE "heavy"

\* A worker calls Next.
Next ==
    /\ ~scan.on
    /\ scan' = [on |-> TRUE, want |-> Preferred, k |-> 0,
                pass |-> IF TwoClass THEN 1 ELSE 0]
    /\ steady' = {i \in Index : class[i] # "none"}
    /\ UNCHANGED <<class, cursorA, cursorB, turn, waited>>

Cursor == IF scan.want = "light" THEN cursorA ELSE cursorB
At == (Cursor + scan.k) % N

\* Mutant of Advanced: the turn never moves on to the heavy class.
AlwaysLight == 0

\* The turn after a hit (the plain ring has none).
Advanced == IF TwoClass THEN (turn + 1) % (LightTurns + 1) ELSE turn

\* Mutant of Past: the cursor runs off the end of the ring.
Unwrapped(i) == i + 1

\* Where the cursor goes after a hit.
Past(i) == (i + 1) % N

\* scan accepts the tenant it looks at: its cursor moves past it.
Hit ==
    /\ scan.on /\ class[At] = scan.want
    /\ cursorA' = IF scan.want = "light" THEN Past(At) ELSE cursorA
    /\ cursorB' = IF scan.want = "heavy" THEN Past(At) ELSE cursorB
    /\ turn' = Advanced
    /\ scan' = NoCall /\ steady' = {}
    /\ waited' = [i \in Index |->
         IF i = At \/ class[i] = "none" THEN 0 ELSE waited[i] + 1]
    /\ UNCHANGED class

\* Mutant of LastK: the loop ends one index early.
OneShort == N - 2

\* The last index of a scan, counted from the cursor.
LastK == N - 1

\* It does not, and there is another index to look at ...
Step ==
    /\ scan.on /\ class[At] # scan.want /\ scan.k < LastK
    /\ scan' = [scan EXCEPT !.k = @ + 1]
    /\ UNCHANGED <<class, cursorA, cursorB, turn, waited, steady>>

\* The whole ring has been looked at without a hit, in the last pass.
Exhausted ==
    /\ scan.on /\ class[At] # scan.want /\ scan.k = LastK /\ scan.pass = 0

\* ... a miss on the preferred class falls through to the other ...
FallThrough ==
    /\ scan.on /\ class[At] # scan.want /\ scan.k = LastK /\ scan.pass = 1
    /\ scan' = [scan EXCEPT !.want = Other(@), !.k = 0, !.pass = 0]
    /\ UNCHANGED <<class, cursorA, cursorB, turn, waited, steady>>

\* ... and a double miss changes nothing: the worker waits.
Miss ==
    /\ Exhausted
    /\ scan' = NoCall /\ steady' = {}
    /\ UNCHANGED <<class, cursorA, cursorB, turn, waited>>

Steps ==
    \/ \E i \in Index, c \in Classes : Change(i, c)
    \/ Next \/ Hit \/ Step \/ FallThrough \/ Miss

Spec == Init /\ [][Steps]_vars

-----------------------------------------------------------------------------
\* No starvation: a tenant that stays dispatchable in its class is returned after
\* a bounded number of turns, however the others come and go, an over-share
\* tenant too although LightTurns turns prefer the light class for each of its
\* own (scheduler.go Next, "interleaved, not prioritised").
NoStarvation == \A i \in Index : waited[i] <= Bound(class[i])

\* Work conservation: Next sends the worker away only if no tenant stayed
\* dispatchable in one class while it scanned (Next, "so the ring is
\* work-conserving").
WorkConserving == Exhausted => steady = {}
=============================================================================
