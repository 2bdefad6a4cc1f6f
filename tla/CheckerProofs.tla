--------------------------- MODULE CheckerProofs ---------------------------
(***************************************************************************)
(* Checker proved for every lease, ring, number of workers and bound: no   *)
(* delivery in a violation window of the latest episode is missed without  *)
(* a coverage gap, and none is counted twice.                              *)
(***************************************************************************)
EXTENDS Checker, SequenceTheorems, FiniteSetTheorems, TLAPS

-----------------------------------------------------------------------------
EventRec == [at : Nat, enabled : BOOLEAN]

\* The last revoke among the first n events.
LastRevoke(n) == 2 * ((n + 1) \div 2) - 1

\* The truth is a sequence of flips in the order of time.
EventsInv ==
    /\ events \in Seq(EventRec)
    /\ \A i, j \in 1..Len(events) : i < j => events[i].at < events[j].at

\* Nothing is stamped in the future, and a revoke that no pass has seen is not
\* older than the last read of the truth.
ClockInv ==
    /\ lastRead <= now /\ now <= lastRead + MaxGap
    /\ \A w \in Workers : flying[w] # None => flying[w] <= now
    /\ \A s \in 1..count : log[s] <= now
    /\ \A j \in 1..Len(events) :
         j % 2 = 1 /\ events[j].at > seen => lastRead <= events[j].at

\* The ring holds the latest stamps.
RingInv == \A s \in 1..count : s > count - Ring => ring[(s - 1) % Ring] = log[s]

\* What a pass has read is still true of the events up to there.
PassInv ==
    /\ seen # 0 => \E j \in 1..Len(events) : j % 2 = 1 /\ events[j].at = seen
    /\ lastSeq <= count /\ (seen # 0 => 0 <= lastSeq)
    /\ pass.pc # "between" =>
         /\ pass.known \in 1..Len(events)
         /\ lastRead <= pass.read /\ pass.read <= now
         /\ \A j \in (pass.known + 1)..Len(events) : pass.read <= events[j].at
    /\ pass.pc = "sample" =>
         /\ pass.k = 1
         /\ seen # 0 => \E j \in 1..pass.known : j % 2 = 1 /\ events[j].at = seen
    /\ pass.pc = "scan" =>
         /\ pass.k \in 1..((pass.known + 1) \div 2)
         /\ seen = events[LastRevoke(pass.known)].at
         /\ lastSeq = pass.since
         /\ pass.since <= pass.newSeq /\ pass.newSeq <= count

\* What was counted lies behind the resume point, or was counted by an earlier
\* window of this pass.
CaughtInv ==
    \A c \in caught :
        /\ pass.pc # "scan" => c <= lastSeq
        /\ pass.pc = "scan" =>
             /\ c <= pass.newSeq
             /\ c <= pass.since \/ (pass.k > 1 /\ log[c] <= events[2 * pass.k - 2].at)

\* The delivery was stamped in the violation window of the episode seen last.
InWindow(s) ==
    /\ log[s] > seen + Lease
    /\ \A i \in 1..Len(events) :
         i % 2 = 0 /\ events[i].at > seen => log[s] <= events[i].at

CoveredInv ==
    seen # 0 => \A s \in 1..lastSeq : InWindow(s) => gap \/ s \in caught

CheckerInv ==
    /\ TypeOK /\ EventsInv /\ ClockInv /\ RingInv /\ PassInv /\ CaughtInv /\ CoveredInv
    /\ CountedOnce
-----------------------------------------------------------------------------
\* Arithmetic and sequences.

\* Less than R apart, two numbers use two slots of a ring of R.
LEMMA ModDiffer ==
    ASSUME NEW R \in Nat \ {0}, NEW a \in Nat, NEW b \in Nat, a < b, b < a + R
    PROVE  a % R # b % R
<1> SUFFICES ASSUME a % R = b % R PROVE FALSE
  OBVIOUS
<1>1. a = R * (a \div R) + (a % R) /\ b = R * (b \div R) + (b % R)
  OBVIOUS
<1> DEFINE p == a \div R
           q == b \div R
<1>2. p \in Int /\ q \in Int
  OBVIOUS
<1>3. b - a = R * (q - p)
  BY <1>1, <1>2
<1> HIDE DEF p, q
<1>4. CASE q - p <= 0
  <2>1. R * (q - p) <= 0
    BY <1>2, <1>4
  <2> QED  BY <1>3, <2>1
<1>5. CASE q - p >= 1
  <2>1. R * (q - p) >= R
    BY <1>2, <1>5
  <2> QED  BY <1>3, <2>1
<1> QED  BY <1>2, <1>4, <1>5

\* The slots of the ring.
LEMMA Slot ==
    ASSUME NEW a \in Nat
    PROVE  a % Ring \in 0..(Ring - 1)
BY CheckerAssumption

\* The last revoke among n events.
LEMMA LastIsRevoke ==
    ASSUME NEW n \in Nat \ {0}
    PROVE  /\ LastRevoke(n) \in 1..n /\ LastRevoke(n) % 2 = 1
           /\ (n + 1) \div 2 \in Nat \ {0}
           /\ \A j \in 1..n : j % 2 = 1 => j <= LastRevoke(n)
BY DEF LastRevoke

\* One window per revoke.
LEMMA WindowCount ==
    ASSUME NEW n \in Nat
    PROVE  Len(windows(n)) = (n + 1) \div 2
<1> DEFINE m == (n + 1) \div 2
<1>1. m \in Nat
  OBVIOUS
<1>2. DOMAIN windows(n) = 1..m
  BY DEF windows
<1> HIDE DEF m
<1>3. windows(n) \in [1..m -> {windows(n)[i] : i \in 1..m}]
  BY <1>2 DEF windows, m
<1>4. windows(n) \in Seq({windows(n)[i] : i \in 1..m})
  BY <1>1, <1>3, SeqDef
<1>5. DOMAIN windows(n) = 1..Len(windows(n)) /\ Len(windows(n)) \in Nat
  BY <1>4, LenProperties
<1> QED  BY <1>1, <1>2, <1>5 DEF m

\* What the types say of one event.
LEMMA EventFacts ==
    ASSUME TypeOK
    PROVE  /\ now \in Nat
           /\ \A i \in 1..Len(events) :
                /\ events[i].at \in Nat /\ 1 <= events[i].at /\ events[i].at <= now
                /\ events[i].enabled <=> i % 2 = 0
<1>1. now \in Nat
  BY DEF TypeOK, Times
<1>2. ASSUME NEW i \in 1..Len(events)
      PROVE  events[i].at \in 1..now /\ (events[i].enabled <=> i % 2 = 0)
  <2>1. events[i] \in [at : 1..now, enabled : {i % 2 = 0}]
    BY DEF TypeOK
  <2>2. events[i].at \in 1..now
    BY <2>1
  <2>3. events[i].enabled \in {i % 2 = 0}
    BY <2>1, Zenon
  <2>4. events[i].enabled = (i % 2 = 0)
    BY <2>3, Zenon
  <2> QED  BY <2>2, <2>4
<1> QED  BY <1>1, <1>2

\* The log is a sequence with one stamp per delivery.
LEMMA LogSeq ==
    ASSUME TypeOK
    PROVE  log \in Seq(Times) /\ Len(log) = count
<1>1. count \in Nat /\ log \in [1..count -> Times]
  BY CheckerAssumption DEF TypeOK
<1>2. log \in Seq(Times)
  BY <1>1, SeqDef
<1>3. DOMAIN log = 1..Len(log) /\ Len(log) \in Nat
  BY <1>2, LenProperties
<1> QED  BY <1>1, <1>2, <1>3

\* What was counted: sequence numbers of recorded deliveries.
LEMMA CaughtNumber ==
    ASSUME TypeOK, NEW c \in caught
    PROVE  c \in 1..count
BY DEF TypeOK
-----------------------------------------------------------------------------
\* The actions, in the order of Next.

LEMMA InitChecker == Init => CheckerInv
<1> SUFFICES ASSUME Init PROVE CheckerInv
  OBVIOUS
<1> USE CheckerAssumption DEF Init
<1>1. Len(events) = 0
  OBVIOUS
<1>2. pass \in PassRec
  BY DEF Between, PassRec
<1>3. gap \in BOOLEAN
  BY Zenon
<1>4. now \in Times /\ lastRead \in Times
  BY DEF Times
<1>5. TypeOK
  BY <1>1, <1>2, <1>3, <1>4 DEF TypeOK
<1>6. EventsInv
  BY <1>1 DEF EventsInv
<1>7. ClockInv /\ RingInv /\ CaughtInv /\ CoveredInv
  BY <1>1 DEF ClockInv, RingInv, CaughtInv, CoveredInv
<1>8. PassInv
  BY <1>1 DEF PassInv, Between
<1>10. CountedOnce
  BY FS_EmptySet DEF CountedOnce
<1> QED  BY <1>5, <1>6, <1>7, <1>8, <1>10 DEF CheckerInv

LEMMA StutterChecker == CheckerInv /\ UNCHANGED vars => CheckerInv'
<1> SUFFICES ASSUME CheckerInv, UNCHANGED vars PROVE CheckerInv'
  OBVIOUS
<1> USE DEF CheckerInv, vars, sinkVars, checkVars
<1>1. TypeOK'
  BY DEF TypeOK
<1>2. EventsInv' /\ ClockInv' /\ RingInv' /\ PassInv'
  BY DEF EventsInv, ClockInv, RingInv, PassInv
<1>3. CaughtInv' /\ CoveredInv' /\ CountedOnce'
  BY DEF CaughtInv, CoveredInv, InWindow, CountedOnce
<1> QED  BY <1>1, <1>2, <1>3

\* Time passes.
LEMMA TickChecker == CheckerInv /\ Tick => CheckerInv'
<1> SUFFICES ASSUME CheckerInv, Tick PROVE CheckerInv'
  OBVIOUS
<1> USE DEF CheckerInv, Tick, sinkVars, checkVars
<1>0. now \in Nat /\ now' \in Nat /\ now <= now'
  BY EventFacts
<1>1. TypeOK'
  <2>1. now' \in Times
    BY CheckerAssumption DEF TypeOK, Times
  <2>2. ASSUME NEW i \in 1..Len(events)
        PROVE  events[i] \in [at : 1..now', enabled : {i % 2 = 0}]
    <3>1. events[i] \in [at : 1..now, enabled : {i % 2 = 0}]
      BY DEF TypeOK
    <3>2. 1..now \subseteq 1..now'
      BY <1>0
    <3> QED  BY <3>1, <3>2
  <2> QED  BY <2>1, <2>2 DEF TypeOK
<1>2. EventsInv' /\ RingInv' /\ CaughtInv' /\ CountedOnce'
  BY DEF EventsInv, RingInv, CaughtInv, CountedOnce
<1>3. CoveredInv'
  BY DEF CoveredInv, InWindow
<1>4. ClockInv'
  <2>1. lastRead \in Nat /\ MaxGap \in Nat
    BY CheckerAssumption DEF TypeOK, Times
  <2>2. \A w \in Workers : flying[w] # None => flying[w] \in Nat
    BY DEF TypeOK, Times
  <2>3. \A s \in 1..count : log[s] \in Nat
    BY DEF TypeOK, Times
  <2> QED  BY <1>0, <2>1, <2>2, <2>3 DEF ClockInv
<1>5. PassInv'
  <2>1. pass.read \in Nat
    BY DEF TypeOK, PassRec
  <2> QED  BY <1>0, <2>1 DEF PassInv
<1> QED  BY <1>1, <1>2, <1>3, <1>4, <1>5

\* A flip adds the latest event of all.
LEMMA FlipChecker == CheckerInv /\ flip => CheckerInv'
<1> SUFFICES ASSUME CheckerInv, flip PROVE CheckerInv'
  OBVIOUS
<1> USE DEF CheckerInv, sinkVars, checkVars
<1> DEFINE n == Len(events)
<1>0. n \in Nat /\ now \in Nat /\ UNCHANGED <<now, sinkVars, checkVars>> /\ n < MaxEvents
  BY EventFacts DEF flip, EventsInv
<1>1. PICK e \in EventRec : /\ events' = Append(events, e)
                            /\ e.at = now /\ e.enabled = (n % 2 # 0)
  <2>1. PICK b \in FlipTo : events' = Append(events, [at |-> now, enabled |-> b])
    BY DEF flip
  <2>2. b = (n % 2 # 0)
    BY <2>1 DEF FlipTo, Enabled
  <2>3. [at |-> now, enabled |-> b] \in EventRec
    BY <1>0, <2>2 DEF EventRec
  <2> QED  BY <2>1, <2>2, <2>3
<1>2. /\ events' \in Seq(EventRec) /\ Len(events') = n + 1
      /\ \A i \in 1..n : events'[i] = events[i]
      /\ events'[n + 1] = e
  BY <1>1 DEF EventsInv
<1>3. \A i \in 1..n : events[i].at < now
  <2> SUFFICES ASSUME NEW i \in 1..n PROVE events[i].at < now
    OBVIOUS
  <2>1. events # <<>> /\ n \in 1..n
    BY <1>0
  <2>2. events[n].at < now
    BY <2>1 DEF flip
  <2>3. CASE i = n
    BY <2>2, <2>3
  <2>4. CASE i < n
    BY <2>1, <2>2, <2>4, EventFacts DEF EventsInv
  <2> QED  BY <2>3, <2>4, <1>0
<1> HIDE DEF n
<1>4. EventsInv'
  <2> SUFFICES ASSUME NEW i \in 1..(n + 1), NEW j \in 1..(n + 1), i < j
               PROVE  events'[i].at < events'[j].at
    BY <1>2 DEF EventsInv
  <2>1. CASE j = n + 1
    BY <1>0, <1>1, <1>2, <1>3, <2>1
  <2>2. CASE j # n + 1
    <3>1. i \in 1..n /\ j \in 1..n
      BY <1>0, <2>2
    <3> QED  BY <1>2, <3>1 DEF EventsInv, n
  <2> QED  BY <2>1, <2>2
<1>5. TypeOK'
  <2>1. ASSUME NEW i \in 1..(n + 1)
        PROVE  /\ events'[i] \in [at : 1..now, enabled : {i % 2 = 0}]
               /\ i > 1 => events'[i - 1].at < events'[i].at
    <3>1. CASE i = n + 1
      <4>1. now \in 1..now
        BY <1>0 DEF TypeOK, Times
      <4>2. e.enabled = (i % 2 = 0)
        BY <1>0, <1>1, <3>1
      <4>3. e.enabled \in {i % 2 = 0}
        BY <4>2, Zenon
      <4>4. e = [at |-> e.at, enabled |-> e.enabled]
        BY DEF EventRec
      <4>5. e \in [at : 1..now, enabled : {i % 2 = 0}]
        BY <1>1, <4>1, <4>3, <4>4
      <4>6. i > 1 => i - 1 \in 1..n
        BY <1>0, <3>1
      <4> QED  BY <1>1, <1>2, <1>3, <3>1, <4>5, <4>6
    <3>2. CASE i # n + 1
      <4>1. i \in 1..n /\ (i > 1 => i - 1 \in 1..n)
        BY <1>0, <3>2
      <4>2. /\ events[i] \in [at : 1..now, enabled : {i % 2 = 0}]
            /\ i > 1 => events[i - 1].at < events[i].at
        BY <4>1 DEF TypeOK, n
      <4> QED  BY <1>2, <4>1, <4>2
    <3> QED  BY <3>1, <3>2
  <2>3. n + 1 <= MaxEvents
    BY <1>0, CheckerAssumption
  <2> QED  BY <1>0, <1>2, <2>1, <2>3 DEF TypeOK
<1>6. ClockInv'
  <2> SUFFICES ASSUME NEW j \in 1..(n + 1), j % 2 = 1, events'[j].at > seen
               PROVE  lastRead <= events'[j].at
    BY <1>0, <1>2 DEF ClockInv
  <2>1. CASE j = n + 1
    BY <1>1, <1>2, <2>1 DEF ClockInv
  <2>2. CASE j \in 1..n
    BY <1>2, <2>2 DEF ClockInv, n
  <2> QED  BY <1>0, <2>1, <2>2
<1>7. RingInv' /\ CountedOnce'
  BY <1>0 DEF RingInv, CountedOnce
<1>8. 1..n \subseteq 1..(n + 1)
  BY <1>0
<1>9. PassInv'
  <2>1. seen # 0 => \E j \in 1..(n + 1) : j % 2 = 1 /\ events'[j].at = seen
    BY <1>2, <1>8 DEF PassInv, n
  <2>2. ASSUME pass.pc # "between"
        PROVE  /\ pass.known \in 1..n /\ pass.known \in 1..(n + 1)
               /\ \A j \in (pass.known + 1)..(n + 1) : pass.read <= events'[j].at
    <3>1. pass.known \in 1..n
      BY <2>2 DEF PassInv, n
    <3>2. ASSUME NEW j \in (pass.known + 1)..(n + 1)
          PROVE  pass.read <= events'[j].at
      <4>1. CASE j = n + 1
        BY <1>1, <1>2, <2>2, <4>1 DEF PassInv
      <4>2. CASE j # n + 1
        <5>1. j \in 1..n /\ j \in (pass.known + 1)..n
          BY <1>0, <3>1, <4>2
        <5> QED  BY <1>2, <2>2, <5>1 DEF PassInv, n
      <4> QED  BY <4>1, <4>2
    <3> QED  BY <1>8, <3>1, <3>2
  <2>3. ASSUME pass.pc = "sample", seen # 0
        PROVE  \E j \in 1..pass.known : j % 2 = 1 /\ events'[j].at = seen
    <3>1. PICK j \in 1..pass.known : j % 2 = 1 /\ events[j].at = seen
      BY <2>3 DEF PassInv
    <3>2. j \in 1..n
      BY <1>0, <2>2, <2>3
    <3> QED  BY <1>2, <3>1, <3>2
  <2>4. ASSUME pass.pc = "scan"
        PROVE  seen = events'[LastRevoke(pass.known)].at
    <3>1. LastRevoke(pass.known) \in 1..n
      BY <1>0, <2>2, <2>4, LastIsRevoke
    <3> QED  BY <1>2, <2>4, <3>1 DEF PassInv
  <2>5. UNCHANGED <<seen, lastSeq, count, pass, lastRead, now>>
    BY <1>0
  <2> QED  BY <1>2, <2>1, <2>2, <2>3, <2>4, <2>5 DEF PassInv
<1>10. CaughtInv'
  <2> SUFFICES ASSUME NEW c \in caught, pass.pc = "scan", pass.k > 1
               PROVE  events'[2 * pass.k - 2] = events[2 * pass.k - 2]
    BY <1>0 DEF CaughtInv
  <2>1. pass.k \in 1..((pass.known + 1) \div 2) /\ pass.known \in 1..n
    BY DEF PassInv, n
  <2>2. 2 * pass.k - 2 \in 1..n
    BY <1>0, <2>1
  <2> QED  BY <1>2, <2>2
<1>11. CoveredInv'
  <2> SUFFICES ASSUME NEW s, InWindow(s)' PROVE InWindow(s)
    BY <1>0 DEF CoveredInv
  <2> QED  BY <1>0, <1>2, <1>8 DEF InWindow, n
<1> QED  BY <1>4, <1>5, <1>6, <1>7, <1>9, <1>10, <1>11

\* A delivery begins, or is abandoned: only a stamp in flight changes.
LEMMA FlyingChecker ==
    ASSUME CheckerInv, NEW w \in Workers, Stamp(w) \/ Abandon(w)
    PROVE  CheckerInv'
<1> USE DEF CheckerInv
<1>1. UNCHANGED <<now, events, ring, count, log, checkVars>>
  BY DEF Stamp, Abandon
<1>2. /\ flying' \in [Workers -> Times \cup {None}]
      /\ \A v \in Workers : flying'[v] # None => flying'[v] <= now
  <2>1. flying \in [Workers -> Times \cup {None}] /\ now \in Times /\ now \in Nat
    BY EventFacts DEF TypeOK
  <2>2. \A v \in Workers : flying[v] # None => flying[v] <= now
    BY DEF ClockInv
  <2>3. CASE Stamp(w)
    BY <2>1, <2>2, <2>3 DEF Stamp
  <2>4. CASE Abandon(w)
    BY <2>1, <2>2, <2>4 DEF Abandon
  <2> QED  BY <2>3, <2>4
<1>3. TypeOK'
  BY <1>1, <1>2 DEF TypeOK, checkVars
<1>4. ClockInv'
  BY <1>1, <1>2 DEF ClockInv, checkVars
<1> QED
  BY <1>1, <1>3, <1>4 DEF checkVars, EventsInv, RingInv, PassInv, CaughtInv, CoveredInv,
                          InWindow, CountedOnce

\* A delivery is recorded: its number is new, its slot of the ring is not one of
\* the latest Ring - 1, and nothing that a pass has looked at moves.
LEMMA RecordChecker ==
    ASSUME CheckerInv, NEW w \in Workers, Record(w)
    PROVE  CheckerInv'
<1> USE DEF CheckerInv
<1>0. /\ UNCHANGED <<now, events, checkVars>> /\ count' = count + 1
      /\ count \in Nat /\ count + 1 <= MaxCount /\ now \in Nat
  BY EventFacts, CheckerAssumption DEF Record, TypeOK
<1>1. flying[w] \in Times /\ flying[w] <= now
  BY DEF Record, TypeOK, ClockInv
<1>2. /\ log' \in Seq(Times) /\ Len(log') = count + 1
      /\ \A s \in 1..count : log'[s] = log[s]
      /\ log'[count + 1] = flying[w]
  BY <1>0, <1>1, LogSeq DEF Record
<1>3. log' \in [1..(count + 1) -> Times]
  BY <1>2, LenProperties
<1>4. /\ flying' \in [Workers -> Times \cup {None}]
      /\ \A v \in Workers : flying'[v] # None => flying'[v] <= now
  <2>1. flying \in [Workers -> Times \cup {None}]
    BY DEF TypeOK
  <2>2. \A v \in Workers : flying[v] # None => flying[v] <= now
    BY DEF ClockInv
  <2>3. flying' = [flying EXCEPT ![w] = None]
    BY DEF Record
  <2> QED  BY <2>1, <2>2, <2>3
<1>5. count % Ring \in 0..(Ring - 1) /\ ring' = [ring EXCEPT ![count % Ring] = flying[w]]
  <2>1. (count + 1) - 1 = count
    BY <1>0
  <2> QED  BY <1>0, <2>1, Slot DEF Record
<1>6. ring' \in [0..(Ring - 1) -> 0..MaxTime]
  <2>1. flying[w] \in 0..MaxTime /\ ring \in [0..(Ring - 1) -> 0..MaxTime]
    BY <1>1, CheckerAssumption DEF Times, TypeOK
  <2> QED  BY <1>5, <2>1
<1>7. 1..count \subseteq 1..(count + 1)
  BY <1>0
<1>8. TypeOK'
  <2>1. caught \subseteq 1..(count + 1)
    BY <1>7 DEF TypeOK
  <2>2. count + 1 \in 0..MaxCount
    BY <1>0, CheckerAssumption
  <2> QED  BY <1>0, <1>3, <1>4, <1>6, <2>1, <2>2 DEF TypeOK, checkVars
<1>9. ClockInv'
  <2>1. ASSUME NEW s \in 1..(count + 1) PROVE log'[s] <= now
    <3>1. CASE s = count + 1
      BY <1>1, <1>2, <3>1
    <3>2. CASE s \in 1..count
      BY <1>2, <3>2 DEF ClockInv
    <3> QED  BY <1>0, <3>1, <3>2
  <2> QED  BY <1>0, <1>4, <2>1 DEF ClockInv, checkVars
<1>10. RingInv'
  <2> SUFFICES ASSUME NEW s \in 1..count', s > count' - Ring
               PROVE  ring'[(s - 1) % Ring] = log'[s]
    BY Zenon DEF RingInv
  <2>0. Ring \in Nat \ {0} /\ ring \in [0..(Ring - 1) -> 0..MaxTime]
    BY CheckerAssumption DEF TypeOK
  <2>1. CASE s = count + 1
    <3>1. s - 1 = count
      BY <1>0, <2>1
    <3> QED  BY <1>2, <1>5, <2>0, <2>1, <3>1
  <2>2. CASE s # count + 1
    <3>1. s \in 1..count /\ s > count - Ring /\ s - 1 \in Nat
          /\ s - 1 < count /\ count < (s - 1) + Ring
      BY <1>0, <2>0, <2>2
    <3>2. (s - 1) % Ring # count % Ring
      BY <1>0, <2>0, <3>1, ModDiffer
    <3>3. (s - 1) % Ring \in 0..(Ring - 1)
      BY <3>1, Slot
    <3>4. ring[(s - 1) % Ring] = log[s]
      BY <3>1 DEF RingInv
    <3> QED  BY <1>2, <1>5, <2>0, <3>1, <3>2, <3>3, <3>4
  <2> QED  BY <2>1, <2>2
<1>11. EventsInv' /\ CountedOnce'
  BY <1>0 DEF EventsInv, CountedOnce, checkVars
<1>12. PassInv'
  <2>1. lastSeq \in Int /\ pass.newSeq \in Int
    BY CheckerAssumption DEF TypeOK, PassRec
  <2>2. /\ lastSeq <= count => lastSeq <= count + 1
        /\ pass.newSeq <= count => pass.newSeq <= count + 1
    BY <1>0, <2>1
  <2>3. UNCHANGED <<seen, lastSeq, pass, lastRead, now, events>>
    BY <1>0 DEF checkVars
  <2> QED  BY <1>0, <2>2, <2>3 DEF PassInv
<1>13. \A c \in caught : c \in 1..count /\ log'[c] = log[c]
  BY <1>2, CaughtNumber
<1>14. CaughtInv'
  BY <1>0, <1>13 DEF CaughtInv, checkVars
<1>16. CoveredInv'
  <2>1. ASSUME NEW s \in 1..lastSeq PROVE log'[s] = log[s]
    <3>1. s \in 1..count
      BY <1>0, CheckerAssumption DEF PassInv, TypeOK
    <3> QED  BY <1>2, <3>1
  <2> QED  BY <1>0, <2>1 DEF CoveredInv, InWindow, checkVars
<1> QED  BY <1>8, <1>9, <1>10, <1>11, <1>12, <1>14, <1>16

\* A pass reads the truth: what it knows is all there is.
LEMMA ReadChecker == CheckerInv /\ ReadTruth => CheckerInv'
<1> SUFFICES ASSUME CheckerInv, ReadTruth PROVE CheckerInv'
  OBVIOUS
<1> USE DEF CheckerInv, ReadTruth, sinkVars
<1>0. now \in Nat /\ now \in Times /\ lastRead \in Nat /\ Len(events) \in Nat
      /\ lastRead <= now /\ MaxGap \in Nat
  BY EventFacts, CheckerAssumption DEF TypeOK, EventsInv, ClockInv, Times
<1>1. EventsInv' /\ RingInv' /\ CoveredInv' /\ CountedOnce'
  BY DEF EventsInv, RingInv, CoveredInv, InWindow, CountedOnce
<1>2. CASE events = <<>>
  <2>1. /\ UNCHANGED <<pass, now, events, sinkVars, lastSeq, seen, late, gap, caught>>
        /\ lastRead' = now
    BY <1>2
  <2>2. Len(events) = 0
    BY <1>2
  <2>3. TypeOK'
    BY <1>0, <2>1 DEF TypeOK
  <2>4. ClockInv'
    BY <1>0, <2>1, <2>2 DEF ClockInv
  <2>5. PassInv' /\ CaughtInv'
    BY <2>1 DEF PassInv, CaughtInv
  <2> QED  BY <1>1, <2>3, <2>4, <2>5
<1>3. CASE events # <<>>
  <2> DEFINE q == [Between EXCEPT !.pc = "sample", !.read = now, !.known = Len(events), !.k = 1]
  <2>1. UNCHANGED <<lastRead, now, events, sinkVars, lastSeq, seen, late, gap, caught>> /\ pass' = q
    BY <1>3
  <2>20. Between \in PassRec
    BY CheckerAssumption DEF Between, PassRec
  <2>2. q.pc = "sample" /\ q.read = now /\ q.known = Len(events) /\ q.k = 1
    BY <2>20 DEF PassRec
  <2>3. Len(events) \in 1..Len(events) /\ Len(events) <= MaxEvents
    <3>1. Len(events) # 0
      BY <1>3, EmptySeq DEF EventsInv
    <3> QED  BY <1>0, <3>1 DEF TypeOK
  <2>4. q \in PassRec
    <3>1. /\ now \in 0..MaxTime /\ 0 \in 0..MaxCount
          /\ Len(events) \in 0..MaxEvents /\ 1 \in 0..MaxEvents
      BY <1>0, <2>3, CheckerAssumption DEF Times
    <3> QED  BY <2>20, <3>1 DEF PassRec
  <2> HIDE DEF q
  <2>5. TypeOK'
    BY <2>1, <2>4 DEF TypeOK
  <2>6. ClockInv'
    BY <2>1 DEF ClockInv
  <2>7. PassInv'
    <3>1. (Len(events) + 1)..Len(events) = {}
      BY <1>0
    <3> QED  BY <1>0, <2>1, <2>2, <2>3, <3>1 DEF PassInv
  <2>8. CaughtInv'
    BY <2>1, <2>2 DEF CaughtInv
  <2> QED  BY <1>1, <2>5, <2>6, <2>7, <2>8
<1> QED  BY <1>2, <1>3
\* The window of the k-th revoke among n events.
LEMMA WindowAt ==
    ASSUME NEW n \in Nat, NEW k \in 1..((n + 1) \div 2)
    PROVE  /\ windows(n)[k].revoke = events[2 * k - 1].at
           /\ windows(n)[k].restore = IF 2 * k <= n THEN events[2 * k].at ELSE 0
BY DEF windows

\* The latest window is that of the last revoke.
LEMMA LatestRevoke ==
    ASSUME pass.known \in Nat \ {0}
    PROVE  Latest.revoke = events[LastRevoke(pass.known)].at
<1> DEFINE n == pass.known
           m == (n + 1) \div 2
<1>1. n \in Nat /\ m \in 1..m
  BY LastIsRevoke
<1>2. Latest = windows(n)[m]
  BY <1>1, WindowCount DEF Latest
<1>3. windows(n)[m].revoke = events[2 * m - 1].at
  BY <1>1, WindowAt
<1> QED  BY <1>2, <1>3 DEF LastRevoke

\* A pass samples the total: nothing recorded so far lies in the window of a
\* revoke that is new to it, since that window opens a lease after the revoke
\* and the pass comes sooner.
LEMMA SampleChecker == CheckerInv /\ Sample => CheckerInv'
<1> SUFFICES ASSUME CheckerInv, Sample PROVE CheckerInv'
  OBVIOUS
<1> USE DEF CheckerInv
<1> DEFINE n == pass.known
           r == LastRevoke(n)
<1>0. /\ UNCHANGED <<now, events, sinkVars, late, gap, caught>>
      /\ pass.pc = "sample" /\ n \in 1..Len(events) /\ Len(events) \in Nat
      /\ lastRead \in Nat /\ now \in Nat /\ pass.read \in Nat
      /\ lastRead <= pass.read /\ pass.read <= now /\ now <= lastRead + MaxGap
      /\ lastRead' = pass.read /\ count \in Nat /\ lastSeq \in Int /\ lastSeq <= count
      /\ MaxGap \in Nat /\ Lease \in Nat /\ MaxGap <= Lease /\ seen \in Nat
  <2>1. /\ UNCHANGED <<now, events, sinkVars, late, gap, caught>>
        /\ pass.pc = "sample" /\ lastRead' = pass.read
    BY DEF Sample
  <2>2. Len(events) \in Nat /\ now \in Nat /\ n \in 1..Len(events)
    BY <2>1, EventFacts DEF EventsInv, PassInv
  <2>3. pass.read \in Nat /\ lastRead \in Nat /\ count \in Nat /\ lastSeq \in Int /\ seen \in Nat
    BY CheckerAssumption DEF TypeOK, Times, PassRec
  <2>4. lastRead <= pass.read /\ pass.read <= now /\ now <= lastRead + MaxGap /\ lastSeq <= count
    BY <2>1 DEF PassInv, ClockInv
  <2> QED  BY <2>1, <2>2, <2>3, <2>4, CheckerAssumption
<1>1. /\ n \in Nat \ {0} /\ r \in 1..n /\ r \in 1..Len(events) /\ r % 2 = 1
      /\ \A j \in 1..n : j % 2 = 1 => j <= r
  <2>1. n \in Nat \ {0}
    BY <1>0
  <2>2. r \in 1..n /\ r % 2 = 1 /\ \A j \in 1..n : j % 2 = 1 => j <= r
    BY <2>1, LastIsRevoke
  <2> QED  BY <1>0, <2>1, <2>2
<1>2. Latest.revoke = events[r].at
  BY <1>1, LatestRevoke
<1>3. seen' = events[r].at /\ events[r].at \in Nat /\ 1 <= events[r].at /\ events[r].at <= now
  BY <1>1, <1>2, EventFacts DEF Sample
<1>4. ASSUME NEW j \in 1..Len(events), j % 2 = 1, events[j].at > events[r].at
      PROVE  pass.read <= events[j].at
  <2>1. CASE j \in (n + 1)..Len(events)
    BY <1>0, <2>1 DEF PassInv
  <2>2. CASE j \in 1..n
    <3>1. j <= r
      BY <1>1, <1>4, <2>2
    <3>2. j # r
      BY <1>3, <1>4
    <3>3. events[j].at < events[r].at
      BY <1>1, <3>1, <3>2 DEF EventsInv
    <3> QED  BY <1>3, <1>4, <3>3, EventFacts
  <2> QED  BY <1>0, <2>1, <2>2
<1>5. seen # events[r].at => lastRead <= events[r].at
  <2> SUFFICES ASSUME seen # events[r].at PROVE lastRead <= events[r].at
    OBVIOUS
  <2>1. events[r].at > seen
    <3>1. CASE seen = 0
      BY <1>3, <3>1
    <3>2. CASE seen # 0
      <4>1. PICK j \in 1..n : j % 2 = 1 /\ events[j].at = seen
        BY <1>0, <3>2 DEF PassInv
      <4>2. j \in 1..Len(events) /\ j <= r /\ j # r
        <5>1. j <= r
          BY <1>1, <4>1
        <5>2. j # r
          BY <4>1
        <5> HIDE DEF r
        <5> QED  BY <1>0, <5>1, <5>2
      <4>3. events[j].at < events[r].at
        BY <1>1, <4>2 DEF EventsInv
      <4> QED  BY <1>3, <4>1, <4>3, <1>0
    <3> QED  BY <3>1, <3>2
  <2> QED  BY <1>1, <2>1 DEF ClockInv
<1> DEFINE p == IF seen # events[r].at THEN count ELSE lastSeq
<1>6. p \in 0..count /\ lastSeq' = p
      /\ pass' = [pass EXCEPT !.pc = "scan", !.since = p, !.newSeq = p]
  <2>1. ResumePoint = p
    BY <1>2 DEF ResumePoint
  <2>2. p \in 0..count
    <3>1. seen # 0 => 0 <= lastSeq
      BY DEF PassInv
    <3> QED  BY <1>0, <1>3, <3>1
  <2> QED  BY <2>1, <2>2 DEF Sample
<1>7. /\ pass' \in PassRec /\ pass'.pc = "scan" /\ pass'.since = p /\ pass'.newSeq = p
      /\ pass'.known = n /\ pass'.k = pass.k /\ pass'.read = pass.read
  <2>1. pass \in PassRec /\ count \in 0..MaxCount
    BY DEF TypeOK
  <2>2. p \in 0..MaxCount
    BY <1>6, <2>1, CheckerAssumption
  <2> HIDE DEF p
  <2>3. pass' \in PassRec
    BY <1>6, <2>1, <2>2 DEF PassRec
  <2> QED  BY <1>6, <2>1, <2>3 DEF PassRec
<1>8. pass.k = 1 /\ 1 \in 1..((n + 1) \div 2)
  BY <1>0, <1>1 DEF PassInv
<1>9. TypeOK'
  <2>0. now \in 1..MaxTime /\ lastRead \in 1..MaxTime /\ count \in 0..MaxCount
    BY DEF TypeOK, Times
  <2>1. pass.read \in Times /\ lastSeq' \in -1..MaxCount /\ seen' \in 0..MaxTime
    <3>1. pass.read \in 1..MaxTime
      BY <1>0, <2>0, CheckerAssumption
    <3>2. seen' \in 0..MaxTime
      BY <1>3, <2>0, CheckerAssumption
    <3> HIDE DEF p
    <3>3. lastSeq' \in -1..MaxCount
      BY <1>6, <2>0, CheckerAssumption
    <3> QED  BY <3>1, <3>2, <3>3 DEF Times
  <2> QED  BY <1>0, <1>7, <2>1 DEF TypeOK, sinkVars
<1>10. EventsInv' /\ RingInv' /\ CountedOnce'
  BY <1>0 DEF EventsInv, RingInv, CountedOnce, sinkVars
<1>11. ClockInv'
  <2>1. now <= pass.read + MaxGap
    BY <1>0
  <2>2. UNCHANGED <<now, events, flying, count, log>>
    BY <1>0 DEF sinkVars
  <2> QED  BY <1>0, <1>3, <1>4, <2>1, <2>2 DEF ClockInv
<1>12. PassInv'
  <2>1. lastSeq' <= count /\ 0 <= lastSeq'
    BY <1>6, <1>0
  <2>2. UNCHANGED <<now, events, count>>
    BY <1>0 DEF sinkVars
  <2>3. \A j \in (n + 1)..Len(events) : pass.read <= events[j].at
    BY <1>0 DEF PassInv
  <2> HIDE DEF p
  <2>4. p <= p /\ p <= count
    BY <1>0, <1>6
  <2>5. \E j \in 1..Len(events) : j % 2 = 1 /\ events[j].at = seen'
    BY <1>1, <1>3
  <2>6. lastRead' <= pass'.read /\ pass'.read <= now /\ pass'.known \in 1..Len(events)
    BY <1>0, <1>7
  <2>7. pass'.k \in 1..((pass'.known + 1) \div 2) /\ seen' = events[LastRevoke(pass'.known)].at
    BY <1>3, <1>7, <1>8
  <2>8. pass'.since = lastSeq' /\ pass'.since <= pass'.newSeq /\ pass'.newSeq <= count
    BY <1>6, <1>7, <2>4
  <2> QED
    BY <1>7, <2>1, <2>2, <2>3, <2>5, <2>6, <2>7, <2>8 DEF PassInv
<1>13. CaughtInv'
  <2> SUFFICES ASSUME NEW c \in caught PROVE c <= p
    BY <1>0, <1>7 DEF CaughtInv
  <2>1. c \in 1..count /\ c <= lastSeq
    BY <1>0, CaughtNumber DEF CaughtInv
  <2> QED  BY <1>0, <2>1
<1>14. CoveredInv'
  <2>1. CASE seen = events[r].at
    <3>1. UNCHANGED <<seen, lastSeq, events, log, gap, caught>>
      BY <1>0, <1>3, <1>6, <2>1 DEF sinkVars
    <3> QED  BY <3>1 DEF CoveredInv, InWindow
  <2>2. CASE seen # events[r].at
    <3>1. lastSeq' = count /\ UNCHANGED <<now, log>>
      BY <1>0, <1>6, <2>2 DEF sinkVars
    <3>2. ASSUME NEW s \in 1..count PROVE ~InWindow(s)'
      <4>1. log[s] <= now /\ log[s] \in Nat
        BY DEF ClockInv, TypeOK, Times
      <4>2. log[s] <= seen' + Lease
        BY <1>0, <1>3, <1>5, <2>2, <4>1
      <4>3. ~(log[s] > seen' + Lease)
        BY <1>0, <1>3, <4>1, <4>2
      <4> QED  BY <3>1, <4>3 DEF InWindow
    <3> QED  BY <3>1, <3>2 DEF CoveredInv
  <2> QED  BY <2>1, <2>2
<1> QED  BY <1>9, <1>10, <1>11, <1>12, <1>13, <1>14
-----------------------------------------------------------------------------
\* What DeliveredBetween counts, in the terms of the log: deliveries after the
\* resume point, stamped in the window; and all of those, unless it says that
\* the ring was overrun.
LEMMA HitsAreLog ==
    ASSUME TypeOK, RingInv, NEW since \in Nat, since <= count, NEW lo \in Nat, NEW hi \in Nat
    PROVE  LET d == DeliveredBetween(since, lo, hi) IN
           /\ d.overrun \in BOOLEAN
           /\ \A s \in d.hits : /\ s \in (since + 1)..count
                                /\ log[s] > lo /\ (hi = 0 \/ log[s] <= hi)
           /\ \A s \in (since + 1)..count :
                log[s] > lo /\ (hi = 0 \/ log[s] <= hi) => d.overrun \/ s \in d.hits
<1> DEFINE over == count - since > Ring
           from == IF over THEN count - Ring ELSE since
           hits == {s \in (from + 1)..count :
                      ring[(s - 1) % Ring] > lo /\ (hi = 0 \/ ring[(s - 1) % Ring] <= hi)}
<1>1. DeliveredBetween(since, lo, hi) = [hits |-> hits, overrun |-> over]
  BY Zenon DEF DeliveredBetween
<1>2. count \in Nat /\ Ring \in Nat \ {0}
  BY CheckerAssumption DEF TypeOK
<1>3. from \in Int /\ since <= from /\ count - Ring <= from /\ (~over => from = since)
  BY <1>2
<1> HIDE DEF from
<1>4. ASSUME NEW s \in (from + 1)..count
      PROVE  s \in (since + 1)..count /\ ring[(s - 1) % Ring] = log[s]
  <2>1. s \in 1..count /\ s > count - Ring /\ s \in (since + 1)..count
    BY <1>2, <1>3
  <2> QED  BY <2>1 DEF RingInv
<1>5. over \in BOOLEAN
  BY <1>2
<1>6. \A s \in hits : /\ s \in (since + 1)..count
                      /\ log[s] > lo /\ (hi = 0 \/ log[s] <= hi)
  BY <1>4
<1>7. ASSUME NEW s \in (since + 1)..count, log[s] > lo /\ (hi = 0 \/ log[s] <= hi), ~over
      PROVE  s \in hits
  <2>1. s \in (from + 1)..count
    BY <1>3, <1>7
  <2> QED  BY <1>4, <1>7, <2>1
<1> HIDE DEF hits, over
<1>8. DeliveredBetween(since, lo, hi).hits = hits /\ DeliveredBetween(since, lo, hi).overrun = over
  BY <1>1
<1> QED  BY <1>5, <1>6, <1>7, <1>8

\* The numbers counted so far, with those of one more read.
LEMMA CountMore ==
    ASSUME TypeOK, CountedOnce, NEW H \in SUBSET (1..count), caught \cap H = {}
    PROVE  /\ Cardinality(H) \in Nat
           /\ late + Cardinality(H) = Cardinality(caught \cup H)
<1>1. count \in Int /\ 1 \in Int
  BY DEF TypeOK
<1>2. IsFiniteSet(1..count)
  BY <1>1, FS_Interval
<1>3. caught \in SUBSET (1..count)
  BY DEF TypeOK
<1>4. IsFiniteSet(caught) /\ IsFiniteSet(H)
  BY <1>2, <1>3, FS_Subset
<1>5. Cardinality(caught \cup H) =
        Cardinality(caught) + Cardinality(H) - Cardinality(caught \cap H)
  BY <1>4, FS_Union
<1>6. Cardinality(caught \cap H) = 0
  BY FS_EmptySet
<1>7. Cardinality(caught) \in Nat /\ Cardinality(H) \in Nat
  BY <1>4, FS_CardinalityType
<1> QED  BY <1>5, <1>6, <1>7 DEF CountedOnce

\* The indices of the k-th window among n of m events.
LEMMA WindowIndex ==
    ASSUME NEW m \in Nat, NEW n \in Nat \ {0}, n <= m, NEW k \in 1..((n + 1) \div 2)
    PROVE  /\ k \in Nat \ {0} /\ k <= n
           /\ 2 * k - 1 \in 1..n /\ 2 * k - 1 \in 1..m /\ (2 * k - 1) % 2 = 1
           /\ (2 * k - 1) + 1 = 2 * k /\ (2 * k - 1 < n => 2 * k <= n)
           /\ 2 * k <= n => 2 * k \in 1..m /\ (2 * k) % 2 = 0 /\ 2 * k - 1 < 2 * k
           /\ k > 1 => 2 * k - 2 \in 1..m /\ 2 * k - 2 < 2 * k - 1 /\ 2 * k - 2 < 2 * k
           /\ k < (n + 1) \div 2 =>
                /\ 2 * k <= n /\ k + 1 \in 1..((n + 1) \div 2) /\ k + 1 <= n /\ k + 1 > 1
                /\ 2 * (k + 1) - 2 = 2 * k
           /\ k = (n + 1) \div 2 => 2 * k - 1 = LastRevoke(n)
<1> DEFINE h == (n + 1) \div 2
<1>1. h \in Nat /\ 2 * h <= n + 1 /\ LastRevoke(n) = 2 * h - 1
  BY DEF LastRevoke
<1>2. k \in 1..h
  OBVIOUS
<1> HIDE DEF h
<1>3. k \in Nat \ {0} /\ 2 * k <= n + 1 /\ (k < h => 2 * k + 1 <= n)
  BY <1>1, <1>2
<1>4. (2 * k - 1) % 2 = 1 /\ (2 * k) % 2 = 0
  BY <1>3
<1>5. /\ k <= n /\ 2 * k - 1 \in 1..n /\ 2 * k - 1 \in 1..m
      /\ (2 * k - 1) + 1 = 2 * k /\ (2 * k - 1 < n => 2 * k <= n)
      /\ 2 * k <= n => 2 * k \in 1..m /\ 2 * k - 1 < 2 * k
      /\ k > 1 => 2 * k - 2 \in 1..m /\ 2 * k - 2 < 2 * k - 1 /\ 2 * k - 2 < 2 * k
  BY <1>3
<1>6. k < h => /\ 2 * k <= n /\ k + 1 \in 1..h /\ k + 1 <= n /\ k + 1 > 1
               /\ 2 * (k + 1) - 2 = 2 * k
  BY <1>1, <1>3
<1> QED  BY <1>1, <1>3, <1>4, <1>5, <1>6 DEF h

\* A pass reads the sink for one window: what it counts is new, because an
\* earlier pass counted only up to the resume point and an earlier window of
\* this pass ended before this one opens; after the last window every delivery
\* of the latest episode up to the new resume point has been counted.
LEMMA ScanChecker == CheckerInv /\ Scan => CheckerInv'
<1> SUFFICES ASSUME CheckerInv, Scan PROVE CheckerInv'
  OBVIOUS
<1> USE DEF CheckerInv
<1> DEFINE n == pass.known
           k == pass.k
           lo == events[2 * k - 1].at + Lease
           hi == IF 2 * k <= n THEN events[2 * k].at ELSE 0
           d == DeliveredBetween(pass.since, lo, hi)
           H == d.hits
\* The state of the pass.
<1>1. /\ pass.pc = "scan" /\ UNCHANGED <<now, events, sinkVars, seen, lastRead>>
      /\ n \in 1..Len(events) /\ Len(events) \in Nat /\ n \in Nat \ {0}
      /\ k \in 1..((n + 1) \div 2) /\ k \in Nat \ {0} /\ Lease \in Nat
  <2>1. pass.pc = "scan" /\ UNCHANGED <<now, events, sinkVars, seen, lastRead>>
    BY DEF Scan
  <2>2. n \in 1..Len(events) /\ Len(events) \in Nat /\ k \in 1..((n + 1) \div 2)
    BY <2>1 DEF PassInv, EventsInv
  <2>3. n \in Nat \ {0}
    BY <2>2
  <2> QED  BY <2>1, <2>2, <2>3, CheckerAssumption
<1>2. /\ count \in Nat /\ count \in 0..MaxCount
      /\ pass.since \in Nat /\ pass.since <= count /\ lastSeq = pass.since
      /\ pass.newSeq \in Nat /\ pass.newSeq <= count /\ pass.since <= pass.newSeq
  <2>1. count \in Nat /\ pass.since \in Nat /\ pass.newSeq \in Nat /\ count \in 0..MaxCount
    BY CheckerAssumption DEF TypeOK, PassRec
  <2>2. lastSeq = pass.since /\ pass.since <= pass.newSeq /\ pass.newSeq <= count
    BY <1>1 DEF PassInv
  <2> QED  BY <2>1, <2>2
<1>3. /\ k \in Nat \ {0} /\ k <= n
      /\ 2 * k - 1 \in 1..n /\ 2 * k - 1 \in 1..Len(events) /\ (2 * k - 1) % 2 = 1
      /\ (2 * k - 1) + 1 = 2 * k /\ (2 * k - 1 < n => 2 * k <= n)
      /\ 2 * k <= n => 2 * k \in 1..Len(events) /\ (2 * k) % 2 = 0 /\ 2 * k - 1 < 2 * k
      /\ k > 1 => /\ 2 * k - 2 \in 1..Len(events)
                  /\ 2 * k - 2 < 2 * k - 1 /\ 2 * k - 2 < 2 * k
      /\ k < (n + 1) \div 2 =>
           /\ 2 * k <= n /\ k + 1 \in 1..((n + 1) \div 2) /\ k + 1 <= n /\ k + 1 > 1
           /\ 2 * (k + 1) - 2 = 2 * k
      /\ k = (n + 1) \div 2 => 2 * k - 1 = LastRevoke(n)
  <2> DEFINE m == Len(events)
  <2>1. m \in Nat /\ n \in Nat \ {0} /\ n <= m /\ k \in 1..((n + 1) \div 2)
    BY <1>1
  <2> HIDE DEF n, k, m
  <2>2. /\ k \in Nat \ {0} /\ k <= n
        /\ 2 * k - 1 \in 1..n /\ 2 * k - 1 \in 1..m /\ (2 * k - 1) % 2 = 1
        /\ (2 * k - 1) + 1 = 2 * k /\ (2 * k - 1 < n => 2 * k <= n)
        /\ 2 * k <= n => 2 * k \in 1..m /\ (2 * k) % 2 = 0 /\ 2 * k - 1 < 2 * k
        /\ k > 1 => 2 * k - 2 \in 1..m /\ 2 * k - 2 < 2 * k - 1 /\ 2 * k - 2 < 2 * k
        /\ k < (n + 1) \div 2 =>
             /\ 2 * k <= n /\ k + 1 \in 1..((n + 1) \div 2) /\ k + 1 <= n /\ k + 1 > 1
             /\ 2 * (k + 1) - 2 = 2 * k
        /\ k = (n + 1) \div 2 => 2 * k - 1 = LastRevoke(n)
    BY ONLY <2>1, WindowIndex, Zenon
  <2> QED  BY ONLY <2>2 DEF m, n, k
<1>4. lo \in Nat /\ hi \in Nat /\ (hi = 0 <=> ~(2 * k <= n))
  <2>1. events[2 * k - 1].at \in Nat
    BY <1>3, EventFacts
  <2>2. 2 * k <= n => events[2 * k].at \in Nat /\ 1 <= events[2 * k].at
    BY <1>3, EventFacts
  <2>3. lo \in Nat
    BY <1>1, <2>1
  <2> QED  BY <2>2, <2>3
<1>5. /\ windows(n)[k].revoke = events[2 * k - 1].at /\ windows(n)[k].restore = hi
      /\ Len(windows(n)) = (n + 1) \div 2
  BY <1>1, WindowAt, WindowCount
<1>6. opens(windows(n)[k]) = lo
  BY <1>5 DEF opens
<1> DEFINE top == IF count > pass.newSeq THEN count ELSE pass.newSeq
<1>7. top = count
  BY <1>2
\* The step itself.
<1>8. /\ late' = late + Cardinality(H) /\ gap' = (gap \/ d.overrun)
      /\ caught' = caught \cup H
      /\ \/ /\ k < (n + 1) \div 2 /\ UNCHANGED lastSeq
            /\ pass' = [pass EXCEPT !.k = k + 1, !.newSeq = count]
         \/ k = (n + 1) \div 2 /\ pass' = Between /\ lastSeq' = count
  <2> HIDE DEF top, lo, hi
  <2>1. /\ late' = late + Cardinality(H) /\ gap' = (gap \/ d.overrun)
        /\ caught' = caught \cup H
    BY <1>5, <1>6 DEF Scan
  <2>2. IF k < Len(windows(n))
        THEN pass' = [pass EXCEPT !.k = k + 1, !.newSeq = top] /\ UNCHANGED lastSeq
        ELSE pass' = Between /\ lastSeq' = top
    BY DEF Scan, NextResume, top
  <2>3. ~(k < (n + 1) \div 2) => k = (n + 1) \div 2
    BY <1>1
  <2> QED  BY <1>5, <1>7, <2>1, <2>2, <2>3
\* What it counts.
<1>9. /\ d.overrun \in BOOLEAN
      /\ \A s \in H : /\ s \in (pass.since + 1)..count /\ log[s] > lo
                      /\ 2 * k <= n => log[s] <= events[2 * k].at
      /\ \A s \in (pass.since + 1)..count :
           log[s] > lo /\ (2 * k <= n => log[s] <= events[2 * k].at) => d.overrun \/ s \in H
  <2> HIDE DEF lo
  <2>1. \A s : (hi = 0 \/ log[s] <= hi) <=> (2 * k <= n => log[s] <= events[2 * k].at)
    BY <1>4
  <2> HIDE DEF hi
  <2>2. /\ d.overrun \in BOOLEAN
        /\ \A s \in H : /\ s \in (pass.since + 1)..count
                        /\ log[s] > lo /\ (hi = 0 \/ log[s] <= hi)
        /\ \A s \in (pass.since + 1)..count :
             log[s] > lo /\ (hi = 0 \/ log[s] <= hi) => d.overrun \/ s \in H
    BY <1>2, <1>4, HitsAreLog
  <2> HIDE DEF d
  <2> QED  BY <2>1, <2>2
<1> HIDE DEF H, d
<1>10. H \in SUBSET (1..count) /\ \A s \in H : log[s] \in Nat
  <2>1. \A s \in H : s \in 1..count
    BY <1>2, <1>9
  <2> QED  BY <2>1 DEF TypeOK, Times
<1>11. ASSUME NEW c \in caught PROVE c \notin H
  <2> SUFFICES ASSUME c \in H PROVE FALSE
    OBVIOUS
  <2>1. c \in (pass.since + 1)..count /\ log[c] > lo
    BY <1>9
  <2>2. ~(c <= pass.since)
    BY <1>2, <2>1
  <2>3. k > 1 /\ log[c] <= events[2 * k - 2].at
    BY <1>1, <2>2 DEF CaughtInv
  <2>4. events[2 * k - 2].at < events[2 * k - 1].at
    BY <1>3, <2>3 DEF EventsInv
  <2>5. events[2 * k - 2].at \in Nat /\ events[2 * k - 1].at \in Nat /\ log[c] \in Nat
    BY <1>3, <1>10, <2>3, EventFacts
  <2>60. Lease \in Nat
    BY <1>1
  <2>6. events[2 * k - 1].at <= lo
    BY <2>5, <2>60
  <2> HIDE DEF lo
  <2> QED  BY <1>4, <2>1, <2>3, <2>4, <2>5, <2>6
<1>12. /\ Cardinality(H) \in Nat
       /\ late + Cardinality(H) = Cardinality(caught \cup H)
  <2>1. caught \cap H = {}
    BY <1>11
  <2> QED  BY <1>10, <2>1, CountMore
<1>13. CountedOnce'
  BY <1>8, <1>12 DEF CountedOnce
<1>15. EventsInv' /\ ClockInv' /\ RingInv'
  BY <1>1 DEF EventsInv, ClockInv, RingInv, sinkVars
<1>17. caught' \subseteq 1..count /\ late' \in Nat /\ gap' \in BOOLEAN
  <2>1. caught \subseteq 1..count /\ late \in Nat /\ gap \in BOOLEAN
    BY DEF TypeOK
  <2>2. caught' \subseteq 1..count
    BY <1>8, <1>10, <2>1
  <2>3. late' \in Nat
    BY <1>8, <1>12, <2>1
  <2> QED  BY <1>8, <2>1, <2>2, <2>3
<1>18. \A c \in caught' : c \in 1..count
  BY <1>17
<1>19. ASSUME NEW s \in 1..lastSeq, seen # 0, InWindow(s)
       PROVE  gap' \/ s \in caught'
  <2>1. gap \/ s \in caught
    BY <1>19 DEF CoveredInv
  <2> QED  BY <1>8, <2>1
<1>20. CASE k < (n + 1) \div 2 /\ UNCHANGED lastSeq
            /\ pass' = [pass EXCEPT !.k = k + 1, !.newSeq = count]
  <2>1. /\ pass' \in PassRec /\ pass'.pc = "scan" /\ pass'.k = k + 1 /\ pass'.newSeq = count
        /\ pass'.since = pass.since /\ pass'.known = n /\ pass'.read = pass.read
    <3>1. pass \in PassRec /\ n \in 0..MaxEvents
      BY DEF TypeOK, PassRec
    <3>20. k + 1 <= n /\ k \in Nat
      BY <1>3, <1>20
    <3>2. k + 1 \in 0..MaxEvents
      BY <3>1, <3>20, CheckerAssumption
    <3>3. pass' \in PassRec
      BY <1>2, <1>20, <3>1, <3>2 DEF PassRec
    <3> QED  BY <1>1, <1>20, <3>1, <3>3 DEF PassRec
  <2>2. TypeOK'
    BY <1>1, <1>17, <1>20, <2>1 DEF TypeOK, sinkVars
  <2>3. PassInv'
    <3>1. k + 1 \in 1..((n + 1) \div 2)
      BY <1>3, <1>20
    <3>2. pass.since <= count
      BY <1>2
    <3>3. UNCHANGED <<now, events, count, seen, lastRead, lastSeq>>
      BY <1>1, <1>20 DEF sinkVars
    <3>4. count <= count
      BY <1>2
    <3> QED  BY <1>1, <1>2, <2>1, <3>1, <3>2, <3>3, <3>4 DEF PassInv
  <2>4. CaughtInv'
    <3>0. k + 1 > 1 /\ 2 * (k + 1) - 2 = 2 * k /\ 2 * k <= n /\ 2 * k \in 1..Len(events)
      BY <1>3, <1>20
    <3> SUFFICES ASSUME NEW c \in caught', ~(c <= pass.since)
                 PROVE  log[c] <= events[2 * k].at
      BY <1>1, <1>18, <1>2, <2>1, <3>0 DEF CaughtInv, sinkVars
    <3>1. CASE c \in caught
      <4>1. k > 1 /\ log[c] <= events[2 * k - 2].at
        BY <1>1, <3>1 DEF CaughtInv
      <4>2. events[2 * k - 2].at < events[2 * k].at
        BY <1>3, <3>0, <4>1 DEF EventsInv
      <4>3. log[c] \in Nat
        BY <1>18 DEF TypeOK, Times
      <4>4. events[2 * k - 2].at \in Nat /\ events[2 * k].at \in Nat
        BY <1>3, <3>0, <4>1, EventFacts
      <4> QED  BY <4>1, <4>2, <4>3, <4>4
    <3>2. CASE c \in H
      BY <1>9, <3>0, <3>2
    <3> QED  BY <1>8, <3>1, <3>2
  <2>5. CoveredInv'
    <3>1. UNCHANGED <<events, log, seen, lastSeq>>
      BY <1>1, <1>20 DEF sinkVars
    <3> QED  BY <1>19, <3>1 DEF CoveredInv, InWindow
  <2> QED  BY <1>13, <1>15, <2>2, <2>3, <2>4, <2>5
<1>21. CASE k = (n + 1) \div 2 /\ pass' = Between /\ lastSeq' = count
  <2>1. pass' \in PassRec /\ pass'.pc = "between"
    BY <1>21, CheckerAssumption DEF Between, PassRec
  <2>2. TypeOK'
    <3>1. count \in -1..MaxCount
      BY <1>2, CheckerAssumption
    <3> QED  BY <1>1, <1>17, <1>21, <2>1, <3>1 DEF TypeOK, sinkVars
  <2>3. PassInv'
    <3>1. UNCHANGED <<events, count, seen>>
      BY <1>1 DEF sinkVars
    <3>2. count <= count /\ 0 <= count
      BY <1>2
    <3> QED  BY <1>21, <2>1, <3>1, <3>2 DEF PassInv
  <2>4. CaughtInv'
    <3>1. \A c \in caught' : c <= count
      BY <1>2, <1>18
    <3> QED  BY <1>21, <2>1, <3>1 DEF CaughtInv
  <2>5. CoveredInv'
    <3>0. UNCHANGED <<events, log, seen>>
      BY <1>1 DEF sinkVars
    <3> SUFFICES ASSUME NEW s \in 1..count, seen # 0, InWindow(s)
                 PROVE  gap' \/ s \in caught'
      BY <1>21, <3>0 DEF CoveredInv, InWindow
    <3>1. CASE s \in 1..lastSeq
      BY <1>19, <3>1
    <3>2. CASE s \in (pass.since + 1)..count
      <4>1. seen = events[2 * k - 1].at
        BY <1>1, <1>3, <1>21 DEF PassInv
      <4>2. log[s] > lo
        BY <4>1 DEF InWindow
      <4>3. 2 * k <= n => log[s] <= events[2 * k].at
        <5> SUFFICES ASSUME 2 * k <= n PROVE log[s] <= events[2 * k].at
          OBVIOUS
        <5>1. 2 * k \in 1..Len(events) /\ (2 * k) % 2 = 0 /\ 2 * k - 1 < 2 * k
          BY <1>1, <1>3
        <5>2. events[2 * k - 1].at < events[2 * k].at
          BY <1>3, <5>1 DEF EventsInv
        <5>3. events[2 * k].at > seen
          BY <1>3, <4>1, <5>1, <5>2, EventFacts
        <5> QED  BY <5>1, <5>3 DEF InWindow
      <4>4. d.overrun \/ s \in H
        BY <1>9, <3>2, <4>2, <4>3
      <4>5. CASE d.overrun
        BY <1>8, <4>5
      <4>6. CASE s \in H
        BY <1>8, <4>6
      <4> QED  BY <4>4, <4>5, <4>6
    <3> QED  BY <1>2, <3>1, <3>2
  <2> QED  BY <1>13, <1>15, <2>2, <2>3, <2>4, <2>5
<1> QED  BY <1>8, <1>20, <1>21

-----------------------------------------------------------------------------
\* Every state of every behaviour satisfies the strengthened invariant: the
\* truth, the ring and the resume point of S3 (checker.go s3, sink.go Deliver
\* and DeliveredBetween, fake.go flip) fit together between any two steps.
THEOREM CheckerInvariant == Spec => []CheckerInv
<1>1. CheckerInv /\ [Next]_vars => CheckerInv'
  <2> SUFFICES ASSUME CheckerInv, [Next]_vars PROVE CheckerInv'
    OBVIOUS
  <2>1. CASE UNCHANGED vars
    BY <2>1, StutterChecker
  <2>2. CASE Tick
    BY <2>2, TickChecker
  <2>3. CASE flip
    BY <2>3, FlipChecker
  <2>4. CASE ReadTruth
    BY <2>4, ReadChecker
  <2>5. CASE Sample
    BY <2>5, SampleChecker
  <2>6. CASE Scan
    BY <2>6, ScanChecker
  <2>7. ASSUME NEW w \in Workers, Stamp(w) \/ Abandon(w) PROVE CheckerInv'
    BY <2>7, FlyingChecker
  <2>8. ASSUME NEW w \in Workers, Record(w) PROVE CheckerInv'
    BY <2>8, RecordChecker
  <2> QED  BY <2>1, <2>2, <2>3, <2>4, <2>5, <2>6, <2>7, <2>8 DEF Next
<1> QED  BY <1>1, InitChecker, PTL DEF Spec

\* The truth alternates, a revoke first, at increasing times, and a pass's locals
\* stay within what it read (fake.go flip, checker.go s3).
THEOREM CheckerTypes == Spec => []TypeOK
<1>1. CheckerInv => TypeOK
  BY DEF CheckerInv
<1> QED  BY <1>1, CheckerInvariant, PTL

\* For every lease, ring and number of workers: no delivery up to the resume
\* point in the window of the latest episode goes uncounted without the light
\* saying so, as long as passes come within a lease (checker.go s3, the resume
\* point at the current total).
THEOREM S3MissesNothing == Spec => []NothingMissed
<1>1. ASSUME CheckerInv PROVE NothingMissed
  <2> USE <1>1 DEF CheckerInv
  <2> SUFFICES ASSUME seen # 0, NEW s \in 1..lastSeq, log[s] > seen + Lease,
                      \A i \in 1..Len(events) :
                        events[i].enabled /\ events[i].at > seen => log[s] <= events[i].at
               PROVE  gap \/ s \in caught
    BY DEF NothingMissed
  <2>1. InWindow(s)
    BY EventFacts DEF InWindow
  <2> QED  BY <2>1 DEF CoveredInv
<1> QED  BY <1>1, CheckerInvariant, PTL

\* However the passes, the windows and the deliveries interleave, the counter of
\* late deliveries counts each one once (checker.go s3, the loop over windows).
THEOREM S3CountsOnce == Spec => []CountedOnce
<1>1. CheckerInv => CountedOnce
  BY DEF CheckerInv
<1> QED  BY <1>1, CheckerInvariant, PTL

=============================================================================
