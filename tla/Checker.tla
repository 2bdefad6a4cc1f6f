------------------------------ MODULE Checker ------------------------------
(***************************************************************************)
(* S3 of the checker (internal/check/checker.go): the deliveries of one    *)
(* tenant after revoke + Lease, counted from the ground truth of the fake  *)
(* KMS and from the sink's ring of timestamps while workers deliver, the   *)
(* key flips and time passes between any two reads of a pass.  Times and   *)
(* sequence numbers start at 1; 0 is the zero time.                        *)
(***************************************************************************)
EXTENDS Integers, Sequences, FiniteSets

CONSTANTS
    Workers,
    Lease,
    Ring,      \* timestamps the sink keeps
    MaxGap,    \* bound: from one pass's read of the truth to the next one's sample
    MaxTime, MaxCount, MaxEvents, \* bounds on time, deliveries and key events
    None

ASSUME CheckerAssumption ==
    /\ {Lease, Ring, MaxGap, MaxTime} \subseteq Nat \ {0}
    /\ {MaxCount, MaxEvents} \subseteq Nat
    /\ MaxGap <= Lease

VARIABLES
    now,
    events,    \* Truth: the key events, a sequence of [at, enabled]
    flying,    \* the stamp of each worker's delivery, or None
    ring,      \* Sink.ring
    count,     \* Sink.count
    lastSeq, seen, late, gap, \* Checker: lastSeq, seen, s3Late, s3Gap
    pass,      \* the pass: its step, and its locals
    lastRead,  \* when the last pass that has sampled read the truth
    log,       \* ghost: the stamp of every delivery
    caught     \* ghost: the number of every delivery counted

sinkVars == <<flying, ring, count, log>>
checkVars == <<lastSeq, seen, late, gap, pass, lastRead, caught>>
vars == <<now, events, sinkVars, checkVars>>

-----------------------------------------------------------------------------
Times == 1..MaxTime

Between == [pc |-> "between", read |-> 0, known |-> 0, k |-> 0, since |-> 0, newSeq |-> 0]

PassRec ==
    [pc : {"between", "sample", "scan"}, read : 0..MaxTime, known : 0..MaxEvents,
     k : 0..MaxEvents, since : 0..MaxCount, newSeq : 0..MaxCount]

\* The types; the truth alternates, a revoke first, at increasing times.
TypeOK ==
    /\ now \in Times
    /\ Len(events) <= MaxEvents
    /\ \A i \in 1..Len(events) :
        /\ events[i] \in [at : 1..now, enabled : {i % 2 = 0}]
        /\ i > 1 => events[i - 1].at < events[i].at
    /\ flying \in [Workers -> Times \cup {None}]
    /\ ring \in [0..(Ring - 1) -> 0..MaxTime]
    /\ count \in 0..MaxCount /\ log \in [1..count -> Times]
    /\ lastSeq \in -1..MaxCount /\ seen \in 0..MaxTime
    /\ late \in Nat /\ gap \in BOOLEAN
    /\ pass \in PassRec /\ lastRead \in Times
    /\ caught \subseteq 1..count

Init ==
    /\ now = 1 /\ events = <<>>
    /\ flying = [w \in Workers |-> None]
    /\ ring = [i \in 0..(Ring - 1) |-> 0] /\ count = 0 /\ log = <<>>
    /\ lastSeq = -1 /\ seen = 0 /\ late = 0 /\ gap = FALSE
    /\ pass = Between /\ lastRead = 1 /\ caught = {}

-----------------------------------------------------------------------------
\* Passes come in time: Interval and the length of a pass are under MaxGap.
Tick ==
    /\ now < MaxTime /\ now + 1 <= lastRead + MaxGap
    /\ now' = now + 1
    /\ UNCHANGED <<events, sinkVars, checkVars>>

Enabled == Len(events) % 2 = 0

\* Mutant of FlipTo: a flip to the state the key is in is recorded as well.
FlipToAny == BOOLEAN

\* A flip to the state the key is in already records nothing.
FlipTo == {~Enabled}

\* Revoke and Restore; two flips never carry the same timestamp.
flip ==
    /\ Len(events) < MaxEvents
    /\ events # <<>> => events[Len(events)].at < now
    /\ \E b \in FlipTo : events' = Append(events, [at |-> now, enabled |-> b])
    /\ UNCHANGED <<now, sinkVars, checkVars>>

\* Deliver: the stamp is taken first, the ring and the count move after the latency.
Stamp(w) ==
    /\ flying[w] = None
    /\ flying' = [flying EXCEPT ![w] = now]
    /\ UNCHANGED <<now, events, ring, count, log, checkVars>>

Record(w) ==
    LET seq == count + 1 IN
    /\ flying[w] # None /\ seq <= MaxCount
    /\ ring' = [ring EXCEPT ![(seq - 1) % Ring] = flying[w]]
    /\ count' = seq
    /\ log' = Append(log, flying[w])
    /\ flying' = [flying EXCEPT ![w] = None]
    /\ UNCHANGED <<now, events, checkVars>>

\* ctx done during the latency: nothing is recorded.
Abandon(w) ==
    /\ flying[w] # None
    /\ flying' = [flying EXCEPT ![w] = None]
    /\ UNCHANGED <<now, events, ring, count, log, checkVars>>

-----------------------------------------------------------------------------
\* windows over the first n events: each revoke with the restore after it, 0
\* while there is none.
windows(n) ==
    [i \in 1..((n + 1) \div 2) |->
        [revoke |-> events[2 * i - 1].at,
         restore |-> IF 2 * i <= n THEN events[2 * i].at ELSE 0]]

opens(w) == w.revoke + Lease

\* DeliveredBetween(since, lo, hi): the numbers it counts, and overrun.
DeliveredBetween(since, lo, hi) ==
    LET overrun == count - since > Ring
        from == IF overrun THEN count - Ring ELSE since
        at(s) == ring[(s - 1) % Ring]
    IN [hits |-> {s \in (from + 1)..count : at(s) > lo /\ (hi = 0 \/ at(s) <= hi)},
        overrun |-> overrun]

\* A pass begins: s3 reads the key events.
ReadTruth ==
    /\ pass.pc = "between"
    /\ IF events = <<>> THEN lastRead' = now /\ UNCHANGED pass
       ELSE /\ pass' = [Between EXCEPT !.pc = "sample", !.read = now,
                                       !.known = Len(events), !.k = 1]
            /\ UNCHANGED lastRead
    /\ UNCHANGED <<now, events, sinkVars, lastSeq, seen, late, gap, caught>>

Latest == LET ws == windows(pass.known) IN ws[Len(ws)]

\* Mutant of ResumePoint: every pass starts from the current total.
ResumeAtTotal == count

\* The first time a revoke is seen the resume point is the current total.
ResumePoint == IF seen # Latest.revoke THEN count ELSE lastSeq

Sample ==
    /\ pass.pc = "sample"
    /\ seen' = Latest.revoke
    /\ lastSeq' = ResumePoint
    /\ pass' = [pass EXCEPT !.pc = "scan", !.since = ResumePoint, !.newSeq = ResumePoint]
    /\ lastRead' = pass.read
    /\ UNCHANGED <<now, events, sinkVars, late, gap, caught>>

\* Mutant of NextResume: the next pass scans the same deliveries again.
KeepResume(newSeq) == lastSeq

NextResume(newSeq) == newSeq

\* One window of the pass; the last one moves the resume point.
Scan ==
    LET ws == windows(pass.known)
        w == ws[pass.k]
        d == DeliveredBetween(pass.since, opens(w), w.restore)
        newSeq == IF count > pass.newSeq THEN count ELSE pass.newSeq
    IN /\ pass.pc = "scan"
       /\ late' = late + Cardinality(d.hits)
       /\ gap' = (gap \/ d.overrun)
       /\ caught' = caught \cup d.hits
       /\ IF pass.k < Len(ws)
          THEN /\ pass' = [pass EXCEPT !.k = @ + 1, !.newSeq = newSeq]
               /\ UNCHANGED lastSeq
          ELSE /\ pass' = Between
               /\ lastSeq' = NextResume(newSeq)
       /\ UNCHANGED <<now, events, sinkVars, seen, lastRead>>

Next ==
    \/ Tick \/ flip \/ ReadTruth \/ Sample \/ Scan
    \/ \E w \in Workers : Stamp(w) \/ Record(w) \/ Abandon(w)

Spec == Init /\ [][Next]_vars

-----------------------------------------------------------------------------
\* Between two passes every delivery up to the resume point that was stamped
\* in the violation window of the latest episode has been counted, or the light
\* says "coverage gap": starting at the current total when a revoke is first
\* seen loses nothing of its window, whatever was in flight, was recorded
\* between two reads of a pass, or has left the ring (checker.go:184-187).
NothingMissed ==
    pass.pc = "between" /\ seen # 0 =>
        \A s \in 1..lastSeq :
            /\ log[s] > seen + Lease
            /\ \A i \in 1..Len(events) :
                events[i].enabled /\ events[i].at > seen => log[s] <= events[i].at
            => gap \/ s \in caught

\* No delivery is counted twice, although every pass scans the windows of all
\* episodes again and reads the sink once per window (checker.go:201-214).
CountedOnce == late = Cardinality(caught)
=============================================================================
