----------------------------- MODULE Admission -----------------------------
(***************************************************************************)
(* How many requests a kiosk and a phone may make: the budgets kept in the *)
(* database for PIN requests (terminal-auth.service.ts, `budget` and       *)
(* `reserve`), and the limiter each API process keeps in memory for        *)
(* pairing, kiosk and scan requests (terminal-rate-limit.guard.ts).  Both  *)
(* count in windows that begin with a request.  A process that restarts    *)
(* forgets its Map, as it does an entry it evicts.                         *)
(*                                                                         *)
(* A definition whose name ends in _Fault is a plausible mistake in the    *)
(* definition below it; nothing else uses it.                              *)
(***************************************************************************)
EXTENDS Integers, FiniteSets

CONSTANTS
    Kiosks,         \* devices; all of one terminal
    Peers,          \* kinds of request and identities that the limiter tells apart
    WindowLength,   \* a minute
    BurstLength,    \* ten seconds
    DeviceLimit, TerminalLimit, BurstLimit,   \* of PIN requests
    PeerLimit,      \* of the limiter
    MaxBuckets,     \* entries the limiter keeps
    LastTick,       \* bound: the last instant
    MaxRequests     \* bound: requests that are made

ASSUME AdmissionAssumption ==
    /\ WindowLength \in Nat \ {0} /\ BurstLength \in 1 .. WindowLength
    /\ {DeviceLimit, TerminalLimit, BurstLimit, PeerLimit, MaxBuckets} \subseteq Nat \ {0}
    /\ LastTick \in Nat /\ MaxRequests \in Nat
    /\ Kiosks \cap Peers = {}

VARIABLES
    tick,      \* the clock
    counters,  \* TerminalAuthAttemptState, by key; Unused if there is no row
    buckets,   \* the limiter's Map; since is the request that inserted an entry
    cleaned,   \* lastCleanupAt
    asked      \* history: requests, with what became of them

admission == <<tick, counters, buckets, cleaned, asked>>

Key == [scope: {"device", "burst", "audit"}, kiosk: Kiosks]
           \cup [scope: {"terminal"}, kiosk: {"any"}]
Unused == [counter |-> 0, start |-> 0]

Least(a, b) == IF a < b THEN a ELSE b

-----------------------------------------------------------------------------
(* Budgets in the database *)

LengthOf(key) == IF key.scope = "burst" THEN BurstLength ELSE WindowLength

LimitOf(key) ==
    CASE key.scope = "device" -> DeviceLimit
      [] key.scope = "terminal" -> TerminalLimit
      [] key.scope = "burst" -> BurstLimit
      [] key.scope = "audit" -> 1

\* The window ends one instant late.
Resets_Fault(key) ==
    counters[key] = Unused \/ tick - counters[key].start > LengthOf(key)

Resets(key) ==
    counters[key] = Unused \/ tick - counters[key].start >= LengthOf(key)

\* budget: a request is counted even if it is denied.
Counted(key) ==
    IF Resets(key) THEN [counter |-> 1, start |-> tick]
    ELSE [counters[key] EXCEPT !.counter = Least(@ + 1, LimitOf(key) + 2)]

Within(key) == Counted(key).counter <= LimitOf(key)

OnDevice(d) == {[scope |-> "device", kiosk |-> d], [scope |-> "burst", kiosk |-> d],
                [scope |-> "terminal", kiosk |-> "any"]}
OnAudit(d) == {[scope |-> "audit", kiosk |-> d]}

Note(record) == asked' = asked \cup {record}

\* reserve: every budget is charged; of the denials one a minute is audited.
Reserve(d) ==
    /\ Cardinality(asked) < MaxRequests
    /\ LET admitted == \A key \in OnDevice(d) : Within(key)
           charged == OnDevice(d) \cup (IF admitted THEN {} ELSE OnAudit(d))
       IN  /\ counters' = [key \in Key |->
                              IF key \in charged THEN Counted(key) ELSE counters[key]]
           /\ Note([by |-> d, at |-> tick, nr |-> Cardinality(asked), admitted |-> admitted,
                    audited |-> ~admitted /\ \A key \in OnAudit(d) : Within(key)])
    /\ UNCHANGED <<tick, buckets, cleaned>>

-----------------------------------------------------------------------------
(* The limiter of a process *)

Ended(bucket) == tick - bucket.start >= WindowLength

Sweeps == tick - cleaned >= WindowLength \/ Cardinality(buckets) >= MaxBuckets

\* cleanup, at most once a minute unless the Map is full: ended windows go, and
\* then whatever was inserted first.
Swept ==
    LET lasting == {bucket \in buckets : ~Ended(bucket)}
        Later(bucket) == {other \in lasting : other.since > bucket.since}
    IN  IF ~Sweeps THEN buckets
        ELSE {bucket \in lasting : Cardinality(Later(bucket)) < MaxBuckets - 1}

\* Of an entry the count is kept, and its beginning moved.
Renewed_Fault(bucket) ==
    [bucket EXCEPT !.count = @ + 1, !.start = IF Ended(bucket) THEN tick ELSE @]

Renewed(bucket) ==
    IF Ended(bucket) THEN [bucket EXCEPT !.count = 1, !.start = tick]
    ELSE [bucket EXCEPT !.count = @ + 1]

\* Map.set leaves an entry where it is.
Charge(map, p) ==
    LET here == {bucket \in map : bucket.peer = p}
        new == [peer |-> p, count |-> 1, start |-> tick, since |-> Cardinality(asked)]
    IN  IF here = {} THEN map \cup {new}
        ELSE (map \ here) \cup {Renewed(bucket) : bucket \in here}

CountOf(map, p) == (CHOOSE bucket \in map : bucket.peer = p).count

Limit(p) ==
    /\ Cardinality(asked) < MaxRequests
    /\ LET map == Charge(Swept, p)
           count == CountOf(map, p)
       IN  /\ buckets' = map
           /\ cleaned' = IF Sweeps THEN tick ELSE cleaned
           /\ Note([by |-> p, at |-> tick, nr |-> Cardinality(asked),
                    admitted |-> count <= PeerLimit, audited |-> count = PeerLimit + 1])
    /\ UNCHANGED <<tick, counters>>

Tick ==
    /\ tick < LastTick /\ tick' = tick + 1
    /\ UNCHANGED <<counters, buckets, cleaned, asked>>

-----------------------------------------------------------------------------
(* The system *)

AdmissionInit ==
    /\ tick = 0
    /\ counters = [key \in Key |-> Unused]
    /\ buckets = {} /\ cleaned = 0
    /\ asked = {}

BudgetsNext == (\E d \in Kiosks : Reserve(d)) \/ Tick

LimiterNext == (\E p \in Peers : Limit(p)) \/ Tick

AdmissionSpec == AdmissionInit /\ [][BudgetsNext \/ LimiterNext]_admission

-----------------------------------------------------------------------------
(* Properties *)

Lately(r, length) == {q \in asked : q.nr <= r.nr /\ q.at > r.at - length}

(* Budgets deny neither too little nor too much (terminal-auth.service.ts:80): *)
(* in any minute a device is admitted at most twice its limit, as windows may  *)
(* adjoin, and its denials reach the audit twice; and a request is denied only *)
(* if as many as the smallest limit were made in the minute up to it, so that  *)
(* a kiosk that keeps trying is admitted again.                                *)
DeviceBudgetsExact ==
    \A r \in {q \in asked : q.by \in Kiosks} :
         LET recent == {q \in Lately(r, WindowLength) : q.by = r.by}
         IN  /\ Cardinality({q \in recent : q.admitted}) <= 2 * DeviceLimit
             /\ Cardinality({q \in recent : q.audited}) <= 2
             /\ ~r.admitted =>
                  \/ Cardinality({q \in Lately(r, WindowLength) : q.by \in Kiosks}) > TerminalLimit
                  \/ Cardinality(recent) > DeviceLimit
                  \/ Cardinality({q \in Lately(r, BurstLength) : q.by = r.by}) > BurstLimit

(* The limiter refuses nobody who kept to it, whatever was forgotten or      *)
(* evicted, and its Map stays bounded (terminal-rate-limit.guard.ts:128).    *)
LimiterFair ==
    /\ Cardinality(buckets) <= MaxBuckets
    /\ \A a, b \in buckets : a.peer = b.peer => a = b
    /\ \A r \in {q \in asked : q.by \in Peers} :
         ~r.admitted => Cardinality({q \in Lately(r, WindowLength) : q.by = r.by}) > PeerLimit

(* Both kinds of budget deny neither too little nor too much.                *)
BudgetsExact == DeviceBudgetsExact /\ LimiterFair
=============================================================================
