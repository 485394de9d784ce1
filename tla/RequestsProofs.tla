--------------------------- MODULE RequestsProofs ---------------------------
(***************************************************************************)
(* What holds of Requests however many calls are in flight: a consent that *)
(* a state of a request implies has been given, not only for the state the *)
(* request is in but for every state a call has read, so that a stale      *)
(* transition cannot skip one.                                             *)
(***************************************************************************)
EXTENDS Requests, SequenceTheorems, TLAPS

-----------------------------------------------------------------------------
(* The inductive invariant *)

\* What never changes of a request.
SameRequest(r, s) ==
    /\ r.emp = s.emp /\ r.type = s.type /\ r.from = s.from /\ r.to = s.to
    /\ r.special = s.special /\ r.sub = s.sub

\* Only vacations have a substitute, only adjustments are off-hours, and these
\* correct a proper interval; the request is in the inbox it belongs to.
RowFit(r) ==
    /\ r.sub # Nobody => r.type = "Vacation"
    /\ r.special => r.type = "TimeAdjustment"
    /\ r.type = "TimeAdjustment" => r.from < r.to
    /\ r.approver = IF r.state = "PendingManager" THEN ManagerOf[r.emp] ELSE Nobody

\* State s of request r needs these consents and bookings.
Needs(r, s, consents, booked) ==
    /\ r.sub # Nobody /\ s \in {"PendingManager", "PendingHr", "Approved"}
         => "SubstituteAccepted" \in consents
    /\ s = "PendingHr" => "ManagerApproved" \in consents
    /\ r.special /\ s = "Approved" => "HrConfirmed" \in consents
    /\ r.type = "TimeAdjustment" /\ s = "Approved" => booked > 0

RequestFit(i) ==
    /\ RowFit(requests[i])
    /\ Needs(requests[i], requests[i].state, granted[i], corrections[i])
    /\ "HrConfirmed" \in granted[i] => "ManagerApproved" \in granted[i]
    /\ requests[i].special /\ corrections[i] > 0 => "HrConfirmed" \in granted[i]

\* What a call has read was true once, and what it needed then it still has.
CallFit(k) ==
    /\ k.op = "File" =>
         /\ RowFit(k.row)
         /\ k.row.state = IF k.row.sub = Nobody THEN "PendingManager" ELSE "PendingSubstitute"
    /\ k.op # "File" =>
         /\ k.id \in Ids
         /\ SameRequest(k.row, requests[k.id])
         /\ Needs(k.row, k.row.state, granted[k.id], corrections[k.id])
    /\ k.op = "Transition" => (TwoStage(k.row) => k.event # "manager_approve")
    /\ k.op = "Approve" =>
         k.row.type # "Vacation" /\ ~TwoStage(k.row) /\ k.event = "manager_approve"
    /\ k.op = "Reject" => k.event = "manager_reject"

RequestsFit == \A i \in Ids : RequestFit(i)
CallsFit == \A c \in Clients : call[c] # Idle => CallFit(call[c])

RInv == TypeOK /\ RequestsFit /\ CallsFit /\ CountedOnce

\* A write that keeps the invariant.
WriteFit(k, state, approver, books) ==
    LET r == k.row
        consents == granted[k.id] \cup ConsentOf(k.event)
    IN /\ approver = IF state = "PendingManager" THEN ManagerOf[r.emp] ELSE Nobody
       /\ Needs(r, state, consents, corrections[k.id] + IF books THEN 1 ELSE 0)
       /\ books => r.type = "TimeAdjustment" /\ (r.special => "HrConfirmed" \in consents)
       /\ "HrConfirmed" \in ConsentOf(k.event) => "ManagerApproved" \in granted[k.id]

\* What a write of call c does to request i, table by table.
Written(c, i, state, approver, books) ==
    /\ Ids' = Ids /\ attended' = attended /\ call' = [call EXCEPT ![c] = Idle]
    /\ requests'[i] = [requests[i] EXCEPT !.state = state, !.approver = approver]
    /\ granted'[i] = granted[i] \cup ConsentOf(call[c].event)
    /\ corrections'[i] = corrections[i] + IF books THEN 1 ELSE 0
    /\ \A j \in Ids \ {i} : /\ requests'[j] = requests[j]
                            /\ granted'[j] = granted[j]
                            /\ corrections'[j] = corrections[j]

-----------------------------------------------------------------------------
(* Tables and calls *)

LEMMA IdsAre ==
    ASSUME TypeOK
    PROVE  /\ Ids = 1 .. Len(requests) /\ Len(requests) \in Nat
           /\ \A i \in Ids : requests[i] \in Row /\ granted[i] \in SUBSET Consent
                             /\ corrections[i] \in Nat
BY DEF TypeOK, Ids

LEMMA ConsentType ==
    ASSUME NEW event
    PROVE  ConsentOf(event) \in SUBSET Consent
BY DEF ConsentOf, Consent

\* A call that begins reads a request as it is, or prepares a new one.
LEMMA BeginPreserves ==
    ASSUME RInv, NEW c \in Clients, NEW op, NEW i, NEW row, NEW event,
           Ask(c, op, i, row, event),
           [op |-> op, id |-> i, row |-> row, event |-> event] \in Call,
           CallFit([op |-> op, id |-> i, row |-> row, event |-> event])
    PROVE  RInv'
<1> DEFINE k == [op |-> op, id |-> i, row |-> row, event |-> event]
<1>1. /\ call' = [call EXCEPT ![c] = k]
      /\ requests' = requests /\ granted' = granted
      /\ corrections' = corrections /\ attended' = attended
  BY DEF Ask
<1>2. k \in Call /\ CallFit(k)
  OBVIOUS
<1> HIDE DEF k
<1>3. TypeOK'
  BY <1>1, <1>2 DEF RInv, TypeOK, Ids
<1>4. \A d \in Clients : call'[d] = IF d = c THEN k ELSE call[d]
  BY <1>1 DEF RInv, TypeOK
<1>5. CallsFit'
  <2>1. ASSUME NEW d \in Clients, call'[d] # Idle
        PROVE  CallFit(call[d])'
    <3>1. CallFit(call'[d])
      BY <1>2, <1>4, <2>1 DEF RInv, CallsFit
    <3> QED BY <1>1, <3>1 DEF CallFit, Ids
  <2> QED BY <2>1 DEF CallsFit, Idle
<1>6. RequestsFit' /\ CountedOnce'
  BY <1>1 DEF RInv, RequestsFit, RequestFit, CountedOnce, Corrected, Ids
<1> QED BY <1>3, <1>5, <1>6 DEF RInv

-----------------------------------------------------------------------------
(* Beginnings *)

LEMMA FiledFits ==
    ASSUME RInv, NEW e \in Employees, NEW type \in Type, NEW from \in Nat, NEW to \in Nat,
           NEW days \in Nat, NEW special \in BOOLEAN, NEW sub \in Employees \cup {Nobody},
           sub # Nobody => type = "Vacation",
           special => type = "TimeAdjustment",
           type = "TimeAdjustment" => from < to,
           NEW c \in Clients, File(c, Filed(e, type, from, to, days, special, sub))
    PROVE  RInv'
<1> DEFINE r == Filed(e, type, from, to, days, special, sub)
<1>1. r \in Row
  BY RequestsAssumption DEF Filed, Row, State
<1>2. /\ r.type = type /\ r.from = from /\ r.to = to /\ r.special = special
      /\ r.sub = sub /\ r.emp = e
      /\ r.state = IF sub = Nobody THEN "PendingManager" ELSE "PendingSubstitute"
      /\ r.approver = IF sub = Nobody THEN ManagerOf[e] ELSE Nobody
  BY DEF Filed
<1>3. Ask(c, "File", 0, r, "submit")
  BY DEF File
<1> HIDE DEF r
<1> DEFINE k == [op |-> "File", id |-> 0, row |-> r, event |-> "submit"]
<1>4. RowFit(r)
  BY <1>2 DEF RowFit
<1>5. k \in Call
  BY <1>1 DEF Call, Event
<1>6. CallFit(k)
  BY <1>2, <1>4 DEF CallFit
<1> QED BY <1>3, <1>5, <1>6, BeginPreserves

LEMMA SendableAreEvents ==
    ASSUME NEW state
    PROVE  Sendable(state) \subseteq Event
BY DEF Sendable, Transitions, Event

LEMMA ReadFits ==
    ASSUME RInv, NEW c \in Clients, NEW op \in {"Transition", "Approve", "Reject"},
           NEW i \in Ids, NEW event \in Event, Ask(c, op, i, requests[i], event),
           op = "Transition" => (TwoStage(requests[i]) => event # "manager_approve"),
           op = "Approve" => /\ requests[i].type # "Vacation" /\ ~TwoStage(requests[i])
                             /\ event = "manager_approve",
           op = "Reject" => event = "manager_reject"
    PROVE  RInv'
<1> DEFINE k == [op |-> op, id |-> i, row |-> requests[i], event |-> event]
<1>1. i \in Nat /\ requests[i] \in Row
  BY IdsAre DEF RInv
<1>2. k \in Call
  BY <1>1 DEF Call
<1>3. Needs(requests[i], requests[i].state, granted[i], corrections[i])
  BY DEF RInv, RequestsFit, RequestFit
<1>4. CallFit(k)
  BY <1>3 DEF CallFit, SameRequest
<1> QED BY <1>2, <1>4, BeginPreserves

LEMMA BeginsPreserve ==
    ASSUME RInv, NEW c \in Clients, BeginStep(c)
    PROVE  RInv'
<1>1. CASE BeginVacation(c)
  <2>1. PICK e \in Requesters, p \in Periods, sub \in Employees \cup {Nobody} :
          \E days \in 1 .. p[2] - p[1] + 1 :
              File(c, Filed(e, "Vacation", p[1], p[2], days, FALSE, sub))
    BY <1>1 DEF BeginVacation
  <2>2. PICK days \in 1 .. p[2] - p[1] + 1 :
          File(c, Filed(e, "Vacation", p[1], p[2], days, FALSE, sub))
    BY <2>1
  <2>3. e \in Employees /\ p[1] \in Nat /\ p[2] \in Nat /\ days \in Nat
    BY RequestsAssumption
  <2> QED BY <2>2, <2>3, FiledFits DEF Type
<1>2. CASE BeginOther(c)
  <2>1. PICK e \in Requesters, p \in Periods, type \in Types \ {"Vacation"}, special \in BOOLEAN :
          /\ special => type = "TimeAdjustment"
          /\ type = "TimeAdjustment" => p[1] < p[2]
          /\ File(c, Filed(e, type, p[1], p[2], 0, special, Nobody))
    BY <1>2 DEF BeginOther
  <2>2. e \in Employees /\ p[1] \in Nat /\ p[2] \in Nat /\ type \in Type
    BY RequestsAssumption
  <2> QED BY <2>1, <2>2, FiledFits
<1>3. CASE BeginTransition(c)
  <2>1. PICK i \in Ids : \E event \in Sendable(requests[i].state) :
          /\ TwoStage(requests[i]) => event # "manager_approve"
          /\ Ask(c, "Transition", i, requests[i], event)
    BY <1>3 DEF BeginTransition
  <2>2. Sendable(requests[i].state) \subseteq Event
    BY SendableAreEvents
  <2> QED BY <2>1, <2>2, ReadFits
<1>4. CASE BeginDirect(c)
  <2>1. PICK i \in Ids :
          /\ requests[i].type # "Vacation"
          /\ \/ ~TwoStage(requests[i]) /\ Ask(c, "Approve", i, requests[i], "manager_approve")
             \/ Ask(c, "Reject", i, requests[i], "manager_reject")
    BY <1>4 DEF BeginDirect
  <2>2. "manager_approve" \in Event /\ "manager_reject" \in Event
    BY DEF Event
  <2> QED BY <2>1, <2>2, ReadFits
<1> QED BY <1>1, <1>2, <1>3, <1>4 DEF BeginStep

-----------------------------------------------------------------------------
(* Commits *)

\* What a state needs is the same for two rows of one request.
LEMMA NeedsSame ==
    ASSUME NEW r, NEW s, SameRequest(r, s), NEW state, NEW consents, NEW booked,
           Needs(r, state, consents, booked)
    PROVE  Needs(s, state, consents, booked)
BY DEF Needs, SameRequest

\* And it is not lost when consents and bookings are added.
LEMMA NeedsGrow ==
    ASSUME NEW r, NEW state, NEW consents, NEW more, NEW booked \in Nat, NEW n \in Nat,
           consents \subseteq more, booked <= n, Needs(r, state, consents, booked)
    PROVE  Needs(r, state, more, n)
BY DEF Needs

\* The request in flight, as it is now.
LEMMA CallRequest ==
    ASSUME RInv, NEW c \in Clients, call[c] # Idle, call[c].op # "File"
    PROVE  /\ call[c] \in Call /\ call[c].id \in Ids
           /\ call[c].row \in Row /\ call[c].event \in Event
           /\ SameRequest(call[c].row, requests[call[c].id])
           /\ Needs(call[c].row, call[c].row.state,
                    granted[call[c].id], corrections[call[c].id])
BY DEF RInv, TypeOK, CallsFit, CallFit, Call

\* Write does no more than that, and keeps the types.
LEMMA WriteShape ==
    ASSUME RInv, NEW c \in Clients, call[c] # Idle, call[c].op # "File",
           NEW i \in Ids, i = call[c].id,
           NEW state \in State, NEW approver \in Employees \cup {Nobody}, NEW books \in BOOLEAN,
           Write(c, state, approver, books)
    PROVE  Written(c, i, state, approver, books) /\ TypeOK'
<1> DEFINE r == requests[i]
           new == [r EXCEPT !.state = state, !.approver = approver]
           kinds == ConsentOf(call[c].event)
<1>1. i \in Ids
  OBVIOUS
<1>2. /\ requests' = [requests EXCEPT ![i] = new]
      /\ granted' = [granted EXCEPT ![i] = @ \cup kinds]
      /\ corrections' = [corrections EXCEPT ![i] = @ + IF books THEN 1 ELSE 0]
      /\ attended' = attended /\ call' = [call EXCEPT ![c] = Idle]
  BY DEF Write, Finish
<1>3. r \in Row /\ granted[i] \in SUBSET Consent /\ corrections[i] \in Nat
  BY <1>1, IdsAre DEF RInv
<1>4. new \in Row
  BY <1>3 DEF Row
<1>5. kinds \in SUBSET Consent
  BY ConsentType
<1> HIDE DEF new, kinds
<1>6. requests' \in Seq(Row) /\ Ids' = Ids /\ requests'[i] = new
      /\ \A j \in Ids \ {i} : requests'[j] = requests[j]
  BY <1>1, <1>2, <1>4 DEF RInv, TypeOK, Ids
<1>7. granted' \in [Ids -> SUBSET Consent] /\ granted'[i] = granted[i] \cup kinds
      /\ \A j \in Ids \ {i} : granted'[j] = granted[j]
  BY <1>1, <1>2, <1>3, <1>5 DEF RInv, TypeOK
<1>8. /\ corrections' \in [Ids -> Nat]
      /\ corrections'[i] = corrections[i] + IF books THEN 1 ELSE 0
      /\ \A j \in Ids \ {i} : corrections'[j] = corrections[j]
  <2> DEFINE n == corrections[i] + IF books THEN 1 ELSE 0
  <2>1. corrections' = [corrections EXCEPT ![i] = n]
    BY <1>2
  <2>2. n \in Nat
    BY <1>3
  <2> HIDE DEF n
  <2>3. corrections' \in [Ids -> Nat] /\ corrections'[i] = n
        /\ \A j \in Ids \ {i} : corrections'[j] = corrections[j]
    BY <1>1, <2>1, <2>2 DEF RInv, TypeOK
  <2> QED BY <2>3 DEF n
<1>9. DOMAIN call' = Clients /\ \A d \in Clients : call'[d] = Idle \/ call'[d] \in Call
  BY <1>2 DEF RInv, TypeOK
<1>10. TypeOK'
  BY <1>2, <1>6, <1>7, <1>8, <1>9 DEF RInv, TypeOK
<1> QED BY <1>2, <1>6, <1>7, <1>8, <1>10 DEF new, kinds, Written

\* Booking takes instants that nobody had, so that nothing is counted twice.
LEMMA BookingOnce ==
    ASSUME RInv, NEW c \in Clients, call[c] # Idle, call[c].op # "File",
           NEW i \in Ids, i = call[c].id,
           NEW state \in State, NEW approver \in Employees \cup {Nobody}, NEW books \in BOOLEAN,
           Write(c, state, approver, books), WriteFit(call[c], state, approver, books)
    PROVE  CountedOnce'
<1> DEFINE r == requests[i]
           span == r.from .. r.to - 1
<1>0. Written(c, i, state, approver, books)
  BY WriteShape
<1>1. /\ i \in Ids /\ r \in Row /\ Ids' = Ids /\ attended' = attended
      /\ SameRequest(call[c].row, r)
  BY <1>0, CallRequest, IdsAre DEF RInv, Written
<1>2. \A j \in Ids : /\ requests'[j].emp = requests[j].emp
                     /\ requests'[j].from = requests[j].from
                     /\ requests'[j].to = requests[j].to
                     /\ j # i => corrections'[j] = corrections[j]
  <2>1. requests'[i].emp = r.emp /\ requests'[i].from = r.from /\ requests'[i].to = r.to
    <3>1. requests'[i] = [r EXCEPT !.state = state, !.approver = approver]
      BY <1>0 DEF Written
    <3> QED BY <1>1, <3>1 DEF Row
  <2>2. \A j \in Ids \ {i} : requests'[j] = requests[j] /\ corrections'[j] = corrections[j]
    BY <1>0 DEF Written
  <2> QED BY <2>1, <2>2
<1>3. corrections[i] \in Nat /\ corrections'[i] = corrections[i] + IF books THEN 1 ELSE 0
  BY <1>0, <1>1, IdsAre DEF RInv, Written
<1>4. \A j \in Ids \ {i} : Corrected(j)' = Corrected(j)
  BY <1>1, <1>2 DEF Corrected
<1>5. CASE ~books
  <2>1. \A j \in Ids : Corrected(j)' = Corrected(j) /\ corrections'[j] = corrections[j]
    BY <1>1, <1>2, <1>3, <1>4, <1>5 DEF Corrected
  <2> QED BY <1>1, <1>2, <2>1 DEF RInv, CountedOnce
<1>6. CASE books
  <2>1. Unbooked(r.emp, r.from, r.to)
    BY <1>6 DEF Write
  <2>2. r.from \in Nat /\ r.to \in Nat /\ r.from < r.to
    BY <1>1, <1>6 DEF WriteFit, SameRequest, RInv, RequestsFit, RequestFit, RowFit, Row
  <2>3. \A j \in Ids : requests[j].emp = r.emp => Corrected(j) \cap span = {}
    BY <2>1 DEF Unbooked, CorrectionsOf
  <2>4. span \cap attended[r.emp] = {}
    BY <2>1 DEF Unbooked
  <2>5. corrections[i] = 0
    <3>1. ~(corrections[i] > 0)
      BY <1>1, <2>2, <2>3 DEF Corrected
    <3> QED BY <1>3, <3>1
  <2>6. corrections'[i] = 1 /\ Corrected(i)' = span
    BY <1>1, <1>2, <1>3, <1>6, <2>5 DEF Corrected
  <2> HIDE DEF span
  <2>7. \A j \in Ids : corrections'[j] <= 1
    BY <1>2, <2>6 DEF RInv, CountedOnce
  <2>8. \A j \in Ids : Corrected(j)' \cap attended'[requests'[j].emp] = {}
    BY <1>1, <1>2, <1>4, <2>4, <2>6 DEF RInv, CountedOnce
  <2>9. \A j, k \in Ids : j # k /\ requests'[j].emp = requests'[k].emp
                            => Corrected(j)' \cap Corrected(k)' = {}
    BY <1>2, <1>4, <2>3, <2>6 DEF RInv, CountedOnce
  <2> QED BY <1>1, <2>7, <2>8, <2>9 DEF CountedOnce
<1> QED BY <1>5, <1>6

LEMMA WritePreserves ==
    ASSUME RInv, NEW c \in Clients, call[c] # Idle, call[c].op # "File",
           NEW i \in Ids, i = call[c].id,
           NEW state \in State, NEW approver \in Employees \cup {Nobody}, NEW books \in BOOLEAN,
           Write(c, state, approver, books), WriteFit(call[c], state, approver, books)
    PROVE  RInv'
<1> DEFINE r == requests[i]
           n == corrections[i] + IF books THEN 1 ELSE 0
           consents == granted[i] \cup ConsentOf(call[c].event)
<1>1. /\ i \in Ids /\ r \in Row /\ call[c].row \in Row /\ corrections[i] \in Nat
      /\ SameRequest(call[c].row, r)
  BY CallRequest, IdsAre DEF RInv
<1>2. /\ Ids' = Ids /\ attended' = attended /\ call' = [call EXCEPT ![c] = Idle]
      /\ requests'[i] = [r EXCEPT !.state = state, !.approver = approver]
      /\ granted'[i] = consents /\ corrections'[i] = n
      /\ \A j \in Ids \ {i} : /\ requests'[j] = requests[j]
                              /\ granted'[j] = granted[j]
                              /\ corrections'[j] = corrections[j]
  <2>1. Written(c, i, state, approver, books)
    BY WriteShape
  <2> QED BY <2>1 DEF Written
<1>3. TypeOK'
  BY WriteShape
<1>4. /\ SameRequest(r, requests'[i])
      /\ requests'[i].state = state /\ requests'[i].approver = approver
  BY <1>1, <1>2 DEF SameRequest, Row
<1>5. RequestFit(i)
  BY <1>1 DEF RInv, RequestsFit
<1>6. WriteFit(call[c], state, approver, books)
  OBVIOUS
<1>7. SameRequest(call[c].row, requests'[i])
  BY <1>1, <1>4 DEF SameRequest
<1>8. RequestFit(i)'
  <2>1. RowFit(requests'[i])
    BY <1>1, <1>4, <1>5, <1>6 DEF RequestFit, RowFit, SameRequest, WriteFit
  <2>2. Needs(requests'[i], state, consents, n)
    <3>1. Needs(call[c].row, state, consents, n)
      BY <1>6 DEF WriteFit
    <3> QED BY <1>7, <3>1, NeedsSame
  <2>3. "HrConfirmed" \in consents => "ManagerApproved" \in consents
    BY <1>5, <1>6 DEF RequestFit, WriteFit
  <2>4. requests'[i].special /\ n > 0 => "HrConfirmed" \in consents
    BY <1>1, <1>4, <1>5, <1>6 DEF RequestFit, WriteFit, SameRequest
  <2> QED BY <1>2, <1>4, <2>1, <2>2, <2>3, <2>4 DEF RequestFit
<1>9. RequestsFit'
  <2>1. ASSUME NEW j \in Ids \ {i}
        PROVE  RequestFit(j)'
    BY <1>2 DEF RInv, RequestsFit, RequestFit
  <2> QED BY <1>2, <1>8, <2>1 DEF RequestsFit
<1>10. \A j \in Ids : /\ SameRequest(requests[j], requests'[j])
                      /\ granted[j] \subseteq granted'[j] /\ granted[j] \in SUBSET Consent
                      /\ corrections[j] \in Nat /\ corrections'[j] \in Nat
                      /\ corrections[j] <= corrections'[j]
  <2> TAKE j \in Ids
  <2>1. corrections[j] \in Nat /\ granted[j] \in SUBSET Consent
    BY IdsAre DEF RInv
  <2>2. CASE j = i
    <3>1. n \in Nat /\ corrections[i] <= n
      BY <1>1
    <3> HIDE DEF n
    <3> QED BY <1>2, <1>4, <2>1, <2>2, <3>1
  <2>3. CASE j # i
    BY <1>2, <2>1, <2>3 DEF SameRequest
  <2> QED BY <2>2, <2>3
<1>11. CallsFit'
  <2>1. ASSUME NEW d \in Clients, call'[d] # Idle
        PROVE  CallFit(call[d])'
    <3>1. d # c /\ call'[d] = call[d] /\ call[d] # Idle
      BY <1>2, <2>1 DEF RInv, TypeOK
    <3>2. CallFit(call[d])
      BY <3>1 DEF RInv, CallsFit
    <3>3. CASE call[d].op = "File"
      BY <3>1, <3>2, <3>3 DEF CallFit
    <3>4. CASE call[d].op # "File"
      <4> DEFINE j == call[d].id
                 s == call[d].row
      <4>1. j \in Ids /\ SameRequest(s, requests[j]) /\ Needs(s, s.state, granted[j], corrections[j])
        BY <3>2, <3>4 DEF CallFit
      <4>2. SameRequest(s, requests'[j])
        BY <1>10, <4>1 DEF SameRequest
      <4>3. Needs(s, s.state, granted'[j], corrections'[j])
        BY <1>10, <4>1, NeedsGrow
      <4> QED BY <1>2, <3>1, <3>2, <3>4, <4>1, <4>2, <4>3 DEF CallFit
    <3> QED BY <3>3, <3>4
  <2> QED BY <2>1 DEF CallsFit, Idle
<1>12. CountedOnce'
  BY BookingOnce
<1> QED BY <1>3, <1>9, <1>11, <1>12 DEF RInv

\* What the row that a call has read tells of the request.
LEMMA ReadRow ==
    ASSUME RInv, NEW c \in Clients, call[c] # Idle, call[c].op # "File"
    PROVE  /\ call[c].row.sub # Nobody => call[c].row.type = "Vacation"
           /\ call[c].row.special => call[c].row.type = "TimeAdjustment"
<1>1. SameRequest(call[c].row, requests[call[c].id]) /\ call[c].id \in Ids
  BY CallRequest
<1>2. RowFit(requests[call[c].id])
  BY <1>1 DEF RInv, RequestsFit, RequestFit
<1> QED BY <1>1, <1>2 DEF SameRequest, RowFit

\* Which events lead where.
LEMMA TransitionCases ==
    ASSUME NEW x, NEW event, NEW s, <<x, event, s>> \in Transitions
    PROVE  /\ event = "substitute_accept" => s = "PendingManager"
           /\ s = "PendingManager" => event = "substitute_accept"
           /\ s = "PendingHr" => event = "manager_approve_with_hr" /\ x = "PendingManager"
           /\ s = "Approved" => \/ event = "manager_approve" /\ x = "PendingManager"
                                \/ event = "hr_confirm" /\ x = "PendingHr"
           /\ event = "hr_confirm" => x = "PendingHr"
<1>1. CASE \E t \in State \ Final : <<x, event, s>> = <<t, "cancel", "Cancelled">>
  BY <1>1
<1>2. CASE ~\E t \in State \ Final : <<x, event, s>> = <<t, "cancel", "Cancelled">>
  <2>1. <<x, event, s>> \in
          {<<"PendingSubstitute", "substitute_accept", "PendingManager">>,
           <<"PendingSubstitute", "substitute_decline", "Draft">>,
           <<"PendingManager", "manager_approve", "Approved">>,
           <<"PendingManager", "manager_approve_with_hr", "PendingHr">>,
           <<"PendingManager", "manager_reject", "Rejected">>,
           <<"PendingManager", "manager_return", "Draft">>,
           <<"PendingHr", "hr_confirm", "Approved">>,
           <<"PendingHr", "hr_reject", "Rejected">>}
    BY <1>2 DEF Transitions
  <2> QED BY <2>1
<1> QED BY <1>1, <1>2

\* A transition keeps the consents its next state needs: the state that was read
\* needed the others.
LEMMA TransitionFits ==
    ASSUME RInv, NEW c \in Clients, call[c] # Idle, call[c].op = "Transition",
           NEW s \in State, <<call[c].row.state, call[c].event, s>> \in Transitions
    PROVE  WriteFit(call[c], s, NextApprover(call[c].row, call[c].event), Books(call[c].row, s))
<1> DEFINE k == call[c]
           r == k.row
           event == k.event
           consents == granted[k.id] \cup ConsentOf(event)
           booked == corrections[k.id] + IF Books(r, s) THEN 1 ELSE 0
<1>1. /\ k.id \in Ids /\ r \in Row
      /\ Needs(r, r.state, granted[k.id], corrections[k.id])
  BY CallRequest
<1>2. corrections[k.id] \in Nat
  BY <1>1, IdsAre DEF RInv
<1>3. (r.sub # Nobody => r.type = "Vacation") /\ (r.special => r.type = "TimeAdjustment")
  BY ReadRow
<1>4. TwoStage(r) => event # "manager_approve"
  BY DEF RInv, CallsFit, CallFit
<1>5. /\ event = "substitute_accept" => s = "PendingManager"
      /\ s = "PendingManager" => event = "substitute_accept"
      /\ s = "PendingHr" => event = "manager_approve_with_hr" /\ r.state = "PendingManager"
      /\ s = "Approved" => \/ event = "manager_approve" /\ r.state = "PendingManager"
                           \/ event = "hr_confirm" /\ r.state = "PendingHr"
      /\ event = "hr_confirm" => r.state = "PendingHr"
  BY TransitionCases
<1>6. NextApprover(r, event) = IF s = "PendingManager" THEN ManagerOf[r.emp] ELSE Nobody
  BY <1>5 DEF NextApprover
<1>7. /\ event = "substitute_accept" => "SubstituteAccepted" \in consents
      /\ event \in {"manager_approve", "manager_approve_with_hr"} => "ManagerApproved" \in consents
      /\ event = "hr_confirm" => "HrConfirmed" \in consents
      /\ "HrConfirmed" \in ConsentOf(event) => event = "hr_confirm"
  BY DEF ConsentOf
<1>8. r.type = "TimeAdjustment" /\ s = "Approved" => booked > 0
  BY <1>2 DEF Books
<1>9. r.special /\ s = "Approved" => "HrConfirmed" \in consents
  BY <1>3, <1>4, <1>5, <1>7 DEF TwoStage
<1>10. r.sub # Nobody /\ s \in {"PendingManager", "PendingHr", "Approved"}
         => "SubstituteAccepted" \in consents
  BY <1>1, <1>5, <1>7 DEF Needs
<1>11. Needs(r, s, consents, booked)
  BY <1>5, <1>7, <1>8, <1>9, <1>10 DEF Needs
<1>12. Books(r, s) => r.type = "TimeAdjustment" /\ (r.special => "HrConfirmed" \in consents)
  BY <1>9 DEF Books
<1>13. "HrConfirmed" \in ConsentOf(event) => "ManagerApproved" \in granted[k.id]
  BY <1>1, <1>5, <1>7 DEF Needs
<1> QED BY <1>6, <1>11, <1>12, <1>13 DEF WriteFit

\* A direct decision is on a request that needs no one's consent but the decider's.
LEMMA DirectFits ==
    ASSUME RInv, NEW c \in Clients, call[c] # Idle
    PROVE  /\ call[c].op = "Approve" =>
                WriteFit(call[c], "Approved", Nobody,
                         call[c].row.type = "TimeAdjustment" /\ call[c].row.state # "Approved")
           /\ call[c].op = "Reject" => WriteFit(call[c], "Rejected", Nobody, FALSE)
<1>1. CASE call[c].op = "Approve"
  <2> DEFINE k == call[c]
             r == k.row
             books == r.type = "TimeAdjustment" /\ r.state # "Approved"
             consents == granted[k.id] \cup ConsentOf(k.event)
             booked == corrections[k.id] + IF books THEN 1 ELSE 0
  <2>1. /\ k.id \in Ids /\ Needs(r, r.state, granted[k.id], corrections[k.id])
        /\ (r.sub # Nobody => r.type = "Vacation") /\ (r.special => r.type = "TimeAdjustment")
    BY <1>1, CallRequest, ReadRow
  <2>2. corrections[k.id] \in Nat
    BY <2>1, IdsAre DEF RInv
  <2>3. r.type # "Vacation" /\ ~TwoStage(r) /\ k.event = "manager_approve"
    BY <1>1 DEF RInv, CallsFit, CallFit
  <2>4. r.sub = Nobody /\ ~r.special
    BY <2>1, <2>3 DEF TwoStage
  <2>5. r.type = "TimeAdjustment" => booked > 0
    BY <2>1, <2>2 DEF Needs
  <2>6. Needs(r, "Approved", consents, booked)
    BY <2>4, <2>5 DEF Needs
  <2>7. "HrConfirmed" \notin ConsentOf(k.event)
    BY <2>3 DEF ConsentOf
  <2> QED BY <1>1, <2>4, <2>6, <2>7 DEF WriteFit
<1>2. CASE call[c].op = "Reject"
  <2>1. "HrConfirmed" \notin ConsentOf(call[c].event)
    BY <1>2 DEF RInv, CallsFit, CallFit, ConsentOf
  <2> QED BY <1>2, <2>1 DEF WriteFit, Needs
<1> QED BY <1>1, <1>2

LEMMA DecisionsPreserve ==
    ASSUME RInv, NEW c \in Clients, Transition(c) \/ Approve(c) \/ Reject(c)
    PROVE  RInv'
<1>1. call[c] # Idle /\ call[c].op # "File"
  <2>1. call[c].op \in {"Transition", "Approve", "Reject"}
    BY DEF Transition, Approve, Reject
  <2>2. Idle.op = "Idle"
    BY DEF Idle
  <2> QED BY <2>1, <2>2
<1> DEFINE i == call[c].id
           row == call[c].row
<1>2. i \in Ids /\ row \in Row /\ ManagerOf[row.emp] \in Employees \cup {Nobody}
  BY <1>1, CallRequest, RequestsAssumption DEF Row
<1>3. CASE Transition(c)
  <2>1. PICK s \in State :
          /\ <<row.state, call[c].event, s>> \in Transitions
          /\ Write(c, s, NextApprover(row, call[c].event), Books(row, s))
    BY <1>3 DEF Transition
  <2>2. NextApprover(row, call[c].event) \in Employees \cup {Nobody} /\ Books(row, s) \in BOOLEAN
    BY <1>2 DEF NextApprover, Books
  <2>3. WriteFit(call[c], s, NextApprover(row, call[c].event), Books(row, s))
    BY <1>1, <1>3, <2>1, TransitionFits DEF Transition
  <2> QED BY <1>1, <1>2, <2>1, <2>2, <2>3, WritePreserves
<1>4. CASE Approve(c)
  <2> DEFINE books == row.type = "TimeAdjustment" /\ row.state # "Approved"
  <2>1. Write(c, "Approved", Nobody, books) /\ WriteFit(call[c], "Approved", Nobody, books)
    BY <1>1, <1>4, DirectFits DEF Approve
  <2>2. books \in BOOLEAN /\ "Approved" \in State
    BY DEF State
  <2> QED BY <1>1, <1>2, <2>1, <2>2, WritePreserves
<1>5. CASE Reject(c)
  <2>1. Write(c, "Rejected", Nobody, FALSE) /\ WriteFit(call[c], "Rejected", Nobody, FALSE)
    BY <1>1, <1>5, DirectFits DEF Reject
  <2>2. "Rejected" \in State
    BY DEF State
  <2> QED BY <1>1, <1>2, <2>1, <2>2, WritePreserves
<1> QED BY <1>3, <1>4, <1>5

\* Table g is table f, whose m rows are in S, with the row x added.
Longer(f, g, m, x, S) ==
    /\ g \in [1 .. m + 1 -> S] /\ g[m + 1] = x
    /\ \A j \in 1 .. m : g[j] = f[j]

LEMMA AppendRow ==
    ASSUME NEW S, NEW m \in Nat, NEW f \in [1 .. m -> S], NEW x \in S
    PROVE  Longer(f, Append(f, x), m, x, S)
<1>1. f \in Seq(S)
  BY SeqDef
<1>2. Len(f) = m
  BY <1>1
<1>3. /\ Append(f, x) \in Seq(S) /\ Len(Append(f, x)) = m + 1 /\ Append(f, x)[m + 1] = x
      /\ \A j \in 1 .. m : Append(f, x)[j] = f[j]
  BY <1>1, <1>2, AppendProperties
<1>4. \A g \in Seq(S) : Len(g) = m + 1 => g \in [1 .. m + 1 -> S]
  OBVIOUS
<1> QED BY <1>3, <1>4 DEF Longer

LEMMA FilePreserves ==
    ASSUME RInv, NEW c \in Clients, FileRequest(c)
    PROVE  RInv'
<1> PICK n : n = Len(requests) + 1
  OBVIOUS
<1> PICK r : r = call[c].row
  OBVIOUS
<1>1. call[c] \in Call /\ CallFit(call[c]) /\ call[c].op = "File"
  BY DEF FileRequest, RInv, TypeOK, CallsFit, Idle
<1>2. /\ r \in Row /\ RowFit(r)
      /\ r.state = IF r.sub = Nobody THEN "PendingManager" ELSE "PendingSubstitute"
  BY <1>1 DEF CallFit, Call
<1>3. Ids = 1 .. Len(requests) /\ Len(requests) \in Nat /\ requests \in Seq(Row)
  BY IdsAre DEF RInv, TypeOK
<1>4. granted \in [1 .. Len(requests) -> SUBSET Consent] /\ corrections \in [1 .. Len(requests) -> Nat]
  BY <1>3 DEF RInv, TypeOK
<1>5. /\ requests' = Append(requests, r) /\ granted' = Append(granted, {})
      /\ corrections' = Append(corrections, 0) /\ attended' = attended
      /\ call' = [call EXCEPT ![c] = Idle]
  BY DEF FileRequest, Finish
<1>6. /\ requests' \in Seq(Row) /\ Ids' = 1 .. n /\ n \in Nat /\ n \notin Ids
      /\ requests'[n] = r
      /\ \A j \in Ids : requests'[j] = requests[j]
  BY <1>2, <1>3, <1>5 DEF Ids
<1>7. /\ granted' \in [Ids' -> SUBSET Consent] /\ granted'[n] = {}
      /\ \A j \in Ids : granted'[j] = granted[j]
  <2>1. {} \in SUBSET Consent
    OBVIOUS
  <2>2. Longer(granted, Append(granted, {}), Len(requests), {}, SUBSET Consent)
    BY <1>3, <1>4, <2>1, AppendRow
  <2> QED BY <1>3, <1>5, <1>6, <2>2 DEF Longer
<1>8. /\ corrections' \in [Ids' -> Nat] /\ corrections'[n] = 0
      /\ \A j \in Ids : corrections'[j] = corrections[j]
  <2>1. 0 \in Nat
    OBVIOUS
  <2>2. Longer(corrections, Append(corrections, 0), Len(requests), 0, Nat)
    BY <1>3, <1>4, <2>1, AppendRow
  <2> QED BY <1>3, <1>5, <1>6, <2>2 DEF Longer
<1>9. Ids' = Ids \cup {n}
  BY <1>3, <1>6
<1>10. TypeOK'
  <2>1. DOMAIN call' = Clients /\ \A d \in Clients : call'[d] = Idle \/ call'[d] \in Call
    BY <1>5 DEF RInv, TypeOK
  <2> QED BY <1>5, <1>6, <1>7, <1>8, <2>1 DEF RInv, TypeOK
<1>11. RequestsFit'
  <2>1. \A j \in Ids : RequestFit(j)'
    BY <1>6, <1>7, <1>8 DEF RInv, RequestsFit, RequestFit
  <2>2. RequestFit(n)'
    BY <1>2, <1>6, <1>7, <1>8 DEF RequestFit, Needs, RowFit
  <2> QED BY <1>9, <2>1, <2>2 DEF RequestsFit
<1>12. CallsFit'
  <2>1. ASSUME NEW d \in Clients, call'[d] # Idle
        PROVE  CallFit(call[d])'
    <3>1. call'[d] = call[d] /\ call[d] # Idle
      BY <1>5, <2>1 DEF RInv, TypeOK
    <3>2. CallFit(call[d])
      BY <3>1 DEF RInv, CallsFit
    <3> QED BY <1>6, <1>7, <1>8, <1>9, <3>1, <3>2 DEF CallFit
  <2> QED BY <2>1 DEF CallsFit, Idle
<1>13. CountedOnce'
  <2>1. Corrected(n)' = {} /\ \A j \in Ids : Corrected(j)' = Corrected(j)
    BY <1>6, <1>8 DEF Corrected
  <2>2. \A j \in Ids' : /\ corrections'[j] <= 1
                       /\ Corrected(j)' \cap attended'[requests'[j].emp] = {}
    BY <1>5, <1>6, <1>8, <1>9, <2>1 DEF RInv, CountedOnce
  <2>3. \A i, j \in Ids' : i # j /\ requests'[i].emp = requests'[j].emp
                           => Corrected(i)' \cap Corrected(j)' = {}
    BY <1>6, <1>9, <2>1 DEF RInv, CountedOnce
  <2> QED BY <2>2, <2>3 DEF CountedOnce
<1> QED BY <1>10, <1>11, <1>12, <1>13 DEF RInv

LEMMA AttendPreserves ==
    ASSUME RInv, NEW e \in Requesters, Attend(e)
    PROVE  RInv'
<1>1. PICK s \in Instants : /\ Unbooked(e, s, s + 1)
                            /\ attended' = [attended EXCEPT ![e] = @ \cup {s}]
  BY DEF Attend
<1>2. /\ requests' = requests /\ granted' = granted /\ corrections' = corrections
      /\ call' = call /\ s \in Nat /\ e \in Employees
  BY RequestsAssumption DEF Attend
<1>3. TypeOK'
  BY <1>1, <1>2 DEF RInv, TypeOK, Ids
<1>4. RequestsFit' /\ CallsFit'
  BY <1>2 DEF RInv, RequestsFit, RequestFit, CallsFit, CallFit, Ids
<1>5. \A i \in Ids : requests[i].emp = e => s \notin Corrected(i)
  <2>1. s \in s .. s + 1 - 1
    BY <1>2
  <2> QED BY <1>1, <2>1 DEF Unbooked, CorrectionsOf
<1>6. attended'[e] = attended[e] \cup {s}
  BY <1>1, <1>2 DEF RInv, TypeOK
<1>7. \A d \in Employees \ {e} : attended'[d] = attended[d]
  BY <1>1 DEF RInv, TypeOK
<1>8. \A i \in Ids : requests[i].emp \in Employees
  BY IdsAre DEF RInv, Row
<1>9. \A i \in Ids : Corrected(i)' = Corrected(i)
  BY <1>2 DEF Corrected
<1>10. CountedOnce'
  <2>1. \A i \in Ids : Corrected(i)' \cap attended'[requests[i].emp] = {}
    BY <1>2, <1>5, <1>6, <1>7, <1>8, <1>9 DEF RInv, CountedOnce
  <2> QED BY <1>2, <1>9, <2>1 DEF RInv, CountedOnce, Ids
<1> QED BY <1>3, <1>4, <1>10 DEF RInv

LEMMA AbortPreserves ==
    ASSUME RInv, NEW c \in Clients, Abort(c)
    PROVE  RInv'
<1>1. /\ requests' = requests /\ granted' = granted /\ corrections' = corrections
      /\ attended' = attended /\ call' = [call EXCEPT ![c] = Idle]
  BY DEF Abort
<1>2. TypeOK'
  BY <1>1 DEF RInv, TypeOK, Ids
<1>3. RequestsFit' /\ CountedOnce'
  BY <1>1 DEF RInv, RequestsFit, RequestFit, CountedOnce, Corrected, Ids
<1>4. CallsFit'
  <2>1. ASSUME NEW d \in Clients, call'[d] # Idle
        PROVE  CallFit(call[d])'
    BY <1>1, <2>1 DEF RInv, TypeOK, CallsFit, CallFit, Ids
  <2> QED BY <2>1 DEF CallsFit, Idle
<1> QED BY <1>2, <1>3, <1>4 DEF RInv

-----------------------------------------------------------------------------
(* Theorems *)

LEMMA InitFits == Init => RInv
<1> SUFFICES ASSUME Init PROVE RInv
  OBVIOUS
<1>1. Ids = {} /\ \A c \in Clients : call[c] = Idle
  BY DEF Init, Ids
<1>2. TypeOK
  BY <1>1 DEF Init, TypeOK, Ids
<1>3. RequestsFit /\ CallsFit /\ CountedOnce
  BY <1>1 DEF RequestsFit, CallsFit, CountedOnce
<1> QED BY <1>2, <1>3 DEF RInv

LEMMA NextPreserves == RInv /\ [Next]_vars => RInv'
<1> SUFFICES ASSUME RInv, [Next]_vars PROVE RInv'
  OBVIOUS
<1>1. ASSUME NEW c \in Clients, BeginStep(c) \/ CommitStep(c) \/ Abort(c)
      PROVE  RInv'
  BY <1>1, BeginsPreserve, FilePreserves, DecisionsPreserve, AbortPreserves DEF CommitStep
<1>2. ASSUME NEW e \in Requesters, Attend(e)
      PROVE  RInv'
  BY <1>2, AttendPreserves
<1>3. CASE UNCHANGED vars
  <2>1. /\ requests' = requests /\ granted' = granted /\ corrections' = corrections
        /\ attended' = attended /\ call' = call
    BY <1>3 DEF vars
  <2>2. TypeOK'
    BY <2>1 DEF RInv, TypeOK, Ids
  <2>3. RequestsFit' /\ CountedOnce' /\ CallsFit'
    BY <2>1 DEF RInv, RequestsFit, RequestFit, CountedOnce, Corrected, CallsFit, CallFit, Ids
  <2> QED BY <2>2, <2>3 DEF RInv
<1> QED BY <1>1, <1>2, <1>3 DEF Next

\* The inductive invariant holds in every reachable state of requests.service.ts,
\* for any number of accounts, requests and concurrent calls.
THEOREM InvariantHolds == Spec => []RInv
<1> QED BY InitFits, NextPreserves, PTL DEF Spec

\* The Request and RequestEvent tables keep their types (schema.prisma).
THEOREM TypesHold == Spec => []TypeOK
<1>1. RInv => TypeOK
  BY DEF RInv
<1> QED BY <1>1, InvariantHolds, PTL

\* A request that names a substitute is never with its manager, with HR, or
\* approved, before the substitute has accepted, although transitionVacation
\* writes a state it computed from a row that may have changed.
THEOREM SubstituteAlwaysConfirmed == Spec => []SubstituteConfirmed
<1>1. RInv => SubstituteConfirmed
  BY DEF RInv, RequestsFit, RequestFit, Needs, SubstituteConfirmed
<1> QED BY <1>1, InvariantHolds, PTL

\* No path of approve, managerApprove or bulkApprove approves or books an
\* off-hours adjustment without the manager's allowance and HR's confirmation.
THEOREM OffHoursTakeTwoStages == Spec => []TwoStageApproval
<1>1. RInv => TwoStageApproval
  <2> SUFFICES ASSUME RInv, NEW i \in Ids
               PROVE  /\ "HrConfirmed" \in granted[i] => "ManagerApproved" \in granted[i]
                      /\ requests[i].special /\ (requests[i].state = "Approved" \/ corrections[i] > 0)
                           => "HrConfirmed" \in granted[i]
    BY DEF TwoStageApproval
  <2>1. RequestFit(i)
    BY DEF RInv, RequestsFit
  <2> QED BY <2>1 DEF RequestFit, Needs
<1> QED BY <1>1, InvariantHolds, PTL

\* Whatever approves an adjustment also materialises it, and no later write of a
\* stale state can leave it Approved without its TimeEntry.
THEOREM ApprovedAlwaysBooked == Spec => []ApprovedIsBooked
<1>1. RInv => ApprovedIsBooked
  BY DEF RInv, RequestsFit, RequestFit, Needs, ApprovedIsBooked
<1> QED BY <1>1, InvariantHolds, PTL

\* materializeTimeAdjustment never books an instant that the employee has booked
\* otherwise, or that another adjustment, or the same one, has booked before.
THEOREM InstantsCountedOnce == Spec => []CountedOnce
<1>1. RInv => CountedOnce
  BY DEF RInv
<1> QED BY <1>1, InvariantHolds, PTL

\* currentApproverId names the employee's manager exactly while the request waits
\* for the manager.
THEOREM InboxAlwaysExact == Spec => []InboxExact
<1>1. RInv => InboxExact
  BY DEF RInv, RequestsFit, RequestFit, RowFit, InboxExact
<1> QED BY <1>1, InvariantHolds, PTL
=============================================================================
