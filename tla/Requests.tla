------------------------------ MODULE Requests ------------------------------
(***************************************************************************)
(* Requests and their approval, a Team feature: the Request and            *)
(* RequestEvent tables and every handler of                                *)
(* apps/api/src/app/requests/requests.service.ts that writes them, with    *)
(* the workflow of libs/shared/src/lib/workflow/vacation-workflow.ts.      *)
(*                                                                         *)
(* A handler runs in two steps.  It READS the request (or, to file one,    *)
(* the employee's other requests, balance and bookings), checks who asks,  *)
(* and computes the next state: BeginXxx, whose result is call[c].  Later  *)
(* it WRITES that state in a transaction that reads nothing again and      *)
(* takes no lock.  Anything may happen between the two.                    *)
(*                                                                         *)
(* Dates are natural numbers.  A request covers the days from .. to; a     *)
(* time adjustment corrects the half-open interval [from, to).  All        *)
(* periods lie in one calendar year.  SpecialLeave is treated as           *)
(* HomeOffice is.                                                          *)
(*                                                                         *)
(* A definition whose name ends in _Fault is a plausible mistake in the    *)
(* definition below it; nothing uses it, except the experiments that show  *)
(* that a property would notice.                                           *)
(***************************************************************************)
EXTENDS Integers, Sequences, FiniteSets, FiniteSetsExt

CONSTANTS
    Employees,     \* employee accounts
    Requesters,    \* those of them that file requests (a run may restrict them)
    Managers,      \* employees with the role Manager
    HRAdmins,      \* employees with the role HRAdmin
    ManagerOf,     \* Employee.managerId, an employee or Nobody
    Nobody,        \* NULL
    Types,         \* types of requests that are used
    Periods,       \* pairs <<from, to>> that requests ask for
    Entitlement,   \* days of leave per employee and year, carry-over included
    Clients,       \* calls that can be in flight together
    Instants,      \* bound: instants in which employees attend otherwise
    MaxRequests    \* bound: requests that may be filed

Type == {"Vacation", "TimeAdjustment", "HomeOffice"}

ASSUME RequestsAssumption ==
    /\ Requesters \subseteq Employees
    /\ Managers \subseteq Employees /\ HRAdmins \subseteq Employees
    /\ Nobody \notin Employees
    /\ ManagerOf \in [Employees -> Employees \cup {Nobody}]
    /\ Types \subseteq Type
    /\ Periods \subseteq Nat \X Nat
    /\ Entitlement \in Nat
    /\ Instants \subseteq Nat
    /\ MaxRequests \in Nat

VARIABLES
    requests,      \* the Request table; a request's id is its index
    granted,       \* RequestEvent: the consents recorded for each request
    corrections,   \* how many TimeEntry rows each request has materialised
    attended,      \* the instants of each employee in all other TimeEntry rows
    call           \* the calls in flight, and what each has read

vars == <<requests, granted, corrections, attended, call>>

-----------------------------------------------------------------------------
(* The workflow *)

State == {"Draft", "PendingSubstitute", "PendingManager", "PendingHr",
          "Approved", "Rejected", "Cancelled"}
Final == {"Approved", "Rejected", "Cancelled"}

Event == {"submit", "substitute_accept", "substitute_decline", "manager_approve",
          "manager_approve_with_hr", "manager_reject", "manager_return",
          "hr_confirm", "hr_reject", "cancel"}

\* The manager need not wait for the substitute.
TransitionsEarly_Fault ==
    {<<s, "cancel", "Cancelled">> : s \in State \ Final} \cup
    {<<"PendingSubstitute", "substitute_accept", "PendingManager">>,
     <<"PendingSubstitute", "manager_approve", "Approved">>,
     <<"PendingManager", "manager_approve", "Approved">>}

\* nextState, as the triples <<state, event, next state>> for which it does not
\* throw.  No handler sends "submit": filing a request writes its first state.
Transitions ==
    {<<s, "cancel", "Cancelled">> : s \in State \ Final} \cup
    {<<"PendingSubstitute", "substitute_accept", "PendingManager">>,
     <<"PendingSubstitute", "substitute_decline", "Draft">>,
     <<"PendingManager", "manager_approve", "Approved">>,
     <<"PendingManager", "manager_approve_with_hr", "PendingHr">>,
     <<"PendingManager", "manager_reject", "Rejected">>,
     <<"PendingManager", "manager_return", "Draft">>,
     <<"PendingHr", "hr_confirm", "Approved">>,
     <<"PendingHr", "hr_reject", "Rejected">>}

\* The events for which nextState does not throw in `state`.
Sendable(state) == {t[2] : t \in {u \in Transitions : u[1] = state}}

\* The consents in a request's history; its other events are left out.
Consent == {"SubstituteAccepted", "ManagerApproved", "HrConfirmed"}

\* mapEventToKind: both approvals of a manager are recorded alike.
ConsentOf(event) ==
    CASE event = "substitute_accept" -> {"SubstituteAccepted"}
      [] event \in {"manager_approve", "manager_approve_with_hr"} -> {"ManagerApproved"}
      [] event = "hr_confirm" -> {"HrConfirmed"}
      [] OTHER -> {}

Row == [emp: Employees, type: Type, from: Nat, to: Nat, days: Nat, special: BOOLEAN,
        sub: Employees \cup {Nobody}, state: State, approver: Employees \cup {Nobody}]

Ids == DOMAIN requests

\* The status is neither Rejected nor Cancelled (deriveStatus): drafts count.
Active(r) == r.state \notin {"Rejected", "Cancelled"}

\* Off-hours adjustments are not singled out.
TwoStage_Fault(r) == FALSE

\* requiresTwoStageApproval: an adjustment outside the working-time frame.
TwoStage(r) == r.type = "TimeAdjustment" /\ r.special

-----------------------------------------------------------------------------
(* Leave and attendance *)

\* The states that count against the balance; a draft does not.
Counted == {"PendingSubstitute", "PendingManager", "PendingHr", "Approved"}

DaysTaken(e) ==
    LET Days(i) == requests[i].days
    IN MapThenSumSet(Days, {i \in Ids : /\ requests[i].emp = e
                                        /\ requests[i].type = "Vacation"
                                        /\ requests[i].state \in Counted})

\* Both ends are inclusive.
Overlap(from1, to1, from2, to2) == from1 <= to2 /\ from2 <= to1

\* assertNoActiveOverlap.
NoActiveOverlap(e, from, to) ==
    ~\E i \in Ids : /\ requests[i].emp = e /\ Active(requests[i])
                    /\ Overlap(requests[i].from, requests[i].to, from, to)

Corrected(i) == IF corrections[i] > 0 THEN requests[i].from .. requests[i].to - 1 ELSE {}
CorrectionsOf(e) == UNION {Corrected(i) : i \in {j \in Ids : requests[j].emp = e}}

\* The check that was made when the request was filed is relied on.
Unbooked_Fault(e, from, to) == (from .. to - 1) \cap attended[e] = {}

\* No TimeEntry of e reaches into [from, to): assertNoTimeEntryOverlap, and the
\* exclusion constraint of the table.
Unbooked(e, from, to) ==
    (from .. to - 1) \cap (attended[e] \cup CorrectionsOf(e)) = {}

-----------------------------------------------------------------------------
(* Calls in flight *)

Idle == [op |-> "Idle"]
Call == [op: {"File", "Transition", "Approve", "Reject"}, id: Nat, row: Row, event: Event]

\* A call that has read or prepared the request `row` and will record `event`.
Ask(c, op, i, row, event) ==
    /\ call[c] = Idle
    /\ call' = [call EXCEPT ![c] = [op |-> op, id |-> i, row |-> row, event |-> event]]
    /\ UNCHANGED <<requests, granted, corrections, attended>>

\* A filed request waits for its substitute first, if it names one.
Filed(e, type, from, to, days, special, sub) ==
    [emp |-> e, type |-> type, from |-> from, to |-> to, days |-> days,
     special |-> special, sub |-> sub,
     state |-> IF sub = Nobody THEN "PendingManager" ELSE "PendingSubstitute",
     approver |-> IF sub = Nobody THEN ManagerOf[e] ELSE Nobody]

File(c, r) ==
    /\ r.from <= r.to
    /\ NoActiveOverlap(r.emp, r.from, r.to)
    /\ Ask(c, "File", 0, r, "submit")

\* createVacation.  Half days, holidays and days off make a period count for
\* any number of days that is not 0.
BeginVacation(c) ==
    /\ "Vacation" \in Types
    /\ \E e \in Requesters, p \in Periods, sub \in Employees \cup {Nobody} :
         \E days \in 1 .. p[2] - p[1] + 1 :
             /\ sub # e
             /\ DaysTaken(e) + days <= Entitlement
             /\ File(c, Filed(e, "Vacation", p[1], p[2], days, FALSE, sub))

\* create.  Whether an adjustment lies outside the frame depends on the times of
\* day, which the model leaves open.
BeginOther(c) ==
    \E e \in Requesters, p \in Periods, type \in Types \ {"Vacation"}, special \in BOOLEAN :
        /\ special => type = "TimeAdjustment"
        /\ type = "TimeAdjustment" => p[1] < p[2] /\ Unbooked(e, p[1], p[2])
        /\ File(c, Filed(e, type, p[1], p[2], 0, special, Nobody))

\* assertApprover: HR, or the manager the request is assigned to.
MayDecide(a, r) == a \in HRAdmins \/ (a \in Managers /\ r.approver = a)

\* Who may send which event about request r.
Authorised(a, r, event) ==
    CASE event \in {"substitute_accept", "substitute_decline"} -> r.sub = a
      [] event \in {"hr_confirm", "hr_reject"} -> a \in HRAdmins
      [] event = "cancel" -> r.emp = a \/ MayDecide(a, r)
      [] OTHER -> MayDecide(a, r)

\* managerApprove, managerReject, hrConfirm, hrReject, substituteAccept,
\* substituteDecline, returnForRevision, cancel, approve and reject of a vacation
\* or of an off-hours adjustment, and each item of bulkApprove and bulkReject.
BeginTransition(c) ==
    \E i \in Ids, a \in Employees : \E event \in Sendable(requests[i].state) :
        /\ Authorised(a, requests[i], event)
        /\ TwoStage(requests[i]) => event # "manager_approve"
        /\ Ask(c, "Transition", i, requests[i], event)

\* approve and reject of any other request, whatever its state.
BeginDirect(c) ==
    \E a \in Employees, i \in Ids :
        /\ requests[i].type # "Vacation"
        /\ MayDecide(a, requests[i])
        /\ \/ ~TwoStage(requests[i]) /\ Ask(c, "Approve", i, requests[i], "manager_approve")
           \/ Ask(c, "Reject", i, requests[i], "manager_reject")

\* The transaction fails, or its connection or process dies before the commit.
Abort(c) ==
    /\ call[c] # Idle
    /\ call' = [call EXCEPT ![c] = Idle]
    /\ UNCHANGED <<requests, granted, corrections, attended>>

-----------------------------------------------------------------------------
(* Transactions *)

Finish(c) == call' = [call EXCEPT ![c] = Idle]

\* The request is stored with its first event.
FileRequest(c) ==
    /\ call[c].op = "File"
    /\ Len(requests) < MaxRequests
    /\ requests' = Append(requests, call[c].row)
    /\ granted' = Append(granted, {})
    /\ corrections' = Append(corrections, 0)
    /\ UNCHANGED attended
    /\ Finish(c)

\* The request gets its new state and approver, and its event; an approved
\* correction of time is booked (materializeTimeAdjustment), or all fails.
Write(c, state, approver, books) ==
    LET i == call[c].id
        r == requests[i]
    IN /\ requests' = [requests EXCEPT ![i].state = state, ![i].approver = approver]
       /\ granted' = [granted EXCEPT ![i] = @ \cup ConsentOf(call[c].event)]
       /\ books => Unbooked(r.emp, r.from, r.to)
       /\ corrections' = [corrections EXCEPT ![i] = @ + IF books THEN 1 ELSE 0]
       /\ UNCHANGED attended
       /\ Finish(c)

\* Only the direct approval books the correction.
Books_Fault(r, state) == FALSE

\* An adjustment that reaches Approved through the workflow must be booked too.
Books(r, state) == state = "Approved" /\ r.type = "TimeAdjustment"

\* The request stays with whoever had it.
NextApprover_Fault(r, event) ==
    IF event = "cancel" THEN r.approver
    ELSE IF event = "substitute_accept" THEN ManagerOf[r.emp] ELSE Nobody

\* The manager's turn comes when the substitute accepts; every other event
\* takes the request out of the manager's inbox.
NextApprover(r, event) ==
    IF event = "substitute_accept" THEN ManagerOf[r.emp] ELSE Nobody

\* transitionVacation: the next state is that of the state that was read.
Transition(c) ==
    /\ call[c].op = "Transition"
    /\ \E s \in State :
         /\ <<call[c].row.state, call[c].event, s>> \in Transitions
         /\ Write(c, s, NextApprover(call[c].row, call[c].event), Books(call[c].row, s))

Approve(c) ==
    /\ call[c].op = "Approve"
    /\ Write(c, "Approved", Nobody,
             call[c].row.type = "TimeAdjustment" /\ call[c].row.state # "Approved")

Reject(c) ==
    /\ call[c].op = "Reject"
    /\ Write(c, "Rejected", Nobody, FALSE)

\* Another booking of the employee: a timer that is stopped, a block, an entry.
Attend(e) ==
    /\ \E s \in Instants :
         /\ Unbooked(e, s, s + 1)
         /\ attended' = [attended EXCEPT ![e] = @ \cup {s}]
    /\ UNCHANGED <<requests, granted, corrections, call>>

-----------------------------------------------------------------------------

Init ==
    /\ requests = <<>>
    /\ granted = <<>>
    /\ corrections = <<>>
    /\ attended = [e \in Employees |-> {}]
    /\ call = [c \in Clients |-> Idle]

BeginStep(c) == BeginVacation(c) \/ BeginOther(c) \/ BeginTransition(c) \/ BeginDirect(c)
CommitStep(c) == FileRequest(c) \/ Transition(c) \/ Approve(c) \/ Reject(c)

Next ==
    \/ \E c \in Clients : BeginStep(c) \/ CommitStep(c) \/ Abort(c)
    \/ \E e \in Requesters : Attend(e)

Spec == Init /\ [][Next]_vars

-----------------------------------------------------------------------------
(* Properties *)

\* Every variable has its type, and every request its consents and corrections
\* (the shape of Request and RequestEvent in prisma/schema.prisma).
TypeOK ==
    /\ requests \in Seq(Row)
    /\ granted \in [Ids -> SUBSET Consent]
    /\ corrections \in [Ids -> Nat]
    /\ attended \in [Employees -> SUBSET Nat]
    /\ DOMAIN call = Clients /\ \A c \in Clients : call[c] = Idle \/ call[c] \in Call

\* No vacation comes before its manager, or past him, unless its substitute has
\* accepted it, however stale the state is that a handler decided on.
SubstituteConfirmed ==
    \A i \in Ids :
        requests[i].sub # Nobody /\ requests[i].state \in {"PendingManager", "PendingHr", "Approved"}
        => "SubstituteAccepted" \in granted[i]

\* An off-hours adjustment is approved, and reaches the ledger, only after the
\* manager's allowance and HR's confirmation, on every one of the paths that
\* approve (approve, managerApprove, bulkApprove); HR never comes first.
TwoStageApproval ==
    \A i \in Ids :
        /\ "HrConfirmed" \in granted[i] => "ManagerApproved" \in granted[i]
        /\ requests[i].special /\ (requests[i].state = "Approved" \/ corrections[i] > 0)
             => "HrConfirmed" \in granted[i]

\* Approved working time is booked: no adjustment is Approved while the ledger
\* lacks it, whichever path and whichever of two racing decisions came last.
ApprovedIsBooked ==
    \A i \in Ids :
        requests[i].type = "TimeAdjustment" /\ requests[i].state = "Approved"
        => corrections[i] > 0

\* No instant is counted twice: two approvals of one adjustment, adjustments
\* that were filed at the same time, and the employee's own bookings between
\* the filing and the approval never add up.
CountedOnce ==
    /\ \A i \in Ids : /\ corrections[i] <= 1
                      /\ Corrected(i) \cap attended[requests[i].emp] = {}
    /\ \A i, j \in Ids : i # j /\ requests[i].emp = requests[j].emp
                           => Corrected(i) \cap Corrected(j) = {}

\* A manager's inbox (currentApproverId) holds the requests that wait for that
\* manager, all of them and no other.
InboxExact ==
    \A i \in Ids :
        requests[i].approver =
            IF requests[i].state = "PendingManager" THEN ManagerOf[requests[i].emp] ELSE Nobody

\* Nobody takes or asks for more leave than they have (the balance check of
\* createVacation).  Two calls at once break it.
LeaveNotOverdrawn ==
    \A e \in Employees :
        LET Days(i) == requests[i].days
        IN MapThenSumSet(Days, {i \in Ids : /\ requests[i].emp = e
                                            /\ requests[i].type = "Vacation"
                                            /\ requests[i].state \in State \ {"Draft", "Rejected", "Cancelled"}})
             <= Entitlement

\* The decision on a vacation is final (FINAL_STATES).  Two calls at once break it.
VacationDecisionFinal ==
    [][\A i \in Ids : requests[i].type = "Vacation" /\ requests[i].state \in Final
         => requests'[i].state = requests[i].state]_vars
=============================================================================
