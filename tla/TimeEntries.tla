---------------------------- MODULE TimeEntries ----------------------------
(***************************************************************************)
(* The attendance ledger: the TimeEntry table and every handler of         *)
(* apps/api/src/app/time-entries/time-entries.service.ts that writes it,   *)
(* with the two writers outside that service (terminal bookings and        *)
(* approved time adjustments), the installation's operating mode, the      *)
(* employees' activation and the archiving of booking targets.             *)
(*                                                                         *)
(* A handler runs in two steps.  It (or the client that sends its request) *)
(* first READS the rows it is about, outside any transaction: BeginXxx     *)
(* records what was seen in call[c].  Later ONE transaction, serialised by *)
(* the advisory lock 7261500, re-checks and WRITES: the action named after *)
(* the handler.  Everything else may happen between the two.               *)
(*                                                                         *)
(* The change of the operating mode is the exception: it is Serializable,  *)
(* so all it reads, its blockers too, is as of its first statement, which  *)
(* is the one that waits for the lock.  BeginChange is that snapshot.      *)
(*                                                                         *)
(* Time is a bounded clock of instants grouped into days of DayLen         *)
(* instants; an interval <<in, out>> is half open, [in, out).              *)
(*                                                                         *)
(* A definition whose name ends in _Fault is a plausible mistake in the    *)
(* definition below it; nothing uses it, except the experiments that show  *)
(* that a property would notice.                                           *)
(***************************************************************************)
EXTENDS Integers, Sequences, FiniteSets

CONSTANTS
    Employees,        \* employee accounts
    Admins,           \* those with the role HRAdmin
    Targets,          \* booking targets: a project, or a project's service order
    NoTarget,         \* projectId = NULL
    Clients,          \* requests that can be in flight together
    Operations,       \* the operations that are used (a run may restrict them)
    BootModes,        \* modes the installation may be bootstrapped in
    Adjustments,      \* intervals <<from, to>> that TimeAdjustment requests ask for
    DayLen,           \* instants per calendar day
    FrameStart,       \* working-time frame of a day, as offsets into the day
    FrameEnd,
    BlockLen,         \* gross length of a daily-target block
    UniqueOpenIndex,  \* is the partial unique index on open timers present?
    Horizon,          \* bound: last instant of the clock
    MaxRows,          \* bound: rows the ledger may hold
    MaxRev            \* bound: revisions of one row

Mode == {"Team", "Solo"}

Requests == {"ClockIn", "ClockOut", "DailyBlock", "Update", "Split",
             "RangeBook", "Manual", "Correct", "Void", "Switch", "Approve", "ChangeMode"}
AllOperations == Requests \cup {"Terminal", "SetActive", "SetArchived"}

ASSUME LedgerAssumption ==
    /\ Admins \subseteq Employees
    /\ NoTarget \notin Targets
    /\ Operations \subseteq AllOperations
    /\ BootModes \subseteq Mode
    /\ IsFiniteSet(Clients)
    /\ Adjustments \subseteq (0 .. Horizon + BlockLen) \X (0 .. Horizon + BlockLen)
    /\ DayLen \in Nat \ {0}
    /\ FrameStart \in Nat /\ FrameEnd \in Nat
    /\ BlockLen \in Nat \ {0}
    /\ UniqueOpenIndex \in BOOLEAN
    /\ Horizon \in Nat /\ MaxRows \in Nat /\ MaxRev \in Nat

VARIABLES
    entries,   \* the TimeEntry table; a row's id is its index
    audit,     \* TimeEntryAudit: the revisions of each row whose snapshot was written
    call,      \* the requests in flight and what each of them has read
    now,       \* the server's clock
    mode,      \* InstallationSettings.mode
    owner,     \* InstallationSettings.ownerEmployeeId
    active,    \* employees with isActive
    archived   \* targets that are no longer bookable

vars == <<entries, audit, call, now, mode, owner, active, archived>>
world == <<now, mode, owner, active, archived>>

-----------------------------------------------------------------------------
(* Rows *)

Running == -1      \* clockOut IS NULL
NoDay == -1        \* bookingDate IS NULL
NoGroup == 0       \* captureGroupId IS NULL

Status == {"Open", "Pending", "Approved", "Rejected"}
Source == {"Pwa", "Terminal", "DailyBlock", "Manual"}

Row == [emp: Employees, in: Nat, out: Nat \cup {Running}, status: Status,
        mode: Mode, source: Source, day: Nat \cup {NoDay},
        target: Targets \cup {NoTarget}, grp: Nat, rev: Nat, voided: BOOLEAN]

\* A row as the schema's defaults leave it; approvalMode NULL means Team.
Default(e, a, b) ==
    [emp |-> e, in |-> a, out |-> b, status |-> "Approved", mode |-> "Team",
     source |-> "Manual", day |-> NoDay, target |-> NoTarget, grp |-> NoGroup,
     rev |-> 0, voided |-> FALSE]

Effective(r) == ~r.voided /\ r.status # "Rejected"
IsOpen(r) == ~r.voided /\ r.out = Running
IsClosed(r) == Effective(r) /\ r.out # Running

Ids == DOMAIN entries
RowsOf(e) == {i \in Ids : entries[i].emp = e}
OpenRows(e) == {i \in RowsOf(e) : IsOpen(entries[i])}

-----------------------------------------------------------------------------
(* Calendar *)

Day(t) == t \div DayLen
LastInstant == Horizon + BlockLen   \* a block may end past the clock
Offset(t) == t % DayLen

\* A booking before the frame, after it or over midnight; b may be Running.
RequiresSpecialApproval(a, b) ==
    \/ Offset(a) < FrameStart
    \/ b # Running /\ (Day(b) # Day(a) \/ Offset(b) > FrameEnd)

\* Only the start of the interval is held against the frame.
StatusFor_Fault(m, a, b) ==
    IF m # "Solo" /\ Offset(a) < FrameStart THEN "Pending" ELSE "Approved"

\* The status a closed Team or Solo interval is given.
StatusFor(m, a, b) ==
    IF m # "Solo" /\ RequiresSpecialApproval(a, b) THEN "Pending" ELSE "Approved"

-----------------------------------------------------------------------------
(* Checks inside a transaction *)

\* Running timers are forgotten.
Free_Fault(e, a, b, except) ==
    ~\E i \in RowsOf(e) \ except :
        /\ Effective(entries[i])
        /\ b # Running => entries[i].in < b
        /\ entries[i].out > a

\* assertNoOverlap: no other effective row of e reaches into [a, b), an open
\* one reaching into everything after its start; b = Running is "no end".
Free(e, a, b, except) ==
    ~\E i \in RowsOf(e) \ except :
        /\ Effective(entries[i])
        /\ b # Running => entries[i].in < b
        /\ entries[i].out = Running \/ entries[i].out > a

\* The constraints PostgreSQL checks before the transaction commits.
DatabaseAccepts(rows) ==
    /\ \A i \in DOMAIN rows : rows[i].out = Running \/ rows[i].in < rows[i].out
    /\ \A i, j \in DOMAIN rows : i # j /\ rows[i].emp = rows[j].emp =>
         /\ UniqueOpenIndex => ~(IsOpen(rows[i]) /\ IsOpen(rows[j]))
         /\ IsClosed(rows[i]) /\ IsClosed(rows[j]) =>
              rows[i].out <= rows[j].in \/ rows[j].out <= rows[i].in
         /\ rows[i].day # NoDay => rows[i].day # rows[j].day

WithinBounds(rows) ==
    Len(rows) <= MaxRows /\ \A i \in DOMAIN rows : rows[i].rev <= MaxRev

\* The target is not checked again under the lock.
Bookable_Fault == {NoTarget} \cup Targets

\* assertTargetStillBookable: unassigned work, or a target not archived.
Bookable == {NoTarget} \cup (Targets \ archived)

\* The employee is checked when the request arrives, not again under the lock.
InTransaction_Fault(c, op) == call[c].op = op

\* assertTransactionAccess: the employee is active and, in Solo, the owner.
InTransaction(c, op) ==
    /\ call[c].op = op
    /\ call[c].emp \in active
    /\ mode = "Solo" => call[c].emp = owner

\* Its expectedSolo argument: the mode the handler read still holds.
SameMode(c) == call[c].solo = (mode = "Solo")

\* assertMutable(row, dto.revision): what the request may be applied to.
Mutable(c, r, seen) ==
    /\ ~r.voided
    /\ r.mode = "Solo" => call[c].rev
    /\ call[c].rev => r.rev = seen.rev

Group(i, r) ==
    IF r.grp = NoGroup /\ (mode = "Solo" \/ r.mode = "Solo") THEN i ELSE r.grp

-----------------------------------------------------------------------------
(* Requests in flight *)

Idle == [op |-> "Idle"]

IsCall(k) ==
    /\ k.op \in Requests /\ k.emp \in Employees
    /\ k.rev \in BOOLEAN /\ k.solo \in BOOLEAN
    /\ DOMAIN k.view \subseteq Nat /\ \A i \in DOMAIN k.view : k.view[i] \in Row

\* A request about employee e, which has read the rows `seen`.
Ask(c, op, e, seen, withRev) ==
    /\ call[c] = Idle
    /\ op \in Operations
    /\ call' = [call EXCEPT ![c] =
                  [op |-> op, emp |-> e, rev |-> withRev, solo |-> mode = "Solo",
                   view |-> [i \in seen |-> entries[i]]]]
    /\ UNCHANGED <<entries, audit, world>>

\* assertActiveEmployee, assertAccess and requireOwner.
Begin(c, op, e, seen, withRev) ==
    /\ e \in active
    /\ mode = "Solo" => e = owner
    /\ Ask(c, op, e, seen, withRev)

\* clockIn, createDailyBlock and createManual name no row.
BeginNew(c, e) ==
    \E op \in {"ClockIn", "DailyBlock", "Manual"} :
        (op = "Manual" => mode = "Solo") /\ Begin(c, op, e, {}, FALSE)

\* update, split and correct read the row (findOrThrow) and run assertMutable
\* on it; voidEntry, switchProject and clockOut get what the client last saw.
\* A Team request may leave its revision out, but sends none without the id.
BeginOnRow(c, e) ==
    \E op \in {"Update", "Split", "Correct", "Void", "Switch", "ClockOut"},
       i \in RowsOf(e), withRev \in BOOLEAN :
        /\ ~entries[i].voided
        /\ entries[i].mode = "Solo" => withRev
        /\ op \in {"Correct", "Void", "Switch"} => mode = "Solo" /\ withRev
        /\ op = "Split" => entries[i].out # Running
        /\ op \in {"Switch", "ClockOut"} => entries[i].out = Running
        /\ Begin(c, op, e, {i}, withRev)

\* clockOut without an id, and bookProjectRange with or without revisions.
BeginOnLedger(c, e) ==
    \/ Begin(c, "ClockOut", e, {}, FALSE)
    \/ Begin(c, "RangeBook", e, {}, FALSE)
    \/ \E seen \in SUBSET {i \in RowsOf(e) : IsClosed(entries[i])} :
           seen # {} /\ Begin(c, "RangeBook", e, seen, TRUE)

\* The approval of a pending TimeAdjustment request of employee e, a Team feature.
BeginApproval(c, e) == mode = "Team" /\ Ask(c, "Approve", e, {}, FALSE)

\* modeBlockers is empty.  Of the pending requests, those being approved concern
\* the ledger; active terminals have no part in it.
NoModeBlockers(e) ==
    /\ ~\E i \in Ids : IsOpen(entries[i])
    /\ mode = "Team" =>
         /\ active = {e}
         /\ ~\E c \in Clients : call[c].op = "Approve"
         /\ ~\E i \in Ids : entries[i].status = "Pending" /\ ~entries[i].voided

\* changeMode up to the snapshot on which it will find no blocker.
BeginChange(c, e) ==
    /\ e \in Admins \cap active
    /\ mode = "Solo" => e = owner
    /\ NoModeBlockers(e)
    /\ Ask(c, "ChangeMode", e, {}, FALSE)

\* The request is refused, or its connection or process dies before the commit.
Abort(c) ==
    /\ call[c] # Idle
    /\ call' = [call EXCEPT ![c] = Idle]
    /\ UNCHANGED <<entries, audit, world>>

-----------------------------------------------------------------------------
(* Writing *)

\* Rows that a transaction adds are given no audit history.
Save_Fault(rows, logged) ==
    /\ WithinBounds(rows)
    /\ DatabaseAccepts(rows)
    /\ entries' = rows
    /\ audit' = [i \in Ids |-> audit[i] \cup (IF i \in logged THEN {rows[i].rev} ELSE {})]
    /\ UNCHANGED world

\* The transaction's outcome: the new table, with an audit record for each row
\* of `logged`.
Save(rows, logged) ==
    /\ WithinBounds(rows)
    /\ DatabaseAccepts(rows)
    /\ entries' = rows
    /\ audit' = [i \in DOMAIN rows |->
                   (IF i \in Ids THEN audit[i] ELSE {})
                     \cup (IF i \in logged THEN {rows[i].rev} ELSE {})]
    /\ UNCHANGED world

Finish(c) == call' = [call EXCEPT ![c] = Idle]

\* The revision is written back as it was.
Revise_Fault(rows, i, r) == [rows EXCEPT ![i] = r]

\* Replace row i by r, as the next revision.
Revise(rows, i, r) == [rows EXCEPT ![i] = [r EXCEPT !.rev = entries[i].rev + 1]]

NewId == Len(entries) + 1

-----------------------------------------------------------------------------
(* Starting and stopping the timer *)

\* A double click starts a second timer.
TimerMayStart_Fault(e) ==
    \A i \in RowsOf(e) : entries[i].day = Day(now) => entries[i].voided

\* Neither a running timer nor a daily block of today.
TimerMayStart(e) ==
    /\ OpenRows(e) = {}
    /\ \A i \in RowsOf(e) : entries[i].day = Day(now) => entries[i].voided

ClockIn(c) ==
    LET e == call[c].emp
        solo == mode = "Solo"
    IN /\ InTransaction(c, "ClockIn") /\ SameMode(c)
       /\ TimerMayStart(e)
       /\ solo => Free(e, now, Running, {})
       /\ \E t \in Bookable :
            Save(Append(entries,
                   [Default(e, now, Running) EXCEPT
                      !.status = "Open", !.mode = mode, !.source = "Pwa",
                      !.target = t, !.grp = IF solo THEN NewId ELSE NoGroup]),
                 IF solo THEN {NewId} ELSE {})
       /\ Finish(c)

ClockOut(c) ==
    /\ InTransaction(c, "ClockOut") /\ SameMode(c)
    /\ \E i \in OpenRows(call[c].emp) :
         LET r == entries[i]
             seen == call[c].view
         IN /\ r.mode = "Solo" => i \in DOMAIN seen
            /\ DOMAIN seen \subseteq {i}
            /\ IF i \in DOMAIN seen THEN Mutable(c, r, seen[i]) ELSE r.mode # "Solo"
            /\ now > r.in
            /\ mode = "Solo" => Free(r.emp, r.in, now, {i})
            /\ Save(Revise(entries, i,
                      [r EXCEPT !.out = now, !.status = StatusFor(r.mode, r.in, now)]),
                    IF r.mode = "Solo" THEN {i} ELSE {})
    /\ Finish(c)

\* switchProject: close the running Solo segment and open the next one.
Switch(c) ==
    /\ InTransaction(c, "Switch") /\ mode = "Solo"
    /\ \E i \in DOMAIN call[c].view, t \in Bookable :
         LET r == entries[i]
             g == IF r.grp = NoGroup THEN i ELSE r.grp
         IN /\ Mutable(c, r, call[c].view[i])
            /\ r.out = Running /\ r.mode = "Solo"
            /\ now > r.in
            /\ Free(r.emp, r.in, Running, {i})
            /\ Save(Append(
                      Revise(entries, i,
                        [r EXCEPT !.out = now, !.status = "Approved", !.grp = g]),
                      [Default(r.emp, now, Running) EXCEPT
                         !.status = "Open", !.mode = "Solo", !.source = "Pwa",
                         !.target = t, !.grp = g]),
                    {i, NewId})
    /\ Finish(c)

-----------------------------------------------------------------------------
(* Booking completed work *)

\* createDailyBlock: the day must be empty of effective work; the block itself
\* may reach past the end of that day, and past now.
DailyBlock(c) ==
    LET e == call[c].emp
        solo == mode = "Solo"
    IN /\ InTransaction(c, "DailyBlock") /\ SameMode(c)
       /\ \E a \in 0 .. Horizon, t \in Bookable :
            /\ Day(a) <= Day(now)
            /\ ~solo => ~RequiresSpecialApproval(a, a + BlockLen)
            /\ Free(e, Day(a) * DayLen, (Day(a) + 1) * DayLen, {})
            /\ Save(Append(entries,
                      [Default(e, a, a + BlockLen) EXCEPT
                         !.mode = mode, !.source = "DailyBlock", !.day = Day(a),
                         !.target = t, !.grp = IF solo THEN NewId ELSE NoGroup]),
                    IF solo THEN {NewId} ELSE {})
       /\ Finish(c)

Manual(c) ==
    LET e == call[c].emp
    IN /\ InTransaction(c, "Manual") /\ mode = "Solo"
       /\ \E a, b \in 0 .. now, t \in Bookable :
            /\ a < b
            /\ Free(e, a, b, {})
            /\ Save(Append(entries,
                      [Default(e, a, b) EXCEPT
                         !.mode = "Solo", !.target = t, !.grp = NewId]),
                    {NewId})
       /\ Finish(c)

-----------------------------------------------------------------------------
(* Editing rows that exist *)

\* The revision read before the transaction is not compared.
Current_Fault(c, i) == ~entries[i].voided

\* assertMutable(current, dto.revision, entry.revision) of the two-phase edits.
Current(c, i) ==
    /\ Mutable(c, entries[i], call[c].view[i])
    /\ entries[i].rev = call[c].view[i].rev

\* The audit is taken for a feature of Solo rows.
LogEdit_Fault(i, new) == IF entries[i].mode = "Solo" THEN {i} \cup new ELSE {}

LogEdit(i, new) == IF mode = "Solo" \/ entries[i].mode = "Solo" THEN {i} \cup new ELSE {}

Update(c) ==
    /\ InTransaction(c, "Update")
    /\ mode = "Solo" => call[c].rev
    /\ \E i \in DOMAIN call[c].view :
         /\ Current(c, i)
         /\ \E t \in Bookable \cup {entries[i].target} :
              Save(Revise(entries, i, [entries[i] EXCEPT !.target = t]), LogEdit(i, {}))
    /\ Finish(c)

\* The second segment is built from the row as it was read before the
\* transaction; the revision check is what makes that row current.
Split(c) ==
    /\ InTransaction(c, "Split")
    /\ mode = "Solo" => call[c].rev
    /\ \E i \in DOMAIN call[c].view, at \in 0 .. LastInstant :
         LET seen == call[c].view[i]
             SegmentStatus(a, b) ==
                 IF seen.status = "Rejected" THEN "Rejected" ELSE StatusFor(seen.mode, a, b)
         IN /\ seen.in < at /\ at < seen.out
            /\ Current(c, i)
            /\ \E t \in Bookable \cup {seen.target} :
                 Save(Append(
                        Revise(entries, i,
                          [entries[i] EXCEPT !.out = at, !.grp = Group(i, seen),
                                             !.status = SegmentStatus(seen.in, at)]),
                        [seen EXCEPT !.in = at, !.status = SegmentStatus(at, seen.out),
                                     !.grp = Group(i, seen), !.target = t,
                                     !.day = NoDay, !.rev = 0]),
                      LogEdit(i, {NewId}))
    /\ Finish(c)

\* bookProjectRange: carve [from, to) out of the closed rows that cover it.  As
\* closed rows are disjoint, one row at most is cut at `from` and one at `to`.
Overlapping(e, from, to) ==
    {i \in RowsOf(e) : /\ IsClosed(entries[i])
                       /\ entries[i].in < to /\ entries[i].out > from}

\* assertRangeCovered: the union of the rows leaves no gap in [from, to).
RangeCovered(over, from, to) ==
    \A s \in from .. to - 1 : \E i \in over : entries[i].in <= s /\ s < entries[i].out

\* Row i between a and b: inside [from, to) it is booked on t.
Segment(i, a, b, from, to, t) ==
    [entries[i] EXCEPT !.in = a, !.out = b, !.grp = Group(i, entries[i]),
                       !.status = StatusFor(entries[i].mode, a, b),
                       !.target = IF from <= a /\ b <= to THEN t ELSE @]

FirstEnd(r, from, to) ==
    IF r.in < from THEN from ELSE IF r.out > to THEN to ELSE r.out

CutAt(over, p) == {i \in over : entries[i].in < p /\ p < entries[i].out}

\* A row cut at both ends is taken for two segments, its tail is forgotten.
NewSegment_Fault(over, p, end, from, to, t) ==
    IF CutAt(over, p) = {} \/ (p = to /\ CutAt(over, from) # {}) THEN <<>>
    ELSE LET i == CHOOSE i \in CutAt(over, p) : TRUE
         IN <<[Segment(i, p, IF end < entries[i].out THEN end ELSE entries[i].out, from, to, t)
                 EXCEPT !.rev = 0, !.day = NoDay]>>

\* The new row from p on, up to `end` at most, if a row is cut at p.
NewSegment(over, p, end, from, to, t) ==
    IF CutAt(over, p) = {} THEN <<>>
    ELSE LET i == CHOOSE i \in CutAt(over, p) : TRUE
         IN <<[Segment(i, p, IF end < entries[i].out THEN end ELSE entries[i].out, from, to, t)
                 EXCEPT !.rev = 0, !.day = NoDay]>>

\* The ledger afterwards: the first piece of each row takes the row's place.
Carved(over, from, to, t) ==
    [i \in Ids |->
        IF i \in over
        THEN [Segment(i, entries[i].in, FirstEnd(entries[i], from, to), from, to, t)
                EXCEPT !.rev = @ + 1]
        ELSE entries[i]]
      \o NewSegment(over, from, to, from, to, t)
      \o NewSegment(over, to, LastInstant, from, to, t)

LogCarved(over, rows) ==
    {i \in DOMAIN rows : /\ i \in over \/ i > Len(entries)
                         /\ mode = "Solo" \/ rows[i].mode = "Solo"}

RangeBook(c) ==
    /\ InTransaction(c, "RangeBook")
    /\ mode = "Solo" => call[c].rev
    /\ \E from, to \in 0 .. LastInstant, t \in Bookable :
         LET over == Overlapping(call[c].emp, from, to)
             rows == Carved(over, from, to, t)
             seen == call[c].view
         IN /\ from < to
            /\ RangeCovered(over, from, to)
            /\ call[c].rev => /\ DOMAIN seen = over
                              /\ \A i \in over : seen[i].rev = entries[i].rev
            /\ Save(rows, LogCarved(over, rows))
    /\ Finish(c)

DayAfterCorrection(r) == IF r.source = "DailyBlock" THEN NoDay ELSE r.day

\* A corrected block becomes an ordinary interval; a Team row keeps its status.
Correct(c) ==
    /\ InTransaction(c, "Correct") /\ mode = "Solo"
    /\ \E i \in DOMAIN call[c].view, a, b \in 0 .. now :
         LET r == entries[i]
         IN /\ a < b
            /\ Current(c, i)
            /\ Free(r.emp, a, b, {i})
            /\ \E t \in Bookable \cup {call[c].view[i].target} :
                 Save(Revise(entries, i,
                        [r EXCEPT !.in = a, !.out = b, !.target = t,
                                  !.day = DayAfterCorrection(r),
                                  !.status = IF r.mode = "Solo" THEN "Approved" ELSE @]),
                      {i})
    /\ Finish(c)

Void(c) ==
    /\ InTransaction(c, "Void") /\ mode = "Solo"
    /\ \E i \in DOMAIN call[c].view :
         LET r == entries[i]
             end == IF now > r.in THEN now ELSE r.in + 1
         IN /\ Mutable(c, r, call[c].view[i])
            /\ Save(Revise(entries, i,
                      [r EXCEPT !.voided = TRUE, !.day = NoDay,
                                !.out = IF r.out = Running THEN end ELSE @]),
                    {i})
    /\ Finish(c)

-----------------------------------------------------------------------------
(* Writers outside the service *)

\* bookTerminalTime: a kiosk or QR booking toggles the timer in one transaction.
TerminalBook(e) ==
    /\ "Terminal" \in Operations
    /\ mode = "Team" /\ e \in active
    /\ \/ /\ TimerMayStart(e)
          /\ Save(Append(entries, [Default(e, now, Running) EXCEPT
                                     !.status = "Open", !.source = "Terminal"]), {})
       \/ \E i \in OpenRows(e) :
            LET r == entries[i]
            IN /\ now > r.in
               /\ Save(Revise(entries, i,
                         [r EXCEPT !.out = now, !.status = StatusFor("Team", r.in, now)]),
                       {})
    /\ UNCHANGED call

\* materializeTimeAdjustment: the approval of a TimeAdjustment request writes
\* its interval without the ledger's lock and without a check of its own.
Approve(c) ==
    /\ call[c].op = "Approve"
    /\ \E x \in Adjustments :
         x[1] < x[2] /\ Save(Append(entries, Default(call[c].emp, x[1], x[2])), {})
    /\ Finish(c)

-----------------------------------------------------------------------------
(* The rest of the installation *)

Tick ==
    /\ now < Horizon
    /\ now' = now + 1
    /\ UNCHANGED <<entries, audit, call, mode, owner, active, archived>>

\* changeMode once it has the lock.  Whatever has committed since its snapshot,
\* it writes the settings: only a change of those in between is a conflict, and
\* so all the other changes of mode in flight fail.
ChangeMode(c) ==
    /\ call[c].op = "ChangeMode"
    /\ mode' = IF mode = "Team" THEN "Solo" ELSE "Team"
    /\ owner' = call[c].emp
    /\ call' = [k \in Clients |-> IF call[k].op = "ChangeMode" THEN Idle ELSE call[k]]
    /\ UNCHANGED <<entries, audit, now, active, archived>>

\* employees.update: activation, never of the last active administrator away.
SetActive(e) ==
    /\ "SetActive" \in Operations
    /\ mode = "Team"
    /\ e \in active \cap Admins => (active \cap Admins) \ {e} # {}
    /\ active' = IF e \in active THEN active \ {e} ELSE active \cup {e}
    /\ UNCHANGED <<entries, audit, call, now, mode, owner, archived>>

\* projects.update: a target under a running timer cannot be archived.
SetArchived(t) ==
    /\ "SetArchived" \in Operations
    /\ t \notin archived =>
         ~\E i \in Ids : IsOpen(entries[i]) /\ Effective(entries[i]) /\ entries[i].target = t
    /\ archived' = IF t \in archived THEN archived \ {t} ELSE archived \cup {t}
    /\ UNCHANGED <<entries, audit, call, now, mode, owner, active>>

-----------------------------------------------------------------------------

\* A fresh installation: Solo with its owner alone, or Team.
Init ==
    /\ entries = <<>>
    /\ audit = <<>>
    /\ call = [c \in Clients |-> Idle]
    /\ now = 0
    /\ mode \in BootModes
    /\ owner \in Admins
    /\ active = IF mode = "Solo" THEN {owner} ELSE Employees
    /\ archived = {}

BeginStep(c) ==
    \E e \in Employees : \/ BeginNew(c, e) \/ BeginOnRow(c, e) \/ BeginOnLedger(c, e)
                        \/ BeginApproval(c, e) \/ BeginChange(c, e)

CommitStep(c) ==
    \/ ClockIn(c) \/ ClockOut(c) \/ Switch(c) \/ DailyBlock(c) \/ Manual(c)
    \/ Update(c) \/ Split(c) \/ RangeBook(c) \/ Correct(c) \/ Void(c) \/ Approve(c)

Next ==
    \/ \E c \in Clients : BeginStep(c) \/ CommitStep(c) \/ ChangeMode(c) \/ Abort(c)
    \/ \E e \in Employees : TerminalBook(e) \/ SetActive(e)
    \/ \E t \in Targets : SetArchived(t)
    \/ Tick

Spec == Init /\ [][Next]_vars

-----------------------------------------------------------------------------
(* Properties *)

\* Every variable has its type, and every row its one audit history (the shape
\* of TimeEntry and TimeEntryAudit in prisma/schema.prisma).
TypeOK ==
    /\ entries \in Seq(Row)
    /\ audit \in [Ids -> SUBSET Nat]
    /\ DOMAIN call = Clients /\ \A c \in Clients : call[c] = Idle \/ IsCall(call[c])
    /\ now \in Nat
    /\ mode \in Mode
    /\ owner \in Employees
    /\ active \subseteq Employees
    /\ archived \subseteq Targets

\* Nobody ever has two running timers.  The handlers' own checks under the lock
\* are enough: it holds without the partial unique index as well.
OneRunningTimer ==
    \A e \in Employees : \A i, j \in OpenRows(e) : i = j

\* Work that was not on the clock when it was booked: an approved adjustment,
\* or a daily block, which may reach past the end of its day.
BookedAhead(r) == r.source = "DailyBlock" \/ (r.source = "Manual" /\ r.mode = "Team")

\* A running timer can be stopped: no recorded interval of its employee lies
\* after its start, where the exclusion constraint would refuse every clock-out,
\* unless it is an adjustment or a block that was booked ahead of the clock.
TimerNotOverrun ==
    \A i, j \in Ids :
        /\ IsOpen(entries[i]) /\ IsClosed(entries[j])
        /\ entries[i].emp = entries[j].emp
        /\ entries[j].out > entries[i].in
        => BookedAhead(entries[j])

\* The one step that takes no lock.
Approval == \E c \in Clients : call[c].op = "Approve" /\ call'[c] = Idle

\* A timer that a change of mode left running is stopped.
LeftoverStopped(i) ==
    /\ i \in Ids /\ IsOpen(entries[i]) /\ entries[i].mode # mode
    /\ entries'[i].out # Running /\ ~entries'[i].voided

\* Every change of a Solo row, also one made after the installation became Team,
\* and in Solo every change of any row, a Team row of earlier years included,
\* writes the audit record of the revision it creates.  It need not when it
\* stops a timer left over from the other mode, nor when it is an approval.
ChangesAudited ==
    [][\A i \in DOMAIN entries' :
          /\ mode = "Solo" \/ entries'[i].mode = "Solo"
          /\ i \in Ids => entries'[i] # entries[i]
          /\ ~LeftoverStopped(i) /\ ~Approval
          => entries'[i].rev \in audit'[i]]_vars

\* A request still in flight that saw a row at the row's present revision saw
\* its present content, and none saw a later revision than the present one:
\* every writer of a row bumps its revision.
RevisionsTellVersionsApart ==
    \A c \in Clients : call[c] # Idle =>
        \A i \in DOMAIN call[c].view :
            /\ i \in Ids
            /\ call[c].view[i].rev <= entries[i].rev
            /\ call[c].view[i].rev = entries[i].rev => call[c].view[i] = entries[i]

\* No edit is lost: a request that carries a revision, or that read the row
\* itself, changes a row only if the row is still what the request saw.
StaleEditsRefused ==
    [][\A c \in Clients :
         call[c] # Idle /\ call'[c] = Idle
           /\ (call[c].rev \/ call[c].op \in {"Update", "Split", "Correct"})
         => \A i \in DOMAIN call[c].view :
              entries'[i] # entries[i] => call[c].view[i] = entries[i]]_vars

\* A running timer is never stranded on an archived project, customer or order.
TimerTargetBookable ==
    \A i \in Ids : IsOpen(entries[i]) => entries[i].target \notin archived

\* In Solo the ledger is its owner's: a request of anybody else that was in
\* flight when the mode changed is refused, unless it is an approval.
SoloIsTheOwners ==
    [][mode = "Solo" /\ ~Approval
         => \A i \in DOMAIN entries' :
              (i \in Ids => entries'[i] # entries[i]) => entries'[i].emp = owner]_vars

-----------------------------------------------------------------------------
(* What the documentation says and the code does not do *)

\* docs/OPERATING_MODES.md: the mode changes with "no open, non-cancelled time
\* entries", so that the timers that run belong to the present mode.
TimersFollowMode ==
    \A i \in Ids : IsOpen(entries[i]) => entries[i].mode = mode
=============================================================================
