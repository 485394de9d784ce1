------------------------- MODULE TimeEntriesLedger -------------------------
(***************************************************************************)
(* TimeEntries implements Ledger: the attendance of an employee is what the *)
(* closed effective rows cover, and the timer is the open row.              *)
(***************************************************************************)
EXTENDS TimeEntries, FiniteSetsExt

Closed(rows, e) == {i \in DOMAIN rows : rows[i].emp = e /\ IsClosed(rows[i])}
Timers(rows, e) == {i \in DOMAIN rows : rows[i].emp = e /\ IsOpen(rows[i])}

Length(r) == r.out - r.in
Covered(rows, ids) == UNION {rows[i].in .. rows[i].out - 1 : i \in ids}
Credited(rows, ids) == MapThenSumSet(LAMBDA i : Length(rows[i]), ids)

\* A Team row that waits for its approval.  A Solo row is pending when a terminal
\* stopped a timer that a change of mode left running (terminal-booking.service.ts:96),
\* and nothing waits for it: the next split approves it (time-entries.service.ts:875).
Waits(r) == r.status = "Pending" /\ r.mode = "Team"

OutsideFrame ==
    {s \in 0 .. LastInstant :
        Offset(s) < FrameStart \/ Offset(s) >= FrameEnd \/ Day(s + 1) # Day(s)}

\* The book of employee e in the table `rows`.
BookOf(rows, e) ==
    LET closed == Closed(rows, e)
        timer == Timers(rows, e)
        open == rows[CHOOSE i \in timer : TRUE]
    IN  [worked |-> Covered(rows, closed),
         credited |-> Credited(rows, closed),
         pending |-> OutsideFrame \cap Covered(rows, {i \in closed : Waits(rows[i])}),
         since |-> IF timer = {} THEN Running ELSE open.in,
         rule |-> IF timer = {} THEN "Team" ELSE open.mode,
         captures |-> [g \in 1 .. MaxRows |-> Covered(rows, {i \in closed : rows[i].grp = g})]]

Approvals(e) == {c \in Clients : call[c].op = "Approve" /\ call[c].emp = e}

Books == [e \in Employees |-> BookOf(entries, e)]
Approving == [e \in Employees |-> Cardinality(Approvals(e))]

Promise == INSTANCE Ledger WITH
    Groups <- 1 .. MaxRows, clock <- now, book <- Books, approving <- Approving

\* The rows, however they are cut, grouped, revised and cancelled, keep the books
\* that Ledger promises (time-entries.service.ts as a whole).
KeepsTheBooks == Promise!LedgerSpec
=============================================================================
