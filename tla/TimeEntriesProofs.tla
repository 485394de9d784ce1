------------------------- MODULE TimeEntriesProofs -------------------------
(***************************************************************************)
(* What TimeEntries guarantees for every number of employees, requests in  *)
(* flight, rows and instants.                                              *)
(*                                                                         *)
(* Every transaction that writes the ledger is shown to have the same      *)
(* shape, LedgerStep: rows of one employee are added or revised, never     *)
(* rewritten in place and never removed, no timer is reopened or doubled,  *)
(* nothing is recorded beyond a timer's start, and the audit log follows.  *)
(* Types, revisions, timers and audit are then consequences of that shape  *)
(* alone.                                                                  *)
(*                                                                         *)
(* The second half shows that the books of Ledger are kept: what a handler *)
(* does to the rows of its employee is one of Ledger's steps.              *)
(***************************************************************************)
EXTENDS TimeEntriesLedger, FiniteSetTheorems, WellFoundedInduction, TLAPS

\* A running timer counts as work, on a target that is not archived.
Fit(r) == IsOpen(r) => r.status # "Rejected" /\ r.target \notin archived

TimersFit == \A i \in Ids : Fit(entries[i])

\* A request is about rows of the employee it was sent for.
OwnRows ==
    \A c \in Clients : call[c] # Idle =>
        \A i \in DOMAIN call[c].view : i \in Ids /\ entries[i].emp = call[c].emp

\* The invariant that every step preserves.
IInv == TypeOK /\ RevisionsTellVersionsApart /\ OneRunningTimer /\ TimersFit /\ OwnRows

\* r may become the content of row i.
Keeps(i, r) ==
    /\ r.mode = entries[i].mode /\ r.emp = entries[i].emp
    /\ IsOpen(r) => IsOpen(entries[i])
    /\ Fit(r)

Single(rows) ==
    \A i, j \in 1 .. Len(rows) :
        IsOpen(rows[i]) /\ IsOpen(rows[j]) /\ rows[i].emp = rows[j].emp => i = j

\* The shape of a transaction's outcome.
Extends(rows) ==
    /\ rows \in Seq(Row)
    /\ Len(entries) <= Len(rows)
    /\ \A i \in 1 .. Len(entries) :
         Keeps(i, rows[i]) /\ (rows[i] = entries[i] \/ rows[i].rev = entries[i].rev + 1)
    /\ \A i \in 1 .. Len(rows) : i > Len(entries) => rows[i].rev = 0 /\ Fit(rows[i])
    /\ Single(rows)

\* It adds or revises rows of e only.
Owns(rows, e) ==
    \A i \in 1 .. Len(rows) : i > Len(entries) \/ rows[i] # entries[i] => rows[i].emp = e

\* The audit log follows, as ChangesAudited says.
Leftover(i, rows) ==
    /\ i \in Ids /\ IsOpen(entries[i]) /\ entries[i].mode # mode
    /\ rows[i].out # Running /\ ~rows[i].voided
Logs(rows, logged) ==
    \A i \in 1 .. Len(rows) :
        /\ mode = "Solo" \/ rows[i].mode = "Solo"
        /\ i > Len(entries) \/ rows[i] # entries[i]
        /\ ~Leftover(i, rows) /\ ~Approval
        => i \in logged

\* Work that was on the clock when it was recorded.
Recorded(r) == IsClosed(r) /\ ~BookedAhead(r)

\* r ends within recorded work of its employee's that the ledger has already,
\* or by now, before any running timer outside `except` has started.
PieceOf(r) ==
    \E k \in Ids :
        Recorded(entries[k]) /\ entries[k].emp = r.emp /\ r.out <= entries[k].out
Past(r, except) ==
    r.out <= now /\ \A j \in OpenRows(r.emp) \ except : r.out <= entries[j].in
Due(r, except) == Recorded(r) => PieceOf(r) \/ Past(r, except)

\* Timers start now, and what is recorded is due.
Timely(rows) ==
    \A i \in 1 .. Len(rows) :
        /\ IsOpen(rows[i]) =>
             \/ rows[i].in = now
             \/ /\ i \in Ids /\ IsOpen(entries[i])
                /\ rows[i].emp = entries[i].emp /\ rows[i].in = entries[i].in
        /\ Recorded(rows[i]) =>
             \/ PieceOf(rows[i])
             \/ /\ rows[i].out <= now
                /\ \A j \in 1 .. Len(rows) :
                     IsOpen(rows[j]) /\ rows[j].emp = rows[i].emp => rows[i].out <= rows[j].in

LedgerStep(e) ==
    \E rows, logged : /\ Extends(rows) /\ Owns(rows, e) /\ Timely(rows)
                      /\ Logs(rows, logged) /\ Save(rows, logged)

-----------------------------------------------------------------------------
(* The pieces rows are made of *)

LEMMA DefaultRow ==
    ASSUME NEW e \in Employees, NEW a \in Nat, NEW b \in Nat \cup {Running}
    PROVE  Default(e, a, b) \in Row
BY DEF Default, Row, Status, Mode, Source, NoDay, NoGroup

\* The next revision of a row is a row.
LEMMA BumpRow ==
    ASSUME NEW r \in Row, NEW n \in Nat
    PROVE  /\ [r EXCEPT !.rev = n] \in Row
           /\ [r EXCEPT !.rev = n].rev = n
           /\ [r EXCEPT !.rev = n].mode = r.mode
           /\ [r EXCEPT !.rev = n].emp = r.emp
           /\ [r EXCEPT !.rev = n].in = r.in /\ [r EXCEPT !.rev = n].out = r.out
           /\ [r EXCEPT !.rev = n].voided = r.voided
           /\ IsOpen([r EXCEPT !.rev = n]) <=> IsOpen(r)
           /\ Recorded([r EXCEPT !.rev = n]) <=> Recorded(r)
           /\ Fit(r) => Fit([r EXCEPT !.rev = n])
BY DEF Row, Fit, IsOpen, Recorded, IsClosed, Effective, BookedAhead

\* A row's fields have their types.
LEMMA RowFields ==
    ASSUME NEW r \in Row
    PROVE  r.rev \in Nat /\ r.mode \in Mode /\ r.in \in Nat /\ r.out \in Nat \cup {Running}
           /\ r.emp \in Employees
BY DEF Row

\* A closed or voided row is no timer.
LEMMA ClosedFits ==
    ASSUME NEW r, r.out \in Nat \/ r.voided
    PROVE  Fit(r) /\ ~IsOpen(r)
BY DEF Fit, IsOpen, Running

\* A row is no running timer and recorded work at once.
LEMMA OpenOrRecorded ==
    ASSUME NEW r
    PROVE  /\ ~(IsOpen(r) /\ Recorded(r))
           /\ r.source = "DailyBlock" \/ IsOpen(r) => ~Recorded(r)
BY DEF IsOpen, Recorded, IsClosed, BookedAhead

LEMMA EntryRow ==
    ASSUME IInv
    PROVE  /\ Ids = 1 .. Len(entries) /\ Len(entries) \in Nat
           /\ NewId = Len(entries) + 1
           /\ \A i \in Ids : /\ entries[i] \in Row /\ entries[i].rev \in Nat
                            /\ entries[i].emp \in Employees /\ Fit(entries[i])
           /\ Single(entries)
<1>1. entries \in Seq(Row)  BY DEF IInv, TypeOK
<1>2. Ids = 1 .. Len(entries) /\ Len(entries) \in Nat  BY <1>1 DEF Ids
<1>3. \A i \in Ids : entries[i] \in Row  BY <1>1, <1>2
<1>4. \A i \in Ids : Fit(entries[i])  BY DEF IInv, TimersFit
<1>5. Single(entries)
  <2>1. \A i \in Ids : entries[i].emp \in Employees
    BY <1>3, RowFields
  <2> QED BY <1>2, <2>1 DEF IInv, OneRunningTimer, OpenRows, RowsOf, Single
<1> QED BY <1>2, <1>3, <1>4, <1>5, RowFields DEF NewId

\* What is left of a recorded row when it is moved or shortened.
LEMMA PieceOfRow ==
    ASSUME NEW i \in Ids, NEW r, r.emp = entries[i].emp, r.out <= entries[i].out,
           Recorded(r) => Recorded(entries[i])
    PROVE  Recorded(r) => PieceOf(r)
BY DEF PieceOf

\* Recorded work is a piece of itself.
LEMMA PieceOfItself ==
    ASSUME IInv, NEW i \in Ids
    PROVE  /\ Recorded(entries[i]) => PieceOf(entries[i])
           /\ entries[i].out <= entries[i].out
<1>1. entries[i].out \in Int
  BY EntryRow, RowFields DEF Running
<1> QED BY <1>1, PieceOfRow

\* Adding a row at revision 0.
LEMMA AppendStep ==
    ASSUME IInv, NEW r \in Row, r.rev = 0, Fit(r),
           IsOpen(r) => OpenRows(r.emp) = {} /\ r.in = now, Due(r, {})
    PROVE  /\ Extends(Append(entries, r))
           /\ Owns(Append(entries, r), r.emp)
           /\ Timely(Append(entries, r))
           /\ Logs(Append(entries, r), {NewId})
           /\ mode # "Solo" /\ r.mode # "Solo" => Logs(Append(entries, r), {})
<1> DEFINE rows == Append(entries, r)
<1>1. entries \in Seq(Row)  BY DEF IInv, TypeOK
<1>2. /\ rows \in Seq(Row) /\ Len(rows) = Len(entries) + 1 /\ Len(entries) \in Nat
      /\ rows[Len(entries) + 1] = r
      /\ \A j \in 1 .. Len(entries) : rows[j] = entries[j]
  BY <1>1
<1> HIDE DEF rows
<1>3. \A j \in 1 .. Len(entries) : IsOpen(r) /\ IsOpen(entries[j]) => entries[j].emp # r.emp
  BY EntryRow DEF OpenRows, RowsOf
<1>4. Single(rows)
  BY <1>2, <1>3, EntryRow DEF Single
<1>5. Extends(rows) /\ Owns(rows, r.emp)
  BY <1>2, <1>4, EntryRow DEF Extends, Owns, Keeps
<1>6. /\ Logs(rows, {NewId})
      /\ mode # "Solo" /\ r.mode # "Solo" => Logs(rows, {})
  BY <1>2, EntryRow DEF Logs
<1>7. Timely(rows)
  <2> SUFFICES ASSUME NEW j \in 1 .. Len(entries) + 1
               PROVE  /\ IsOpen(rows[j]) =>
                           \/ rows[j].in = now
                           \/ j \in Ids /\ IsOpen(entries[j]) /\ rows[j] = entries[j]
                      /\ Recorded(rows[j]) =>
                           \/ PieceOf(rows[j])
                           \/ /\ rows[j].out <= now
                              /\ \A k \in 1 .. Len(entries) + 1 :
                                   IsOpen(rows[k]) /\ rows[k].emp = rows[j].emp
                                   => rows[j].out <= rows[k].in
    BY <1>2 DEF Timely
  <2>1. CASE j \in 1 .. Len(entries)
    <3>1. j \in Ids /\ rows[j] = entries[j]
      BY <2>1, <1>2, EntryRow
    <3> QED BY <3>1, PieceOfItself
  <2>2. CASE j = Len(entries) + 1
    <3>1. rows[j] = r
      BY <2>2, <1>2
    <3>2. \A k \in 1 .. Len(entries) + 1 :
            IsOpen(rows[k]) /\ rows[k].emp = r.emp => k \in OpenRows(r.emp) \/ rows[k] = r
      BY <1>2, EntryRow DEF OpenRows, RowsOf
    <3>3. \A k \in OpenRows(r.emp) : rows[k] = entries[k]
      BY <1>2, EntryRow DEF OpenRows, RowsOf
    <3> QED BY <3>1, <3>2, <3>3, OpenOrRecorded DEF Due, Past
  <2> QED BY <2>1, <2>2, <1>2
<1> QED BY <1>5, <1>6, <1>7 DEF rows

\* What revising a row does to the table.
LEMMA Revised ==
    ASSUME IInv, NEW i \in Ids, NEW r \in Row, Keeps(i, r)
    PROVE  /\ Revise(entries, i, r) \in Seq(Row)
           /\ Len(Revise(entries, i, r)) = Len(entries)
           /\ Revise(entries, i, r)[i].rev = entries[i].rev + 1
           /\ Keeps(i, Revise(entries, i, r)[i])
           /\ IsOpen(Revise(entries, i, r)[i]) <=> IsOpen(r)
           /\ Recorded(Revise(entries, i, r)[i]) <=> Recorded(r)
           /\ Revise(entries, i, r)[i].in = r.in /\ Revise(entries, i, r)[i].out = r.out
           /\ Revise(entries, i, r)[i].voided = r.voided
           /\ \A j \in 1 .. Len(entries) : j # i => Revise(entries, i, r)[j] = entries[j]
<1> DEFINE next == [r EXCEPT !.rev = entries[i].rev + 1]
<1>1. /\ next \in Row /\ next.rev = entries[i].rev + 1 /\ Keeps(i, next)
      /\ next.in = r.in /\ next.out = r.out /\ next.voided = r.voided
      /\ (IsOpen(next) <=> IsOpen(r)) /\ (Recorded(next) <=> Recorded(r))
  <2>1. entries[i].rev + 1 \in Nat  BY EntryRow
  <2> QED BY <2>1, BumpRow DEF Keeps
<1> HIDE DEF next
<1>2. entries \in Seq(Row)  BY DEF IInv, TypeOK
<1>3. /\ [entries EXCEPT ![i] = next] \in Seq(Row)
      /\ Len([entries EXCEPT ![i] = next]) = Len(entries)
      /\ [entries EXCEPT ![i] = next][i] = next
      /\ \A j \in 1 .. Len(entries) : j # i => [entries EXCEPT ![i] = next][j] = entries[j]
  BY <1>1, <1>2, EntryRow
<1>4. Revise(entries, i, r) = [entries EXCEPT ![i] = next]
  BY DEF Revise, next
<1> QED BY <1>1, <1>3, <1>4

\* Rows that keep their owners and reopen no timer leave everyone with one.
LEMMA SingleKept ==
    ASSUME IInv, NEW rows, \A j \in 1 .. Len(entries) : Keeps(j, rows[j]),
           Len(rows) = Len(entries)
    PROVE  Single(rows)
BY EntryRow DEF Single, Keeps

\* Row i is revised and what is added, if anything, is a timer that starts now
\* or a piece of recorded work.
LEMMA RevisedTimely ==
    ASSUME IInv, NEW i \in Ids, NEW rows, Len(rows) \in Nat, Len(entries) <= Len(rows),
           Keeps(i, rows[i]), \A j \in Ids : j # i => rows[j] = entries[j],
           IsOpen(rows[i]) => rows[i].in = entries[i].in,
           Due(rows[i], {i}),
           \A j \in 1 .. Len(rows) : j > Len(entries) =>
             /\ IsOpen(rows[j]) => rows[j].in = now
             /\ Recorded(rows[j]) => PieceOf(rows[j])
    PROVE  Timely(rows)
<1> SUFFICES ASSUME NEW j \in 1 .. Len(rows)
             PROVE  /\ IsOpen(rows[j]) =>
                         \/ rows[j].in = now
                         \/ /\ j \in Ids /\ IsOpen(entries[j])
                            /\ rows[j].emp = entries[j].emp /\ rows[j].in = entries[j].in
                    /\ Recorded(rows[j]) =>
                         \/ PieceOf(rows[j])
                         \/ /\ rows[j].out <= now
                            /\ \A k \in 1 .. Len(rows) :
                                 IsOpen(rows[k]) /\ rows[k].emp = rows[j].emp
                                 => rows[j].out <= rows[k].in
  BY DEF Timely
<1>1. CASE j \in Ids /\ j # i
  <2>1. rows[j] = entries[j]
    BY <1>1
  <2> QED BY <1>1, <2>1, PieceOfItself
<1>2. CASE j = i
  <2>1. ASSUME NEW k \in 1 .. Len(rows), IsOpen(rows[k]), rows[k].emp = rows[i].emp, k # i
        PROVE  rows[k].in = now \/ (k \in OpenRows(rows[i].emp) /\ rows[k] = entries[k])
    BY <2>1, EntryRow DEF OpenRows, RowsOf
  <2>2. \A k \in 1 .. Len(rows) : Past(rows[i], {i}) /\ k # i =>
          (IsOpen(rows[k]) /\ rows[k].emp = rows[i].emp => rows[i].out <= rows[k].in)
    BY <2>1 DEF Past
  <2> QED BY <1>2, <2>2, OpenOrRecorded DEF Due, Keeps, Past
<1>3. CASE j > Len(entries)
  BY <1>3
<1> QED BY <1>1, <1>2, <1>3, EntryRow

\* Revising a row.
LEMMA ReviseStep ==
    ASSUME IInv, NEW i \in Ids, NEW r \in Row, Keeps(i, r),
           IsOpen(r) => r.in = entries[i].in, Due(r, {i})
    PROVE  /\ Extends(Revise(entries, i, r))
           /\ Owns(Revise(entries, i, r), entries[i].emp)
           /\ Timely(Revise(entries, i, r))
           /\ Logs(Revise(entries, i, r), {i})
           /\ \/ mode # "Solo" /\ r.mode # "Solo"
              \/ IsOpen(entries[i]) /\ r.mode # mode /\ r.out # Running /\ ~r.voided
              => Logs(Revise(entries, i, r), {})
<1> DEFINE rows == Revise(entries, i, r)
<1>1. /\ rows \in Seq(Row) /\ Len(rows) = Len(entries)
      /\ rows[i].rev = entries[i].rev + 1 /\ Keeps(i, rows[i])
      /\ rows[i].in = r.in /\ rows[i].out = r.out /\ rows[i].voided = r.voided
      /\ (IsOpen(rows[i]) <=> IsOpen(r)) /\ (Recorded(rows[i]) <=> Recorded(r))
      /\ \A j \in 1 .. Len(entries) : j # i => rows[j] = entries[j]
  BY Revised
<1> HIDE DEF rows
<1>2. \A j \in 1 .. Len(entries) : Keeps(j, rows[j])
  BY <1>1, EntryRow DEF Keeps
<1>3. Extends(rows)
  BY <1>1, <1>2, EntryRow, SingleKept DEF Extends
<1>4. Owns(rows, entries[i].emp)
  BY <1>1, EntryRow DEF Owns, Keeps
<1>5. Logs(rows, {i})
  BY <1>1, EntryRow DEF Logs
<1>6. ASSUME mode # "Solo", r.mode # "Solo" PROVE Logs(rows, {})
  BY <1>1, <1>6, EntryRow DEF Logs, Keeps
<1>7. ASSUME IsOpen(entries[i]), r.mode # mode, r.out # Running, ~r.voided
      PROVE  Logs(rows, {})
  BY <1>1, <1>7, EntryRow DEF Logs, Keeps, Leftover
<1>8. Timely(rows)
  <2>1. Due(rows[i], {i})
    BY <1>1 DEF Due, PieceOf, Past, Keeps
  <2>2. /\ Len(rows) \in Nat /\ Len(entries) <= Len(rows)
        /\ \A j \in Ids : j # i => rows[j] = entries[j]
        /\ \A j \in 1 .. Len(rows) : ~(j > Len(entries))
    BY <1>1, EntryRow
  <2>3. IsOpen(rows[i]) => rows[i].in = entries[i].in
    BY <1>1
  <2> QED BY <1>1, <2>1, <2>2, <2>3, RevisedTimely
<1> QED BY <1>3, <1>4, <1>5, <1>6, <1>7, <1>8 DEF rows

\* Ending a row's interval and adding the row that follows it.
LEMMA ReviseAppendStep ==
    ASSUME IInv, NEW i \in Ids, NEW r \in Row, Keeps(i, r), ~IsOpen(r),
           NEW q \in Row, q.rev = 0, q.mode = r.mode, q.emp = r.emp,
           IsOpen(q) => IsOpen(entries[i]) /\ q.in = now, Fit(q),
           Due(r, {i}), Recorded(q) => PieceOf(q)
    PROVE  /\ Extends(Append(Revise(entries, i, r), q))
           /\ Owns(Append(Revise(entries, i, r), q), entries[i].emp)
           /\ Timely(Append(Revise(entries, i, r), q))
           /\ Logs(Append(Revise(entries, i, r), q), {i, NewId})
           /\ mode # "Solo" /\ r.mode # "Solo" => Logs(Append(Revise(entries, i, r), q), {})
<1> DEFINE rev == Revise(entries, i, r)
           rows == Append(rev, q)
<1>1. /\ rev \in Seq(Row) /\ Len(rev) = Len(entries)
      /\ rev[i].rev = entries[i].rev + 1 /\ Keeps(i, rev[i]) /\ ~IsOpen(rev[i])
      /\ rev[i].out = r.out /\ (Recorded(rev[i]) <=> Recorded(r))
      /\ \A j \in 1 .. Len(entries) : j # i => rev[j] = entries[j]
  BY Revised
<1> HIDE DEF rev
<1>2. /\ rows \in Seq(Row) /\ Len(rows) = Len(entries) + 1
      /\ rows[Len(entries) + 1] = q
      /\ \A j \in 1 .. Len(entries) : rows[j] = rev[j]
  BY <1>1
<1> HIDE DEF rows
<1>3. i \in 1 .. Len(entries) /\ Len(entries) \in Nat /\ NewId = Len(entries) + 1
  BY EntryRow
<1>4. /\ rows[i].rev = entries[i].rev + 1 /\ ~IsOpen(rows[i])
      /\ \A j \in 1 .. Len(entries) : j # i => rows[j] = entries[j]
      /\ \A j \in 1 .. Len(entries) : Keeps(j, rows[j])
  BY <1>1, <1>2, <1>3, EntryRow DEF Keeps
<1>5. Single(rows)
  <2> SUFFICES ASSUME NEW j \in 1 .. Len(entries) + 1, NEW k \in 1 .. Len(entries) + 1,
                      IsOpen(rows[j]), IsOpen(rows[k]), rows[j].emp = rows[k].emp
               PROVE  j = k
    BY <1>2 DEF Single
  <2>1. CASE j \in 1 .. Len(entries) /\ k \in 1 .. Len(entries)
    BY <2>1, <1>4, EntryRow DEF Single
  <2>2. CASE j = Len(entries) + 1 /\ k \in 1 .. Len(entries)
    BY <2>2, <1>2, <1>3, <1>4, EntryRow DEF Single, Keeps
  <2>3. CASE k = Len(entries) + 1 /\ j \in 1 .. Len(entries)
    BY <2>3, <1>2, <1>3, <1>4, EntryRow DEF Single, Keeps
  <2> QED BY <2>1, <2>2, <2>3, <1>3
<1>6. Extends(rows)
  BY <1>2, <1>3, <1>4, <1>5 DEF Extends
<1>7. Owns(rows, entries[i].emp)
  BY <1>2, <1>3, <1>4 DEF Owns, Keeps
<1>8. Logs(rows, {i, NewId})
  BY <1>2, <1>3, <1>4 DEF Logs
<1>9. ASSUME mode # "Solo", r.mode # "Solo" PROVE Logs(rows, {})
  BY <1>9, <1>2, <1>3, <1>4 DEF Logs, Keeps
<1>10. Timely(rows)
  <2>1. rows[i] = rev[i]
    BY <1>2, <1>3
  <2>2. Due(rows[i], {i})
    BY <1>1, <2>1 DEF Due, PieceOf, Past, Keeps
  <2>3. \A j \in 1 .. Len(rows) : j > Len(entries) => rows[j] = q
    BY <1>2, <1>3
  <2>4. /\ Len(rows) \in Nat /\ Len(entries) <= Len(rows) /\ Keeps(i, rows[i])
        /\ \A j \in Ids : j # i => rows[j] = entries[j]
    BY <1>2, <1>3, <1>4, EntryRow
  <2>5. \A j \in 1 .. Len(rows) : j > Len(entries) =>
          /\ IsOpen(rows[j]) => rows[j].in = now
          /\ Recorded(rows[j]) => PieceOf(rows[j])
    BY <2>3
  <2> QED BY <1>4, <2>2, <2>4, <2>5, RevisedTimely
<1> QED BY <1>6, <1>7, <1>8, <1>9, <1>10 DEF rows, rev

-----------------------------------------------------------------------------
(* Every transaction is a LedgerStep *)

LEMMA StatusType ==
    ASSUME NEW m, NEW a, NEW b
    PROVE  StatusFor(m, a, b) \in Status
BY DEF StatusFor, Status

LEMMA BookableType ==
    ASSUME IInv, NEW t \in Bookable
    PROVE  t \in Targets \cup {NoTarget} /\ t \notin archived
BY LedgerAssumption DEF Bookable, IInv, TypeOK

LEMMA GroupType ==
    ASSUME NEW i \in Nat, NEW r \in Row
    PROVE  Group(i, r) \in Nat
BY DEF Group, Row

\* The request a commit is about, and the rows it has read.
LEMMA CallOf ==
    ASSUME IInv, NEW c \in Clients, NEW op \in Requests, InTransaction(c, op)
    PROVE  /\ IsCall(call[c]) /\ call[c] # Idle
           /\ mode = "Solo" => call[c].emp = owner
           /\ call[c].emp \in Employees
           /\ \A i \in DOMAIN call[c].view :
                i \in Ids /\ call[c].view[i] \in Row /\ entries[i].emp = call[c].emp
<1>1. call[c].op = op /\ op # "Idle"
  BY DEF InTransaction, Requests
<1>2. call[c] # Idle
  BY <1>1 DEF Idle
<1>3. IsCall(call[c])
  BY <1>2 DEF IInv, TypeOK
<1>4. mode = "Solo" => call[c].emp = owner
  BY DEF InTransaction
<1> QED BY <1>2, <1>3, <1>4 DEF IsCall, IInv, OwnRows

\* A timer that is stopped now was its employee's only one.
LEMMA OnlyTimer ==
    ASSUME IInv, NEW i \in Ids, IsOpen(entries[i]),
           NEW r, r.emp = entries[i].emp, r.out = now
    PROVE  Due(r, {i})
<1>1. OpenRows(r.emp) \ {i} = {}
  <2>1. i \in OpenRows(r.emp) /\ r.emp \in Employees
    BY EntryRow DEF OpenRows, RowsOf
  <2> QED BY <2>1 DEF IInv, OneRunningTimer
<1>2. now <= now
  BY DEF IInv, TypeOK
<1> QED BY <1>1, <1>2 DEF Due, Past

LEMMA ClockInStep ==
    ASSUME IInv, NEW c \in Clients, ClockIn(c)
    PROVE  LedgerStep(call[c].emp)
<1>1. InTransaction(c, "ClockIn") /\ "ClockIn" \in Requests
  BY DEF ClockIn, Requests
<1> DEFINE e == call[c].emp
           logged == IF mode = "Solo" THEN {NewId} ELSE {}
           new(t) == [Default(e, now, Running) EXCEPT
                        !.status = "Open", !.mode = mode, !.source = "Pwa",
                        !.target = t, !.grp = IF mode = "Solo" THEN NewId ELSE NoGroup]
<1>2. PICK t \in Bookable : Save(Append(entries, new(t)), logged)
  BY DEF ClockIn
<1>3. /\ new(t) \in Row /\ new(t).rev = 0 /\ new(t).mode = mode /\ new(t).emp = e
      /\ new(t).in = now /\ IsOpen(new(t)) /\ Fit(new(t))
  <2>1. e \in Employees /\ now \in Nat /\ mode \in Mode /\ NewId \in Nat
    BY <1>1, CallOf, EntryRow DEF IInv, TypeOK
  <2>2. t \in Targets \cup {NoTarget} /\ t \notin archived
    BY BookableType
  <2> QED BY <2>1, <2>2 DEF Default, Row, Status, Source, NoDay, NoGroup, Running, Fit, IsOpen
<1>4. OpenRows(e) = {}
  BY DEF ClockIn, TimerMayStart
<1> HIDE DEF new
<1>5. /\ Extends(Append(entries, new(t))) /\ Owns(Append(entries, new(t)), e)
      /\ Timely(Append(entries, new(t))) /\ Logs(Append(entries, new(t)), logged)
  <2>1. Due(new(t), {})
    BY <1>3, OpenOrRecorded DEF Due
  <2> QED BY <1>3, <1>4, <2>1, AppendStep
<1> QED BY <1>2, <1>5 DEF LedgerStep

LEMMA ClockOutStep ==
    ASSUME IInv, NEW c \in Clients, ClockOut(c)
    PROVE  LedgerStep(call[c].emp)
<1> DEFINE closed(i) == [entries[i] EXCEPT
                           !.out = now,
                           !.status = StatusFor(entries[i].mode, entries[i].in, now)]
           logged(i) == IF entries[i].mode = "Solo" THEN {i} ELSE {}
<1>1. PICK i \in OpenRows(call[c].emp) : Save(Revise(entries, i, closed(i)), logged(i))
  BY DEF ClockOut
<1>2. /\ i \in Ids /\ entries[i] \in Row /\ now \in Nat
      /\ entries[i].emp = call[c].emp /\ IsOpen(entries[i])
  BY EntryRow DEF OpenRows, RowsOf, IInv, TypeOK
<1>3. /\ closed(i) \in Row /\ Keeps(i, closed(i)) /\ closed(i).out = now
      /\ closed(i).out # Running /\ ~closed(i).voided
  <2>1. /\ closed(i) \in Row /\ closed(i).mode = entries[i].mode
        /\ closed(i).emp = entries[i].emp
        /\ closed(i).out = now /\ closed(i).voided = entries[i].voided
    BY <1>2, StatusType DEF Row
  <2> QED BY <1>2, <2>1, ClosedFits DEF Keeps, IsOpen, Running
<1> HIDE DEF closed
<1>4. closed(i).mode = entries[i].mode /\ entries[i].mode \in Mode /\ mode \in Mode
  BY <1>2, <1>3, RowFields DEF Keeps, IInv, TypeOK
<1>5. Due(closed(i), {i}) /\ ~IsOpen(closed(i))
  BY <1>2, <1>3, OnlyTimer DEF Keeps, IsOpen
<1>6. /\ Extends(Revise(entries, i, closed(i)))
      /\ Owns(Revise(entries, i, closed(i)), call[c].emp)
      /\ Timely(Revise(entries, i, closed(i)))
      /\ Logs(Revise(entries, i, closed(i)), logged(i))
  BY <1>2, <1>3, <1>4, <1>5, ReviseStep DEF Mode
<1> QED BY <1>1, <1>6 DEF LedgerStep

LEMMA SwitchStep ==
    ASSUME IInv, NEW c \in Clients, Switch(c)
    PROVE  LedgerStep(call[c].emp)
<1>1. InTransaction(c, "Switch") /\ "Switch" \in Requests
  BY DEF Switch, Requests
<1> DEFINE g(i) == IF entries[i].grp = NoGroup THEN i ELSE entries[i].grp
           closed(i) == [entries[i] EXCEPT !.out = now, !.status = "Approved", !.grp = g(i)]
           next(i, t) == [Default(entries[i].emp, now, Running) EXCEPT
                            !.status = "Open", !.mode = "Solo", !.source = "Pwa",
                            !.target = t, !.grp = g(i)]
<1>2. PICK i \in DOMAIN call[c].view, t \in Bookable :
        /\ entries[i].mode = "Solo" /\ entries[i].out = Running
        /\ Mutable(c, entries[i], call[c].view[i]) /\ mode = "Solo"
        /\ Save(Append(Revise(entries, i, closed(i)), next(i, t)), {i, NewId})
  BY DEF Switch
<1>3. /\ i \in Ids /\ i \in Nat /\ entries[i] \in Row /\ now \in Nat
      /\ entries[i].emp = call[c].emp /\ IsOpen(entries[i])
  <2>1. i \in Ids /\ entries[i].emp = call[c].emp  BY <1>1, CallOf
  <2> QED BY <1>2, <2>1, EntryRow DEF IInv, TypeOK, Mutable, IsOpen
<1>4. g(i) \in Nat
  BY <1>3 DEF Row
<1> HIDE DEF g
<1>5. /\ closed(i) \in Row /\ closed(i).mode = "Solo" /\ Keeps(i, closed(i))
      /\ closed(i).out = now /\ ~IsOpen(closed(i))
  <2>1. /\ closed(i) \in Row /\ closed(i).mode = "Solo" /\ closed(i).out = now
        /\ closed(i).emp = entries[i].emp
    BY <1>2, <1>3, <1>4 DEF Row, Status
  <2> QED BY <1>2, <1>3, <2>1, ClosedFits DEF Keeps
<1>6. /\ next(i, t) \in Row /\ next(i, t).rev = 0 /\ next(i, t).mode = "Solo"
      /\ next(i, t).emp = entries[i].emp /\ next(i, t).in = now
      /\ IsOpen(next(i, t)) /\ Fit(next(i, t))
  <2>1. t \in Targets \cup {NoTarget} /\ t \notin archived /\ entries[i].emp \in Employees
    BY <1>3, BookableType, RowFields
  <2> QED BY <1>3, <1>4, <2>1
      DEF Default, Row, Status, Mode, Source, NoDay, NoGroup, Running, Fit, IsOpen
<1>7. closed(i).emp = entries[i].emp
  OBVIOUS
<1> HIDE DEF closed, next
<1>8. /\ Extends(Append(Revise(entries, i, closed(i)), next(i, t)))
      /\ Owns(Append(Revise(entries, i, closed(i)), next(i, t)), call[c].emp)
      /\ Timely(Append(Revise(entries, i, closed(i)), next(i, t)))
      /\ Logs(Append(Revise(entries, i, closed(i)), next(i, t)), {i, NewId})
  <2>1. Due(closed(i), {i}) /\ ~Recorded(next(i, t))
    BY <1>3, <1>5, <1>6, <1>7, OnlyTimer, OpenOrRecorded
  <2> QED BY <1>3, <1>5, <1>6, <1>7, <2>1, ReviseAppendStep
<1> QED BY <1>2, <1>8 DEF LedgerStep

LEMMA DailyBlockStep ==
    ASSUME IInv, NEW c \in Clients, DailyBlock(c)
    PROVE  LedgerStep(call[c].emp)
<1>1. InTransaction(c, "DailyBlock") /\ "DailyBlock" \in Requests
  BY DEF DailyBlock, Requests
<1> DEFINE e == call[c].emp
           logged == IF mode = "Solo" THEN {NewId} ELSE {}
           new(a, t) == [Default(e, a, a + BlockLen) EXCEPT
                           !.mode = mode, !.source = "DailyBlock", !.day = Day(a),
                           !.target = t, !.grp = IF mode = "Solo" THEN NewId ELSE NoGroup]
<1>2. PICK a \in 0 .. Horizon, t \in Bookable : Save(Append(entries, new(a, t)), logged)
  BY DEF DailyBlock
<1>3. /\ new(a, t) \in Row /\ new(a, t).rev = 0 /\ new(a, t).mode = mode
      /\ new(a, t).emp = e /\ Fit(new(a, t)) /\ ~IsOpen(new(a, t))
      /\ new(a, t).source = "DailyBlock"
  <2>1. e \in Employees /\ mode \in Mode /\ NewId \in Nat
    BY <1>1, CallOf, EntryRow DEF IInv, TypeOK
  <2>2. a \in Nat /\ a + BlockLen \in Nat /\ Day(a) \in Nat
    BY LedgerAssumption DEF Day
  <2>3. t \in Targets \cup {NoTarget}
    BY BookableType
  <2>4. /\ new(a, t) \in Row /\ new(a, t).rev = 0 /\ new(a, t).mode = mode
        /\ new(a, t).emp = e /\ new(a, t).out = a + BlockLen
        /\ new(a, t).source = "DailyBlock"
    BY <2>1, <2>2, <2>3 DEF Default, Row, Status, Source, NoDay, NoGroup
  <2> QED BY <2>2, <2>4, ClosedFits
<1> HIDE DEF new
<1>4. /\ Extends(Append(entries, new(a, t))) /\ Owns(Append(entries, new(a, t)), e)
      /\ Timely(Append(entries, new(a, t))) /\ Logs(Append(entries, new(a, t)), logged)
  <2>1. Due(new(a, t), {})
    BY <1>3, OpenOrRecorded DEF Due
  <2> QED BY <1>3, <2>1, AppendStep
<1> QED BY <1>2, <1>4 DEF LedgerStep

\* assertNoOverlap lets no running timer have started before the end of an
\* interval that is booked.
LEMMA FreePast ==
    ASSUME IInv, NEW a, NEW b \in 0 .. now, NEW except,
           NEW r, r.out = b, Free(r.emp, a, b, except)
    PROVE  Past(r, except)
<1>1. b <= now /\ b # Running
  BY DEF IInv, TypeOK, Running
<1>2. ASSUME NEW j \in OpenRows(r.emp) \ except PROVE b <= entries[j].in
  <2>1. /\ j \in RowsOf(r.emp) \ except /\ j \in Ids /\ Effective(entries[j])
        /\ entries[j].out = Running /\ entries[j].in \in Nat
    BY <1>2, EntryRow, RowFields DEF OpenRows, RowsOf, IsOpen, Effective, Fit
  <2>2. ~(entries[j].in < b)
    BY <1>1, <2>1 DEF Free
  <2> QED BY <2>1, <2>2 DEF IInv, TypeOK
<1> QED BY <1>1, <1>2 DEF Past

LEMMA ManualStep ==
    ASSUME IInv, NEW c \in Clients, Manual(c)
    PROVE  LedgerStep(call[c].emp)
<1>1. InTransaction(c, "Manual") /\ "Manual" \in Requests
  BY DEF Manual, Requests
<1> DEFINE e == call[c].emp
           new(a, b, t) == [Default(e, a, b) EXCEPT
                              !.mode = "Solo", !.target = t, !.grp = NewId]
<1>2. PICK a \in 0 .. now, b \in 0 .. now, t \in Bookable :
        Free(e, a, b, {}) /\ Save(Append(entries, new(a, b, t)), {NewId})
  BY DEF Manual
<1>3. /\ new(a, b, t) \in Row /\ new(a, b, t).rev = 0 /\ new(a, b, t).emp = e
      /\ new(a, b, t).out = b /\ Fit(new(a, b, t)) /\ ~IsOpen(new(a, b, t))
  <2>1. e \in Employees /\ NewId \in Nat /\ a \in Nat /\ b \in Nat
    BY <1>1, CallOf, EntryRow DEF IInv, TypeOK
  <2>2. t \in Targets \cup {NoTarget}
    BY BookableType
  <2>3. /\ new(a, b, t) \in Row /\ new(a, b, t).rev = 0
        /\ new(a, b, t).out = b /\ new(a, b, t).emp = e
    BY <2>1, <2>2 DEF Default, Row, Status, Mode, Source, NoDay, NoGroup
  <2> QED BY <2>1, <2>3, ClosedFits
<1> HIDE DEF new
<1>4. /\ Extends(Append(entries, new(a, b, t))) /\ Owns(Append(entries, new(a, b, t)), e)
      /\ Timely(Append(entries, new(a, b, t)))
      /\ Logs(Append(entries, new(a, b, t)), {NewId})
  <2>1. Due(new(a, b, t), {})
    BY <1>2, <1>3, FreePast DEF Due
  <2> QED BY <1>3, <2>1, AppendStep
<1> QED BY <1>2, <1>4 DEF LedgerStep

\* A revised row, of any mode and in any mode, is logged as LogEdit says.
LEMMA EditStep ==
    ASSUME IInv, NEW i \in Ids, NEW r \in Row, Keeps(i, r),
           IsOpen(r) => r.in = entries[i].in, Due(r, {i}),
           Save(Revise(entries, i, r), LogEdit(i, {}))
    PROVE  LedgerStep(entries[i].emp)
<1>1. /\ Extends(Revise(entries, i, r)) /\ Owns(Revise(entries, i, r), entries[i].emp)
      /\ Timely(Revise(entries, i, r))
      /\ Logs(Revise(entries, i, r), LogEdit(i, {}))
  <2>1. CASE mode = "Solo" \/ entries[i].mode = "Solo"
    BY <2>1, ReviseStep DEF LogEdit
  <2>2. CASE mode # "Solo" /\ entries[i].mode # "Solo"
    BY <2>2, ReviseStep DEF LogEdit, Keeps
  <2> QED BY <2>1, <2>2
<1> QED BY <1>1 DEF LedgerStep

LEMMA UpdateStep ==
    ASSUME IInv, NEW c \in Clients, Update(c)
    PROVE  LedgerStep(call[c].emp)
<1>1. InTransaction(c, "Update") /\ "Update" \in Requests
  BY DEF Update, Requests
<1> DEFINE moved(i, t) == [entries[i] EXCEPT !.target = t]
<1>a. PICK i \in DOMAIN call[c].view : \E t \in Bookable \cup {entries[i].target} :
        Save(Revise(entries, i, moved(i, t)), LogEdit(i, {}))
  BY DEF Update
<1>2. PICK t \in Bookable \cup {entries[i].target} :
        Save(Revise(entries, i, moved(i, t)), LogEdit(i, {}))
  BY <1>a
<1>3. i \in Ids /\ entries[i] \in Row /\ Fit(entries[i]) /\ entries[i].emp = call[c].emp
  BY <1>1, CallOf, EntryRow
<1>5. Due(moved(i, t), {i}) /\ moved(i, t).in = entries[i].in
  <2>1. /\ moved(i, t).in = entries[i].in /\ moved(i, t).emp = entries[i].emp
        /\ moved(i, t).out = entries[i].out /\ (Recorded(moved(i, t)) <=> Recorded(entries[i]))
    BY <1>3 DEF Row, Recorded, IsClosed, Effective, BookedAhead
  <2> HIDE DEF moved
  <2>2. Recorded(moved(i, t)) => PieceOf(moved(i, t))
    BY <1>3, <2>1, PieceOfItself, PieceOfRow
  <2> QED BY <2>1, <2>2 DEF Due
<1>4. moved(i, t) \in Row /\ Keeps(i, moved(i, t))
  <2>1. t \in Targets \cup {NoTarget} /\ (t = entries[i].target \/ t \notin archived)
    BY <1>3, BookableType DEF Row
  <2> QED BY <1>3, <2>1 DEF Row, Keeps, Fit, IsOpen
<1> HIDE DEF moved
<1> QED BY <1>2, <1>3, <1>4, <1>5, EditStep

LEMMA SplitStep ==
    ASSUME IInv, NEW c \in Clients, Split(c)
    PROVE  LedgerStep(call[c].emp)
<1>1. InTransaction(c, "Split") /\ "Split" \in Requests
  BY DEF Split, Requests
<1> DEFINE seen(i) == call[c].view[i]
           st(i, a, b) == IF seen(i).status = "Rejected" THEN "Rejected"
                          ELSE StatusFor(seen(i).mode, a, b)
           head(i, at) == [entries[i] EXCEPT !.out = at, !.grp = Group(i, seen(i)),
                                             !.status = st(i, seen(i).in, at)]
           tail(i, at, t) == [seen(i) EXCEPT !.in = at, !.status = st(i, at, seen(i).out),
                                             !.grp = Group(i, seen(i)), !.target = t,
                                             !.day = NoDay, !.rev = 0]
           rows(i, at, t) == Append(Revise(entries, i, head(i, at)), tail(i, at, t))
<1>2. PICK i \in DOMAIN call[c].view, at \in 0 .. LastInstant :
        /\ Current(c, i) /\ at < seen(i).out
        /\ \E t \in Bookable \cup {seen(i).target} : Save(rows(i, at, t), LogEdit(i, {NewId}))
  BY DEF Split
<1>3. PICK t \in Bookable \cup {seen(i).target} : Save(rows(i, at, t), LogEdit(i, {NewId}))
  BY <1>2
<1>4. /\ i \in Ids /\ i \in Nat /\ at \in Nat /\ entries[i].emp = call[c].emp
      /\ seen(i) \in Row /\ entries[i] \in Row /\ seen(i) = entries[i]
  <2>1. i \in Ids /\ seen(i) \in Row /\ call[c] # Idle /\ entries[i].emp = call[c].emp
    BY <1>1, CallOf
  <2>2. entries[i].rev = seen(i).rev
    BY <1>2 DEF Current
  <2>3. i \in Nat /\ at \in Nat /\ entries[i] \in Row
    BY <2>1, EntryRow, LedgerAssumption DEF LastInstant
  <2>4. seen(i) = entries[i]
    BY <2>1, <2>2 DEF IInv, RevisionsTellVersionsApart
  <2> QED BY <2>1, <2>3, <2>4
<1>5. seen(i).out \in Nat
  BY <1>2, <1>4 DEF Running, Row
<1>9. \A a, b : /\ st(i, a, b) \in Status
                /\ st(i, a, b) # "Rejected" => seen(i).status # "Rejected"
  BY StatusType DEF Status
<1> HIDE DEF seen, st
<1>6. /\ head(i, at) \in Row /\ Keeps(i, head(i, at)) /\ ~IsOpen(head(i, at))
      /\ head(i, at).emp = entries[i].emp /\ head(i, at).mode = entries[i].mode
      /\ Due(head(i, at), {i})
  <2>1. /\ head(i, at) \in Row /\ head(i, at).mode = entries[i].mode
        /\ head(i, at).emp = entries[i].emp /\ head(i, at).out = at
        /\ head(i, at).voided = entries[i].voided /\ head(i, at).source = entries[i].source
        /\ head(i, at).status = st(i, seen(i).in, at)
    BY <1>4, <1>9, GroupType DEF Row
  <2> HIDE DEF head
  <2>2. Recorded(head(i, at)) => Recorded(entries[i])
    BY <1>4, <1>5, <1>9, <2>1 DEF Recorded, IsClosed, Effective, BookedAhead, Running
  <2>3. at <= entries[i].out
    BY <1>2, <1>4, <1>5
  <2>4. Recorded(head(i, at)) => PieceOf(head(i, at))
    BY <1>4, <2>1, <2>2, <2>3, PieceOfRow
  <2> QED BY <1>4, <2>1, <2>4, ClosedFits DEF Keeps, Due
<1>7. /\ tail(i, at, t) \in Row /\ tail(i, at, t).rev = 0
      /\ tail(i, at, t).mode = entries[i].mode /\ tail(i, at, t).emp = entries[i].emp
      /\ Fit(tail(i, at, t)) /\ ~IsOpen(tail(i, at, t))
      /\ Recorded(tail(i, at, t)) => PieceOf(tail(i, at, t))
  <2>1. t \in Targets \cup {NoTarget}
    BY <1>4, BookableType DEF Row
  <2>2. /\ tail(i, at, t) \in Row /\ tail(i, at, t).rev = 0
        /\ tail(i, at, t).mode = entries[i].mode /\ tail(i, at, t).emp = entries[i].emp
        /\ tail(i, at, t).out = seen(i).out
        /\ tail(i, at, t).voided = entries[i].voided
        /\ tail(i, at, t).source = entries[i].source
        /\ tail(i, at, t).status = st(i, at, seen(i).out)
    BY <2>1, <1>4, <1>9, GroupType DEF Row, NoDay
  <2> HIDE DEF tail
  <2>3. Recorded(tail(i, at, t)) => Recorded(entries[i])
    BY <1>4, <1>5, <1>9, <2>2 DEF Recorded, IsClosed, Effective, BookedAhead, Running
  <2> QED BY <1>4, <1>5, <2>2, <2>3, ClosedFits, PieceOfItself, PieceOfRow
<1> HIDE DEF head, tail
<1>8. /\ Extends(rows(i, at, t)) /\ Owns(rows(i, at, t), call[c].emp)
      /\ Timely(rows(i, at, t))
  BY <1>4, <1>6, <1>7, ReviseAppendStep
<1>10. Logs(rows(i, at, t), LogEdit(i, {NewId}))
  <2>1. CASE mode = "Solo" \/ entries[i].mode = "Solo"
    <3>1. LogEdit(i, {NewId}) = {i, NewId}
      BY <2>1 DEF LogEdit
    <3> QED BY <3>1, <1>4, <1>6, <1>7, ReviseAppendStep
  <2>2. CASE mode # "Solo" /\ entries[i].mode # "Solo"
    <3>1. LogEdit(i, {NewId}) = {}
      BY <2>2 DEF LogEdit
    <3> QED BY <2>2, <3>1, <1>4, <1>6, <1>7, ReviseAppendStep
  <2> QED BY <2>1, <2>2
<1> QED BY <1>3, <1>8, <1>10 DEF LedgerStep

LEMMA CorrectStep ==
    ASSUME IInv, NEW c \in Clients, Correct(c)
    PROVE  LedgerStep(call[c].emp)
<1>1. InTransaction(c, "Correct") /\ "Correct" \in Requests
  BY DEF Correct, Requests
<1> DEFINE st(i) == IF entries[i].mode = "Solo" THEN "Approved" ELSE entries[i].status
           new(i, a, b, t) ==
             [entries[i] EXCEPT !.in = a, !.out = b, !.target = t,
                                !.day = DayAfterCorrection(entries[i]),
                                !.status = st(i)]
<1>a. PICK i \in DOMAIN call[c].view, a \in 0 .. now, b \in 0 .. now :
        /\ Free(entries[i].emp, a, b, {i})
        /\ \E t \in Bookable \cup {call[c].view[i].target} :
          Save(Revise(entries, i, new(i, a, b, t)), {i})
  BY DEF Correct
<1>2. PICK t \in Bookable \cup {call[c].view[i].target} :
        Save(Revise(entries, i, new(i, a, b, t)), {i})
  BY <1>a
<1>3. /\ i \in Ids /\ call[c].view[i] \in Row /\ entries[i] \in Row
      /\ entries[i].emp = call[c].emp /\ a \in Nat /\ b \in Nat
  BY <1>1, CallOf, EntryRow DEF IInv, TypeOK
<1>4. /\ new(i, a, b, t) \in Row /\ Keeps(i, new(i, a, b, t))
      /\ new(i, a, b, t).out = b /\ ~IsOpen(new(i, a, b, t))
  <2>1. t \in Targets \cup {NoTarget}
    BY <1>3, BookableType DEF Row
  <2>2. DayAfterCorrection(entries[i]) \in Nat \cup {NoDay}
    BY <1>3 DEF DayAfterCorrection, Row
  <2>3. st(i) \in Status
    BY <1>3 DEF Row, Status
  <2> HIDE DEF st
  <2>4. /\ new(i, a, b, t) \in Row /\ new(i, a, b, t).mode = entries[i].mode
        /\ new(i, a, b, t).emp = entries[i].emp /\ new(i, a, b, t).out = b
    BY <1>3, <2>1, <2>2, <2>3 DEF Row
  <2> QED BY <1>3, <2>4, ClosedFits DEF Keeps
<1> HIDE DEF new
<1>5. /\ Extends(Revise(entries, i, new(i, a, b, t)))
      /\ Owns(Revise(entries, i, new(i, a, b, t)), call[c].emp)
      /\ Timely(Revise(entries, i, new(i, a, b, t)))
      /\ Logs(Revise(entries, i, new(i, a, b, t)), {i})
  <2>1. Due(new(i, a, b, t), {i})
    BY <1>a, <1>4, FreePast DEF Due, Keeps
  <2> QED BY <1>3, <1>4, <2>1, ReviseStep
<1> QED BY <1>2, <1>5 DEF LedgerStep

LEMMA VoidStep ==
    ASSUME IInv, NEW c \in Clients, Void(c)
    PROVE  LedgerStep(call[c].emp)
<1>1. InTransaction(c, "Void") /\ "Void" \in Requests
  BY DEF Void, Requests
<1> DEFINE end(i) == IF now > entries[i].in THEN now ELSE entries[i].in + 1
           new(i) == [entries[i] EXCEPT !.voided = TRUE, !.day = NoDay,
                        !.out = IF entries[i].out = Running THEN end(i) ELSE @]
<1>2. PICK i \in DOMAIN call[c].view : Save(Revise(entries, i, new(i)), {i})
  BY DEF Void
<1>3. i \in Ids /\ entries[i] \in Row /\ now \in Nat /\ entries[i].emp = call[c].emp
  BY <1>1, CallOf, EntryRow DEF IInv, TypeOK
<1>4. end(i) \in Nat
  BY <1>3 DEF Row
<1> HIDE DEF end
<1>5. new(i) \in Row /\ Keeps(i, new(i)) /\ new(i).voided
  BY <1>3, <1>4 DEF Row, NoDay, Keeps, Fit, IsOpen
<1> HIDE DEF new
<1>6. /\ Extends(Revise(entries, i, new(i))) /\ Owns(Revise(entries, i, new(i)), call[c].emp)
      /\ Timely(Revise(entries, i, new(i))) /\ Logs(Revise(entries, i, new(i)), {i})
  <2>1. ~IsOpen(new(i)) /\ Due(new(i), {i})
    BY <1>5 DEF IsOpen, Due, Recorded, IsClosed, Effective
  <2> QED BY <1>3, <1>5, <2>1, ReviseStep
<1> QED BY <1>2, <1>6 DEF LedgerStep

LEMMA TerminalStep ==
    ASSUME IInv, NEW e \in Employees, TerminalBook(e)
    PROVE  LedgerStep(e)
<1> DEFINE new == [Default(e, now, Running) EXCEPT !.status = "Open", !.source = "Terminal"]
           closed(i) == [entries[i] EXCEPT
                           !.out = now, !.status = StatusFor("Team", entries[i].in, now)]
<1>1. now \in Nat /\ mode = "Team"
  BY DEF IInv, TypeOK, TerminalBook
<1>2. CASE TimerMayStart(e) /\ Save(Append(entries, new), {})
  <2>1. NoTarget \notin archived
    BY LedgerAssumption DEF IInv, TypeOK
  <2>2. /\ new \in Row /\ new.rev = 0 /\ new.mode = "Team" /\ new.emp = e /\ Fit(new)
        /\ new.in = now /\ IsOpen(new)
    BY <1>1, <2>1 DEF Default, Row, Status, Mode, Source, NoDay, NoGroup, Running, Fit, IsOpen
  <2>3. OpenRows(e) = {}
    BY <1>2 DEF TimerMayStart
  <2> HIDE DEF new
  <2>4. /\ Extends(Append(entries, new)) /\ Owns(Append(entries, new), e)
        /\ Timely(Append(entries, new)) /\ Logs(Append(entries, new), {})
    <3>1. Due(new, {})
      BY <2>2, OpenOrRecorded DEF Due
    <3> QED BY <1>1, <2>2, <2>3, <3>1, AppendStep
  <2> QED BY <1>2, <2>4 DEF LedgerStep
<1>3. CASE \E i \in OpenRows(e) : Save(Revise(entries, i, closed(i)), {})
  <2>1. PICK i \in OpenRows(e) : Save(Revise(entries, i, closed(i)), {})
    BY <1>3
  <2>2. i \in Ids /\ entries[i] \in Row /\ entries[i].emp = e /\ IsOpen(entries[i])
    BY EntryRow DEF OpenRows, RowsOf
  <2>3. /\ closed(i) \in Row /\ Keeps(i, closed(i))
        /\ closed(i).out = now /\ closed(i).out # Running
        /\ ~closed(i).voided /\ closed(i).mode = entries[i].mode
    <3>1. /\ closed(i) \in Row /\ closed(i).mode = entries[i].mode
          /\ closed(i).emp = entries[i].emp
          /\ closed(i).out = now /\ closed(i).voided = entries[i].voided
      BY <1>1, <2>2, StatusType DEF Row
    <3> QED BY <1>1, <2>2, <3>1, ClosedFits DEF Keeps, IsOpen, Running
  <2> HIDE DEF closed
  <2>4. /\ Extends(Revise(entries, i, closed(i))) /\ Owns(Revise(entries, i, closed(i)), e)
        /\ Timely(Revise(entries, i, closed(i))) /\ Logs(Revise(entries, i, closed(i)), {})
    <3>1. Due(closed(i), {i}) /\ ~IsOpen(closed(i))
      BY <2>2, <2>3, OnlyTimer DEF Keeps, IsOpen
    <3> QED BY <1>1, <2>2, <2>3, <3>1, ReviseStep
  <2> QED BY <2>1, <2>4 DEF LedgerStep
<1> QED BY <1>2, <1>3 DEF TerminalBook

LEMMA ApproveStep ==
    ASSUME IInv, NEW c \in Clients, Approve(c)
    PROVE  LedgerStep(call[c].emp)
<1> DEFINE e == call[c].emp
           new(a, b) == Default(e, a, b)
<1>1. PICK x \in Adjustments : Save(Append(entries, new(x[1], x[2])), {})
  BY DEF Approve
<1>2. e \in Employees
  BY DEF Approve, Idle, IInv, TypeOK, IsCall
<1>3. x[1] \in Nat /\ x[2] \in Nat
  BY LedgerAssumption
<1>4. /\ new(x[1], x[2]) \in Row /\ new(x[1], x[2]).rev = 0 /\ new(x[1], x[2]).emp = e
      /\ Fit(new(x[1], x[2])) /\ ~IsOpen(new(x[1], x[2])) /\ Due(new(x[1], x[2]), {})
  <2>1. /\ new(x[1], x[2]) \in Row /\ new(x[1], x[2]).rev = 0
        /\ new(x[1], x[2]).emp = e /\ new(x[1], x[2]).out = x[2]
        /\ BookedAhead(new(x[1], x[2]))
    BY <1>2, <1>3, DefaultRow DEF Default, BookedAhead
  <2> QED BY <1>3, <2>1, ClosedFits DEF Due, Recorded
<1> HIDE DEF new
<1>5. /\ Extends(Append(entries, new(x[1], x[2]))) /\ Owns(Append(entries, new(x[1], x[2])), e)
      /\ Timely(Append(entries, new(x[1], x[2])))
  BY <1>4, AppendStep
<1>6. Approval
  BY DEF Approve, Approval, Finish, IInv, TypeOK
<1>7. Logs(Append(entries, new(x[1], x[2])), {})
  BY <1>6 DEF Logs
<1> QED BY <1>1, <1>5, <1>7 DEF LedgerStep

-----------------------------------------------------------------------------
(* bookProjectRange revises several rows and adds up to two *)

\* A piece of a closed row is a closed row of the same owner, mode and revision.
LEMMA SegmentRow ==
    ASSUME IInv, NEW i \in Ids, NEW a \in Nat, NEW b \in Nat, NEW from, NEW to,
           NEW t \in Bookable
    PROVE  /\ Segment(i, a, b, from, to, t) \in Row
           /\ Segment(i, a, b, from, to, t).mode = entries[i].mode
           /\ Segment(i, a, b, from, to, t).emp = entries[i].emp
           /\ Segment(i, a, b, from, to, t).rev = entries[i].rev
           /\ Segment(i, a, b, from, to, t).out = b
           /\ Segment(i, a, b, from, to, t).source = entries[i].source
           /\ Segment(i, a, b, from, to, t).voided = entries[i].voided
<1> DEFINE target == IF from <= a /\ b <= to THEN t ELSE entries[i].target
           group == Group(i, entries[i])
           status == StatusFor(entries[i].mode, a, b)
<1>1. entries[i] \in Row /\ i \in Nat
  BY EntryRow
<1>2. target \in Targets \cup {NoTarget}
  BY <1>1, BookableType DEF Row
<1>3. group \in Nat
  BY <1>1, GroupType
<1>4. status \in Status
  BY StatusType
<1>5. Segment(i, a, b, from, to, t) =
        [entries[i] EXCEPT !.in = a, !.out = b, !.grp = group,
                           !.status = status, !.target = target]
  BY DEF Segment
<1> HIDE DEF target, group, status
<1> QED BY <1>1, <1>2, <1>3, <1>4, <1>5 DEF Row

\* The rows a range booking cuts are the employee's, and have an end.
LEMMA OverlappingClosed ==
    ASSUME IInv, NEW e, NEW from, NEW to, NEW i \in Overlapping(e, from, to)
    PROVE  /\ i \in Ids /\ entries[i] \in Row /\ entries[i].out \in Nat
           /\ entries[i].emp = e /\ IsClosed(entries[i])
<1>1. /\ i \in Ids /\ entries[i].out # Running
      /\ entries[i].emp = e /\ IsClosed(entries[i])
  BY DEF Overlapping, RowsOf, IsClosed
<1> QED BY <1>1, EntryRow DEF Row

\* It is due where the row was: the cut ends no later than the row.
LEMMA CutDue ==
    ASSUME IInv, NEW e, NEW from, NEW to, NEW i \in Overlapping(e, from, to),
           NEW r, r.emp = e, r.mode = entries[i].mode, r.source = entries[i].source,
           r.out \in Nat, r.out <= entries[i].out
    PROVE  Recorded(r) => PieceOf(r)
<1>1. i \in Ids /\ entries[i].emp = e /\ IsClosed(entries[i])
  BY OverlappingClosed
<1>2. Recorded(r) => Recorded(entries[i])
  BY <1>1 DEF Recorded, BookedAhead
<1> QED BY <1>1, <1>2, PieceOfRow

\* A row that a transaction may add for e: a finished interval.
New(r, e) ==
    r.rev = 0 /\ r.emp = e /\ Fit(r) /\ ~IsOpen(r) /\ (Recorded(r) => PieceOf(r))

Fresh(new, e) == new \in Seq(Row) /\ \A j \in 1 .. Len(new) : New(new[j], e)

\* At most one row is new at each end of the range, and it is closed.
LEMMA NewSegmentRows ==
    ASSUME IInv, NEW e, NEW from \in Nat, NEW to \in Nat, NEW t \in Bookable,
           NEW p \in Nat, NEW end \in Nat
    PROVE  Fresh(NewSegment(Overlapping(e, from, to), p, end, from, to, t), e)
<1> DEFINE over == Overlapping(e, from, to)
           i == CHOOSE i \in CutAt(over, p) : TRUE
           b == IF end < entries[i].out THEN end ELSE entries[i].out
           q == [Segment(i, p, b, from, to, t) EXCEPT !.rev = 0, !.day = NoDay]
<1>1. CASE CutAt(over, p) = {}
  BY <1>1 DEF NewSegment, Fresh
<1>2. CASE CutAt(over, p) # {}
  <2>1. i \in over
    BY <1>2 DEF CutAt
  <2>2. /\ i \in Ids /\ b \in Nat /\ entries[i].emp = e
        /\ b <= entries[i].out /\ i \in Overlapping(e, from, to)
    BY <2>1, OverlappingClosed
  <2>3. NewSegment(over, p, end, from, to, t) = <<q>>
    BY <1>2 DEF NewSegment
  <2> HIDE DEF over, i, b
  <2>4. /\ Segment(i, p, b, from, to, t) \in Row
        /\ Segment(i, p, b, from, to, t).out = b /\ Segment(i, p, b, from, to, t).emp = e
        /\ Segment(i, p, b, from, to, t).mode = entries[i].mode
        /\ Segment(i, p, b, from, to, t).source = entries[i].source
    BY <2>2, SegmentRow
  <2>5. /\ q \in Row /\ q.rev = 0 /\ q.out = b /\ q.emp = e
        /\ q.mode = entries[i].mode /\ q.source = entries[i].source
    BY <2>4 DEF Row, NoDay
  <2> HIDE DEF q
  <2>6. New(q, e)
    BY <2>2, <2>5, ClosedFits, CutDue DEF New
  <2>7. Fresh(<<q>>, e)
    BY <2>5, <2>6 DEF Fresh
  <2> QED BY <2>3, <2>7 DEF over
<1> QED BY <1>1, <1>2

\* Adding rows keeps those there are, and adds no others.
LEMMA Extended ==
    ASSUME NEW rows \in Seq(Row), NEW new, NEW e, Fresh(new, e)
    PROVE  /\ rows \o new \in Seq(Row)
           /\ Len(rows) \in Nat /\ Len(rows \o new) \in Nat /\ Len(rows) <= Len(rows \o new)
           /\ \A j \in 1 .. Len(rows) : (rows \o new)[j] = rows[j]
           /\ \A j \in 1 .. Len(rows \o new) : j > Len(rows) => New((rows \o new)[j], e)
<1>1. new \in Seq(Row) /\ rows \o new \in Seq(Row)
  BY DEF Fresh
<1>2. /\ Len(rows) \in Nat /\ Len(new) \in Nat
      /\ Len(rows \o new) = Len(rows) + Len(new)
      /\ \A j \in 1 .. Len(rows) : (rows \o new)[j] = rows[j]
      /\ \A j \in 1 .. Len(rows) + Len(new) : j > Len(rows) =>
           (rows \o new)[j] = new[j - Len(rows)]
  BY <1>1
<1>3. ASSUME NEW j \in 1 .. Len(rows) + Len(new), j > Len(rows)
      PROVE  New((rows \o new)[j], e)
  <2>1. j - Len(rows) \in 1 .. Len(new)
    BY <1>2, <1>3
  <2> QED BY <1>2, <1>3, <2>1 DEF Fresh
<1> QED BY <1>1, <1>2, <1>3

\* Both ends of the range added to the rows kept.
LEMMA ExtendedTwice ==
    ASSUME IInv, NEW kept \in Seq(Row), Len(kept) = Len(entries),
           NEW one, NEW two, NEW e, Fresh(one, e), Fresh(two, e)
    PROVE  /\ (kept \o one) \o two \in Seq(Row)
           /\ Len((kept \o one) \o two) \in Nat
           /\ Len(entries) <= Len((kept \o one) \o two)
           /\ \A i \in 1 .. Len(entries) : ((kept \o one) \o two)[i] = kept[i]
           /\ \A i \in 1 .. Len((kept \o one) \o two) :
                i > Len(entries) => New(((kept \o one) \o two)[i], e)
<1> DEFINE ko == kept \o one
<1>1. /\ ko \in Seq(Row) /\ Len(ko) \in Nat /\ Len(entries) <= Len(ko)
      /\ \A j \in 1 .. Len(entries) : ko[j] = kept[j]
      /\ \A j \in 1 .. Len(ko) : j > Len(entries) => New(ko[j], e)
  BY Extended
<1> HIDE DEF ko
<1>2. /\ ko \o two \in Seq(Row) /\ Len(ko \o two) \in Nat /\ Len(ko) <= Len(ko \o two)
      /\ \A j \in 1 .. Len(ko) : (ko \o two)[j] = ko[j]
      /\ \A j \in 1 .. Len(ko \o two) : j > Len(ko) => New((ko \o two)[j], e)
  BY <1>1, Extended
<1>3. /\ ko \o two \in Seq(Row) /\ Len(ko \o two) \in Nat /\ Len(entries) <= Len(ko \o two)
      /\ \A i \in 1 .. Len(entries) : (ko \o two)[i] = kept[i]
      /\ \A i \in 1 .. Len(ko \o two) : i > Len(entries) => New((ko \o two)[i], e)
  BY <1>1, <1>2, EntryRow
<1> QED BY <1>3 DEF ko

LEMMA RangeBookStep ==
    ASSUME IInv, NEW c \in Clients, RangeBook(c)
    PROVE  LedgerStep(call[c].emp)
<1> DEFINE e == call[c].emp
           over(from, to) == Overlapping(e, from, to)
           result(from, to, t) == Carved(over(from, to), from, to, t)
<1>1. PICK from \in 0 .. LastInstant, to \in 0 .. LastInstant, t \in Bookable :
        Save(result(from, to, t), LogCarved(over(from, to), result(from, to, t)))
  BY DEF RangeBook
<1>2. from \in Nat /\ to \in Nat /\ LastInstant \in Nat
  BY LedgerAssumption DEF LastInstant
<1> DEFINE ov == over(from, to)
           cut(i) == [Segment(i, entries[i].in, FirstEnd(entries[i], from, to), from, to, t)
                        EXCEPT !.rev = @ + 1]
           kept == [i \in Ids |-> IF i \in ov THEN cut(i) ELSE entries[i]]
           one == NewSegment(ov, from, to, from, to, t)
           two == NewSegment(ov, to, LastInstant, from, to, t)
           rows == (kept \o one) \o two
<1>3. Save(rows, LogCarved(ov, rows))
  BY <1>1 DEF Carved
<1>4. ASSUME NEW i \in ov
      PROVE  /\ i \in Ids /\ cut(i) \in Row /\ cut(i).emp = e
             /\ cut(i).rev = entries[i].rev + 1 /\ Keeps(i, cut(i))
             /\ ~IsOpen(cut(i)) /\ (Recorded(cut(i)) => PieceOf(cut(i)))
  <2> DEFINE b == FirstEnd(entries[i], from, to)
             s == Segment(i, entries[i].in, b, from, to, t)
  <2>1. i \in Ids /\ entries[i] \in Row /\ entries[i].out \in Nat /\ entries[i].emp = e
    BY OverlappingClosed
  <2>2. /\ b \in Nat /\ entries[i].in \in Nat /\ entries[i].rev + 1 \in Nat
        /\ b <= entries[i].out
    <3>1. from < entries[i].out
      BY <1>2, <2>1 DEF Overlapping
    <3> QED BY <1>2, <2>1, <3>1, RowFields DEF FirstEnd
  <2>3. /\ s \in Row /\ s.mode = entries[i].mode /\ s.emp = e
        /\ s.rev = entries[i].rev /\ s.out = b /\ s.source = entries[i].source
    BY <2>1, <2>2, SegmentRow
  <2>4. cut(i) = [s EXCEPT !.rev = s.rev + 1]
    OBVIOUS
  <2> HIDE DEF b, s, cut
  <2>5. Fit(s) /\ ~IsOpen(s)
    BY <2>2, <2>3, ClosedFits
  <2>6. Recorded(s) => PieceOf(s)
    BY <1>4, <2>1, <2>2, <2>3, CutDue
  <2>7. /\ cut(i) \in Row /\ cut(i).rev = entries[i].rev + 1 /\ cut(i).mode = s.mode
        /\ cut(i).emp = s.emp /\ cut(i).out = s.out
        /\ (IsOpen(cut(i)) <=> IsOpen(s)) /\ (Recorded(cut(i)) <=> Recorded(s)) /\ Fit(cut(i))
    BY <2>2, <2>3, <2>4, <2>5, BumpRow
  <2> QED BY <2>1, <2>3, <2>5, <2>6, <2>7 DEF Keeps, PieceOf
<1>5. Fresh(one, e) /\ Fresh(two, e)
  BY <1>2, NewSegmentRows
<1> HIDE DEF over, cut, one, two, e
<1>6. /\ kept \in Seq(Row) /\ Len(kept) = Len(entries)
      /\ \A i \in 1 .. Len(entries) : kept[i] = IF i \in ov THEN cut(i) ELSE entries[i]
  <2>1. \A i \in 1 .. Len(entries) : (IF i \in ov THEN cut(i) ELSE entries[i]) \in Row
    BY <1>4, EntryRow
  <2> QED BY <2>1, EntryRow
<1> HIDE DEF kept
<1>7. /\ rows \in Seq(Row) /\ Len(rows) \in Nat /\ Len(entries) <= Len(rows)
      /\ \A i \in 1 .. Len(entries) : rows[i] = IF i \in ov THEN cut(i) ELSE entries[i]
      /\ \A i \in 1 .. Len(rows) : i > Len(entries) => New(rows[i], e)
  <2>1. /\ rows \in Seq(Row) /\ Len(rows) \in Nat /\ Len(entries) <= Len(rows)
        /\ \A i \in 1 .. Len(entries) : rows[i] = kept[i]
        /\ \A i \in 1 .. Len(rows) : i > Len(entries) => New(rows[i], e)
    <3> HIDE DEF ov
    <3>1. kept \in Seq(Row) /\ Len(kept) = Len(entries)
      BY <1>6
    <3>2. Fresh(one, e) /\ Fresh(two, e)
      BY <1>5
    <3> QED BY ONLY IInv, <3>1, <3>2, ExtendedTwice, ZenonT(60)
  <2> HIDE DEF rows
  <2> QED BY <1>6, <2>1
<1> HIDE DEF rows
<1>8. \A i \in 1 .. Len(entries) :
        /\ Keeps(i, rows[i])
        /\ rows[i] = entries[i] \/ (i \in ov /\ rows[i].rev = entries[i].rev + 1 /\ rows[i].emp = e)
  BY <1>4, <1>7, EntryRow DEF Keeps
<1>9. Single(rows)
  BY <1>7, <1>8, EntryRow DEF Single, Keeps, New
<1>10. Extends(rows) /\ Owns(rows, e)
  <2>1. \A i \in 1 .. Len(rows) :
          i > Len(entries) => rows[i].rev = 0 /\ Fit(rows[i]) /\ rows[i].emp = e
    BY <1>7 DEF New
  <2>2. Extends(rows)
    BY <1>7, <1>8, <1>9, <2>1 DEF Extends
  <2>3. \A i \in 1 .. Len(rows) : i > Len(entries) \/ i \in 1 .. Len(entries)
    BY <1>7, EntryRow
  <2>4. Owns(rows, e)
    BY <1>8, <2>1, <2>3 DEF Owns
  <2> QED BY <2>2, <2>4
<1>11. Logs(rows, LogCarved(ov, rows))
  BY <1>7, <1>8, EntryRow DEF Logs, LogCarved
<1>12. Timely(rows)
  <2>1. \A j \in 1 .. Len(entries) : Recorded(entries[j]) => PieceOf(entries[j])
    BY EntryRow, PieceOfItself
  <2>2. \A j \in 1 .. Len(entries) :
          /\ Recorded(rows[j]) => PieceOf(rows[j])
          /\ IsOpen(rows[j]) => rows[j] = entries[j]
    BY <1>4, <1>7, <2>1
  <2>3. \A j \in 1 .. Len(rows) : j > Len(entries) \/ j \in 1 .. Len(entries)
    BY <1>7, EntryRow
  <2> QED BY <1>7, <2>2, <2>3, EntryRow DEF Timely, New
<1> QED BY <1>3, <1>10, <1>11, <1>12 DEF LedgerStep, e

-----------------------------------------------------------------------------
(* What a LedgerStep preserves *)

\* A commit ends its own request and touches no other.
LEMMA CommitShape ==
    ASSUME IInv, NEW c \in Clients, CommitStep(c)
    PROVE  LedgerStep(call[c].emp) /\ Finish(c)
<1>1. CASE ClockIn(c)     BY <1>1, ClockInStep DEF ClockIn
<1>2. CASE ClockOut(c)    BY <1>2, ClockOutStep DEF ClockOut
<1>3. CASE Switch(c)      BY <1>3, SwitchStep DEF Switch
<1>4. CASE DailyBlock(c)  BY <1>4, DailyBlockStep DEF DailyBlock
<1>5. CASE Manual(c)      BY <1>5, ManualStep DEF Manual
<1>6. CASE Update(c)      BY <1>6, UpdateStep DEF Update
<1>7. CASE Split(c)       BY <1>7, SplitStep DEF Split
<1>8. CASE RangeBook(c)   BY <1>8, RangeBookStep DEF RangeBook
<1>9. CASE Correct(c)     BY <1>9, CorrectStep DEF Correct
<1>10. CASE Void(c)       BY <1>10, VoidStep DEF Void
<1>11. CASE Approve(c)    BY <1>11, ApproveStep DEF Approve
<1> QED BY <1>1, <1>2, <1>3, <1>4, <1>5, <1>6, <1>7, <1>8, <1>9, <1>10, <1>11 DEF CommitStep

\* Whatever requests a step ends, none is altered.
Ends == /\ DOMAIN call' = Clients
        /\ \A c \in Clients : call'[c] = call[c] \/ call'[c] = Idle

LEMMA EndsKeeps ==
    ASSUME IInv, Ends
    PROVE  /\ \A c \in Clients : call'[c] = Idle \/ IsCall(call'[c])
           /\ UNCHANGED entries => RevisionsTellVersionsApart' /\ OwnRows'
<1>1. \A c \in Clients : call'[c] = Idle \/ IsCall(call'[c])
  BY DEF Ends, IInv, TypeOK
<1>2. UNCHANGED entries => RevisionsTellVersionsApart' /\ OwnRows'
  BY DEF Ends, IInv, RevisionsTellVersionsApart, OwnRows, Ids
<1> QED BY <1>1, <1>2

LEMMA LedgerStepPreserves ==
    ASSUME IInv, NEW e, LedgerStep(e), Ends
    PROVE  IInv'
<1>1. PICK rows, logged : Extends(rows) /\ Save(rows, logged)
  BY DEF LedgerStep
<1>2. /\ entries' = rows
      /\ audit' = [i \in DOMAIN rows |-> (IF i \in Ids THEN audit[i] ELSE {})
                                           \cup (IF i \in logged THEN {rows[i].rev} ELSE {})]
      /\ UNCHANGED world
  BY <1>1 DEF Save
<1>3. /\ rows \in Seq(Row) /\ Len(rows) \in Nat /\ DOMAIN rows = 1 .. Len(rows)
      /\ Len(entries) <= Len(rows) /\ Ids \subseteq DOMAIN rows
      /\ Ids' = DOMAIN rows
      /\ \A i \in DOMAIN rows : rows[i] \in Row /\ rows[i].rev \in Nat
  <2>1. rows \in Seq(Row) /\ Len(entries) <= Len(rows)
    BY <1>1 DEF Extends
  <2>2. Len(rows) \in Nat /\ DOMAIN rows = 1 .. Len(rows) /\ \A i \in DOMAIN rows : rows[i] \in Row
    BY <2>1
  <2> QED BY <1>2, <2>1, <2>2, EntryRow, RowFields DEF Ids
<1>4. TypeOK'
  <2>1. audit' \in [Ids' -> SUBSET Nat]
    <3>1. \A i \in DOMAIN rows :
            (IF i \in Ids THEN audit[i] ELSE {})
              \cup (IF i \in logged THEN {rows[i].rev} ELSE {}) \in SUBSET Nat
      BY <1>3 DEF IInv, TypeOK
    <3> QED BY <1>2, <1>3, <3>1
  <2>2. \A c \in Clients : call'[c] = Idle \/ IsCall(call'[c])
    BY EndsKeeps
  <2> QED BY <1>2, <1>3, <2>1, <2>2 DEF Ends, IInv, TypeOK, world, IsCall
<1>5. RevisionsTellVersionsApart'
  <2> SUFFICES ASSUME NEW c \in Clients, call'[c] # Idle, NEW i \in DOMAIN call[c].view
               PROVE  /\ i \in DOMAIN rows
                      /\ call[c].view[i].rev <= rows[i].rev
                      /\ call[c].view[i].rev = rows[i].rev => call[c].view[i] = rows[i]
    BY <1>2, <1>3 DEF RevisionsTellVersionsApart, Ends
  <2>1. /\ i \in Ids /\ call[c].view[i].rev <= entries[i].rev
        /\ call[c].view[i].rev = entries[i].rev => call[c].view[i] = entries[i]
    BY DEF Ends, IInv, RevisionsTellVersionsApart
  <2>2. call[c].view[i] \in Row
    BY DEF Ends, IInv, TypeOK, IsCall
  <2>3. rows[i] = entries[i] \/ rows[i].rev = entries[i].rev + 1
    BY <1>1, <2>1, EntryRow DEF Extends
  <2> QED BY <1>3, <2>1, <2>2, <2>3, EntryRow, RowFields
<1>6. OneRunningTimer'
  <2>1. Single(rows)
    BY <1>1 DEF Extends
  <2> QED BY <1>2, <1>3, <2>1 DEF OneRunningTimer, OpenRows, RowsOf, Single, IsOpen
<1>7. \A i \in Ids : rows[i].emp = entries[i].emp
  BY <1>1, EntryRow DEF Extends, Keeps
<1>8. TimersFit'
  <2>1. \A i \in DOMAIN rows : Fit(rows[i])
    BY <1>1, <1>3 DEF Extends, Keeps
  <2> QED BY <1>2, <1>3, <2>1 DEF TimersFit, Fit, IsOpen, world
<1>9. OwnRows'
  BY <1>2, <1>3, <1>7 DEF Ends, IInv, OwnRows
<1> QED BY <1>4, <1>5, <1>6, <1>8, <1>9 DEF IInv

-----------------------------------------------------------------------------
(* The steps that leave the ledger alone *)

LEMMA AskPreserves ==
    ASSUME IInv, NEW c \in Clients, NEW op \in Requests, NEW e \in Employees,
           NEW seen \in SUBSET RowsOf(e), NEW withRev \in BOOLEAN,
           Ask(c, op, e, seen, withRev)
    PROVE  IInv'
<1> DEFINE view == [i \in seen |-> entries[i]]
           new == [op |-> op, emp |-> e, rev |-> withRev, solo |-> mode = "Solo", view |-> view]
<1>1. call' = [call EXCEPT ![c] = new] /\ UNCHANGED <<entries, audit, world>>
  BY DEF Ask
<1>2. DOMAIN call = Clients
  BY DEF IInv, TypeOK
<1>3. /\ DOMAIN view = seen
      /\ \A i \in seen : /\ i \in Ids /\ i \in Nat /\ entries[i].emp = e
                         /\ view[i] = entries[i] /\ entries[i] \in Row
  BY EntryRow DEF RowsOf
<1> HIDE DEF view
<1>4. /\ new.op = op /\ new.emp = e /\ new.rev = withRev /\ new.solo \in BOOLEAN
      /\ new.view = view
  OBVIOUS
<1> HIDE DEF new
<1>5. IsCall(new)
  BY <1>3, <1>4 DEF IsCall
<1>6. /\ DOMAIN call' = Clients /\ call'[c] = new
      /\ \A d \in Clients : d # c => call'[d] = call[d]
  BY <1>1, <1>2
<1>7. TypeOK'
  <2>1. DOMAIN call' = Clients /\ \A d \in Clients : call'[d] = Idle \/ IsCall(call'[d])
    BY <1>6, <1>5 DEF IInv, TypeOK
  <2> QED BY <1>1, <2>1 DEF IInv, TypeOK, world, Ids, IsCall
<1>8. RevisionsTellVersionsApart'
  <2> SUFFICES ASSUME NEW d \in Clients, call'[d] # Idle, NEW i \in DOMAIN call'[d].view
               PROVE  /\ i \in Ids
                      /\ call'[d].view[i].rev <= entries[i].rev
                      /\ call'[d].view[i].rev = entries[i].rev => call'[d].view[i] = entries[i]
    BY <1>1 DEF RevisionsTellVersionsApart, Ids
  <2>1. CASE d = c
    <3>1. i \in seen /\ call'[d].view[i] = entries[i]
      BY <1>3, <1>4, <1>6, <2>1
    <3> QED BY <1>3, <3>1, EntryRow
  <2>2. CASE d # c
    BY <1>6, <2>2 DEF IInv, RevisionsTellVersionsApart
  <2> QED BY <2>1, <2>2
<1>9. OwnRows'
  <2> SUFFICES ASSUME NEW d \in Clients, call'[d] # Idle, NEW i \in DOMAIN call'[d].view
               PROVE  i \in Ids /\ entries[i].emp = call'[d].emp
    BY <1>1 DEF OwnRows, Ids
  <2>1. CASE d = c
    BY <1>3, <1>4, <1>6, <2>1
  <2>2. CASE d # c
    BY <1>6, <2>2 DEF IInv, OwnRows
  <2> QED BY <2>1, <2>2
<1>10. OneRunningTimer' /\ TimersFit'
  BY <1>1 DEF IInv, OneRunningTimer, TimersFit, world, OpenRows, RowsOf, Ids, IsOpen, Fit
<1> QED BY <1>7, <1>8, <1>9, <1>10 DEF IInv

\* A target is archived only when no timer runs on it.
LEMMA WorldPreserves ==
    ASSUME IInv, UNCHANGED <<entries, audit>>, Ends,
           now' \in Nat, mode' \in Mode, owner' \in Employees,
           active' \subseteq Employees, archived' \subseteq Targets,
           \A i \in Ids : IsOpen(entries[i]) => entries[i].target \notin archived'
    PROVE  IInv'
<1>1. TypeOK'
  <2>1. \A c \in Clients : call'[c] = Idle \/ IsCall(call'[c])
    BY EndsKeeps
  <2> QED BY <2>1 DEF Ends, IInv, TypeOK, Ids, IsCall
<1>2. RevisionsTellVersionsApart' /\ OwnRows'
  BY EndsKeeps
<1>3. OneRunningTimer'
  BY DEF IInv, OneRunningTimer, OpenRows, RowsOf, Ids, IsOpen
<1>4. TimersFit'
  BY DEF IInv, TimersFit, Fit, Ids, IsOpen
<1> QED BY <1>1, <1>2, <1>3, <1>4 DEF IInv

-----------------------------------------------------------------------------
(* The inductive invariant *)

LEMMA InitInvariant == Init => IInv
<1> SUFFICES ASSUME Init PROVE IInv
  OBVIOUS
<1>1. Ids = {} /\ entries \in Seq(Row)
  BY DEF Init, Ids
<1>2. DOMAIN call = Clients /\ \A c \in Clients : call[c] = Idle
  BY DEF Init
<1>3. mode \in Mode /\ owner \in Employees /\ active \subseteq Employees
  BY LedgerAssumption DEF Init
<1>4. TypeOK
  BY <1>1, <1>2, <1>3 DEF Init, TypeOK
<1>5. OneRunningTimer /\ TimersFit
  BY <1>1 DEF OneRunningTimer, OpenRows, RowsOf, TimersFit
<1> QED BY <1>2, <1>4, <1>5 DEF IInv, RevisionsTellVersionsApart, OwnRows

LEMMA BeginStepPreserves ==
    ASSUME IInv, NEW c \in Clients, BeginStep(c)
    PROVE  IInv'
<1>1. PICK e \in Employees : \/ BeginNew(c, e) \/ BeginOnRow(c, e) \/ BeginOnLedger(c, e)
                            \/ BeginApproval(c, e) \/ BeginChange(c, e)
  BY DEF BeginStep
<1>2. CASE BeginNew(c, e)
  <2>1. PICK op \in {"ClockIn", "DailyBlock", "Manual"} : Begin(c, op, e, {}, FALSE)
    BY <1>2 DEF BeginNew
  <2> QED BY <2>1, AskPreserves DEF Requests, Begin
<1>3. CASE BeginOnRow(c, e)
  <2>1. PICK op \in {"Update", "Split", "Correct", "Void", "Switch", "ClockOut"},
             i \in RowsOf(e), withRev \in BOOLEAN : Begin(c, op, e, {i}, withRev)
    BY <1>3 DEF BeginOnRow
  <2>2. op \in Requests /\ {i} \in SUBSET RowsOf(e)
    BY DEF Requests
  <2> QED BY <2>1, <2>2, AskPreserves DEF Begin
<1>4. CASE BeginOnLedger(c, e)
  <2>1. "ClockOut" \in Requests /\ "RangeBook" \in Requests /\ {} \in SUBSET RowsOf(e)
    BY DEF Requests
  <2>2. CASE Begin(c, "ClockOut", e, {}, FALSE)
    BY <2>1, <2>2, AskPreserves DEF Begin
  <2>3. CASE Begin(c, "RangeBook", e, {}, FALSE)
    BY <2>1, <2>3, AskPreserves DEF Begin
  <2>4. CASE \E seen \in SUBSET {i \in RowsOf(e) : IsClosed(entries[i])} :
               Begin(c, "RangeBook", e, seen, TRUE)
    <3>1. PICK seen \in SUBSET {i \in RowsOf(e) : IsClosed(entries[i])} :
            Begin(c, "RangeBook", e, seen, TRUE)
      BY <2>4
    <3>2. seen \in SUBSET RowsOf(e)
      OBVIOUS
    <3> QED BY <2>1, <3>1, <3>2, AskPreserves DEF Begin
  <2> QED BY <1>4, <2>2, <2>3, <2>4 DEF BeginOnLedger
<1>5. CASE BeginApproval(c, e)
  BY <1>5, AskPreserves DEF BeginApproval, Requests
<1>6. CASE BeginChange(c, e)
  BY <1>6, AskPreserves DEF BeginChange, Requests
<1> QED BY <1>1, <1>2, <1>3, <1>4, <1>5, <1>6

LEMMA NextInvariant == IInv /\ [Next]_vars => IInv'
<1> SUFFICES ASSUME IInv, [Next]_vars PROVE IInv'
  OBVIOUS
<1>0. /\ \A i \in Ids : IsOpen(entries[i]) => entries[i].target \notin archived
      /\ UNCHANGED call => Ends
  BY DEF IInv, TypeOK, TimersFit, Fit, Ends
<1>1. ASSUME NEW c \in Clients, BeginStep(c) PROVE IInv'
  BY <1>1, BeginStepPreserves
<1>2. ASSUME NEW c \in Clients, CommitStep(c) PROVE IInv'
  <2>1. LedgerStep(call[c].emp) /\ Finish(c)
    BY <1>2, CommitShape
  <2>2. Ends
    BY <2>1 DEF Finish, Ends, IInv, TypeOK
  <2> QED BY <2>1, <2>2, LedgerStepPreserves
<1>3. ASSUME NEW c \in Clients, ChangeMode(c) PROVE IInv'
  <2>1. call[c].emp \in Employees
    BY <1>3 DEF ChangeMode, Idle, IInv, TypeOK, IsCall
  <2>2. mode' \in Mode /\ owner' \in Employees /\ Ends
    BY <1>3, <2>1 DEF ChangeMode, Mode, Ends
  <2> QED BY <1>0, <1>3, <2>2, WorldPreserves DEF ChangeMode, IInv, TypeOK
<1>4. ASSUME NEW c \in Clients, Abort(c) PROVE IInv'
  <2>1. Ends
    BY <1>4 DEF Abort, Ends, IInv, TypeOK
  <2> QED BY <1>0, <1>4, <2>1, WorldPreserves DEF Abort, world, IInv, TypeOK
<1>5. ASSUME NEW e \in Employees, TerminalBook(e) PROVE IInv'
  <2>1. LedgerStep(e) /\ Ends
    BY <1>0, <1>5, TerminalStep DEF TerminalBook
  <2> QED BY <2>1, LedgerStepPreserves
<1>6. ASSUME NEW e \in Employees, SetActive(e) PROVE IInv'
  <2>1. active' \subseteq Employees
    BY <1>6 DEF SetActive, IInv, TypeOK
  <2> QED BY <1>0, <1>6, <2>1, WorldPreserves DEF SetActive, IInv, TypeOK
<1>7. ASSUME NEW t \in Targets, SetArchived(t) PROVE IInv'
  <2>1. archived' \subseteq Targets
    BY <1>7 DEF SetArchived, IInv, TypeOK
  <2>2. \A i \in Ids : IsOpen(entries[i]) => entries[i].target \notin archived'
    BY <1>0, <1>7 DEF SetArchived, IInv, TimersFit, Fit, Effective, IsOpen
  <2> QED BY <1>0, <1>7, <2>1, <2>2, WorldPreserves DEF SetArchived, IInv, TypeOK
<1>8. ASSUME Tick PROVE IInv'
  BY <1>0, <1>8, WorldPreserves DEF Tick, IInv, TypeOK
<1>9. ASSUME UNCHANGED vars PROVE IInv'
  BY <1>0, <1>9, WorldPreserves DEF vars, IInv, TypeOK
<1> QED BY <1>1, <1>2, <1>3, <1>4, <1>5, <1>6, <1>7, <1>8, <1>9 DEF Next

LEMMA Invariance == Spec => []IInv
<1>1. Init => IInv
  BY InitInvariant
<1>2. IInv /\ [Next]_vars => IInv'
  BY NextInvariant
<1> QED BY <1>1, <1>2, PTL DEF Spec

\* Every reachable state of the ledger, the audit log and the requests in
\* flight is well formed.
THEOREM TypeCorrect == Spec => []TypeOK
<1>1. IInv => TypeOK
  BY DEF IInv
<1> QED BY <1>1, Invariance, PTL

\* Optimistic locking is sound: whoever compares a row's revision with the one
\* it read compares the whole row, because no writer forgets to bump it.
THEOREM RevisionsSound == Spec => []RevisionsTellVersionsApart
<1>1. IInv => RevisionsTellVersionsApart
  BY DEF IInv
<1> QED BY <1>1, Invariance, PTL

\* Nobody has two timers, whatever requests, terminals and changes of mode are
\* interleaved, with the partial unique index or without it.
THEOREM TimersSingle == Spec => []OneRunningTimer
<1>1. IInv => OneRunningTimer
  BY DEF IInv
<1> QED BY <1>1, Invariance, PTL

\* No timer runs on an archived target.
THEOREM TimersBookable == Spec => []TimerTargetBookable
<1>1. IInv => TimerTargetBookable
  BY DEF IInv, TimersFit, Fit, TimerTargetBookable
<1> QED BY <1>1, Invariance, PTL

-----------------------------------------------------------------------------
(* Action properties *)

\* Reading and refusing write nothing, and the mode is not in the table.
LEMMA OthersKeepRows ==
    ASSUME NEW c \in Clients, BeginStep(c) \/ ChangeMode(c) \/ Abort(c)
    PROVE  UNCHANGED entries
BY DEF BeginStep, BeginNew, BeginOnRow, BeginOnLedger, BeginApproval, BeginChange,
       Begin, Ask, ChangeMode, Abort

\* A commit other than an approval has passed assertTransactionAccess.
LEMMA CommitAccess ==
    ASSUME NEW c \in Clients, CommitStep(c), ~Approve(c)
    PROVE  \E op \in Requests : InTransaction(c, op)
BY DEF CommitStep, Requests, ClockIn, ClockOut, Switch, DailyBlock, Manual,
       Update, Split, RangeBook, Correct, Void

\* A step that changes the table is a transaction of the shape LedgerStep, for
\* the employee of a request that passed assertTransactionAccess.
LEMMA OnlyLedgerSteps ==
    ASSUME IInv, [Next]_vars
    PROVE  \/ UNCHANGED entries
           \/ \E e \in Employees : LedgerStep(e) /\ (mode = "Solo" /\ ~Approval => e = owner)
<1>1. ASSUME NEW c \in Clients, BeginStep(c) \/ ChangeMode(c) \/ Abort(c)
      PROVE  UNCHANGED entries
  BY <1>1, OthersKeepRows
<1>2. ASSUME NEW c \in Clients, CommitStep(c)
      PROVE  \E e \in Employees : LedgerStep(e) /\ (mode = "Solo" /\ ~Approval => e = owner)
  <2>1. LedgerStep(call[c].emp) /\ Finish(c)
    BY <1>2, CommitShape
  <2>2. CASE Approve(c)
    <3>1. Approval /\ call[c].emp \in Employees
      BY <2>1, <2>2 DEF Approve, Approval, Finish, Idle, IInv, TypeOK, IsCall
    <3> QED BY <2>1, <3>1
  <2>3. CASE ~Approve(c)
    <3>1. \E op \in Requests : InTransaction(c, op)
      BY <1>2, <2>3, CommitAccess
    <3>2. call[c].emp \in Employees /\ (mode = "Solo" => call[c].emp = owner)
      BY <3>1, CallOf
    <3> QED BY <2>1, <3>2
  <2> QED BY <2>2, <2>3
<1>3. ASSUME NEW e \in Employees, TerminalBook(e)
      PROVE  LedgerStep(e) /\ mode # "Solo"
  BY <1>3, TerminalStep DEF TerminalBook
<1>4. ASSUME NEW e \in Employees, SetActive(e) PROVE UNCHANGED entries
  BY <1>4 DEF SetActive
<1>5. ASSUME (\E t \in Targets : SetArchived(t)) \/ Tick \/ UNCHANGED vars
      PROVE  UNCHANGED entries
  BY <1>5 DEF SetArchived, Tick, vars
<1> QED BY <1>1, <1>2, <1>3, <1>4, <1>5 DEF Next

\* No change of a Solo row, and in Solo none of any row, goes without the audit
\* record of its revision, whichever handler made it.
THEOREM Audited == Spec => ChangesAudited
<1> DEFINE Logged ==
      \A i \in DOMAIN entries' :
        /\ mode = "Solo" \/ entries'[i].mode = "Solo"
        /\ i \in Ids => entries'[i] # entries[i]
        /\ ~LeftoverStopped(i) /\ ~Approval
        => entries'[i].rev \in audit'[i]
<1>1. ASSUME IInv, [Next]_vars PROVE Logged
  <2>1. ASSUME NEW e \in Employees, LedgerStep(e) PROVE Logged
    <3> SUFFICES ASSUME NEW i \in DOMAIN entries', mode = "Solo" \/ entries'[i].mode = "Solo",
                        i \in Ids => entries'[i] # entries[i],
                        ~LeftoverStopped(i), ~Approval
                 PROVE  entries'[i].rev \in audit'[i]
      OBVIOUS
    <3>1. PICK rows, logged : Extends(rows) /\ Logs(rows, logged) /\ Save(rows, logged)
      BY <2>1 DEF LedgerStep
    <3>2. /\ entries' = rows
          /\ audit' = [j \in DOMAIN rows |-> (IF j \in Ids THEN audit[j] ELSE {})
                                               \cup (IF j \in logged THEN {rows[j].rev} ELSE {})]
      BY <3>1 DEF Save
    <3>3. rows \in Seq(Row) /\ i \in 1 .. Len(rows)
      BY <3>1, <3>2 DEF Extends
    <3>4. i \notin Ids => i > Len(entries)
      BY <1>1, <3>3, EntryRow
    <3>5. ~Leftover(i, rows)
      BY <3>2 DEF LeftoverStopped, Leftover
    <3>6. i \in logged
      BY <3>1, <3>2, <3>3, <3>4, <3>5 DEF Logs
    <3> QED BY <3>2, <3>3, <3>6
  <2>2. CASE UNCHANGED entries
    BY <2>2 DEF Ids
  <2> QED BY <1>1, <2>1, <2>2, OnlyLedgerSteps
<1>2. Spec => [][Logged]_vars
  <2>1. IInv /\ [Next]_vars => [Logged]_vars
    BY <1>1
  <2> QED BY <2>1, Invariance, PTL DEF Spec
<1> QED BY <1>2 DEF ChangesAudited

\* In Solo no row of anybody but the owner is added or changed, though requests
\* of others that passed their first check in Team may still be in flight.
THEOREM SoloOwners == Spec => SoloIsTheOwners
<1> DEFINE Owned ==
      mode = "Solo" /\ ~Approval
        => \A i \in DOMAIN entries' :
             (i \in Ids => entries'[i] # entries[i]) => entries'[i].emp = owner
<1>1. ASSUME IInv, [Next]_vars PROVE Owned
  <2>1. ASSUME NEW e \in Employees, LedgerStep(e), mode = "Solo" /\ ~Approval => e = owner
        PROVE  Owned
    <3> SUFFICES ASSUME mode = "Solo", ~Approval, NEW i \in DOMAIN entries',
                        i \in Ids => entries'[i] # entries[i]
                 PROVE  entries'[i].emp = e
      BY <2>1
    <3>1. PICK rows, logged : Extends(rows) /\ Owns(rows, e) /\ Save(rows, logged)
      BY <2>1 DEF LedgerStep
    <3>2. entries' = rows /\ rows \in Seq(Row) /\ i \in 1 .. Len(rows)
      BY <3>1 DEF Save, Extends
    <3>3. i \notin Ids => i > Len(entries)
      BY <1>1, <3>2, EntryRow
    <3> QED BY <3>1, <3>2, <3>3 DEF Owns
  <2>2. CASE UNCHANGED entries
    BY <2>2 DEF Ids
  <2> QED BY <1>1, <2>1, <2>2, OnlyLedgerSteps
<1>2. Spec => [][Owned]_vars
  <2>1. IInv /\ [Next]_vars => [Owned]_vars
    BY <1>1
  <2> QED BY <2>1, Invariance, PTL DEF Spec
<1> QED BY <1>2 DEF SoloIsTheOwners

-----------------------------------------------------------------------------
(* Running timers *)

\* Nothing is recorded ahead of the clock, and so nothing after the start of a
\* timer that runs.
Punctual ==
    /\ \A i \in Ids : IsOpen(entries[i]) => entries[i].in <= now
    /\ \A i \in Ids : Recorded(entries[i]) => entries[i].out <= now
    /\ TimerNotOverrun

\* The clock only ticks.
LEMMA WritesKeepClock ==
    ASSUME NEW rows, NEW logged, Save(rows, logged)
    PROVE  now' = now
BY DEF Save, world

LEMMA ClockMoves ==
    ASSUME [Next]_vars
    PROVE  now' = now \/ now' = now + 1
<1>1. ASSUME NEW c \in Clients, BeginStep(c) \/ ChangeMode(c) \/ Abort(c) PROVE now' = now
  BY <1>1 DEF BeginStep, BeginNew, BeginOnRow, BeginOnLedger, BeginApproval, BeginChange,
              Begin, Ask, ChangeMode, Abort, world
<1>2. ASSUME NEW c \in Clients, CommitStep(c) PROVE now' = now
  <2>1. CASE \/ ClockIn(c) \/ ClockOut(c) \/ Switch(c) \/ DailyBlock(c)
             \/ Manual(c) \/ Update(c) \/ Approve(c)
    BY <2>1, WritesKeepClock DEF ClockIn, ClockOut, Switch, DailyBlock, Manual, Update, Approve
  <2>2. CASE Split(c) \/ RangeBook(c) \/ Correct(c) \/ Void(c)
    BY <2>2, WritesKeepClock DEF Split, RangeBook, Correct, Void
  <2> QED BY <1>2, <2>1, <2>2 DEF CommitStep
<1>3. ASSUME NEW e \in Employees, TerminalBook(e) \/ SetActive(e) PROVE now' = now
  BY <1>3 DEF TerminalBook, SetActive, Save, world
<1>4. ASSUME (\E t \in Targets : SetArchived(t)) \/ Tick \/ UNCHANGED vars
      PROVE  now' = now \/ now' = now + 1
  BY <1>4 DEF SetArchived, Tick, vars
<1> QED BY <1>1, <1>2, <1>3, <1>4 DEF Next

LEMMA PunctualKept ==
    ASSUME IInv, Punctual, NEW e, LedgerStep(e)
    PROVE  Punctual'
<1>1. PICK rows, logged : Extends(rows) /\ Timely(rows) /\ Save(rows, logged)
  BY DEF LedgerStep
<1>2. /\ entries' = rows /\ now' = now /\ rows \in Seq(Row)
      /\ Ids' = 1 .. Len(rows) /\ now \in Nat
  BY <1>1 DEF Save, Extends, world, Ids, IInv, TypeOK
<1>3. \A i \in 1 .. Len(rows) :
        /\ rows[i].in \in Nat /\ rows[i].out \in Int /\ rows[i].emp \in Employees
  BY <1>2, RowFields DEF Running
<1>4. \A i \in Ids : entries[i].in \in Nat /\ entries[i].out \in Int
  BY EntryRow, RowFields DEF Running
<1>5. \A i \in 1 .. Len(rows) : IsOpen(rows[i]) => rows[i].in <= now
  BY <1>1, <1>2, <1>3 DEF Timely, Punctual
<1>6. \A i \in 1 .. Len(rows) : Recorded(rows[i]) => rows[i].out <= now
  BY <1>1, <1>2, <1>3, <1>4 DEF Timely, Punctual, PieceOf
<1>7. ASSUME NEW i \in 1 .. Len(rows), NEW j \in 1 .. Len(rows),
             IsOpen(rows[i]), Recorded(rows[j]), rows[i].emp = rows[j].emp
      PROVE  rows[j].out <= rows[i].in
  <2>1. CASE rows[i].in = now
    BY <2>1, <1>6, <1>7
  <2>2. CASE /\ i \in Ids /\ IsOpen(entries[i])
             /\ rows[i].emp = entries[i].emp /\ rows[i].in = entries[i].in
    <3>1. CASE PieceOf(rows[j])
      <4>1. PICK k \in Ids : /\ Recorded(entries[k]) /\ entries[k].emp = rows[j].emp
                             /\ rows[j].out <= entries[k].out
        BY <3>1 DEF PieceOf
      <4>2. entries[k].out <= entries[i].in
        BY <1>4, <1>7, <2>2, <4>1 DEF Punctual, TimerNotOverrun, Recorded
      <4> QED BY <1>3, <1>4, <2>2, <4>1, <4>2
    <3>2. CASE ~PieceOf(rows[j])
      BY <1>1, <1>7, <3>2 DEF Timely
    <3> QED BY <3>1, <3>2
  <2> QED BY <1>1, <1>7, <2>1, <2>2 DEF Timely
<1>8. TimerNotOverrun'
  <2> SUFFICES ASSUME NEW i \in 1 .. Len(rows), NEW j \in 1 .. Len(rows),
                      IsOpen(rows[i]), IsClosed(rows[j]), rows[i].emp = rows[j].emp,
                      rows[j].out > rows[i].in
               PROVE  BookedAhead(rows[j])
    BY <1>2 DEF TimerNotOverrun
  <2> QED BY <1>3, <1>7 DEF Recorded
<1> QED BY <1>2, <1>5, <1>6, <1>8 DEF Punctual

\* Every running timer can be stopped: whatever was split, carved, corrected or
\* added by hand meanwhile, the exclusion constraint finds nothing of the same
\* employee after the timer's start but what was booked ahead of the clock.
THEOREM TimersStoppable == Spec => []TimerNotOverrun
<1>1. Init => Punctual
  BY DEF Init, Punctual, TimerNotOverrun, Ids
<1>2. IInv /\ Punctual /\ [Next]_vars => Punctual'
  <2> SUFFICES ASSUME IInv, Punctual, [Next]_vars PROVE Punctual'
    OBVIOUS
  <2>1. CASE \E e \in Employees : LedgerStep(e)
    BY <2>1, PunctualKept
  <2>2. CASE UNCHANGED entries
    <3>1. now \in Nat /\ (now' = now \/ now' = now + 1)
      BY ClockMoves DEF IInv, TypeOK
    <3>2. \A i \in Ids : entries[i].in \in Nat /\ entries[i].out \in Int
      BY EntryRow, RowFields DEF Running
    <3> QED BY <2>2, <3>1, <3>2 DEF Punctual, TimerNotOverrun, Ids
  <2> QED BY <2>1, <2>2, OnlyLedgerSteps
<1>3. Punctual => TimerNotOverrun
  BY DEF Punctual
<1> QED BY <1>1, <1>2, <1>3, Invariance, PTL DEF Spec

-----------------------------------------------------------------------------
(* Lost updates *)

\* What a request read, it read at the row's present revision.
Present(c, i) == call[c].view[i].rev = entries[i].rev

\* Of the rows a request has read, its commit changes present ones only.
Careful(c) ==
    \A i \in DOMAIN call[c].view : entries'[i] # entries[i] => Present(c, i)

Watched(c) == call[c].rev \/ call[c].op \in {"Update", "Split", "Correct"}

LEMMA AppendCareful ==
    ASSUME IInv, NEW c \in Clients, call[c] # Idle,
           \E r : entries' = Append(entries, r)
    PROVE  Careful(c)
<1>1. PICK r : entries' = Append(entries, r)
  OBVIOUS
<1>2. \A i \in Ids : entries'[i] = entries[i]
  <2>1. \A i \in 1 .. Len(entries) : Append(entries, r)[i] = entries[i]
    BY DEF IInv, TypeOK
  <2> QED BY <1>1, <2>1, EntryRow
<1> QED BY <1>2 DEF Careful, IInv, OwnRows

\* Revising row i, and adding one more perhaps, leaves the other rows alone.
LEMMA ReviseCareful ==
    ASSUME IInv, NEW c \in Clients, call[c] # Idle, NEW i, NEW r,
           \/ entries' = Revise(entries, i, r)
           \/ \E q : entries' = Append(Revise(entries, i, r), q),
           i \in DOMAIN call[c].view => Present(c, i)
    PROVE  Careful(c)
<1>1. entries \in Seq(Row) /\ Ids = 1 .. Len(entries) /\ Len(entries) \in Nat
  BY EntryRow DEF IInv, TypeOK
<1> DEFINE rev == Revise(entries, i, r)
<1>2. DOMAIN rev = 1 .. Len(entries) /\ \A j \in Ids : j # i => rev[j] = entries[j]
  BY <1>1 DEF Revise
<1>3. rev \in Seq({rev[j] : j \in 1 .. Len(entries)}) /\ Len(rev) = Len(entries)
  <2>1. rev = [j \in 1 .. Len(entries) |-> rev[j]]
    BY <1>1 DEF Revise
  <2> HIDE DEF rev
  <2> QED BY <1>1, <2>1
<1> HIDE DEF rev
<1>4. \A q : \A j \in 1 .. Len(entries) : Append(rev, q)[j] = rev[j]
  BY <1>3
<1>5. \A j \in Ids : j # i => entries'[j] = entries[j]
  BY <1>1, <1>2, <1>4 DEF rev
<1> QED BY <1>5 DEF Careful, IInv, OwnRows

\* assertMutable lets a request with a revision through on a present row only.
LEMMA MutablePresent ==
    ASSUME NEW c, NEW i, Mutable(c, entries[i], call[c].view[i]), call[c].rev
    PROVE  Present(c, i)
BY DEF Mutable, Present

LEMMA CommitCareful ==
    ASSUME IInv, NEW c \in Clients, CommitStep(c), Watched(c)
    PROVE  Careful(c)
<1>1. call[c] # Idle
  <2>1. CASE Approve(c)
    BY <2>1 DEF Approve, Idle
  <2>2. CASE ~Approve(c)
    BY <2>2, CommitAccess, CallOf
  <2> QED BY <2>1, <2>2
<1>2. CASE ClockIn(c) \/ DailyBlock(c) \/ Manual(c) \/ Approve(c)
  <2>1. \E r : entries' = Append(entries, r)
    BY <1>2 DEF ClockIn, DailyBlock, Manual, Approve, Save
  <2> QED BY <1>1, <2>1, AppendCareful
<1>3. CASE ClockOut(c)
  <2>1. call[c].rev
    BY <1>3 DEF ClockOut, InTransaction, Watched
  <2>2. PICK i, r :
          /\ entries' = Revise(entries, i, r)
          /\ i \in DOMAIN call[c].view => Mutable(c, entries[i], call[c].view[i])
    BY <1>3 DEF ClockOut, Save
  <2> QED BY <1>1, <2>1, <2>2, ReviseCareful, MutablePresent
<1>4. CASE Switch(c)
  <2>1. PICK i, r, q :
          /\ entries' = Append(Revise(entries, i, r), q)
          /\ Mutable(c, entries[i], call[c].view[i])
          /\ entries[i].mode = "Solo"
    <3> DEFINE g(i) == IF entries[i].grp = NoGroup THEN i ELSE entries[i].grp
               closed(i) == [entries[i] EXCEPT !.out = now, !.status = "Approved", !.grp = g(i)]
               next(i, t) == [Default(entries[i].emp, now, Running) EXCEPT
                                !.status = "Open", !.mode = "Solo", !.source = "Pwa",
                                !.target = t, !.grp = g(i)]
    <3>1. PICK i \in DOMAIN call[c].view, t \in Bookable :
            /\ Mutable(c, entries[i], call[c].view[i]) /\ entries[i].mode = "Solo"
            /\ Save(Append(Revise(entries, i, closed(i)), next(i, t)), {i, NewId})
      BY <1>4 DEF Switch
    <3> HIDE DEF closed, next
    <3> QED BY <3>1 DEF Save
  <2>2. call[c].rev
    BY <2>1 DEF Mutable
  <2> QED BY <1>1, <2>1, <2>2, ReviseCareful, MutablePresent
<1>5. CASE Update(c)
  <2>1. PICK i, r : entries' = Revise(entries, i, r) /\ Current(c, i)
    BY <1>5 DEF Update, Save
  <2> QED BY <1>1, <2>1, ReviseCareful DEF Current, Present
<1>6. CASE Split(c)
  <2>1. PICK i, r, q : entries' = Append(Revise(entries, i, r), q) /\ Current(c, i)
    <3> DEFINE seen(i) == call[c].view[i]
               st(i, a, b) == IF seen(i).status = "Rejected" THEN "Rejected"
                              ELSE StatusFor(seen(i).mode, a, b)
               head(i, at) == [entries[i] EXCEPT !.out = at, !.grp = Group(i, seen(i)),
                                                 !.status = st(i, seen(i).in, at)]
               tail(i, at, t) == [seen(i) EXCEPT !.in = at, !.status = st(i, at, seen(i).out),
                                                 !.grp = Group(i, seen(i)), !.target = t,
                                                 !.day = NoDay, !.rev = 0]
    <3>1. PICK i \in DOMAIN call[c].view, at \in 0 .. LastInstant :
            /\ Current(c, i)
            /\ \E t \in Bookable \cup {seen(i).target} :
                 Save(Append(Revise(entries, i, head(i, at)), tail(i, at, t)), LogEdit(i, {NewId}))
      BY <1>6 DEF Split
    <3> HIDE DEF head, tail
    <3> QED BY <3>1 DEF Save
  <2> QED BY <1>1, <2>1, ReviseCareful DEF Current, Present
<1>7. CASE Correct(c)
  <2>1. PICK i, r : entries' = Revise(entries, i, r) /\ Current(c, i)
    BY <1>7 DEF Correct, Save
  <2> QED BY <1>1, <2>1, ReviseCareful DEF Current, Present
<1>8. CASE Void(c)
  <2>1. call[c].rev
    BY <1>8 DEF Void, InTransaction, Watched
  <2>2. PICK i, r : entries' = Revise(entries, i, r) /\ Mutable(c, entries[i], call[c].view[i])
    BY <1>8 DEF Void, Save
  <2> QED BY <1>1, <2>1, <2>2, ReviseCareful, MutablePresent
<1>9. CASE RangeBook(c)
  <2>1. call[c].rev
    BY <1>9 DEF RangeBook, InTransaction, Watched
  <2>2. \A i \in DOMAIN call[c].view : Present(c, i)
    BY <1>9, <2>1 DEF RangeBook, Present
  <2> QED BY <2>2 DEF Careful
<1> QED BY <1>2, <1>3, <1>4, <1>5, <1>6, <1>7, <1>8, <1>9 DEF CommitStep

\* No edit is lost: optimistic locking refuses every request whose row has
\* changed since it was read, whatever was interleaved.
THEOREM EditsCurrent == Spec => StaleEditsRefused
<1> DEFINE Refused ==
      \A c \in Clients :
        call[c] # Idle /\ call'[c] = Idle
          /\ (call[c].rev \/ call[c].op \in {"Update", "Split", "Correct"})
        => \A i \in DOMAIN call[c].view :
             entries'[i] # entries[i] => call[c].view[i] = entries[i]
<1>1. ASSUME IInv, [Next]_vars PROVE Refused
  <2> SUFFICES ASSUME NEW c \in Clients, call[c] # Idle, call'[c] = Idle, Watched(c),
                      NEW i \in DOMAIN call[c].view, entries'[i] # entries[i]
               PROVE  call[c].view[i] = entries[i]
    BY DEF Watched
  <2>1. \E d \in Clients : CommitStep(d)
    <3>1. CASE \E d \in Clients : BeginStep(d) \/ ChangeMode(d) \/ Abort(d)
      BY <3>1, OthersKeepRows
    <3>2. CASE (\E e \in Employees : TerminalBook(e) \/ SetActive(e)) \/ Tick \/ UNCHANGED vars
      BY <3>2 DEF TerminalBook, SetActive, Tick, vars
    <3>3. CASE \E t \in Targets : SetArchived(t)
      BY <3>3 DEF SetArchived
    <3> QED BY <1>1, <3>1, <3>2, <3>3 DEF Next
  <2>2. PICK d \in Clients : CommitStep(d)
    BY <2>1
  <2>3. d = c
    <3>1. call' = [call EXCEPT ![d] = Idle]
      BY <1>1, <2>2, CommitShape DEF Finish
    <3> QED BY <1>1, <3>1 DEF IInv, TypeOK
  <2>4. Present(c, i)
    BY <1>1, <2>2, <2>3, CommitCareful DEF Careful
  <2> QED BY <1>1, <2>4 DEF Present, IInv, RevisionsTellVersionsApart
<1>2. Spec => [][Refused]_vars
  <2>1. IInv /\ [Next]_vars => [Refused]_vars
    BY <1>1
  <2> QED BY <2>1, Invariance, PTL DEF Spec
<1> QED BY <1>2 DEF StaleEditsRefused

-----------------------------------------------------------------------------
(* The promise of Ledger.  Days and offsets *)

\* An instant is its day's start and an offset into the day.
LEMMA DivMod ==
    ASSUME NEW t \in Nat
    PROVE  /\ Day(t) \in Nat /\ Offset(t) \in Nat
           /\ t = DayLen * Day(t) + Offset(t) /\ Offset(t) < DayLen
BY LedgerAssumption, SMTT(30) DEF Day, Offset

\* Products grow with a factor.
LEMMA Times ==
    ASSUME NEW d \in Nat, NEW x \in Nat, NEW y \in Nat, x <= y
    PROVE  d * x \in Nat /\ d * y \in Nat /\ d * x <= d * y /\ d * (x + 1) = d * x + d
BY SMTT(30)

\* The days follow each other.
LEMMA DaysFollow ==
    ASSUME NEW x \in Nat, NEW y \in Nat, x <= y
    PROVE  Day(x) <= Day(y)
<1> SUFFICES ASSUME Day(y) + 1 <= Day(x) PROVE FALSE
  BY DivMod
<1>1. PICK p : p = Day(x)
  OBVIOUS
<1>2. PICK q : q = Day(y)
  OBVIOUS
<1>3. p \in Nat /\ q \in Nat /\ q + 1 \in Nat /\ q <= q + 1 /\ q + 1 <= p /\ DayLen \in Nat
  BY <1>1, <1>2, DivMod, LedgerAssumption
<1>4. DayLen * (q + 1) = DayLen * q + DayLen /\ DayLen * (q + 1) <= DayLen * p
  BY <1>3, Times
<1>5. x = DayLen * p + Offset(x) /\ y = DayLen * q + Offset(y)
  BY <1>1, <1>2, DivMod
<1>6. Offset(x) \in Nat /\ Offset(y) \in Nat /\ Offset(y) < DayLen
  BY DivMod
<1>7. DayLen * p \in Nat /\ DayLen * q \in Nat
  BY <1>3, Times
<1> HIDE DEF Day
<1>8. PICK u \in Nat : u = DayLen * p
  BY <1>7
<1>9. PICK v \in Nat : v = DayLen * q
  BY <1>7
<1>10. v + DayLen <= u /\ x = u + Offset(x) /\ y = v + Offset(y)
  BY <1>4, <1>5, <1>8, <1>9
<1> QED BY <1>3, <1>6, <1>10

\* The instants of a day.
LEMMA DayWindow ==
    ASSUME NEW a \in Nat, NEW s \in Nat
    PROVE  /\ DayLen * Day(a) \in Nat
           /\ Day(s) = Day(a) <=> DayLen * Day(a) <= s /\ s < DayLen * Day(a) + DayLen
<1>1. PICK p : p = Day(a)
  OBVIOUS
<1>2. PICK q : q = Day(s)
  OBVIOUS
<1>3. p \in Nat /\ q \in Nat /\ DayLen \in Nat
  BY <1>1, <1>2, DivMod, LedgerAssumption
<1>4. s = DayLen * q + Offset(s) /\ Offset(s) \in Nat /\ Offset(s) < DayLen
  BY <1>2, DivMod
<1>5. DayLen * p \in Nat /\ DayLen * q \in Nat
  BY <1>3, Times
<1>6. PICK u \in Nat : u = DayLen * p
  BY <1>5
<1>7. PICK v \in Nat : v = DayLen * q
  BY <1>5
<1>8. q + 1 <= p => v + DayLen <= u
  BY <1>3, <1>6, <1>7, Times
<1>9. p + 1 <= q => u + DayLen <= v
  BY <1>3, <1>6, <1>7, Times
<1>10. s = v + Offset(s)
  BY <1>4, <1>7
<1>11. p = q => u = v
  BY <1>6, <1>7
<1>12. p = q <=> u <= s /\ s < u + DayLen
  BY <1>3, <1>4, <1>8, <1>9, <1>10, <1>11
<1> QED BY <1>1, <1>2, <1>6, <1>12

\* An interval that needs no approval has no instant outside the frame.
LEMMA WithinFrame ==
    ASSUME NEW a \in Nat, NEW b \in Nat, ~RequiresSpecialApproval(a, b),
           NEW s \in a .. b - 1
    PROVE  s \notin OutsideFrame
<1>1. s \in Nat /\ s + 1 \in Nat /\ a <= s /\ s <= s + 1 /\ s + 1 <= b /\ b # Running
  BY DEF Running
<1>2. Day(b) = Day(a) /\ Offset(a) >= FrameStart /\ Offset(b) <= FrameEnd
  <2>1. Offset(a) \in Nat /\ Offset(b) \in Nat
    BY DivMod
  <2> QED BY <1>1, <2>1, LedgerAssumption DEF RequiresSpecialApproval
<1>3. Day(s) = Day(a) /\ Day(s + 1) = Day(a)
  <2>1. Day(a) <= Day(s) /\ Day(s) <= Day(s + 1) /\ Day(s + 1) <= Day(b)
    BY <1>1, DaysFollow
  <2> QED BY <1>1, <1>2, <2>1, DivMod
<1>4. Offset(a) <= Offset(s) /\ Offset(s) < Offset(b)
  <2>1. PICK p : p = Day(a)
    OBVIOUS
  <2>2. PICK u : u = DayLen * p
    OBVIOUS
  <2>3. a = u + Offset(a) /\ s = u + Offset(s) /\ b = u + Offset(b)
    BY <1>1, <1>2, <1>3, <2>1, <2>2, DivMod
  <2>4. Offset(a) \in Nat /\ Offset(b) \in Nat /\ Offset(s) \in Nat
    BY <1>1, DivMod
  <2>5. u \in Nat
      BY <2>1, <2>2, DayWindow
  <2> QED BY <1>1, <2>3, <2>4, <2>5
<1>5. Offset(a) \in Nat /\ Offset(b) \in Nat /\ Offset(s) \in Nat
  BY <1>1, DivMod
<1> QED BY <1>2, <1>3, <1>4, <1>5, LedgerAssumption DEF OutsideFrame

-----------------------------------------------------------------------------
(* What the book of a table says, instant by instant *)

\* A row within the bounds of the model; no writer rejects one.
InBounds(r) == (IsClosed(r) => r.out <= LastInstant) /\ r.status # "Rejected"

\* A table the database accepts, within these bounds.
Sound(rows) ==
    /\ rows \in Seq(Row) /\ DatabaseAccepts(rows)
    /\ \A i \in DOMAIN rows : InBounds(rows[i])

\* Row r is e's and covers the instant s.
On(r, e, s) == r.emp = e /\ IsClosed(r) /\ s \in r.in .. r.out - 1

\* What the rows of a sound table look like.
LEMMA SoundRows ==
    ASSUME NEW rows, Sound(rows)
    PROVE  /\ DOMAIN rows = 1 .. Len(rows) /\ Len(rows) \in Nat /\ LastInstant \in Nat
           /\ \A i \in DOMAIN rows :
                /\ rows[i] \in Row /\ rows[i].in \in Nat /\ rows[i].out \in Nat \cup {Running}
                /\ rows[i].status # "Rejected"
                /\ IsClosed(rows[i]) => /\ rows[i].out \in Nat /\ rows[i].in < rows[i].out
                                        /\ rows[i].out <= LastInstant
<1>1. DOMAIN rows = 1 .. Len(rows) /\ Len(rows) \in Nat /\ \A i \in DOMAIN rows : rows[i] \in Row
  BY DEF Sound
<1>2. ASSUME NEW i \in DOMAIN rows
      PROVE  /\ rows[i].in \in Nat /\ rows[i].out \in Nat \cup {Running}
             /\ rows[i].status # "Rejected"
             /\ IsClosed(rows[i]) => /\ rows[i].out \in Nat /\ rows[i].in < rows[i].out
                                     /\ rows[i].out <= LastInstant
  BY <1>1, <1>2, RowFields DEF Sound, InBounds, DatabaseAccepts, IsClosed, Running
<1> QED BY <1>1, <1>2, LedgerAssumption DEF LastInstant

\* Closed rows of one employee do not overlap.
LEMMA OnOnce ==
    ASSUME NEW rows, Sound(rows), NEW e, NEW i \in DOMAIN rows, NEW j \in DOMAIN rows, NEW s,
           On(rows[i], e, s), On(rows[j], e, s)
    PROVE  i = j
<1> SUFFICES ASSUME i # j PROVE FALSE
  OBVIOUS
<1>1. IsClosed(rows[i]) /\ IsClosed(rows[j]) /\ rows[i].emp = rows[j].emp
  BY DEF On
<1>2. rows[i].out <= rows[j].in \/ rows[j].out <= rows[i].in
  BY <1>1 DEF Sound, DatabaseAccepts
<1>3. /\ rows[i].in \in Nat /\ rows[i].out \in Nat /\ rows[j].in \in Nat /\ rows[j].out \in Nat
  BY <1>1, SoundRows
<1> QED BY <1>2, <1>3 DEF On

IsBook(b, rows, e) == b = BookOf(rows, e)

\* What the book of e says, instant by instant.
LEMMA BookPoints ==
    ASSUME NEW rows, NEW e, NEW b, IsBook(b, rows, e), NEW s
    PROVE  /\ s \in b.worked <=> \E i \in DOMAIN rows : On(rows[i], e, s)
           /\ s \in b.pending <=>
                s \in OutsideFrame /\ \E i \in DOMAIN rows : On(rows[i], e, s) /\ Waits(rows[i])
           /\ \A g \in 1 .. MaxRows : s \in b.captures[g] <=>
                \E i \in DOMAIN rows : On(rows[i], e, s) /\ rows[i].grp = g
<1>1. s \in b.worked <=> \E i \in DOMAIN rows : On(rows[i], e, s)
  BY DEF IsBook, BookOf, Covered, Closed, On
<1>2. s \in b.pending <=>
        s \in OutsideFrame /\ \E i \in DOMAIN rows : On(rows[i], e, s) /\ Waits(rows[i])
  BY DEF IsBook, BookOf, Covered, Closed, On
<1>3. ASSUME NEW g \in 1 .. MaxRows
      PROVE  s \in b.captures[g] <=>
               \E i \in DOMAIN rows : On(rows[i], e, s) /\ rows[i].grp = g
  BY DEF IsBook, BookOf, Covered, Closed, On
<1> QED BY <1>1, <1>2, <1>3

Says(b, rows, e, s) ==
    /\ s \in b.worked <=> \E i \in DOMAIN rows : On(rows[i], e, s)
    /\ s \in b.pending <=>
         s \in OutsideFrame /\ \E i \in DOMAIN rows : On(rows[i], e, s) /\ Waits(rows[i])
    /\ \A g \in 1 .. MaxRows : s \in b.captures[g] <=>
         \E i \in DOMAIN rows : On(rows[i], e, s) /\ rows[i].grp = g

LEMMA BookSays ==
    ASSUME NEW rows, NEW e, NEW b, IsBook(b, rows, e), NEW s
    PROVE  Says(b, rows, e, s)
BY BookPoints DEF Says

\* A book is a record of these fields.
Shaped(b) ==
    b = [worked |-> b.worked, credited |-> b.credited, pending |-> b.pending,
         since |-> b.since, rule |-> b.rule, captures |-> b.captures]

LEMMA BookShape ==
    ASSUME NEW rows, NEW e, NEW b, IsBook(b, rows, e)
    PROVE  Shaped(b) /\ b.captures = [g \in 1 .. MaxRows |-> b.captures[g]]
BY DEF IsBook, BookOf, Shaped

LEMMA BookFields ==
    ASSUME NEW rows, NEW e, NEW b, IsBook(b, rows, e)
    PROVE  /\ b.credited = Credited(rows, Closed(rows, e))
           /\ b.worked = Covered(rows, Closed(rows, e))
BY DEF IsBook, BookOf

LEMMA BookTimer ==
    ASSUME NEW rows, NEW e, NEW b, IsBook(b, rows, e)
    PROVE  /\ Timers(rows, e) = {} => b.since = Running /\ b.rule = "Team"
           /\ \A i : Timers(rows, e) = {i} => b.since = rows[i].in /\ b.rule = rows[i].mode
BY DEF IsBook, BookOf

\* Books that differ in the timer only.
SameBut(b, n) == n = [b EXCEPT !.since = n.since, !.rule = n.rule]

LEMMA BooksAgree ==
    ASSUME NEW b, NEW n, Shaped(b), Shaped(n),
           n.worked = b.worked, n.credited = b.credited, n.pending = b.pending,
           n.captures = b.captures
    PROVE  /\ SameBut(b, n)
           /\ n.since = b.since /\ n.rule = b.rule => n = b
<1>1. [b EXCEPT !.since = n.since, !.rule = n.rule]
        = [worked |-> b.worked, credited |-> b.credited, pending |-> b.pending,
           since |-> n.since, rule |-> n.rule, captures |-> b.captures]
  BY DEF Shaped
<1>2. n = [worked |-> b.worked, credited |-> b.credited, pending |-> b.pending,
           since |-> n.since, rule |-> n.rule, captures |-> b.captures]
  BY DEF Shaped
<1>3. ASSUME n.since = b.since, n.rule = b.rule PROVE n = b
  <2>1. n = [worked |-> b.worked, credited |-> b.credited, pending |-> b.pending,
             since |-> b.since, rule |-> b.rule, captures |-> b.captures]
    BY <1>2, <1>3
  <2> QED BY <2>1 DEF Shaped
<1> QED BY <1>1, <1>2, <1>3 DEF SameBut

-----------------------------------------------------------------------------
(* Every instant is credited once: the fold over the rows counts what they cover *)

\* Induction over the numbers that have a property, as a set.
LEMMA SetOfNumbers ==
    ASSUME NEW P \in SUBSET Nat, 0 \in P, \A n \in P : n + 1 \in P
    PROVE  P = Nat
<1>1. SUFFICES ASSUME Nat \ P # {} PROVE FALSE
  OBVIOUS
<1>2. PICK m \in Nat \ P : \A n \in Nat \ P : ~(<<n, m>> \in OpToRel(<, Nat))
  BY <1>1, WFMin, NatLessThanWellFounded
<1>3. \A n \in Nat \ P : ~(n < m)
  BY <1>2 DEF OpToRel
<1>4. m # 0 /\ m \in Nat
  OBVIOUS
<1>5. m - 1 \in Nat /\ m - 1 < m
  BY <1>4
<1>6. m - 1 \in P
  BY <1>3, <1>5
<1>7. m \in P
  BY <1>4, <1>6
<1> QED BY <1>7

\* Taking the rows of a set one by one, as a fold does.
First(ids) == CHOOSE i \in ids : TRUE
Folded(h, rows, S) ==
    h = [s \in SUBSET S |->
           IF s = {} THEN 0 ELSE Length(rows[First(s)]) + h[s \ {First(s)}]]

\* Two such folds are the same.
LEMMA FoldsAgree ==
    ASSUME NEW S, IsFiniteSet(S), NEW rows, NEW h, Folded(h, rows, S),
           NEW k, Folded(k, rows, S)
    PROVE  h[S] = k[S]
<1> DEFINE P == {n \in Nat : \A s \in SUBSET S : Cardinality(s) <= n => h[s] = k[s]}
<1>1. \A s \in SUBSET S : IsFiniteSet(s) /\ Cardinality(s) \in Nat
  BY FS_Subset, FS_CardinalityType
<1>2. /\ h[{}] = 0 /\ k[{}] = 0
      /\ \A s \in SUBSET S : s # {} =>
           /\ h[s] = Length(rows[First(s)]) + h[s \ {First(s)}]
           /\ k[s] = Length(rows[First(s)]) + k[s \ {First(s)}]
  BY DEF Folded
<1>3. 0 \in P
  <2>1. ASSUME NEW s \in SUBSET S, Cardinality(s) <= 0 PROVE s = {}
    BY <1>1, <2>1, FS_EmptySet
  <2> QED BY <1>2, <2>1
<1>4. ASSUME NEW n \in P PROVE n + 1 \in P
  <2> SUFFICES ASSUME NEW s \in SUBSET S, Cardinality(s) <= n + 1, s # {} PROVE h[s] = k[s]
    BY <1>2
  <2>1. PICK t : t = s \ {First(s)}
    OBVIOUS
  <2>2. First(s) \in s
    BY DEF First
  <2>3. Cardinality(t) = Cardinality(s) - 1
    BY <1>1, <2>1, <2>2, FS_RemoveElement
  <2>4. t \in SUBSET S /\ Cardinality(t) <= n
    BY <1>1, <2>1, <2>3
  <2>5. h[t] = k[t]
    BY <1>4, <2>4
  <2> QED BY <1>2, <2>1, <2>5
<1>5. P = Nat
  <2>1. P \in SUBSET Nat
    OBVIOUS
  <2> HIDE DEF P
  <2> QED BY <1>3, <1>4, <2>1, SetOfNumbers
<1> QED BY <1>1, <1>5

\* The community modules' fold is one, if there is one.
LEMMA CreditFolds ==
    ASSUME NEW S, IsFiniteSet(S), NEW rows, NEW g, Folded(g, rows, S)
    PROVE  Credited(rows, S) = g[S]
<1> DEFINE Step(h) == [s \in SUBSET S |-> IF s = {} THEN 0
                         ELSE Length(rows[CHOOSE x \in s : TRUE])
                                + h[s \ {CHOOSE x \in s : TRUE}]]
           h == CHOOSE h : h = Step(h)
<1>1. Credited(rows, S) = h[S]
  BY DEF Credited, MapThenSumSet, MapThenFoldSet
<1>2. g = Step(g)
  BY DEF Folded, First
<1>3. h = Step(h)
  BY <1>2
<1>4. Folded(h, rows, S)
  BY <1>3 DEF Folded, First
<1> HIDE DEF h
<1> QED BY <1>1, <1>4, FoldsAgree

\* Instants that a set of closed rows covers, one row set apart.
LEMMA CoveredApart ==
    ASSUME NEW rows, Sound(rows), NEW e, NEW S \in SUBSET Closed(rows, e), NEW i \in S
    PROVE  /\ IsFiniteSet(Covered(rows, S))
           /\ Cardinality(Covered(rows, S)) =
                Length(rows[i]) + Cardinality(Covered(rows, S \ {i}))
<1>1. PICK rest : rest = Covered(rows, S \ {i})
  OBVIOUS
<1>2. PICK span : span = rows[i].in .. rows[i].out - 1
  OBVIOUS
<1>3. /\ i \in DOMAIN rows /\ IsClosed(rows[i]) /\ rows[i].emp = e
      /\ rows[i].in \in Nat /\ rows[i].out \in Nat /\ rows[i].in < rows[i].out
      /\ LastInstant \in Nat
  BY SoundRows DEF Closed
<1>4. Covered(rows, S) = span \cup rest
  BY <1>1, <1>2 DEF Covered
<1>5. span \cap rest = {}
  <2> SUFFICES ASSUME NEW s \in span, s \in rest PROVE FALSE
    OBVIOUS
  <2>1. PICK j \in S \ {i} : s \in rows[j].in .. rows[j].out - 1
    BY <1>1 DEF Covered
  <2>2. On(rows[i], e, s) /\ On(rows[j], e, s) /\ j \in DOMAIN rows
    BY <1>2, <1>3, <2>1 DEF On, Closed
  <2> QED BY <1>3, <2>1, <2>2, OnOnce
<1>6. IsFiniteSet(rest)
  <2>1. rest \subseteq 0 .. LastInstant
    <3> SUFFICES ASSUME NEW s \in rest PROVE s \in 0 .. LastInstant
      OBVIOUS
    <3>1. PICK j \in S \ {i} : s \in rows[j].in .. rows[j].out - 1
      BY <1>1 DEF Covered
    <3>2. /\ rows[j].in \in Nat /\ rows[j].out \in Nat /\ rows[j].out <= LastInstant
      BY <3>1, SoundRows DEF Closed
    <3> QED BY <1>3, <3>1, <3>2
  <2>2. IsFiniteSet(0 .. LastInstant)
    BY <1>3, FS_Interval
  <2> QED BY <2>1, <2>2, FS_Subset
<1>7. IsFiniteSet(span) /\ Cardinality(span) = Length(rows[i])
  <2>1. PICK from \in Int : from = rows[i].in
    BY <1>3
  <2>2. PICK to \in Int : to = rows[i].out - 1
    BY <1>3
  <2>3. IsFiniteSet(from .. to) /\ Cardinality(from .. to) = IF from > to THEN 0 ELSE to - from + 1
    BY FS_Interval
  <2>4. span = from .. to
    BY <1>2, <2>1, <2>2
  <2>5. from <= to /\ to - from + 1 = Length(rows[i])
    BY <1>3, <2>1, <2>2 DEF Length
  <2> QED BY <2>3, <2>4, <2>5
<1>8. /\ IsFiniteSet(span \cup rest)
      /\ Cardinality(span \cup rest) = Cardinality(span) + Cardinality(rest) - Cardinality({})
  BY <1>5, <1>6, <1>7, FS_Union
<1>9. Cardinality(span) \in Nat /\ Cardinality(rest) \in Nat /\ Cardinality({}) = 0
  BY <1>6, <1>7, FS_CardinalityType, FS_EmptySet
<1> QED BY <1>1, <1>4, <1>7, <1>8, <1>9

\* An instant is credited once: the lengths of the rows add up to what they cover.
LEMMA CreditedOnce ==
    ASSUME NEW rows, Sound(rows), NEW e
    PROVE  Credited(rows, Closed(rows, e)) = Cardinality(Covered(rows, Closed(rows, e)))
<1>1. PICK S : S = Closed(rows, e)
  OBVIOUS
<1>2. IsFiniteSet(S)
  <2>1. S \subseteq 1 .. Len(rows) /\ Len(rows) \in Int /\ 1 \in Int
    BY <1>1, SoundRows DEF Closed
  <2> QED BY <2>1, FS_Interval, FS_Subset
<1>3. PICK g : g = [s \in SUBSET S |-> Cardinality(Covered(rows, s))]
  OBVIOUS
<1>4. Folded(g, rows, S)
  <2>1. Cardinality(Covered(rows, {})) = 0
    <3>1. Covered(rows, {}) = {}
      BY DEF Covered
    <3> QED BY <3>1, FS_EmptySet
  <2>2. ASSUME NEW s \in SUBSET S, s # {}
        PROVE  g[s] = Length(rows[First(s)]) + g[s \ {First(s)}]
    <3>1. First(s) \in s
      BY <2>2 DEF First
    <3>2. PICK i : i = First(s)
      OBVIOUS
    <3>3. Cardinality(Covered(rows, s)) = Length(rows[i]) + Cardinality(Covered(rows, s \ {i}))
      BY <1>1, <3>1, <3>2, CoveredApart
    <3>4. g[s] = Cardinality(Covered(rows, s)) /\ g[s \ {i}] = Cardinality(Covered(rows, s \ {i}))
      BY <1>3
    <3> QED BY <3>2, <3>3, <3>4
  <2>3. \A s \in SUBSET S : g[s] = IF s = {} THEN 0
                                   ELSE Length(rows[First(s)]) + g[s \ {First(s)}]
    BY <1>3, <2>1, <2>2
  <2> QED BY <1>3, <2>3 DEF Folded
<1>5. Credited(rows, S) = g[S]
  BY <1>2, <1>4, CreditFolds
<1> QED BY <1>1, <1>3, <1>5

\* FiniteSets is the same module for Ledger.
LEMMA SameCount ==
    ASSUME NEW S
    PROVE  Promise!Cardinality(S) = Cardinality(S)
BY DEF Promise!Cardinality, Cardinality

\* The book of a sound table balances.
LEMMA Balances ==
    ASSUME NEW rows, Sound(rows), NEW e, NEW b, IsBook(b, rows, e)
    PROVE  /\ Promise!Balanced(b)
           /\ b.credited = Cardinality(b.worked) /\ b.pending \subseteq b.worked
<1>1. b.credited = Credited(rows, Closed(rows, e)) /\ b.worked = Covered(rows, Closed(rows, e))
  BY BookFields
<1>2. b.credited = Cardinality(b.worked)
  BY <1>1, CreditedOnce
<1>3. b.pending \subseteq b.worked
  BY BookPoints
<1>4. Promise!Balanced(b)
  BY <1>2, <1>3, SameCount DEF Promise!Balanced
<1> QED BY <1>2, <1>3, <1>4

-----------------------------------------------------------------------------
(* Tables that are the same attendance, and tables that differ in one row *)

\* Two rows that are the same attendance.
Like(q, r) ==
    /\ q.emp = r.emp /\ q.in = r.in /\ q.out = r.out /\ q.grp = r.grp
    /\ IsClosed(q) /\ IsClosed(r) /\ (Waits(q) <=> Waits(r))

\* Every attendance of e in `rows` is one in `other`.
Within(rows, other, e) ==
    \A i \in DOMAIN rows : rows[i].emp = e /\ IsClosed(rows[i]) =>
        \E j \in DOMAIN other : Like(other[j], rows[i])

\* What the book says of attendance that is also in the other table.
LEMMA WithinPoints ==
    ASSUME NEW rows, NEW other, NEW e, Within(rows, other, e),
           NEW n, IsBook(n, rows, e), NEW b, IsBook(b, other, e), NEW s
    PROVE  /\ s \in n.worked => s \in b.worked
           /\ s \in n.pending => s \in b.pending
           /\ \A g \in 1 .. MaxRows : s \in n.captures[g] => s \in b.captures[g]
<1>1. ASSUME NEW i \in DOMAIN rows, On(rows[i], e, s)
      PROVE  \E j \in DOMAIN other : /\ On(other[j], e, s) /\ other[j].grp = rows[i].grp
                                    /\ (Waits(other[j]) <=> Waits(rows[i]))
  <2>1. PICK j \in DOMAIN other : Like(other[j], rows[i])
    BY <1>1 DEF Within, On
  <2> QED BY <1>1, <2>1 DEF Like, On
<1> QED BY <1>1, BookPoints

\* Books of the same attendance differ in the timer only.
LEMMA ClosedAlike ==
    ASSUME NEW rows, Sound(rows), NEW other, Sound(other), NEW e,
           Within(rows, other, e), Within(other, rows, e),
           NEW n, IsBook(n, rows, e), NEW b, IsBook(b, other, e)
    PROVE  /\ SameBut(b, n)
           /\ n.worked = b.worked
           /\ n.since = b.since /\ n.rule = b.rule => n = b
<1>3. n.worked = b.worked
  <2>1. ASSUME NEW s PROVE s \in n.worked <=> s \in b.worked
    BY WithinPoints
  <2> QED BY <2>1
<1>4. n.pending = b.pending
  <2>1. ASSUME NEW s PROVE s \in n.pending <=> s \in b.pending
    BY WithinPoints
  <2>2. n.pending \subseteq OutsideFrame /\ b.pending \subseteq OutsideFrame
    BY BookPoints
  <2> QED BY <2>1, <2>2
<1>5. n.captures = b.captures
  <2>1. ASSUME NEW g \in 1 .. MaxRows PROVE n.captures[g] = b.captures[g]
    <3>1. ASSUME NEW s PROVE s \in n.captures[g] <=> s \in b.captures[g]
      BY WithinPoints
    <3> QED BY <3>1 DEF IsBook, BookOf, Covered
  <2>2. n.captures = [g \in 1 .. MaxRows |-> n.captures[g]]
    BY BookShape
  <2>3. b.captures = [g \in 1 .. MaxRows |-> b.captures[g]]
    BY BookShape
  <2> QED BY <2>1, <2>2, <2>3
<1>6. n.credited = b.credited
  BY <1>3, Balances
<1>7. Shaped(n) /\ Shaped(b)
  BY BookShape
<1> QED BY <1>3, <1>4, <1>5, <1>6, <1>7, BooksAgree

\* The attendance of one row, if it is any.
SpanOf(r) == IF IsClosed(r) THEN r.in .. r.out - 1 ELSE {}

OldSpan(i) == IF i \in Ids THEN SpanOf(entries[i]) ELSE {}

\* What the ledger becomes when one row of e comes or changes, besides timers.
OneChanged(rows, i, e) ==
    /\ Sound(entries) /\ Sound(rows)
    /\ i \in DOMAIN rows /\ rows[i].emp = e /\ (i \in Ids => entries[i].emp = e)
    /\ \A j \in Ids : j # i => j \in DOMAIN rows /\ rows[j] = entries[j]
    /\ \A j \in DOMAIN rows : j \notin Ids /\ j # i => ~IsClosed(rows[j])

\* An instant is on the changed row, or on one that is the same in both tables.
LEMMA ChangedPoints ==
    ASSUME NEW e, NEW rows, NEW i, OneChanged(rows, i, e),
           NEW s
    PROVE  /\ \A j \in Ids : j # i /\ On(entries[j], e, s) =>
                j \in DOMAIN rows /\ On(rows[j], e, s) /\ rows[j] = entries[j]
                /\ s \notin OldSpan(i) /\ s \notin SpanOf(rows[i])
           /\ \A j \in DOMAIN rows : j # i /\ On(rows[j], e, s) =>
                j \in Ids /\ On(entries[j], e, s) /\ rows[j] = entries[j]
                /\ s \notin OldSpan(i) /\ s \notin SpanOf(rows[i])
           /\ s \in SpanOf(rows[i]) <=> On(rows[i], e, s)
           /\ s \in OldSpan(i) <=> i \in Ids /\ On(entries[i], e, s)
<1>1. /\ s \in SpanOf(rows[i]) <=> On(rows[i], e, s)
      /\ s \in OldSpan(i) <=> i \in Ids /\ On(entries[i], e, s)
  BY DEF OneChanged, OldSpan, SpanOf, On
<1>2. ASSUME NEW j \in Ids, j # i, On(entries[j], e, s)
      PROVE  j \in DOMAIN rows /\ On(rows[j], e, s) /\ rows[j] = entries[j]
             /\ s \notin OldSpan(i) /\ s \notin SpanOf(rows[i])
  <2>1. j \in DOMAIN rows /\ rows[j] = entries[j] /\ i \in DOMAIN rows
    BY <1>2 DEF OneChanged
  <2>2. ~On(rows[i], e, s)
    BY <1>2, <2>1, OnOnce DEF OneChanged
  <2>3. i \in Ids => ~On(entries[i], e, s)
    BY <1>2, OnOnce DEF OneChanged, Ids
  <2> QED BY <1>1, <1>2, <2>1, <2>2, <2>3
<1>3. ASSUME NEW j \in DOMAIN rows, j # i, On(rows[j], e, s)
      PROVE  j \in Ids /\ On(entries[j], e, s) /\ rows[j] = entries[j]
             /\ s \notin OldSpan(i) /\ s \notin SpanOf(rows[i])
  <2>1. j \in Ids /\ rows[j] = entries[j]
    BY <1>3 DEF OneChanged, On
  <2> QED BY <1>2, <1>3, <2>1
<1> QED BY <1>1, <1>2, <1>3

\* The book after the change: row i's old interval out, its new one in.
LEMMA ChangedBook ==
    ASSUME NEW e, NEW rows, NEW i, OneChanged(rows, i, e),
           NEW old, old = OldSpan(i),
           NEW new, new = SpanOf(rows[i]),
           NEW b, IsBook(b, entries, e), NEW n, IsBook(n, rows, e)
    PROVE  /\ old \subseteq b.worked /\ n.worked = (b.worked \ old) \cup new
           /\ new \cap (b.worked \ old) = {}
           /\ n.pending \ new = b.pending \ (old \cup new)
           /\ n.pending \cap new = IF Waits(rows[i]) THEN new \cap OutsideFrame ELSE {}
           /\ old = {} => Promise!KeepsGroups(b, n)
<1>1. ASSUME NEW s
      PROVE  /\ s \in old => s \in b.worked
             /\ s \in n.worked <=> (s \in b.worked /\ s \notin old) \/ s \in new
             /\ ~(s \in new /\ s \in b.worked /\ s \notin old)
             /\ s \in n.pending /\ s \notin new <=> s \in b.pending /\ s \notin old /\ s \notin new
             /\ s \in n.pending /\ s \in new <=>
                  s \in new /\ s \in OutsideFrame /\ Waits(rows[i])
             /\ old = {} => \A g \in 1 .. MaxRows : s \in b.captures[g] => s \in n.captures[g]
  <2>1. /\ s \in b.worked <=> \E j \in Ids : On(entries[j], e, s)
        /\ s \in b.pending <=>
             s \in OutsideFrame /\ \E j \in Ids : On(entries[j], e, s) /\ Waits(entries[j])
        /\ \A g \in 1 .. MaxRows : s \in b.captures[g] <=>
             \E j \in Ids : On(entries[j], e, s) /\ entries[j].grp = g
    <3>1. PICK table : table = entries
      OBVIOUS
    <3>2. IsBook(b, table, e) /\ Ids = DOMAIN table
      BY <3>1 DEF Ids
    <3>3. /\ s \in b.worked <=> \E j \in DOMAIN table : On(table[j], e, s)
          /\ s \in b.pending <=>
               s \in OutsideFrame /\ \E j \in DOMAIN table : On(table[j], e, s) /\ Waits(table[j])
          /\ \A g \in 1 .. MaxRows : s \in b.captures[g] <=>
               \E j \in DOMAIN table : On(table[j], e, s) /\ table[j].grp = g
      BY <3>2, BookPoints
    <3> QED BY <3>1, <3>2, <3>3
  <2>2. /\ s \in n.worked <=> \E j \in DOMAIN rows : On(rows[j], e, s)
        /\ s \in n.pending <=>
             s \in OutsideFrame /\ \E j \in DOMAIN rows : On(rows[j], e, s) /\ Waits(rows[j])
        /\ \A g \in 1 .. MaxRows : s \in n.captures[g] <=>
             \E j \in DOMAIN rows : On(rows[j], e, s) /\ rows[j].grp = g
    <3>1. Says(n, rows, e, s)
      BY BookSays
    <3> QED BY <3>1 DEF Says
  <2>3. /\ \A j \in Ids : j # i /\ On(entries[j], e, s) =>
             j \in DOMAIN rows /\ On(rows[j], e, s) /\ rows[j] = entries[j]
             /\ s \notin old /\ s \notin new
        /\ \A j \in DOMAIN rows : j # i /\ On(rows[j], e, s) =>
             j \in Ids /\ On(entries[j], e, s) /\ rows[j] = entries[j]
             /\ s \notin old /\ s \notin new
        /\ s \in new <=> On(rows[i], e, s)
        /\ s \in old <=> i \in Ids /\ On(entries[i], e, s)
    BY ChangedPoints
  <2>4. i \in DOMAIN rows
    BY DEF OneChanged
  <2>5. s \in old => s \in b.worked
    BY <2>1, <2>3
  <2>6. s \in n.worked <=> (s \in b.worked /\ s \notin old) \/ s \in new
    BY <2>1, <2>2, <2>3, <2>4
  <2>7. ~(s \in new /\ s \in b.worked /\ s \notin old)
    BY <2>1, <2>3
  <2>8. s \in n.pending /\ s \notin new <=> s \in b.pending /\ s \notin old /\ s \notin new
    BY <2>1, <2>2, <2>3, <2>4
  <2>9. s \in n.pending /\ s \in new <=> s \in new /\ s \in OutsideFrame /\ Waits(rows[i])
    BY <2>1, <2>2, <2>3, <2>4
  <2>10. old = {} => \A g \in 1 .. MaxRows : s \in b.captures[g] => s \in n.captures[g]
    BY <2>1, <2>2, <2>3, <2>4
  <2> QED BY <2>5, <2>6, <2>7, <2>8, <2>9, <2>10
<1>2. old \subseteq b.worked /\ n.worked = (b.worked \ old) \cup new
  BY <1>1
<1>3. new \cap (b.worked \ old) = {}
  BY <1>1
<1>4. n.pending \ new = b.pending \ (old \cup new)
  BY <1>1
<1>5. n.pending \cap new = IF Waits(rows[i]) THEN new \cap OutsideFrame ELSE {}
  BY <1>1
<1>6. old = {} => Promise!KeepsGroups(b, n)
  BY <1>1 DEF Promise!KeepsGroups
<1> QED BY <1>2, <1>3, <1>4, <1>5, <1>6

-----------------------------------------------------------------------------
(* Tables that a transaction leaves, and their timers *)

\* The invariant: the table is what the database accepts, within the horizon.
LedgerInv == IInv /\ Sound(entries) /\ now <= Horizon

Bounded(rows) ==
    \A i \in DOMAIN rows : InBounds(rows[i])

\* What a transaction for e leaves behind.
Leaves(rows, e) == entries' = rows /\ Extends(rows) /\ Owns(rows, e) /\ DatabaseAccepts(rows)

LEMMA LeavesSound ==
    ASSUME NEW rows, NEW e, Leaves(rows, e), Bounded(rows)
    PROVE  Sound(rows)
BY DEF Leaves, Sound, Bounded, Extends

\* Appending a row, revising one, and both.
Appended(rows, r) == rows = Append(entries, r)
Changed(rows, i, r) == rows = Revise(entries, i, r)
Moved(rows, i, r, q) == rows = Append(Revise(entries, i, r), q)

\* The rows of such a table.
LEMMA AppendedRows ==
    ASSUME IInv, NEW r, NEW rows, Appended(rows, r)
    PROVE  /\ DOMAIN rows = Ids \cup {NewId} /\ NewId \notin Ids /\ NewId \in DOMAIN rows
           /\ rows[NewId] = r /\ \A j \in Ids : j \in DOMAIN rows /\ rows[j] = entries[j]
<1>1. entries \in Seq(Row)
  BY DEF IInv, TypeOK
<1>2. /\ DOMAIN rows = 1 .. Len(entries) + 1 /\ rows[Len(entries) + 1] = r
      /\ \A j \in 1 .. Len(entries) : rows[j] = entries[j]
  BY <1>1 DEF Appended
<1>3. Ids = 1 .. Len(entries) /\ Len(entries) \in Nat /\ NewId = Len(entries) + 1
  BY EntryRow
<1> QED BY <1>2, <1>3

\* All that the books see of a row but its revision.
SameRow(q, r) ==
    /\ q.emp = r.emp /\ q.in = r.in /\ q.out = r.out /\ q.grp = r.grp /\ q.mode = r.mode
    /\ q.status = r.status /\ q.voided = r.voided
    /\ (IsClosed(q) <=> IsClosed(r)) /\ (IsOpen(q) <=> IsOpen(r)) /\ (Waits(q) <=> Waits(r))

LEMMA RevisedRows ==
    ASSUME IInv, NEW i \in Ids, NEW r \in Row, NEW rows, Changed(rows, i, r)
    PROVE  /\ DOMAIN rows = Ids /\ Len(rows) = Len(entries) /\ rows \in Seq(Row)
           /\ SameRow(rows[i], r)
           /\ \A j \in Ids : j # i => rows[j] = entries[j]
<1>1. entries \in Seq(Row) /\ entries[i].rev + 1 \in Nat
  BY EntryRow DEF IInv, TypeOK
<1>2. PICK q : q = [r EXCEPT !.rev = entries[i].rev + 1]
  OBVIOUS
<1>3. q \in Row /\ SameRow(q, r)
  BY <1>1, <1>2 DEF Row, SameRow, IsClosed, IsOpen, Effective, Waits
<1>4. rows = [entries EXCEPT ![i] = q]
  BY <1>2 DEF Revise, Changed
<1>5. /\ rows \in Seq(Row) /\ Len(rows) = Len(entries) /\ DOMAIN rows = DOMAIN entries
      /\ rows[i] = q /\ \A j \in DOMAIN entries : j # i => rows[j] = entries[j]
  BY <1>1, <1>3, <1>4, EntryRow DEF Ids
<1> QED BY <1>3, <1>5 DEF Ids

LEMMA RevisedAppendedRows ==
    ASSUME IInv, NEW i \in Ids, NEW r \in Row, NEW q,
           NEW rows, Moved(rows, i, r, q)
    PROVE  /\ DOMAIN rows = Ids \cup {NewId} /\ NewId \notin Ids /\ NewId \in DOMAIN rows
           /\ SameRow(rows[i], r) /\ rows[NewId] = q
           /\ \A j \in Ids : j # i => j \in DOMAIN rows /\ rows[j] = entries[j]
<1>1. PICK rev : rev = Revise(entries, i, r)
  OBVIOUS
<1>2. /\ DOMAIN rev = Ids /\ Len(rev) = Len(entries) /\ rev \in Seq(Row)
      /\ SameRow(rev[i], r)
      /\ \A j \in Ids : j # i => rev[j] = entries[j]
  BY <1>1, RevisedRows DEF Changed
<1>3. Ids = 1 .. Len(entries) /\ Len(entries) \in Nat /\ NewId = Len(entries) + 1
  BY EntryRow
<1>4. /\ DOMAIN rows = 1 .. Len(entries) + 1 /\ rows[Len(entries) + 1] = q
      /\ \A j \in 1 .. Len(entries) : rows[j] = rev[j]
  BY <1>1, <1>2 DEF Moved
<1> QED BY <1>2, <1>3, <1>4

\* They stay within the bounds.
LEMMA RevisedBounded ==
    ASSUME LedgerInv, NEW i \in Ids, NEW r \in Row, NEW rows, Changed(rows, i, r),
           InBounds(r)
    PROVE  Bounded(rows)
<1>1. ASSUME NEW j \in Ids PROVE InBounds(rows[j])
  <2>1. CASE j = i
    BY <2>1, RevisedRows DEF SameRow, LedgerInv, InBounds
  <2>2. CASE j # i
    BY <2>2, RevisedRows DEF LedgerInv, Sound, Ids
  <2> QED BY <2>1, <2>2
<1> QED BY <1>1, RevisedRows DEF Bounded, LedgerInv

LEMMA AppendedBounded ==
    ASSUME LedgerInv, NEW r, NEW rows, Appended(rows, r),
           InBounds(r)
    PROVE  Bounded(rows)
BY AppendedRows DEF Bounded, LedgerInv, Sound, Ids

LEMMA RevisedAppendedBounded ==
    ASSUME LedgerInv, NEW i \in Ids, NEW r \in Row, NEW q,
           NEW rows, Moved(rows, i, r, q),
           InBounds(r),
           InBounds(q)
    PROVE  Bounded(rows)
<1>1. ASSUME NEW j \in Ids PROVE InBounds(rows[j])
  <2>1. CASE j = i
    BY <2>1, RevisedAppendedRows DEF SameRow, LedgerInv, InBounds
  <2>2. CASE j # i
    BY <2>2, RevisedAppendedRows DEF LedgerInv, Sound, Ids
  <2> QED BY <2>1, <2>2
<1>2. DOMAIN rows = Ids \cup {NewId} /\ rows[NewId] = q
  BY RevisedAppendedRows DEF LedgerInv
<1> QED BY <1>1, <1>2 DEF Bounded

(* Timers *)

\* The timer of a book is the open row.
LEMMA TimerIs ==
    ASSUME NEW rows, Extends(rows), NEW i \in DOMAIN rows, IsOpen(rows[i]),
           NEW n, IsBook(n, rows, rows[i].emp)
    PROVE  n.since = rows[i].in /\ n.rule = rows[i].mode
<1>1. Timers(rows, rows[i].emp) = {i}
  BY DEF Timers, Extends, Single
<1> QED BY <1>1, BookTimer

LEMMA TimerWas ==
    ASSUME LedgerInv, NEW i \in Ids, IsOpen(entries[i]),
           NEW b, IsBook(b, entries, entries[i].emp)
    PROVE  b.since = entries[i].in /\ b.rule = entries[i].mode /\ b.since # Running
<1>1. Timers(entries, entries[i].emp) = {i}
  BY EntryRow DEF Timers, Single, LedgerInv
<1>2. entries[i].in \in Nat
  BY EntryRow, RowFields DEF LedgerInv
<1> QED BY <1>1, <1>2, BookTimer DEF Running

LEMMA NoTimerIs ==
    ASSUME NEW rows, NEW e, \A j \in DOMAIN rows : rows[j].emp = e => ~IsOpen(rows[j]),
           NEW n, IsBook(n, rows, e)
    PROVE  n.since = Running /\ n.rule = "Team"
<1>1. Timers(rows, e) = {}
  BY DEF Timers
<1> QED BY <1>1, BookTimer

\* The timer of e, if any, goes on.
Continues(rows, e) ==
    /\ \A j \in DOMAIN rows : rows[j].emp = e /\ IsOpen(rows[j]) =>
         /\ j \in Ids /\ entries[j].emp = e /\ IsOpen(entries[j])
         /\ rows[j].in = entries[j].in /\ rows[j].mode = entries[j].mode
    /\ \A j \in Ids : entries[j].emp = e /\ IsOpen(entries[j]) =>
         j \in DOMAIN rows /\ rows[j].emp = e /\ IsOpen(rows[j])

LEMMA TimerContinues ==
    ASSUME LedgerInv, NEW rows, Extends(rows), NEW e, Continues(rows, e),
           NEW b, IsBook(b, entries, e), NEW n, IsBook(n, rows, e)
    PROVE  n.since = b.since /\ n.rule = b.rule
<1>1. CASE \E j \in DOMAIN rows : rows[j].emp = e /\ IsOpen(rows[j])
  <2>1. PICK j \in DOMAIN rows : rows[j].emp = e /\ IsOpen(rows[j])
    BY <1>1
  <2>2. /\ j \in Ids /\ entries[j].emp = e /\ IsOpen(entries[j])
        /\ rows[j].in = entries[j].in /\ rows[j].mode = entries[j].mode
    BY <2>1 DEF Continues
  <2> QED BY <2>1, <2>2, TimerIs, TimerWas
<1>2. CASE ~\E j \in DOMAIN rows : rows[j].emp = e /\ IsOpen(rows[j])
  <2>1. n.since = Running /\ n.rule = "Team"
    BY <1>2, NoTimerIs
  <2>2. \A j \in DOMAIN entries : entries[j].emp = e => ~IsOpen(entries[j])
    BY <1>2 DEF Continues, Ids
  <2>3. b.since = Running /\ b.rule = "Team"
    BY <2>2, NoTimerIs
  <2> QED BY <2>1, <2>3
<1> QED BY <1>1, <1>2

\* The books of everybody else stay.
LEMMA OthersBook ==
    ASSUME LedgerInv, NEW rows, Extends(rows), Sound(rows), NEW e, Owns(rows, e),
           NEW f, f # e, NEW b, IsBook(b, entries, f), NEW n, IsBook(n, rows, f)
    PROVE  n = b
<1>1. Ids = 1 .. Len(entries) /\ Len(entries) \in Nat /\ DOMAIN rows = 1 .. Len(rows)
      /\ Len(rows) \in Nat /\ Len(entries) <= Len(rows)
  BY EntryRow, SoundRows DEF LedgerInv, Extends
<1>2. ASSUME NEW j \in DOMAIN rows, rows[j].emp = f PROVE j \in Ids /\ rows[j] = entries[j]
  BY <1>1, <1>2 DEF Owns
<1>3. ASSUME NEW j \in Ids, entries[j].emp = f PROVE j \in DOMAIN rows /\ rows[j] = entries[j]
  BY <1>1, <1>3 DEF Owns, Extends, Keeps
<1>4. Within(rows, entries, f) /\ Within(entries, rows, f)
  BY <1>2, <1>3 DEF Within, Like, Ids
<1>5. Continues(rows, f)
  BY <1>2, <1>3 DEF Continues
<1>6. n.since = b.since /\ n.rule = b.rule
  BY <1>5, TimerContinues
<1>7. PICK table : table = entries
  OBVIOUS
<1>8. Sound(table) /\ Within(rows, table, f) /\ Within(table, rows, f) /\ IsBook(b, table, f)
  BY <1>4, <1>7 DEF LedgerInv
<1> QED BY <1>6, <1>8, ClosedAlike

-----------------------------------------------------------------------------
(* Ledger's spans; a row's interval or timer that is new in the book *)

\* Ledger's spans and the instants outside its frame, in terms of TimeEntries.
LEMMA PromiseSpans ==
    ASSUME NEW a \in Nat, NEW b \in Nat, a <= LastInstant + 1, b <= LastInstant + 1
    PROVE  a .. b - 1 \in Promise!Spans
<1>1. a \in 0 .. LastInstant + 1 /\ b \in 0 .. LastInstant + 1
  BY LedgerAssumption DEF LastInstant
<1>2. a .. b - 1 = Promise!Span(a, b)
  BY DEF Promise!Span
<1> QED BY <1>1, <1>2 DEF Promise!Spans

LEMMA PromiseEmpty == {} \in Promise!Spans
<1>1. 0 .. 0 - 1 = {}
  OBVIOUS
<1>2. 0 <= LastInstant + 1 /\ 0 \in Nat
  BY LedgerAssumption DEF LastInstant
<1> QED BY <1>1, <1>2, PromiseSpans

LEMMA PromiseOutside == Promise!Outside = OutsideFrame
BY DEF Promise!Outside, Promise!Day, OutsideFrame, Offset, Day

\* What of a row's attendance waits for its approval.
WaitsOf(r) == IF Waits(r) THEN SpanOf(r) \cap OutsideFrame ELSE {}

\* A row that was open or new is now a closed one.
LEMMA SpanAdded ==
    ASSUME LedgerInv, NEW rows, NEW e, NEW i, OneChanged(rows, i, e), OldSpan(i) = {},
           NEW b, IsBook(b, entries, e), NEW n, IsBook(n, rows, e)
    PROVE  /\ Promise!Adds(b, n, SpanOf(rows[i]), WaitsOf(rows[i]))
           /\ n.worked \ b.worked = SpanOf(rows[i])
<1>1. PICK span : span = SpanOf(rows[i])
  OBVIOUS
<1>2. PICK old : old = OldSpan(i)
  OBVIOUS
<1>3. PICK waits : waits = WaitsOf(rows[i])
  OBVIOUS
<1>4. /\ n.worked = (b.worked \ old) \cup span /\ span \cap (b.worked \ old) = {}
      /\ n.pending \ span = b.pending \ (old \cup span)
      /\ n.pending \cap span = IF Waits(rows[i]) THEN span \cap OutsideFrame ELSE {}
      /\ old = {} => Promise!KeepsGroups(b, n)
  BY <1>1, <1>2, ChangedBook
<1>5. b.pending \subseteq b.worked
  BY Balances DEF LedgerInv
<1>6. span \cap b.worked = {} /\ n.worked = b.worked \cup span /\ Promise!KeepsGroups(b, n)
  BY <1>2, <1>4
<1>7. n.pending = b.pending \cup waits
  <2>1. n.pending = (n.pending \ span) \cup (n.pending \cap span)
    OBVIOUS
  <2>2. n.pending \ span = b.pending
    BY <1>2, <1>4, <1>5, <1>6
  <2>3. n.pending \cap span = waits
    BY <1>1, <1>3, <1>4 DEF WaitsOf
  <2> QED BY <2>1, <2>2, <2>3
<1>8. n.worked \ b.worked = span
  BY <1>6
<1> QED BY <1>1, <1>3, <1>6, <1>7, <1>8 DEF Promise!Adds

\* A row that is added with its interval.
LEMMA NewSpan ==
    ASSUME LedgerInv, NEW r \in Row, IsClosed(r), r.status = "Approved", r.out <= LastInstant,
           NEW rows, Appended(rows, r), Leaves(rows, r.emp),
           NEW b, IsBook(b, entries, r.emp), NEW n, IsBook(n, rows, r.emp)
    PROVE  Bounded(rows) /\ Promise!Records(b, n) /\ n.worked \ b.worked = SpanOf(r)
<1>0. IInv
  BY DEF LedgerInv
<1>1. /\ DOMAIN rows = Ids \cup {NewId} /\ NewId \notin Ids /\ NewId \in DOMAIN rows
      /\ rows[NewId] = r /\ \A j \in Ids : j \in DOMAIN rows /\ rows[j] = entries[j]
  BY <1>0, AppendedRows
<1>2. Bounded(rows)
  BY AppendedBounded DEF InBounds
<1>3. Sound(rows) /\ Extends(rows)
  BY <1>2, LeavesSound DEF Leaves
<1>4. OneChanged(rows, NewId, r.emp) /\ OldSpan(NewId) = {}
  BY <1>1, <1>3 DEF OneChanged, OldSpan, LedgerInv
<1>5. ~Waits(r)
  BY DEF Waits
<1>6. /\ Promise!Adds(b, n, SpanOf(r), {}) /\ n.worked \ b.worked = SpanOf(r)
  <2>1. WaitsOf(r) = {}
    BY <1>5 DEF WaitsOf
  <2>2. /\ Promise!Adds(b, n, SpanOf(rows[NewId]), WaitsOf(rows[NewId]))
        /\ n.worked \ b.worked = SpanOf(rows[NewId])
    BY <1>4, SpanAdded
  <2> QED BY <1>1, <2>1, <2>2
<1>7. Continues(rows, r.emp)
  <2>1. ~IsOpen(r)
    BY DEF IsOpen, IsClosed
  <2> QED BY <1>1, <2>1 DEF Continues
<1>8. n.since = b.since /\ n.rule = b.rule
  BY <1>3, <1>7, TimerContinues
<1>9. SpanOf(r) \in Promise!Spans \ {{}}
  <2>1. r.in \in Nat /\ r.out \in Nat /\ r.in < r.out /\ LastInstant \in Nat
    BY <1>1, <1>3, SoundRows
  <2>2. SpanOf(r) = r.in .. r.out - 1
    BY DEF SpanOf
  <2>3. r.in \in SpanOf(r)
    BY <2>1, <2>2
  <2>4. SpanOf(r) \in Promise!Spans
    BY <2>1, <2>2, PromiseSpans
  <2> QED BY <2>3, <2>4
<1> QED BY <1>2, <1>6, <1>8, <1>9 DEF Promise!Records, Promise!SameTimer

\* A timer that starts.
LEMMA NewTimer ==
    ASSUME LedgerInv, NEW r \in Row, IsOpen(r), r.status = "Open", r.in = now, r.mode = mode,
           NEW rows, Appended(rows, r), Leaves(rows, r.emp),
           OpenRows(r.emp) = {},
           mode = "Solo" => Free(r.emp, now, Running, {}),
           NEW b, IsBook(b, entries, r.emp), NEW n, IsBook(n, rows, r.emp)
    PROVE  Bounded(rows) /\ Promise!Start(b, n)
<1>0. IInv
  BY DEF LedgerInv
<1>1. /\ DOMAIN rows = Ids \cup {NewId} /\ NewId \notin Ids /\ NewId \in DOMAIN rows
      /\ rows[NewId] = r /\ \A j \in Ids : j \in DOMAIN rows /\ rows[j] = entries[j]
  BY <1>0, AppendedRows
<1>2. Bounded(rows)
  <2>1. InBounds(r)
    BY DEF IsOpen, IsClosed, InBounds
  <2> QED BY <2>1, AppendedBounded
<1>3. Sound(rows) /\ Extends(rows)
  BY <1>2, LeavesSound DEF Leaves
<1>4. PICK table : table = entries
  OBVIOUS
<1>5. /\ Within(rows, table, r.emp) /\ Within(table, rows, r.emp)
      /\ Sound(table) /\ IsBook(b, table, r.emp)
  <2>1. ~IsClosed(r)
    BY DEF IsOpen, IsClosed
  <2>2. Within(rows, table, r.emp)
    BY <1>1, <1>4, <2>1 DEF Within, Like, Ids
  <2>3. Within(table, rows, r.emp)
    BY <1>1, <1>4, <2>1 DEF Within, Like, Ids
  <2> QED BY <1>4, <2>2, <2>3 DEF LedgerInv
<1>6. SameBut(b, n)
  BY <1>3, <1>5, ClosedAlike
<1>7. n.since = now /\ n.rule = mode
  <2>1. NewId \in DOMAIN rows /\ IsOpen(rows[NewId]) /\ IsBook(n, rows, rows[NewId].emp)
    BY <1>1
  <2>2. n.since = rows[NewId].in /\ n.rule = rows[NewId].mode
    BY <1>3, <2>1, TimerIs
  <2> QED BY <1>1, <2>2
<1>8. b.since = Running
  <2>1. \A j \in DOMAIN entries : entries[j].emp = r.emp => ~IsOpen(entries[j])
    BY DEF OpenRows, RowsOf, Ids
  <2> QED BY <2>1, NoTimerIs
<1>9. ASSUME mode = "Solo", NEW s \in b.worked PROVE s < now
  <2>1. PICK j \in Ids : On(entries[j], r.emp, s)
    BY <1>4, <1>5, <1>9, BookPoints DEF Ids
  <2>2. entries[j].out <= now
    <3>1. ~(entries[j].out = Running \/ entries[j].out > now)
      BY <1>9, <2>1 DEF Free, RowsOf, On, IsClosed, Running
    <3>2. entries[j].out \in Nat /\ now \in Nat
      BY <2>1, <1>0, SoundRows DEF On, LedgerInv, Ids, IInv, TypeOK
    <3> QED BY <3>1, <3>2
  <2>3. entries[j].out \in Nat /\ now \in Nat /\ entries[j].in \in Nat
    BY <2>1, <1>0, SoundRows DEF On, LedgerInv, Ids, IInv, TypeOK
  <2> QED BY <2>1, <2>2, <2>3 DEF On
<1> QED BY <1>2, <1>6, <1>7, <1>8, <1>9
         DEF Promise!Start, Promise!Before, Promise!Stopped, Running, SameBut

-----------------------------------------------------------------------------
(* Clocking in, approvals and manual entries *)

Asks(c, e) == call[c].emp = e

\* A transaction for e leaves the table `rows`, and turns e's book b to n.
Writes(rows, e, b, n) ==
    /\ Leaves(rows, e)
    /\ IsBook(b, entries, e) /\ IsBook(n, rows, e)

\* Clocking in, at the web client and at a terminal, starts a timer.
LEMMA ClockInBook ==
    ASSUME LedgerInv, NEW c \in Clients, ClockIn(c), NEW e, Asks(c, e),
           NEW rows, NEW b, NEW n, Writes(rows, e, b, n)
    PROVE  Bounded(rows) /\ Promise!Start(b, n)
<1>0. IInv
  BY DEF LedgerInv
<1>1. InTransaction(c, "ClockIn") /\ "ClockIn" \in Requests
  BY DEF ClockIn, Requests
<1>2. e \in Employees
  BY <1>0, <1>1, CallOf DEF Asks
<1>3. PICK t, r :
        /\ t \in Bookable
        /\ r = [Default(e, now, Running) EXCEPT
                  !.status = "Open", !.mode = mode, !.source = "Pwa",
                  !.target = t, !.grp = IF mode = "Solo" THEN NewId ELSE NoGroup]
        /\ entries' = Append(entries, r)
  BY DEF ClockIn, Save, Asks
<1>4. /\ r \in Row /\ r.emp = e /\ r.status = "Open" /\ r.in = now /\ r.mode = mode
      /\ IsOpen(r)
  <2>1. now \in Nat /\ mode \in Mode /\ NewId \in Nat
    BY <1>0, EntryRow DEF IInv, TypeOK
  <2>2. t \in Targets \cup {NoTarget}
    BY <1>0, <1>3, BookableType
  <2> QED BY <1>2, <1>3, <2>1, <2>2
           DEF Default, Row, Status, Source, NoDay, NoGroup, Running, IsOpen
<1>5. OpenRows(e) = {} /\ (mode = "Solo" => Free(e, now, Running, {}))
  BY DEF ClockIn, TimerMayStart, Asks
<1>6. Leaves(rows, r.emp) /\ IsBook(b, entries, r.emp) /\ IsBook(n, rows, r.emp)
      /\ Appended(rows, r)
  BY <1>3, <1>4 DEF Writes, Leaves, Appended
<1>7. OpenRows(r.emp) = {} /\ (mode = "Solo" => Free(r.emp, now, Running, {}))
  BY <1>4, <1>5
<1> QED BY <1>4, <1>6, <1>7, NewTimer

LEMMA TerminalStartBook ==
    ASSUME LedgerInv, NEW e \in Employees, mode = "Team", TimerMayStart(e),
           NEW r, r = [Default(e, now, Running) EXCEPT !.status = "Open", !.source = "Terminal"],
           NEW rows, Appended(rows, r), NEW b, NEW n, Writes(rows, e, b, n)
    PROVE  Bounded(rows) /\ Promise!Start(b, n)
<1>0. IInv
  BY DEF LedgerInv
<1>1. now \in Nat
  BY <1>0 DEF IInv, TypeOK
<1>2. /\ r \in Row /\ r.emp = e /\ r.status = "Open" /\ r.in = now /\ r.mode = mode
      /\ IsOpen(r)
  BY <1>1 DEF Default, Row, Status, Mode, Source, NoDay, NoGroup, Running, IsOpen
<1>3. Leaves(rows, r.emp) /\ IsBook(b, entries, r.emp) /\ IsBook(n, rows, r.emp)
  BY <1>2 DEF Writes
<1>4. OpenRows(r.emp) = {} /\ mode # "Solo"
  BY <1>2 DEF TimerMayStart
<1> QED BY <1>2, <1>3, <1>4, NewTimer

\* An approved adjustment records its interval (materializeTimeAdjustment).
LEMMA ApproveBook ==
    ASSUME LedgerInv, NEW c \in Clients, Approve(c), NEW e, Asks(c, e),
           NEW rows, NEW b, NEW n, Writes(rows, e, b, n)
    PROVE  Bounded(rows) /\ Promise!Records(b, n)
<1>0. IInv
  BY DEF LedgerInv
<1>1. e \in Employees
  BY <1>0 DEF Asks, Approve, Idle, IInv, TypeOK, IsCall
<1>2. PICK x, r :
        /\ x \in Adjustments
        /\ x[1] < x[2] /\ r = Default(e, x[1], x[2])
        /\ entries' = Append(entries, r)
  BY DEF Approve, Save, Asks
<1>3. x[1] \in Nat /\ x[2] \in Nat /\ x[2] <= LastInstant
  BY <1>2, LedgerAssumption DEF LastInstant
<1>4. r \in Row
  BY <1>1, <1>2, <1>3, DefaultRow
<1>5. /\ r.emp = e /\ r.status = "Approved" /\ IsClosed(r) /\ r.out <= LastInstant
  BY <1>2, <1>3 DEF Default, IsClosed, Effective, Running
<1>6. Leaves(rows, r.emp) /\ IsBook(b, entries, r.emp) /\ IsBook(n, rows, r.emp)
      /\ Appended(rows, r)
  BY <1>2, <1>5 DEF Writes, Leaves, Appended
<1> QED BY <1>4, <1>5, <1>6, NewSpan

\* A manual entry of Solo (createManual).
LEMMA ManualBook ==
    ASSUME LedgerInv, NEW c \in Clients, Manual(c), NEW e, Asks(c, e),
           NEW rows, NEW b, NEW n, Writes(rows, e, b, n)
    PROVE  Bounded(rows) /\ Promise!Manual(b, n)
<1>0. IInv
  BY DEF LedgerInv
<1>1. InTransaction(c, "Manual") /\ "Manual" \in Requests /\ mode = "Solo"
  BY DEF Manual, Requests
<1>2. e \in Employees
  BY <1>0, <1>1, CallOf DEF Asks
<1>3. PICK x, y, t, r :
        /\ x \in 0 .. now /\ y \in 0 .. now /\ t \in Bookable
        /\ x < y /\ Free(e, x, y, {})
        /\ r = [Default(e, x, y) EXCEPT !.mode = "Solo", !.target = t, !.grp = NewId]
        /\ entries' = Append(entries, r)
  BY DEF Manual, Save, Asks
<1>4. /\ r \in Row /\ r.emp = e /\ r.status = "Approved" /\ IsClosed(r) /\ r.out <= LastInstant
      /\ r.in = x /\ r.out = y /\ x \in Nat /\ y \in Nat /\ y <= now /\ now \in Nat
  <2>1. x \in Nat /\ y \in Nat /\ y <= now /\ NewId \in Nat /\ now \in Nat
    BY <1>0, <1>3, EntryRow DEF IInv, TypeOK
  <2>2. t \in Targets \cup {NoTarget}
    BY <1>0, <1>3, BookableType
  <2>3. y <= LastInstant
    BY <1>3, <2>1, LedgerAssumption DEF LedgerInv, LastInstant
  <2>4. r \in Row /\ r.emp = e /\ r.status = "Approved" /\ r.in = x /\ r.out = y /\ ~r.voided
    BY <1>2, <1>3, <2>1, <2>2 DEF Default, Row, Status, Mode, Source, NoDay, NoGroup
  <2> QED BY <2>1, <2>3, <2>4 DEF IsClosed, Effective, Running
<1>5. Leaves(rows, r.emp) /\ IsBook(b, entries, r.emp) /\ IsBook(n, rows, r.emp)
      /\ Appended(rows, r)
  BY <1>3, <1>4 DEF Writes, Leaves, Appended
<1>6. Bounded(rows) /\ Promise!Records(b, n) /\ n.worked \ b.worked = SpanOf(r)
  BY <1>4, <1>5, NewSpan
<1>7. SpanOf(r) = x .. y - 1
  BY <1>4 DEF SpanOf
<1>8. Promise!Before(SpanOf(r), now)
  BY <1>4, <1>7 DEF Promise!Before
<1>9. Promise!BeforeTimer(b, SpanOf(r))
  <2> SUFFICES ASSUME b.since # Running PROVE Promise!Before(SpanOf(r), b.since)
    BY DEF Promise!BeforeTimer, Promise!Stopped, Running
  <2>1. PICK j \in Ids : entries[j].emp = e /\ IsOpen(entries[j])
    <3> SUFFICES ASSUME \A j \in DOMAIN entries : entries[j].emp = e => ~IsOpen(entries[j])
                 PROVE FALSE
      BY DEF Ids
    <3> QED BY NoTimerIs DEF Writes
  <2>2. b.since = entries[j].in
    BY <2>1, TimerWas DEF Writes
  <2>3. j \in OpenRows(r.emp) \ {} /\ Free(r.emp, x, y, {})
    BY <1>3, <1>4, <2>1 DEF OpenRows, RowsOf
  <2>4. Past(r, {})
    BY <1>0, <1>4, <2>3, FreePast
  <2>5. y <= entries[j].in /\ entries[j].in \in Nat
    BY <1>0, <1>4, <2>1, <2>3, <2>4, EntryRow, RowFields DEF Past
  <2> QED BY <1>4, <1>7, <2>2, <2>5 DEF Promise!Before
<1> QED BY <1>1, <1>6, <1>8, <1>9 DEF Promise!Manual

-----------------------------------------------------------------------------
(* Daily blocks *)

\* The least instant of a span.
LEMMA FirstInstant ==
    ASSUME NEW x \in Nat, NEW y \in Nat, x < y
    PROVE  (CHOOSE s \in x .. y - 1 : \A z \in x .. y - 1 : s <= z) = x
<1>1. x \in x .. y - 1 /\ \A z \in x .. y - 1 : x <= z
  OBVIOUS
<1>2. ASSUME NEW s \in x .. y - 1, \A z \in x .. y - 1 : s <= z PROVE s = x
  BY <1>1, <1>2
<1> QED BY <1>1, <1>2

\* The instants of a day, as Block asks for them.
LEMMA DayBounds ==
    ASSUME NEW a \in Nat
    PROVE  /\ Day(a) * DayLen = DayLen * Day(a)
           /\ (Day(a) + 1) * DayLen = DayLen * Day(a) + DayLen
<1>1. Day(a) \in Nat /\ DayLen \in Nat
  BY DivMod, LedgerAssumption
<1>2. PICK d \in Nat : d = Day(a)
  BY <1>1
<1>3. d * DayLen = DayLen * d /\ (d + 1) * DayLen = DayLen * d + DayLen
  BY <1>1, SMTT(30)
<1> QED BY <1>2, <1>3

\* A daily block (createDailyBlock).
LEMMA DailyBlockBook ==
    ASSUME LedgerInv, NEW c \in Clients, DailyBlock(c), NEW e, Asks(c, e),
           NEW rows, NEW b, NEW n, Writes(rows, e, b, n)
    PROVE  Bounded(rows) /\ Promise!Block(b, n)
<1>0. IInv
  BY DEF LedgerInv
<1>1. InTransaction(c, "DailyBlock") /\ "DailyBlock" \in Requests
  BY DEF DailyBlock, Requests
<1>2. e \in Employees
  BY <1>0, <1>1, CallOf DEF Asks
<1>3. PICK a, t, r :
        /\ a \in 0 .. Horizon /\ t \in Bookable
        /\ mode # "Solo" => ~RequiresSpecialApproval(a, a + BlockLen)
        /\ Free(e, Day(a) * DayLen, (Day(a) + 1) * DayLen, {})
        /\ r = [Default(e, a, a + BlockLen) EXCEPT
                  !.mode = mode, !.source = "DailyBlock", !.day = Day(a),
                  !.target = t, !.grp = IF mode = "Solo" THEN NewId ELSE NoGroup]
        /\ entries' = Append(entries, r)
  BY DEF DailyBlock, Save, Asks
<1>4. PICK end : end = a + BlockLen
  OBVIOUS
<1>5. a \in Nat /\ end \in Nat /\ a < end /\ end <= LastInstant /\ LastInstant \in Nat
      /\ Day(a) \in Nat
  <2>1. a \in Nat /\ a <= Horizon
    BY <1>3, LedgerAssumption
  <2>2. Day(a) \in Nat
    BY <2>1, DivMod
  <2> QED BY <1>4, <2>1, <2>2, LedgerAssumption DEF LastInstant
<1>6. /\ r \in Row /\ r.emp = e /\ r.status = "Approved" /\ IsClosed(r) /\ r.out <= LastInstant
      /\ r.in = a /\ r.out = end
  <2>1. mode \in Mode /\ NewId \in Nat
    BY <1>0, EntryRow DEF IInv, TypeOK
  <2>2. t \in Targets \cup {NoTarget}
    BY <1>0, <1>3, BookableType
  <2>3. r = [Default(e, a, end) EXCEPT
               !.mode = mode, !.source = "DailyBlock", !.day = Day(a),
               !.target = t, !.grp = IF mode = "Solo" THEN NewId ELSE NoGroup]
    BY <1>3, <1>4
  <2>4. r \in Row /\ r.emp = e /\ r.status = "Approved" /\ r.in = a /\ r.out = end /\ ~r.voided
    BY <1>2, <1>5, <2>1, <2>2, <2>3 DEF Default, Row, Status, Source, NoDay, NoGroup
  <2> QED BY <1>5, <2>4 DEF IsClosed, Effective, Running
<1>7. Leaves(rows, r.emp) /\ IsBook(b, entries, r.emp) /\ IsBook(n, rows, r.emp)
      /\ Appended(rows, r)
  BY <1>3, <1>6 DEF Writes, Leaves, Appended
<1>8. Bounded(rows) /\ Promise!Records(b, n) /\ n.worked \ b.worked = SpanOf(r)
  BY <1>6, <1>7, NewSpan
<1>9. SpanOf(r) = a .. end - 1
  BY <1>6 DEF SpanOf
<1>10. ASSUME mode = "Team" PROVE SpanOf(r) \cap Promise!Outside = {}
  BY <1>3, <1>4, <1>5, <1>9, <1>10, WithinFrame, PromiseOutside
<1>11. PICK from \in Nat : from = DayLen * Day(a)
  BY <1>5, DayWindow
<1>12. Free(e, from, from + DayLen, {})
  BY <1>3, <1>5, <1>11, DayBounds
<1>13. from + DayLen # Running
  BY <1>11, LedgerAssumption DEF Running
<1> DEFINE day == {s \in 0 .. LastInstant : Promise!Day(s) = Promise!Day(a)}
<1>14. ASSUME NEW s \in day PROVE s \in Nat /\ from <= s /\ s < from + DayLen
  <2>1. s \in Nat /\ Day(s) = Day(a)
    BY <1>5 DEF Promise!Day, Day
  <2> QED BY <1>5, <1>11, <2>1, DayWindow
<1>15. day \cap b.worked = {}
  <2> SUFFICES ASSUME NEW s \in day, s \in b.worked PROVE FALSE
    OBVIOUS
  <2>1. PICK table : table = entries
    OBVIOUS
  <2>2. IsBook(b, table, e) /\ Sound(table)
    BY <2>1 DEF Writes, LedgerInv
  <2>3. PICK j \in DOMAIN table : On(table[j], e, s)
    BY <2>2, BookPoints
  <2>4. j \in RowsOf(e) \ {} /\ Effective(entries[j]) /\ s \in entries[j].in .. entries[j].out - 1
        /\ IsClosed(entries[j])
    BY <2>1, <2>3 DEF On, RowsOf, Ids, IsClosed
  <2>5. entries[j].in \in Nat /\ entries[j].out \in Nat
    BY <2>1, <2>2, <2>3, <2>4, SoundRows
  <2>6. ~(entries[j].in < from + DayLen /\ entries[j].out > from)
    BY <1>12, <1>13, <2>4 DEF Free
  <2> QED BY <1>11, <1>14, <2>4, <2>5, <2>6, LedgerAssumption
<1>16. Promise!BeforeTimer(b, day)
  <2> SUFFICES ASSUME b.since # Running, NEW s \in day PROVE s < b.since
    BY DEF Promise!BeforeTimer, Promise!Stopped, Promise!Before, Running
  <2>1. PICK j \in Ids : entries[j].emp = e /\ IsOpen(entries[j])
    <3> SUFFICES ASSUME \A j \in DOMAIN entries : entries[j].emp = e => ~IsOpen(entries[j])
                 PROVE FALSE
      BY DEF Ids
    <3> QED BY NoTimerIs DEF Writes
  <2>2. b.since = entries[j].in
    BY <2>1, TimerWas DEF Writes
  <2>3. j \in RowsOf(e) \ {} /\ Effective(entries[j]) /\ entries[j].out = Running
        /\ entries[j].in \in Nat
    BY <1>0, <2>1, EntryRow, RowFields DEF RowsOf, IsOpen, Effective, Fit
  <2>4. ~(entries[j].in < from + DayLen)
    BY <1>12, <1>13, <2>3 DEF Free
  <2> QED BY <1>11, <1>14, <2>2, <2>3, <2>4, LedgerAssumption
<1> HIDE DEF day
<1>17. (CHOOSE s \in SpanOf(r) : \A z \in SpanOf(r) : s <= z) = a
  BY <1>5, <1>9, FirstInstant
<1> QED BY <1>8, <1>10, <1>15, <1>16, <1>17 DEF Promise!Block, day

-----------------------------------------------------------------------------
(* Stopping the timer, clocking out, terminals and switching the project *)

\* What the timer i becomes when it stops now.
Stops(i, q) ==
    /\ q.emp = entries[i].emp /\ q.mode = entries[i].mode /\ q.in = entries[i].in
    /\ q.out = now /\ q.in < now /\ IsClosed(q)
    /\ q.mode = "Team" => q.status = StatusFor("Team", q.in, now)

\* A timer that ran is recorded up to now.
LEMMA TimerStops ==
    ASSUME LedgerInv, NEW i \in Ids, IsOpen(entries[i]), NEW e, entries[i].emp = e,
           NEW rows, OneChanged(rows, i, e), Stops(i, rows[i]),
           NEW b, IsBook(b, entries, e), NEW n, IsBook(n, rows, e)
    PROVE  /\ b.since # Promise!Stopped /\ b.since < now /\ b.rule = entries[i].mode
           /\ Promise!Adds(b, n, Promise!Span(b.since, now),
                IF b.rule = "Team" THEN Promise!Span(b.since, now) \cap Promise!Outside ELSE {})
<1>1. b.since = entries[i].in /\ b.rule = entries[i].mode /\ b.since # Running
  BY TimerWas
<1>2. i \in DOMAIN rows
  BY DEF OneChanged
<1>3. PICK q : q = rows[i]
  OBVIOUS
<1>4. Stops(i, q) /\ q.in \in Nat /\ now \in Nat /\ now # Running
  BY <1>2, <1>3, SoundRows DEF OneChanged, LedgerInv, IInv, TypeOK, Running
<1>5. OldSpan(i) = {}
  BY DEF OldSpan, SpanOf, IsOpen, IsClosed
<1>6. Promise!Adds(b, n, SpanOf(q), WaitsOf(q))
  BY <1>3, <1>5, SpanAdded
<1>7. SpanOf(q) = Promise!Span(b.since, now)
  BY <1>1, <1>4 DEF Stops, SpanOf, Promise!Span
<1>8. WaitsOf(q) = IF b.rule = "Team" THEN SpanOf(q) \cap Promise!Outside ELSE {}
  <2>1. CASE q.mode = "Team" /\ RequiresSpecialApproval(q.in, now)
    <3>1. Waits(q) /\ b.rule = "Team"
      BY <1>1, <1>4, <2>1 DEF Stops, StatusFor, Waits
    <3> QED BY <3>1, PromiseOutside DEF WaitsOf
  <2>2. CASE q.mode = "Team" /\ ~RequiresSpecialApproval(q.in, now)
    <3>1. ~Waits(q)
      BY <1>4, <2>2 DEF Stops, StatusFor, Waits
    <3>2. SpanOf(q) = q.in .. now - 1
      BY <1>4 DEF SpanOf, Stops
    <3>3. SpanOf(q) \cap OutsideFrame = {}
      BY <1>4, <2>2, <3>2, WithinFrame
    <3> QED BY <3>1, <3>3, PromiseOutside DEF WaitsOf
  <2>3. CASE q.mode # "Team"
    <3>1. ~Waits(q) /\ b.rule # "Team"
      BY <1>1, <1>4, <2>3 DEF Waits, Stops
    <3> QED BY <3>1 DEF WaitsOf
  <2> QED BY <2>1, <2>2, <2>3
<1>9. b.since < now
  BY <1>1, <1>4 DEF Stops
<1> QED BY <1>1, <1>6, <1>7, <1>8, <1>9 DEF Promise!Stopped, Running

\* The timer i is stopped, by a clock-out or at a terminal.
LEMMA RowStops ==
    ASSUME LedgerInv, NEW i \in Ids, IsOpen(entries[i]), NEW e, entries[i].emp = e,
           NEW r \in Row, Stops(i, r), NEW rows, Changed(rows, i, r),
           NEW b, NEW n, Writes(rows, e, b, n)
    PROVE  Bounded(rows) /\ Promise!Stop(b, n)
<1>0. IInv
  BY DEF LedgerInv
<1>1. /\ DOMAIN rows = Ids /\ SameRow(rows[i], r)
      /\ \A j \in Ids : j # i => rows[j] = entries[j]
  BY <1>0, RevisedRows
<1>2. Bounded(rows)
  <2>1. InBounds(r)
    BY LedgerAssumption
       DEF Stops, InBounds, IsClosed, Effective, LedgerInv, LastInstant, IInv, TypeOK
  <2> QED BY <2>1, RevisedBounded
<1>3. Sound(rows) /\ Extends(rows) /\ IsBook(b, entries, e) /\ IsBook(n, rows, e)
  BY <1>2, LeavesSound DEF Writes, Leaves
<1>4. rows[i].emp = e /\ Stops(i, rows[i])
  BY <1>1 DEF SameRow, Stops
<1>5. OneChanged(rows, i, e)
  BY <1>1, <1>3, <1>4 DEF OneChanged, LedgerInv
<1>6. /\ b.since # Promise!Stopped /\ b.since < now
      /\ Promise!Adds(b, n, Promise!Span(b.since, now),
           IF b.rule = "Team" THEN Promise!Span(b.since, now) \cap Promise!Outside ELSE {})
  BY <1>3, <1>4, <1>5, TimerStops
<1>7. n.since = Running
  <2>1. ASSUME NEW j \in DOMAIN rows, rows[j].emp = e, IsOpen(rows[j]) PROVE FALSE
    <3>1. j # i
      BY <1>4, <2>1 DEF Stops, IsOpen, IsClosed
    <3>2. j \in Ids /\ entries[j].emp = e /\ IsOpen(entries[j])
      BY <1>1, <2>1, <3>1
    <3> QED BY <1>0, <3>1, <3>2, EntryRow DEF Single
  <2> QED BY <1>3, <2>1, NoTimerIs
<1> QED BY <1>2, <1>6, <1>7 DEF Promise!Stop, Promise!NoTimer, Promise!Stopped, Running

\* Stopping makes a row.
LEMMA StoppedRow ==
    ASSUME LedgerInv, NEW i \in Ids, IsOpen(entries[i]), now > entries[i].in,
           NEW m, entries[i].mode = "Team" => m = "Team",
           NEW r, r = [entries[i] EXCEPT !.out = now,
                                         !.status = StatusFor(m, entries[i].in, now)]
    PROVE  r \in Row /\ Stops(i, r)
<1>0. IInv
  BY DEF LedgerInv
<1>1. entries[i] \in Row /\ now \in Nat
  BY <1>0, EntryRow DEF IInv, TypeOK
<1>2. PICK st \in Status : st = StatusFor(m, entries[i].in, now) /\ st # "Rejected"
  BY DEF StatusFor, Status
<1>3. r = [entries[i] EXCEPT !.out = now, !.status = st]
  BY <1>2
<1>4. /\ r \in Row /\ r.emp = entries[i].emp /\ r.mode = entries[i].mode /\ r.in = entries[i].in
      /\ r.out = now /\ r.status = st /\ r.voided = entries[i].voided
  BY <1>1, <1>3 DEF Row
<1>5. IsClosed(r)
  BY <1>1, <1>2, <1>4 DEF IsClosed, Effective, IsOpen, Running
<1> QED BY <1>1, <1>2, <1>4, <1>5 DEF Stops

\* Clocking out, and the toggle of a terminal.
LEMMA ClockOutBook ==
    ASSUME LedgerInv, NEW c \in Clients, ClockOut(c), NEW e, Asks(c, e),
           NEW rows, NEW b, NEW n, Writes(rows, e, b, n)
    PROVE  Bounded(rows) /\ Promise!Stop(b, n)
<1>1. PICK i, r :
        /\ i \in OpenRows(e)
        /\ r = [entries[i] EXCEPT !.out = now,
                                  !.status = StatusFor(entries[i].mode, entries[i].in, now)]
        /\ now > entries[i].in /\ entries' = Revise(entries, i, r)
  BY DEF ClockOut, Save, Asks
<1>2. i \in Ids /\ entries[i].emp = e /\ IsOpen(entries[i])
  BY <1>1 DEF OpenRows, RowsOf
<1>3. r \in Row /\ Stops(i, r)
  <2>1. PICK m : m = entries[i].mode
    OBVIOUS
  <2>2. r = [entries[i] EXCEPT !.out = now, !.status = StatusFor(m, entries[i].in, now)]
    BY <1>1, <2>1
  <2> QED BY <1>1, <1>2, <2>1, <2>2, StoppedRow
<1>4. Changed(rows, i, r)
  BY <1>1 DEF Writes, Leaves, Changed
<1> QED BY <1>2, <1>3, <1>4, RowStops

LEMMA TerminalBookBook ==
    ASSUME LedgerInv, NEW e \in Employees, TerminalBook(e),
           NEW rows, NEW b, NEW n, Writes(rows, e, b, n)
    PROVE  Bounded(rows) /\ (Promise!Start(b, n) \/ Promise!Stop(b, n))
<1>1. CASE /\ TimerMayStart(e)
           /\ entries' = Append(entries, [Default(e, now, Running) EXCEPT
                                            !.status = "Open", !.source = "Terminal"])
  <2>1. PICK r : r = [Default(e, now, Running) EXCEPT !.status = "Open", !.source = "Terminal"]
    OBVIOUS
  <2>2. Appended(rows, r)
    BY <1>1, <2>1 DEF Writes, Leaves, Appended
  <2>3. mode = "Team"
    BY DEF TerminalBook
  <2> QED BY <1>1, <2>1, <2>2, <2>3, TerminalStartBook
<1>2. CASE \E i \in OpenRows(e) :
             /\ now > entries[i].in
             /\ entries' = Revise(entries, i, [entries[i] EXCEPT
                             !.out = now, !.status = StatusFor("Team", entries[i].in, now)])
  <2>1. PICK i, r :
          /\ i \in OpenRows(e)
          /\ r = [entries[i] EXCEPT !.out = now, !.status = StatusFor("Team", entries[i].in, now)]
          /\ now > entries[i].in /\ entries' = Revise(entries, i, r)
    BY <1>2
  <2>2. i \in Ids /\ entries[i].emp = e /\ IsOpen(entries[i])
    BY <2>1 DEF OpenRows, RowsOf
  <2>3. r \in Row /\ Stops(i, r)
    BY <2>1, <2>2, StoppedRow
  <2>4. Changed(rows, i, r)
    BY <2>1 DEF Writes, Leaves, Changed
  <2> QED BY <2>2, <2>3, <2>4, RowStops
<1> QED BY <1>1, <1>2 DEF TerminalBook, Save

\* Switching the project: Solo stops one timer and starts the next.
LEMMA SwitchBook ==
    ASSUME LedgerInv, NEW c \in Clients, Switch(c), NEW e, Asks(c, e),
           NEW rows, NEW b, NEW n, Writes(rows, e, b, n)
    PROVE  Bounded(rows) /\ Promise!Stop(b, n)
<1>0. IInv
  BY DEF LedgerInv
<1>1. InTransaction(c, "Switch") /\ "Switch" \in Requests /\ mode = "Solo"
  BY DEF Switch, Requests
<1> DEFINE group(i) == IF entries[i].grp = NoGroup THEN i ELSE entries[i].grp
           old(i) == [entries[i] EXCEPT !.out = now, !.status = "Approved", !.grp = group(i)]
           new(i, t) == [Default(entries[i].emp, now, Running) EXCEPT
                           !.status = "Open", !.mode = "Solo", !.source = "Pwa",
                           !.target = t, !.grp = group(i)]
<1>a. PICK i \in DOMAIN call[c].view, t \in Bookable :
        /\ entries[i].mode = "Solo" /\ entries[i].out = Running /\ now > entries[i].in
        /\ Mutable(c, entries[i], call[c].view[i])
        /\ entries' = Append(Revise(entries, i, old(i)), new(i, t))
  BY DEF Switch, Save
<1>b. PICK g : g = group(i)
  OBVIOUS
<1>c. PICK r : r = [entries[i] EXCEPT !.out = now, !.status = "Approved", !.grp = g]
  OBVIOUS
<1>d. PICK q : q = [Default(entries[i].emp, now, Running) EXCEPT
                      !.status = "Open", !.mode = "Solo", !.source = "Pwa",
                      !.target = t, !.grp = g]
  OBVIOUS
<1>2. /\ entries[i].mode = "Solo" /\ entries[i].out = Running /\ now > entries[i].in
      /\ Mutable(c, entries[i], call[c].view[i])
      /\ g = (IF entries[i].grp = NoGroup THEN i ELSE entries[i].grp)
      /\ r = [entries[i] EXCEPT !.out = now, !.status = "Approved", !.grp = g]
      /\ q = [Default(entries[i].emp, now, Running) EXCEPT
                !.status = "Open", !.mode = "Solo", !.source = "Pwa",
                !.target = t, !.grp = g]
      /\ entries' = Append(Revise(entries, i, r), q)
  BY <1>a, <1>b, <1>c, <1>d
<1> HIDE DEF group, old, new
<1>3. /\ i \in Ids /\ i \in Nat /\ entries[i] \in Row /\ now \in Nat
      /\ entries[i].emp = e /\ IsOpen(entries[i]) /\ g \in Nat
  <2>1. i \in Ids /\ entries[i].emp = e
    BY <1>0, <1>1, CallOf DEF Asks
  <2>2. i \in Nat /\ entries[i] \in Row /\ now \in Nat
    BY <1>0, <2>1, EntryRow DEF IInv, TypeOK
  <2>3. g \in Nat
    BY <1>2, <2>2 DEF Row
  <2> QED BY <1>2, <2>1, <2>2, <2>3 DEF Mutable, IsOpen
<1>4. r \in Row /\ Stops(i, r) /\ r.status = "Approved"
  <2>1. /\ r \in Row /\ r.emp = entries[i].emp /\ r.mode = "Solo" /\ r.in = entries[i].in
        /\ r.out = now /\ r.status = "Approved" /\ r.voided = entries[i].voided
    BY <1>2, <1>3 DEF Row, Status
  <2>2. IsClosed(r)
    BY <1>3, <2>1 DEF IsClosed, Effective, IsOpen, Running
  <2> QED BY <1>2, <1>3, <2>1, <2>2 DEF Stops
<1>5. q.emp = e /\ q.in = now /\ q.mode = "Solo" /\ q.out = Running /\ IsOpen(q)
      /\ q.status = "Open"
  BY <1>2, <1>3 DEF Default, IsOpen
<1>6. Moved(rows, i, r, q)
  BY <1>2 DEF Writes, Leaves, Moved
<1>7. /\ DOMAIN rows = Ids \cup {NewId} /\ NewId \notin Ids /\ NewId \in DOMAIN rows
      /\ SameRow(rows[i], r) /\ rows[NewId] = q
      /\ \A j \in Ids : j # i => j \in DOMAIN rows /\ rows[j] = entries[j]
  BY <1>0, <1>3, <1>4, <1>6, RevisedAppendedRows
<1>8. Bounded(rows)
  <2>1. InBounds(r) /\ InBounds(q)
    BY <1>4, <1>5, LedgerAssumption
       DEF InBounds, IsClosed, Stops, LedgerInv, LastInstant, IInv, TypeOK
  <2> QED BY <1>3, <1>4, <1>6, <2>1, RevisedAppendedBounded
<1>9. Sound(rows) /\ Extends(rows) /\ IsBook(b, entries, e) /\ IsBook(n, rows, e)
  BY <1>8, LeavesSound DEF Writes, Leaves
<1>10. rows[i].emp = e /\ Stops(i, rows[i]) /\ i \in DOMAIN rows
  BY <1>3, <1>4, <1>7 DEF SameRow, Stops
<1>11. OneChanged(rows, i, e)
  <2>1. ~IsClosed(rows[NewId])
    BY <1>5, <1>7 DEF IsClosed
  <2> QED BY <1>3, <1>7, <1>9, <1>10, <2>1 DEF OneChanged, LedgerInv
<1>12. /\ b.since # Promise!Stopped /\ b.since < now /\ b.rule = entries[i].mode
       /\ Promise!Adds(b, n, Promise!Span(b.since, now),
            IF b.rule = "Team" THEN Promise!Span(b.since, now) \cap Promise!Outside ELSE {})
  BY <1>3, <1>9, <1>10, <1>11, TimerStops
<1>13. n.since = now /\ n.rule = "Solo"
  <2>1. PICK k \in DOMAIN rows : k = NewId
    BY <1>7
  <2>2. IsOpen(rows[k]) /\ rows[k].emp = e /\ rows[k].in = now /\ rows[k].mode = "Solo"
    BY <1>5, <1>7, <2>1
  <2>3. IsBook(n, rows, rows[k].emp)
    BY <1>9, <2>2
  <2> QED BY <1>9, <2>2, <2>3, TimerIs
<1> QED BY <1>1, <1>2, <1>8, <1>12, <1>13 DEF Promise!Stop

-----------------------------------------------------------------------------
(* Rows that Solo corrects or cancels *)

\* The attendance of a row of a sound table is a span.
LEMMA SpanOfRow ==
    ASSUME NEW rows, Sound(rows), NEW i \in DOMAIN rows
    PROVE  /\ SpanOf(rows[i]) \in Promise!Spans
           /\ IsClosed(rows[i]) => SpanOf(rows[i]) # {}
<1>1. CASE IsClosed(rows[i])
  <2>1. /\ rows[i].in \in Nat /\ rows[i].out \in Nat /\ rows[i].in < rows[i].out
        /\ rows[i].out <= LastInstant /\ LastInstant \in Nat
    BY <1>1, SoundRows
  <2>2. SpanOf(rows[i]) = rows[i].in .. rows[i].out - 1
    BY <1>1 DEF SpanOf
  <2>3. rows[i].in \in SpanOf(rows[i])
    BY <2>1, <2>2
  <2>4. SpanOf(rows[i]) \in Promise!Spans
    BY <2>1, <2>2, PromiseSpans
  <2> QED BY <2>3, <2>4
<1>2. CASE ~IsClosed(rows[i])
  BY <1>2, PromiseEmpty DEF SpanOf
<1> QED BY <1>1, <1>2

\* The same attendance and the same timer make the same book.
LEMMA SameBook ==
    ASSUME LedgerInv, NEW rows, Extends(rows), Sound(rows), NEW e,
           Within(rows, entries, e), Within(entries, rows, e), Continues(rows, e),
           NEW b, IsBook(b, entries, e), NEW n, IsBook(n, rows, e)
    PROVE  n = b
<1>1. n.since = b.since /\ n.rule = b.rule
  BY TimerContinues
<1>2. PICK table : table = entries
  OBVIOUS
<1>3. Sound(table) /\ Within(rows, table, e) /\ Within(table, rows, e) /\ IsBook(b, table, e)
  BY <1>2 DEF LedgerInv
<1> QED BY <1>1, <1>3, ClosedAlike

\* The running timer of a book is a row.
LEMMA TimerRow ==
    ASSUME NEW e, NEW b, IsBook(b, entries, e), b.since # Running
    PROVE  \E j \in Ids : entries[j].emp = e /\ IsOpen(entries[j])
<1> SUFFICES ASSUME \A j \in DOMAIN entries : entries[j].emp = e => ~IsOpen(entries[j]) PROVE FALSE
  BY DEF Ids
<1> QED BY NoTimerIs

\* Solo corrects row i to r, or cancels it.
LEMMA RowAmended ==
    ASSUME LedgerInv, mode = "Solo", NEW i \in Ids, NEW e, entries[i].emp = e,
           ~entries[i].voided, NEW r \in Row, r.emp = e, InBounds(r), ~IsOpen(r),
           IsClosed(r) => Past(r, {i}),
           NEW rows, Changed(rows, i, r), NEW b, NEW n, Writes(rows, e, b, n)
    PROVE  Bounded(rows) /\ (n = b \/ Promise!Amend(b, n))
<1>0. IInv
  BY DEF LedgerInv
<1>1. /\ DOMAIN rows = Ids /\ SameRow(rows[i], r)
      /\ \A j \in Ids : j # i => rows[j] = entries[j]
  BY <1>0, RevisedRows
<1>2. Bounded(rows)
  BY RevisedBounded
<1>3. Sound(rows) /\ Extends(rows) /\ IsBook(b, entries, e) /\ IsBook(n, rows, e)
  BY <1>2, LeavesSound DEF Writes, Leaves
<1>4. OneChanged(rows, i, e) /\ i \in DOMAIN rows /\ ~IsOpen(rows[i])
  BY <1>1, <1>3 DEF OneChanged, LedgerInv, SameRow
<1>5. PICK old : old = OldSpan(i)
  OBVIOUS
<1>6. PICK new : new = SpanOf(rows[i])
  OBVIOUS
<1>7. /\ old \subseteq b.worked /\ n.worked = (b.worked \ old) \cup new
      /\ new \cap (b.worked \ old) = {}
      /\ n.pending \ new = b.pending \ (old \cup new)
      /\ n.pending \cap new \subseteq Promise!Outside
  <2>1. /\ old \subseteq b.worked /\ n.worked = (b.worked \ old) \cup new
        /\ new \cap (b.worked \ old) = {}
        /\ n.pending \ new = b.pending \ (old \cup new)
        /\ n.pending \cap new = IF Waits(rows[i]) THEN new \cap OutsideFrame ELSE {}
    BY <1>3, <1>4, <1>5, <1>6, ChangedBook
  <2> QED BY <2>1, PromiseOutside
<1>8. PICK table : table = entries
  OBVIOUS
<1>9. Sound(table) /\ i \in DOMAIN table
  BY <1>8 DEF LedgerInv, Ids
<1>10. old \in Promise!Spans /\ new \in Promise!Spans
  <2>1. old = SpanOf(table[i])
    BY <1>5, <1>8 DEF OldSpan
  <2> QED BY <1>3, <1>4, <1>6, <1>9, <2>1, SpanOfRow
<1>11. ASSUME IsClosed(rows[i])
       PROVE  /\ new = r.in .. r.out - 1 /\ r.out <= now /\ r.in \in Nat /\ r.out \in Nat
              /\ \A j \in OpenRows(e) \ {i} : r.out <= entries[j].in
  <2>1. IsClosed(r) /\ r.in = rows[i].in /\ r.out = rows[i].out
    BY <1>1, <1>11 DEF SameRow
  <2>2. rows[i].in \in Nat /\ rows[i].out \in Nat
    BY <1>3, <1>4, <1>11, SoundRows
  <2> QED BY <1>6, <1>11, <2>1, <2>2 DEF SpanOf, Past
<1>12. now \in Nat
  BY <1>0 DEF IInv, TypeOK
<1>13. Promise!Before(new, now)
  <2>1. CASE IsClosed(rows[i])
    BY <1>11, <1>12, <2>1 DEF Promise!Before
  <2>2. CASE ~IsClosed(rows[i])
    BY <1>6, <2>2 DEF SpanOf, Promise!Before
  <2> QED BY <2>1, <2>2
<1>14. CASE IsOpen(entries[i])
  <2>1. b.since # Running
    BY <1>3, <1>14, TimerWas
  <2>2. n.since = Running
    <3>1. ASSUME NEW j \in DOMAIN rows, rows[j].emp = e, IsOpen(rows[j]) PROVE FALSE
      <4>1. j # i /\ j \in Ids /\ entries[j].emp = e /\ IsOpen(entries[j])
        BY <1>1, <1>4, <3>1
      <4> QED BY <1>0, <1>14, <4>1, EntryRow DEF Single
    <3> QED BY <1>3, <3>1, NoTimerIs
  <2>3. old = {}
    BY <1>5, <1>14 DEF OldSpan, SpanOf, IsOpen, IsClosed
  <2> QED BY <1>2, <1>7, <1>10, <1>13, <2>1, <2>2, <2>3
       DEF Promise!Amend, Promise!NoTimer, Promise!Stopped, Running
<1>15. CASE ~IsOpen(entries[i])
  <2>1. Continues(rows, e)
    BY <1>1, <1>4, <1>15 DEF Continues
  <2>2. n.since = b.since /\ n.rule = b.rule
    BY <1>3, <2>1, TimerContinues
  <2>3. IsClosed(table[i])
    BY <1>8, <1>9, <1>15, SoundRows DEF IsClosed, Effective, IsOpen
  <2>4. old # {}
    <3>1. old = SpanOf(table[i])
      BY <1>5, <1>8 DEF OldSpan
    <3> QED BY <1>9, <2>3, <3>1, SpanOfRow
  <2>5. Promise!BeforeTimer(b, new)
    <3> SUFFICES ASSUME b.since # Running, NEW s \in new PROVE s < b.since
      BY DEF Promise!BeforeTimer, Promise!Stopped, Promise!Before, Running
    <3>1. PICK j \in Ids : entries[j].emp = e /\ IsOpen(entries[j])
      BY <1>3, TimerRow
    <3>2. b.since = entries[j].in /\ entries[j].in \in Nat
      BY <1>0, <1>3, <3>1, TimerWas, EntryRow, RowFields
    <3>3. j \in OpenRows(e) \ {i}
      BY <1>15, <3>1 DEF OpenRows, RowsOf
    <3>4. IsClosed(rows[i])
      BY <1>6 DEF SpanOf
    <3> QED BY <1>11, <3>2, <3>3, <3>4
  <2> QED BY <1>2, <1>7, <1>10, <1>13, <2>2, <2>4, <2>5 DEF Promise!Amend, Promise!SameTimer
<1> QED BY <1>14, <1>15

-----------------------------------------------------------------------------
(* Updating, correcting and cancelling *)

\* An update in Team rebooks; in Solo it corrects an interval.
LEMMA UpdateBook ==
    ASSUME LedgerInv, NEW c \in Clients, Update(c), NEW e, Asks(c, e),
           NEW rows, NEW b, NEW n, Writes(rows, e, b, n)
    PROVE  Bounded(rows) /\ n = b
<1>0. IInv
  BY DEF LedgerInv
<1>1. InTransaction(c, "Update") /\ "Update" \in Requests
  BY DEF Update, Requests
<1> DEFINE new(i, t) == [entries[i] EXCEPT !.target = t]
<1>2. PICK i \in DOMAIN call[c].view :
        \E t \in Bookable \cup {entries[i].target} : entries' = Revise(entries, i, new(i, t))
  BY DEF Update, Save
<1>3. PICK t \in Bookable \cup {entries[i].target} : entries' = Revise(entries, i, new(i, t))
  BY <1>2
<1>4. i \in Ids /\ entries[i] \in Row /\ entries[i].emp = e
  BY <1>0, <1>1, CallOf, EntryRow DEF Asks
<1>5. PICK r : r = new(i, t)
  OBVIOUS
<1>6. r \in Row /\ SameRow(r, entries[i]) /\ InBounds(r)
  <2>1. t \in Targets \cup {NoTarget}
    BY <1>0, <1>4, BookableType DEF Row
  <2>2. r \in Row /\ SameRow(r, entries[i])
    BY <1>4, <1>5, <2>1 DEF Row, SameRow, IsClosed, IsOpen, Effective, Waits
  <2>3. InBounds(entries[i])
    BY <1>4 DEF LedgerInv, Sound, Ids
  <2> QED BY <2>2, <2>3 DEF InBounds, SameRow
<1>7. Changed(rows, i, r)
  BY <1>3, <1>5 DEF Changed, Writes, Leaves
<1> HIDE DEF new
<1>8. /\ DOMAIN rows = Ids /\ SameRow(rows[i], entries[i])
      /\ \A j \in Ids : j # i => rows[j] = entries[j]
  BY <1>0, <1>4, <1>6, <1>7, RevisedRows DEF SameRow
<1>9. Bounded(rows)
  BY <1>4, <1>6, <1>7, RevisedBounded
<1>10. Sound(rows) /\ Extends(rows) /\ IsBook(b, entries, e) /\ IsBook(n, rows, e)
  BY <1>9, LeavesSound DEF Writes, Leaves
<1>11. \A j \in Ids : /\ SameRow(rows[j], entries[j])
  BY <1>8 DEF SameRow
<1>12. Within(rows, entries, e) /\ Within(entries, rows, e) /\ Continues(rows, e)
  BY <1>8, <1>11 DEF Within, Like, Continues, SameRow, Ids
<1> QED BY <1>9, <1>10, <1>12, SameBook

\* A correction of Solo (correctSolo).
LEMMA CorrectBook ==
    ASSUME LedgerInv, NEW c \in Clients, Correct(c), NEW e, Asks(c, e),
           NEW rows, NEW b, NEW n, Writes(rows, e, b, n)
    PROVE  Bounded(rows) /\ (n = b \/ Promise!Amend(b, n))
<1>0. IInv
  BY DEF LedgerInv
<1>1. InTransaction(c, "Correct") /\ "Correct" \in Requests /\ mode = "Solo"
  BY DEF Correct, Requests
<1> DEFINE st(i) == IF entries[i].mode = "Solo" THEN "Approved" ELSE entries[i].status
           new(i, x, y, t) ==
             [entries[i] EXCEPT !.in = x, !.out = y, !.target = t,
                                !.day = DayAfterCorrection(entries[i]),
                                !.status = st(i)]
<1>2. PICK i \in DOMAIN call[c].view, x \in 0 .. now, y \in 0 .. now :
        /\ Free(entries[i].emp, x, y, {i}) /\ Current(c, i)
        /\ \E t \in Bookable \cup {call[c].view[i].target} :
             Save(Revise(entries, i, new(i, x, y, t)), {i})
  BY DEF Correct
<1>3. PICK t \in Bookable \cup {call[c].view[i].target} :
        Save(Revise(entries, i, new(i, x, y, t)), {i})
  BY <1>2
<1>a. ~entries[i].voided
  BY <1>2 DEF Current, Mutable
<1>4. /\ i \in Ids /\ call[c].view[i] \in Row /\ entries[i] \in Row
      /\ entries[i].emp = e /\ x \in Nat /\ y \in Nat /\ y <= now /\ now \in Nat
  BY <1>0, <1>1, CallOf, EntryRow DEF IInv, TypeOK, Asks
<1>5. PICK r : r = new(i, x, y, t)
  OBVIOUS
<1>6. r \in Row /\ r.emp = e /\ r.out = y /\ InBounds(r) /\ ~IsOpen(r)
  <2>1. t \in Targets \cup {NoTarget}
    BY <1>0, <1>4, BookableType DEF Row
  <2>2. DayAfterCorrection(entries[i]) \in Nat \cup {NoDay}
    BY <1>4 DEF DayAfterCorrection, Row
  <2>3. InBounds(entries[i])
    BY <1>4 DEF LedgerInv, Sound, Ids
  <2>4. st(i) \in Status /\ st(i) # "Rejected"
    BY <1>4, <2>3 DEF Row, Status, InBounds
  <2> HIDE DEF st
  <2>5. r \in Row /\ r.emp = e /\ r.out = y /\ r.status = st(i)
    BY <1>4, <1>5, <2>1, <2>2, <2>4 DEF Row
  <2>6. y <= LastInstant /\ y # Running
    BY <1>4, LedgerAssumption DEF LedgerInv, LastInstant, Running
  <2> QED BY <2>4, <2>5, <2>6 DEF InBounds, IsOpen
<1>7. Changed(rows, i, r)
  BY <1>3, <1>5 DEF Changed, Writes, Leaves, Save
<1> HIDE DEF new, st
<1>8. Past(r, {i})
  BY <1>0, <1>2, <1>4, <1>6, FreePast
<1> QED BY <1>1, <1>a, <1>4, <1>6, <1>7, <1>8, RowAmended

\* Cancelling an entry (voidSolo).
LEMMA VoidBook ==
    ASSUME LedgerInv, NEW c \in Clients, Void(c), NEW e, Asks(c, e),
           NEW rows, NEW b, NEW n, Writes(rows, e, b, n)
    PROVE  Bounded(rows) /\ (n = b \/ Promise!Amend(b, n))
<1>0. IInv
  BY DEF LedgerInv
<1>1. InTransaction(c, "Void") /\ "Void" \in Requests /\ mode = "Solo"
  BY DEF Void, Requests
<1> DEFINE end(i) == IF now > entries[i].in THEN now ELSE entries[i].in + 1
           new(i) == [entries[i] EXCEPT !.voided = TRUE, !.day = NoDay,
                        !.out = IF entries[i].out = Running THEN end(i) ELSE @]
<1>2. PICK i \in DOMAIN call[c].view :
        ~entries[i].voided /\ entries' = Revise(entries, i, new(i))
  BY DEF Void, Save, Mutable
<1>3. i \in Ids /\ entries[i] \in Row /\ now \in Nat /\ entries[i].emp = e
  BY <1>0, <1>1, CallOf, EntryRow DEF IInv, TypeOK, Asks
<1>4. end(i) \in Nat
  BY <1>3 DEF Row
<1>5. PICK r : r = new(i)
  OBVIOUS
<1> HIDE DEF end
<1>6. r \in Row /\ r.emp = e /\ r.voided /\ r.status = entries[i].status
  BY <1>3, <1>4, <1>5 DEF Row, NoDay
<1>7. ~IsClosed(r) /\ ~IsOpen(r)
  BY <1>6 DEF IsClosed, IsOpen, Effective
<1>8. InBounds(r)
  <2>1. InBounds(entries[i])
    BY <1>3 DEF LedgerInv, Sound, Ids
  <2> QED BY <1>6, <1>7, <2>1 DEF InBounds
<1>9. Changed(rows, i, r)
  BY <1>2, <1>5 DEF Changed, Writes, Leaves
<1> HIDE DEF new
<1> QED BY <1>1, <1>2, <1>3, <1>6, <1>7, <1>8, <1>9, RowAmended

-----------------------------------------------------------------------------
(* Rows that are cut into pieces *)

\* q is a piece of r as a split or a range booking leaves it.
Piece(q, r) ==
    /\ q.emp = r.emp /\ q.mode = r.mode /\ r.in <= q.in /\ q.out <= r.out
    /\ IsClosed(q) /\ (r.grp # NoGroup => q.grp = r.grp)
    /\ q.status = StatusFor(q.mode, q.in, q.out)

\* The closed rows of e are cut into pieces that cover them.
Recut(rows, e) ==
    /\ \A j \in DOMAIN rows : rows[j].emp = e /\ IsClosed(rows[j]) =>
         \E i \in Ids : /\ entries[i].emp = e /\ IsClosed(entries[i])
                        /\ rows[j] = entries[i] \/ Piece(rows[j], entries[i])
    /\ \A i \in Ids : \A s : On(entries[i], e, s) =>
         \E j \in DOMAIN rows : /\ On(rows[j], e, s)
                                /\ rows[j] = entries[i] \/ Piece(rows[j], entries[i])
    /\ Continues(rows, e)

\* Nothing that waits is waved through.
LEMMA PieceWaits ==
    ASSUME NEW r, NEW q, q.in \in Nat, q.out \in Nat, Piece(q, r), Waits(r),
           NEW e, NEW s \in OutsideFrame, On(q, e, s)
    PROVE  Waits(q)
<1>1. s \in q.in .. q.out - 1
  BY DEF On
<1>2. RequiresSpecialApproval(q.in, q.out)
  BY <1>1, WithinFrame
<1> QED BY <1>2 DEF Waits, Piece, StatusFor

\* A table that is only cut differently rebooks.
LEMMA RecutBook ==
    ASSUME LedgerInv, NEW e, NEW rows, Recut(rows, e), Bounded(rows),
           NEW b, NEW n, Writes(rows, e, b, n)
    PROVE  n = b \/ Promise!Rebook(b, n)
<1>1. Sound(rows) /\ Extends(rows) /\ IsBook(b, entries, e) /\ IsBook(n, rows, e)
  BY LeavesSound DEF Writes, Leaves
<1>2. PICK table : table = entries
  OBVIOUS
<1>3. Sound(table) /\ IsBook(b, table, e) /\ Ids = DOMAIN table
  BY <1>1, <1>2 DEF LedgerInv, Ids
<1>4. ASSUME NEW s
      PROVE  /\ s \in n.worked <=> s \in b.worked
             /\ s \in b.pending => s \in n.pending
             /\ \A g \in 1 .. MaxRows : s \in b.captures[g] => s \in n.captures[g]
  <2>1. Says(n, rows, e, s) /\ Says(b, table, e, s)
    BY <1>1, <1>3, BookSays
  <2>2. ASSUME NEW j \in DOMAIN rows, On(rows[j], e, s)
        PROVE  \E i \in DOMAIN table : On(table[i], e, s)
    <3>1. PICK i \in Ids : /\ entries[i].emp = e /\ IsClosed(entries[i])
                           /\ rows[j] = entries[i] \/ Piece(rows[j], entries[i])
      BY <2>2 DEF Recut, On
    <3>2. PICK q : q = rows[j]
      OBVIOUS
    <3>3. PICK r : r = table[i]
      OBVIOUS
    <3>4. /\ q.in \in Nat /\ q.out \in Nat /\ r.in \in Nat /\ r.out \in Nat
          /\ On(q, e, s) /\ IsClosed(r) /\ r.emp = e /\ (q = r \/ Piece(q, r))
      BY <1>1, <1>2, <1>3, <2>2, <3>1, <3>2, <3>3, SoundRows DEF On
    <3>5. On(r, e, s)
      BY <3>4 DEF On, Piece
    <3> QED BY <1>3, <3>1, <3>3, <3>5
  <2>3. ASSUME NEW i \in DOMAIN table, On(table[i], e, s)
        PROVE  \E j \in DOMAIN rows :
                 /\ On(rows[j], e, s)
                 /\ \A g \in 1 .. MaxRows : table[i].grp = g => rows[j].grp = g
                 /\ s \in OutsideFrame /\ Waits(table[i]) => Waits(rows[j])
    <3>1. PICK j \in DOMAIN rows : /\ On(rows[j], e, s)
                                   /\ rows[j] = entries[i] \/ Piece(rows[j], entries[i])
      BY <1>2, <1>3, <2>3 DEF Recut
    <3>2. PICK q : q = rows[j]
      OBVIOUS
    <3>3. PICK r : r = table[i]
      OBVIOUS
    <3>4. q.in \in Nat /\ q.out \in Nat /\ On(q, e, s) /\ (q = r \/ Piece(q, r))
      BY <1>1, <1>2, <3>1, <3>2, <3>3, SoundRows DEF On
    <3>5. \A g \in 1 .. MaxRows : r.grp = g => q.grp = g
      BY <3>4 DEF Piece, NoGroup
    <3>6. s \in OutsideFrame /\ Waits(r) => Waits(q)
      BY <3>4, PieceWaits
    <3> QED BY <3>1, <3>2, <3>3, <3>5, <3>6
  <2>4. s \in n.worked <=> s \in b.worked
    BY <2>1, <2>2, <2>3 DEF Says
  <2>5. s \in b.pending => s \in n.pending
    BY <2>1, <2>3 DEF Says
  <2>6. \A g \in 1 .. MaxRows : s \in b.captures[g] => s \in n.captures[g]
    BY <2>1, <2>3 DEF Says
  <2> QED BY <2>4, <2>5, <2>6
<1>5. n.worked = b.worked
  BY <1>4
<1>6. b.pending \subseteq n.pending
  BY <1>4
<1>7. Promise!KeepsGroups(b, n)
  BY <1>4 DEF Promise!KeepsGroups
<1>8. n.pending \subseteq Promise!Outside
  <2>1. ASSUME NEW s \in n.pending PROVE s \in OutsideFrame
    <3>1. Says(n, rows, e, s)
      BY <1>1, BookSays
    <3> QED BY <2>1, <3>1 DEF Says
  <2> QED BY <2>1, PromiseOutside
<1>9. Promise!SameTimer(b, n)
  BY <1>1, TimerContinues DEF Recut, Promise!SameTimer
<1> QED BY <1>5, <1>6, <1>7, <1>8, <1>9 DEF Promise!Rebook

-----------------------------------------------------------------------------
(* Splitting *)

\* The row i is cut at `at`.
LEMMA CutInTwo ==
    ASSUME LedgerInv, NEW i \in Ids, NEW e, entries[i].emp = e, IsClosed(entries[i]),
           NEW at \in Nat, entries[i].in < at, at < entries[i].out,
           NEW r \in Row, Piece(r, entries[i]), r.in = entries[i].in, r.out = at,
           NEW q, Piece(q, entries[i]), q.in = at, q.out = entries[i].out,
           NEW rows, Moved(rows, i, r, q)
    PROVE  Recut(rows, e) /\ Bounded(rows)
<1>0. IInv
  BY DEF LedgerInv
<1>1. /\ DOMAIN rows = Ids \cup {NewId} /\ NewId \notin Ids /\ NewId \in DOMAIN rows
      /\ SameRow(rows[i], r) /\ rows[NewId] = q
      /\ \A j \in Ids : j # i => j \in DOMAIN rows /\ rows[j] = entries[j]
  BY <1>0, RevisedAppendedRows
<1>2. PICK old : old = entries[i]
  OBVIOUS
<1>3. PICK head : head = rows[i]
  OBVIOUS
<1>4. /\ Piece(head, old) /\ Piece(q, old) /\ old.emp = e /\ IsClosed(old)
      /\ head.in = old.in /\ head.out = at /\ q.in = at /\ q.out = old.out
      /\ head.emp = e /\ q.emp = e /\ IsClosed(head) /\ IsClosed(q) /\ i \in DOMAIN rows
  BY <1>1, <1>2, <1>3 DEF SameRow, Piece
<1>5. old.in \in Nat /\ old.out \in Nat /\ old.out <= LastInstant /\ at <= old.out
      /\ old.status # "Rejected"
  <2>1. PICK table : table = entries
    OBVIOUS
  <2>2. Sound(table) /\ i \in DOMAIN table /\ old = table[i]
    BY <1>2, <2>1 DEF LedgerInv, Ids
  <2>3. old.in \in Nat /\ old.out \in Nat /\ old.out <= LastInstant /\ old.status # "Rejected"
    BY <1>4, <2>2, SoundRows
  <2> QED BY <1>2, <2>3
<1>6. Bounded(rows)
  <2>1. InBounds(r) /\ InBounds(q)
    BY <1>2, <1>4, <1>5, LedgerAssumption DEF InBounds, Piece, StatusFor, LastInstant
  <2> QED BY <2>1, RevisedAppendedBounded
<1>7. ASSUME NEW j \in DOMAIN rows, rows[j].emp = e, IsClosed(rows[j])
      PROVE  \E k \in Ids : /\ entries[k].emp = e /\ IsClosed(entries[k])
                            /\ rows[j] = entries[k] \/ Piece(rows[j], entries[k])
  <2>1. CASE j = i
    BY <1>2, <1>3, <1>4, <2>1
  <2>2. CASE j = NewId
    BY <1>1, <1>2, <1>4, <2>2
  <2>3. CASE j # i /\ j # NewId
    BY <1>1, <1>7, <2>3
  <2> QED BY <2>1, <2>2, <2>3
<1>8. ASSUME NEW k \in Ids, NEW s, On(entries[k], e, s)
      PROVE  \E j \in DOMAIN rows : /\ On(rows[j], e, s)
                                    /\ rows[j] = entries[k] \/ Piece(rows[j], entries[k])
  <2>1. CASE k # i
    BY <1>1, <1>8, <2>1
  <2>2. CASE k = i
    <3>1. s \in old.in .. old.out - 1
      BY <1>2, <1>8, <2>2 DEF On
    <3>2. On(head, e, s) \/ On(q, e, s)
      BY <1>4, <1>5, <3>1 DEF On
    <3> QED BY <1>1, <1>2, <1>3, <1>4, <2>2, <3>2
  <2> QED BY <2>1, <2>2
<1>9. Continues(rows, e)
  <2>1. ~IsOpen(head) /\ ~IsOpen(q) /\ ~IsOpen(old)
    BY <1>4 DEF IsOpen, IsClosed
  <2> QED BY <1>1, <1>2, <1>3, <2>1 DEF Continues
<1> QED BY <1>6, <1>7, <1>8, <1>9 DEF Recut

\* A split cuts one row in two.
LEMMA SplitBook ==
    ASSUME LedgerInv, NEW c \in Clients, Split(c), NEW e, Asks(c, e),
           NEW rows, NEW b, NEW n, Writes(rows, e, b, n)
    PROVE  Bounded(rows) /\ (n = b \/ Promise!Rebook(b, n))
<1>0. IInv
  BY DEF LedgerInv
<1>1. InTransaction(c, "Split") /\ "Split" \in Requests
  BY DEF Split, Requests
<1> DEFINE seen(i) == call[c].view[i]
           st(i, x, y) == IF seen(i).status = "Rejected" THEN "Rejected"
                          ELSE StatusFor(seen(i).mode, x, y)
           head(i, at) == [entries[i] EXCEPT !.out = at, !.grp = Group(i, seen(i)),
                                             !.status = st(i, seen(i).in, at)]
           tail(i, at, t) == [seen(i) EXCEPT !.in = at, !.status = st(i, at, seen(i).out),
                                             !.grp = Group(i, seen(i)), !.target = t,
                                             !.day = NoDay, !.rev = 0]
           result(i, at, t) == Append(Revise(entries, i, head(i, at)), tail(i, at, t))
<1>2. PICK i \in DOMAIN call[c].view, at \in 0 .. LastInstant :
        /\ Current(c, i) /\ seen(i).in < at /\ at < seen(i).out
        /\ \E t \in Bookable \cup {seen(i).target} : Save(result(i, at, t), LogEdit(i, {NewId}))
  BY DEF Split
<1>3. PICK t \in Bookable \cup {seen(i).target} : Save(result(i, at, t), LogEdit(i, {NewId}))
  BY <1>2
<1>4. /\ i \in Ids /\ i \in Nat /\ at \in Nat /\ entries[i].emp = e
      /\ entries[i] \in Row /\ seen(i) = entries[i] /\ ~entries[i].voided
  <2>1. i \in Ids /\ seen(i) \in Row /\ call[c] # Idle /\ entries[i].emp = e
    BY <1>0, <1>1, CallOf DEF Asks
  <2>2. entries[i].rev = seen(i).rev /\ ~entries[i].voided
    BY <1>2 DEF Current, Mutable
  <2>3. i \in Nat /\ at \in Nat /\ entries[i] \in Row
    BY <1>0, <2>1, EntryRow, LedgerAssumption DEF LastInstant
  <2>4. seen(i) = entries[i]
    BY <1>0, <2>1, <2>2 DEF IInv, RevisionsTellVersionsApart
  <2> QED BY <2>1, <2>2, <2>3, <2>4
<1>5. PICK old : old = entries[i]
  OBVIOUS
<1>6. /\ old \in Row /\ seen(i) = old /\ old.in < at /\ at < old.out /\ old.out \in Nat
      /\ old.in \in Nat /\ ~old.voided /\ old.emp = e
  BY <1>2, <1>4, <1>5 DEF Row, Running
<1>7. old.status # "Rejected" /\ IsClosed(old)
  <2>1. InBounds(old)
    BY <1>4, <1>5 DEF LedgerInv, Sound, Ids
  <2> QED BY <1>6, <2>1 DEF InBounds, IsClosed, Effective, Running
<1>8. PICK r : r = head(i, at)
  OBVIOUS
<1>9. PICK q : q = tail(i, at, t)
  OBVIOUS
<1>10. PICK g \in Nat : g = Group(i, old) /\ (old.grp # NoGroup => g = old.grp)
  BY <1>4, <1>6, GroupType DEF Group
<1>11. PICK one \in Status : one = StatusFor(old.mode, old.in, at) /\ one # "Rejected"
  BY DEF StatusFor, Status
<1>12. PICK two \in Status : two = StatusFor(old.mode, at, old.out) /\ two # "Rejected"
  BY DEF StatusFor, Status
<1>13. r = [old EXCEPT !.out = at, !.grp = g, !.status = one]
  BY <1>5, <1>6, <1>7, <1>8, <1>10, <1>11
<1>14. q = [old EXCEPT !.in = at, !.status = two, !.grp = g, !.target = t,
                       !.day = NoDay, !.rev = 0]
  BY <1>5, <1>6, <1>7, <1>9, <1>10, <1>12
<1>15. r \in Row /\ Piece(r, old) /\ r.in = old.in /\ r.out = at
  <2>1. /\ r \in Row /\ r.in = old.in /\ r.out = at /\ r.emp = old.emp /\ r.mode = old.mode
        /\ r.grp = g /\ r.status = one /\ r.voided = old.voided
    BY <1>4, <1>6, <1>10, <1>11, <1>13 DEF Row
  <2> QED BY <1>4, <1>6, <1>10, <1>11, <2>1 DEF Piece, IsClosed, Effective, Running
<1>16. Piece(q, old) /\ q.in = at /\ q.out = old.out
  <2>1. /\ q.in = at /\ q.out = old.out /\ q.emp = old.emp /\ q.mode = old.mode
        /\ q.grp = g /\ q.status = two /\ q.voided = old.voided
    BY <1>6, <1>14 DEF Row
  <2> QED BY <1>4, <1>6, <1>10, <1>12, <2>1 DEF Piece, IsClosed, Effective, Running
<1>17. Moved(rows, i, r, q)
  BY <1>3, <1>8, <1>9 DEF Moved, Writes, Leaves, Save
<1> HIDE DEF seen, st, head, tail, result
<1>18. Recut(rows, e) /\ Bounded(rows)
  <2>1. /\ IsClosed(entries[i]) /\ entries[i].in < at /\ at < entries[i].out
        /\ Piece(r, entries[i]) /\ r.in = entries[i].in /\ r.out = at
        /\ Piece(q, entries[i]) /\ q.in = at /\ q.out = entries[i].out
    BY <1>5, <1>6, <1>7, <1>15, <1>16
  <2> QED BY <1>4, <1>15, <1>17, <2>1, CutInTwo
<1> QED BY <1>18, RecutBook

-----------------------------------------------------------------------------
(* Range bookings: the pieces of a row, and tables put together *)

\* What a range booking makes of row i between x and y is a piece of it.
LEMMA SegmentPiece ==
    ASSUME LedgerInv, NEW i \in Ids, IsClosed(entries[i]), NEW x \in Nat, NEW y \in Nat,
           entries[i].in <= x, x < y, y <= entries[i].out,
           NEW from, NEW to, NEW t \in Bookable,
           NEW seg, seg = Segment(i, x, y, from, to, t)
    PROVE  /\ seg \in Row /\ seg.in = x /\ seg.out = y /\ seg.rev = entries[i].rev
           /\ seg.status # "Rejected" /\ Piece(seg, entries[i])
<1>0. IInv
  BY DEF LedgerInv
<1>1. PICK old : old = entries[i]
  OBVIOUS
<1>2. old \in Row /\ i \in Nat /\ ~old.voided
  BY <1>0, <1>1, EntryRow DEF IsClosed, Effective
<1>3. PICK g \in Nat : g = Group(i, old) /\ (old.grp # NoGroup => g = old.grp)
  BY <1>2, GroupType DEF Group
<1>4. PICK st \in Status : st = StatusFor(old.mode, x, y) /\ st # "Rejected"
  BY DEF StatusFor, Status
<1>5. PICK target : target = IF from <= x /\ y <= to THEN t ELSE old.target
  OBVIOUS
<1>6. target \in Targets \cup {NoTarget}
  BY <1>0, <1>2, <1>5, BookableType DEF Row
<1>7. seg = [old EXCEPT !.in = x, !.out = y, !.grp = g, !.status = st, !.target = target]
  BY <1>1, <1>3, <1>4, <1>5 DEF Segment
<1>8. /\ seg \in Row /\ seg.in = x /\ seg.out = y /\ seg.rev = old.rev /\ seg.status = st
      /\ seg.emp = old.emp /\ seg.mode = old.mode /\ seg.grp = g /\ seg.voided = old.voided
  BY <1>2, <1>3, <1>4, <1>6, <1>7 DEF Row
<1> QED BY <1>1, <1>2, <1>3, <1>4, <1>8 DEF Piece, IsClosed, Effective, Running

\* No two rows of e are cut at one instant.
LEMMA CutOnce ==
    ASSUME LedgerInv, NEW e, NEW from, NEW to, NEW p \in Nat,
           NEW i \in CutAt(Overlapping(e, from, to), p)
    PROVE  CutAt(Overlapping(e, from, to), p) = {i}
<1> SUFFICES ASSUME NEW j \in CutAt(Overlapping(e, from, to), p) PROVE j = i
  OBVIOUS
<1>1. PICK table : table = entries
  OBVIOUS
<1>2. Sound(table) /\ i \in DOMAIN table /\ j \in DOMAIN table
  BY <1>1 DEF LedgerInv, CutAt, Overlapping, RowsOf, Ids
<1>3. ASSUME NEW k \in CutAt(Overlapping(e, from, to), p), k \in DOMAIN table
      PROVE  On(table[k], e, p)
  <2>1. /\ table[k].emp = e /\ IsClosed(table[k]) /\ table[k].in < p /\ p < table[k].out
    BY <1>1 DEF CutAt, Overlapping, RowsOf
  <2>2. table[k].in \in Nat /\ table[k].out \in Nat
    BY <1>2, <1>3, <2>1, SoundRows
  <2> QED BY <2>1, <2>2 DEF On
<1> QED BY <1>2, <1>3, OnOnce

\* The new rows at p: of a row that is cut there one, to its end or to `end`.
NewPieces(new, over, p, end) ==
    /\ new \in Seq(Row)
    /\ \A k \in DOMAIN new : \E i \in over : Piece(new[k], entries[i]) /\ InBounds(new[k])
    /\ \A i \in CutAt(over, p) : \E k \in DOMAIN new :
         /\ Piece(new[k], entries[i]) /\ new[k].in = p
         /\ new[k].out = IF end < entries[i].out THEN end ELSE entries[i].out

\* Every new row at p is a piece of the row that is cut there.
LEMMA NewPiece ==
    ASSUME LedgerInv, NEW e, NEW from \in Nat, NEW to \in Nat, NEW t \in Bookable,
           NEW p \in Nat, NEW end \in Nat, CutAt(Overlapping(e, from, to), p) # {} => p < end
    PROVE  NewPieces(NewSegment(Overlapping(e, from, to), p, end, from, to, t),
                     Overlapping(e, from, to), p, end)
<1>0. PICK new : new = NewSegment(Overlapping(e, from, to), p, end, from, to, t)
  OBVIOUS
<1>1. PICK over : over = Overlapping(e, from, to)
  OBVIOUS
<1>2. CASE CutAt(over, p) = {}
  BY <1>0, <1>1, <1>2 DEF NewSegment, NewPieces
<1>3. CASE CutAt(over, p) # {}
  <2>1. PICK i \in CutAt(over, p) : i = CHOOSE j \in CutAt(over, p) : TRUE
    BY <1>3
  <2>2. CutAt(over, p) = {i}
    BY <1>1, <2>1, CutOnce
  <2>3. i \in over /\ entries[i].in < p /\ p < entries[i].out
    BY <2>1 DEF CutAt
  <2>4. i \in Ids /\ entries[i].out \in Nat /\ entries[i].in \in Nat /\ IsClosed(entries[i])
    BY <1>1, <2>3, OverlappingClosed, RowFields DEF LedgerInv
  <2>5. PICK y : y = IF end < entries[i].out THEN end ELSE entries[i].out
    OBVIOUS
  <2>6. y \in Nat /\ p < y /\ y <= entries[i].out
    BY <1>1, <1>3, <2>3, <2>4, <2>5
  <2>7. PICK seg : seg = Segment(i, p, y, from, to, t)
    OBVIOUS
  <2>8. /\ seg \in Row /\ seg.in = p /\ seg.out = y
        /\ seg.status # "Rejected" /\ Piece(seg, entries[i])
    BY <2>3, <2>4, <2>6, <2>7, SegmentPiece
  <2>9. PICK q : q = [seg EXCEPT !.rev = 0, !.day = NoDay]
    OBVIOUS
  <2>10. /\ q \in Row /\ q.in = p /\ q.out = y
         /\ q.status # "Rejected" /\ Piece(q, entries[i])
    BY <2>8, <2>9 DEF Row, NoDay, Piece, IsClosed, Effective
  <2>11. new = <<q>>
    BY <1>0, <1>1, <1>3, <2>1, <2>5, <2>7, <2>9 DEF NewSegment
  <2>12. InBounds(q)
    <3>1. entries[i].out <= LastInstant /\ LastInstant \in Nat
      BY <2>4, LedgerAssumption DEF LedgerInv, Sound, InBounds, Ids, LastInstant
    <3> QED BY <2>4, <2>6, <2>10, <3>1 DEF InBounds
  <2>13. DOMAIN new = {1} /\ new[1] = q /\ new \in Seq(Row)
    BY <2>10, <2>11
  <2> QED BY <1>0, <1>1, <2>2, <2>3, <2>5, <2>10, <2>12, <2>13 DEF NewPieces
<1> QED BY <1>2, <1>3

\* The rows of three tables put one after the other.
Concat(rows, kept, one, two) == rows = (kept \o one) \o two

Joined(rows, kept, one, two) ==
    /\ \A j \in DOMAIN rows : \/ j \in DOMAIN kept /\ rows[j] = kept[j]
                              \/ \E k \in DOMAIN one : rows[j] = one[k]
                              \/ \E k \in DOMAIN two : rows[j] = two[k]
    /\ \A j \in DOMAIN kept : j \in DOMAIN rows /\ rows[j] = kept[j]
    /\ \A k \in DOMAIN one : \E j \in DOMAIN rows : rows[j] = one[k]
    /\ \A k \in DOMAIN two : \E j \in DOMAIN rows : rows[j] = two[k]

\* A row of the table put together is a row of one of its parts.
LEMMA Concatenated ==
    ASSUME NEW kept \in Seq(Row), NEW one \in Seq(Row), NEW two \in Seq(Row),
           NEW rows, Concat(rows, kept, one, two)
    PROVE  Joined(rows, kept, one, two)
<1>1. PICK x \in Nat : x = Len(kept)
  OBVIOUS
<1>2. PICK y \in Nat : y = Len(one)
  OBVIOUS
<1>3. PICK z \in Nat : z = Len(two)
  OBVIOUS
<1>4. DOMAIN kept = 1 .. x /\ DOMAIN one = 1 .. y /\ DOMAIN two = 1 .. z
  BY <1>1, <1>2, <1>3
<1>5. PICK ko : ko = kept \o one
  OBVIOUS
<1>6. /\ ko \in Seq(Row) /\ Len(ko) = x + y
      /\ \A j \in 1 .. x + y : ko[j] = IF j <= x THEN kept[j] ELSE one[j - x]
  BY <1>1, <1>2, <1>5
<1>7. /\ DOMAIN rows = 1 .. x + y + z
      /\ \A j \in 1 .. x + y + z : rows[j] = IF j <= x + y THEN ko[j] ELSE two[j - (x + y)]
  BY <1>3, <1>5, <1>6 DEF Concat
<1>8. ASSUME NEW j \in DOMAIN rows
      PROVE  \/ j \in DOMAIN kept /\ rows[j] = kept[j]
             \/ \E k \in DOMAIN one : rows[j] = one[k]
             \/ \E k \in DOMAIN two : rows[j] = two[k]
  <2>1. CASE j <= x
    BY <1>4, <1>6, <1>7, <1>8, <2>1
  <2>2. CASE x < j /\ j <= x + y
    <3>1. j - x \in DOMAIN one /\ rows[j] = one[j - x]
      BY <1>4, <1>6, <1>7, <1>8, <2>2
    <3> QED BY <3>1
  <2>3. CASE x + y < j
    <3>1. j - (x + y) \in DOMAIN two /\ rows[j] = two[j - (x + y)]
      BY <1>4, <1>7, <1>8, <2>3
    <3> QED BY <3>1
  <2>4. x \in Int /\ y \in Int /\ j \in Int
    BY <1>7, <1>8
  <2> QED BY <2>1, <2>2, <2>3, <2>4
<1>9. ASSUME NEW j \in DOMAIN kept PROVE j \in DOMAIN rows /\ rows[j] = kept[j]
  BY <1>4, <1>6, <1>7, <1>9
<1>10. ASSUME NEW k \in DOMAIN one PROVE \E j \in DOMAIN rows : rows[j] = one[k]
  <2>1. x + k \in DOMAIN rows /\ x + k \in 1 .. x + y /\ ~(x + k <= x) /\ (x + k) - x = k
    BY <1>4, <1>7, <1>10
  <2>2. rows[x + k] = one[k]
    BY <1>6, <1>7, <2>1
  <2> QED BY <2>1, <2>2
<1>11. ASSUME NEW k \in DOMAIN two PROVE \E j \in DOMAIN rows : rows[j] = two[k]
  <2>1. x + y + k \in DOMAIN rows /\ ~(x + y + k <= x + y) /\ (x + y + k) - (x + y) = k
    BY <1>4, <1>7, <1>11
  <2>2. rows[x + y + k] = two[k]
    BY <1>7, <2>1
  <2> QED BY <2>1, <2>2
<1> QED BY <1>8, <1>9, <1>10, <1>11 DEF Joined

-----------------------------------------------------------------------------
(* Booking a range *)

\* The first piece of a row that a range booking overlaps takes the row's place.
IsFirst(q, i, from, to, t) ==
    q = [Segment(i, entries[i].in, FirstEnd(entries[i], from, to), from, to, t)
           EXCEPT !.rev = @ + 1]

LEMMA FirstPiece ==
    ASSUME LedgerInv, NEW e, NEW from \in Nat, NEW to \in Nat, from < to, NEW t \in Bookable,
           NEW i \in Overlapping(e, from, to),
           NEW q, IsFirst(q, i, from, to, t)
    PROVE  /\ q \in Row /\ Piece(q, entries[i]) /\ InBounds(q)
           /\ q.in = entries[i].in /\ q.out = FirstEnd(entries[i], from, to)
<1>0. IInv
  BY DEF LedgerInv
<1>1. /\ i \in Ids /\ entries[i] \in Row /\ entries[i].out \in Nat /\ entries[i].in \in Nat
      /\ entries[i].emp = e /\ IsClosed(entries[i])
  BY <1>0, OverlappingClosed, RowFields
<1>2. PICK x : x = entries[i].in
  OBVIOUS
<1>3. PICK y : y = FirstEnd(entries[i], from, to)
  OBVIOUS
<1>4. entries[i].in < entries[i].out /\ entries[i].out <= LastInstant /\ LastInstant \in Nat
  <2>1. PICK table : table = entries
    OBVIOUS
  <2>2. Sound(table) /\ i \in DOMAIN table
    BY <1>1, <2>1 DEF LedgerInv, Ids
  <2> QED BY <1>1, <2>1, <2>2, SoundRows
<1>5. x \in Nat /\ y \in Nat /\ x < y /\ y <= entries[i].out /\ entries[i].in <= x
  <2>1. entries[i].in < to /\ entries[i].out > from
    BY DEF Overlapping
  <2> QED BY <1>1, <1>2, <1>3, <1>4, <2>1 DEF FirstEnd
<1>6. PICK seg : seg = Segment(i, x, y, from, to, t)
  OBVIOUS
<1>7. /\ seg \in Row /\ seg.in = x /\ seg.out = y
      /\ seg.status # "Rejected" /\ Piece(seg, entries[i])
  BY <1>1, <1>5, <1>6, SegmentPiece
<1>8. q = [seg EXCEPT !.rev = seg.rev + 1] /\ seg.rev + 1 \in Nat
  BY <1>2, <1>3, <1>6, <1>7, RowFields DEF IsFirst
<1>9. /\ q \in Row /\ q.in = x /\ q.out = y
      /\ q.status # "Rejected" /\ Piece(q, entries[i])
  BY <1>7, <1>8 DEF Row, Piece, IsClosed, Effective
<1>10. InBounds(q)
  BY <1>1, <1>4, <1>5, <1>9 DEF InBounds
<1> QED BY <1>2, <1>3, <1>9, <1>10

\* The pieces of a row that a range booking overlaps cover it.
LEMMA PiecesCover ==
    ASSUME NEW r, r.in \in Nat, r.out \in Nat, NEW from \in Nat, NEW to \in Nat, from < to,
           r.in < to, from < r.out, NEW s \in r.in .. r.out - 1,
           NEW last \in Nat, r.out <= last
    PROVE  \/ s \in r.in .. FirstEnd(r, from, to) - 1
           \/ /\ r.in < from /\ from < r.out
              /\ s \in from .. (IF to < r.out THEN to ELSE r.out) - 1
           \/ /\ r.in < to /\ to < r.out
              /\ s \in to .. (IF last < r.out THEN last ELSE r.out) - 1
BY DEF FirstEnd

\* A range booking cuts every row that it overlaps.
LEMMA RangeBookBook ==
    ASSUME LedgerInv, NEW c \in Clients, RangeBook(c), NEW e, Asks(c, e),
           NEW rows, NEW b, NEW n, Writes(rows, e, b, n)
    PROVE  Bounded(rows) /\ (n = b \/ Promise!Rebook(b, n))
<1>0. IInv
  BY DEF LedgerInv
<1>1. PICK from \in 0 .. LastInstant, to \in 0 .. LastInstant, t \in Bookable :
        from < to /\ entries' = Carved(Overlapping(e, from, to), from, to, t)
  BY DEF RangeBook, Save, Asks
<1>2. from \in Nat /\ to \in Nat /\ LastInstant \in Nat /\ to <= LastInstant
  BY LedgerAssumption DEF LastInstant
<1>3. PICK over : over = Overlapping(e, from, to)
  OBVIOUS
<1> DEFINE cut(i) == [Segment(i, entries[i].in, FirstEnd(entries[i], from, to), from, to, t)
                        EXCEPT !.rev = @ + 1]
<1>4. PICK kept : kept = [i \in Ids |-> IF i \in over THEN cut(i) ELSE entries[i]]
  OBVIOUS
<1>5. PICK one : one = NewSegment(over, from, to, from, to, t)
  OBVIOUS
<1>6. PICK two : two = NewSegment(over, to, LastInstant, from, to, t)
  OBVIOUS
<1>7. Concat(rows, kept, one, two)
  BY <1>1, <1>3, <1>4, <1>5, <1>6 DEF Concat, Carved, Writes, Leaves
<1>8. ASSUME NEW i \in over
      PROVE  /\ i \in Ids /\ entries[i].emp = e /\ IsClosed(entries[i])
             /\ entries[i].in \in Nat /\ entries[i].out \in Nat
             /\ entries[i].in < to /\ entries[i].out > from /\ entries[i].out <= LastInstant
  <2>1. /\ i \in Ids /\ entries[i].emp = e /\ IsClosed(entries[i])
        /\ entries[i].in \in Nat /\ entries[i].out \in Nat
    BY <1>0, <1>3, OverlappingClosed, RowFields
  <2>2. entries[i].out <= LastInstant
    BY <2>1 DEF LedgerInv, Sound, InBounds, Ids
  <2> QED BY <1>3, <2>1, <2>2 DEF Overlapping
<1>9. ASSUME NEW i \in over
      PROVE  /\ kept[i] \in Row /\ Piece(kept[i], entries[i]) /\ InBounds(kept[i])
             /\ kept[i].in = entries[i].in /\ kept[i].out = FirstEnd(entries[i], from, to)
  <2>1. PICK q : q = cut(i)
    OBVIOUS
  <2>2. kept[i] = q
    BY <1>4, <1>8, <2>1
  <2>3. /\ q \in Row /\ Piece(q, entries[i]) /\ InBounds(q)
        /\ q.in = entries[i].in /\ q.out = FirstEnd(entries[i], from, to)
    <3>1. IsFirst(q, i, from, to, t) /\ i \in Overlapping(e, from, to)
      BY <1>3, <2>1 DEF IsFirst
    <3> QED BY <1>1, <1>2, <3>1, FirstPiece
  <2> QED BY <2>2, <2>3
<1>10. ASSUME NEW i \in Ids \ over PROVE kept[i] = entries[i]
  BY <1>4
<1>11. kept \in Seq(Row) /\ DOMAIN kept = Ids
  <2>1. \A i \in Ids : kept[i] \in Row
    BY <1>0, <1>9, <1>10, EntryRow
  <2>2. kept = [i \in Ids |-> kept[i]]
    BY <1>4
  <2>3. Ids = 1 .. Len(entries) /\ Len(entries) \in Nat
    BY <1>0, EntryRow
  <2> QED BY <2>1, <2>2, <2>3
<1> HIDE DEF cut
<1>12. NewPieces(one, over, from, to)
  <2>1. NewPieces(NewSegment(Overlapping(e, from, to), from, to, from, to, t),
                  Overlapping(e, from, to), from, to)
    BY <1>1, <1>2, NewPiece
  <2> QED BY <1>3, <1>5, <2>1
<1>13. NewPieces(two, over, to, LastInstant)
  <2>1. CutAt(Overlapping(e, from, to), to) # {} => to < LastInstant
    <3> SUFFICES ASSUME NEW i \in CutAt(over, to) PROVE to < LastInstant
      BY <1>3
    <3>1. i \in over /\ to < entries[i].out
      BY DEF CutAt
    <3> QED BY <1>2, <1>8, <3>1
  <2>2. NewPieces(NewSegment(Overlapping(e, from, to), to, LastInstant, from, to, t),
                  Overlapping(e, from, to), to, LastInstant)
    BY <1>1, <1>2, <2>1, NewPiece
  <2> QED BY <1>3, <1>6, <2>2
<1>14. Joined(rows, kept, one, two)
  <2>1. one \in Seq(Row) /\ two \in Seq(Row)
    BY <1>12, <1>13 DEF NewPieces
  <2> QED BY <1>7, <1>11, <2>1, Concatenated
<1>15. ASSUME NEW j \in DOMAIN rows
       PROVE  \/ j \in Ids \ over /\ rows[j] = entries[j]
              \/ \E i \in over : Piece(rows[j], entries[i]) /\ InBounds(rows[j])
  <2>1. CASE j \in DOMAIN kept /\ rows[j] = kept[j]
    BY <1>9, <1>10, <1>11, <2>1
  <2>2. CASE \E k \in DOMAIN one : rows[j] = one[k]
    BY <1>12, <2>2 DEF NewPieces
  <2>3. CASE \E k \in DOMAIN two : rows[j] = two[k]
    BY <1>13, <2>3 DEF NewPieces
  <2> QED BY <1>14, <2>1, <2>2, <2>3 DEF Joined
<1>16. Bounded(rows)
  BY <1>15 DEF Bounded, LedgerInv, Sound, Ids
<1>17. ASSUME NEW i \in over, NEW s \in entries[i].in .. entries[i].out - 1
       PROVE  \E j \in DOMAIN rows : On(rows[j], e, s) /\ Piece(rows[j], entries[i])
  <2>1. PICK r : r = entries[i]
    OBVIOUS
  <2>2. /\ r.in \in Nat /\ r.out \in Nat /\ r.in < to /\ from < r.out /\ r.out <= LastInstant
        /\ r.emp = e /\ s \in r.in .. r.out - 1
    BY <1>2, <1>8, <2>1
  <2>3. PICK x \in Nat : x = r.in
    BY <2>2
  <2>4. PICK y \in Nat : y = r.out
    BY <2>2
  <2>5. x < to /\ from < y /\ y <= LastInstant /\ s \in x .. y - 1
    BY <2>2, <2>3, <2>4
  <2>6. CASE s \in x .. FirstEnd(r, from, to) - 1
    <3>1. Piece(kept[i], r) /\ kept[i].in = x /\ kept[i].out = FirstEnd(r, from, to)
      BY <1>9, <2>1, <2>3
    <3>2. On(kept[i], e, s)
      BY <2>2, <2>6, <3>1 DEF On, Piece
    <3>3. i \in DOMAIN rows /\ rows[i] = kept[i]
      BY <1>8, <1>11, <1>14 DEF Joined
    <3> QED BY <2>1, <3>1, <3>2, <3>3
  <2>7. CASE x < from /\ from < y /\ s \in from .. (IF to < y THEN to ELSE y) - 1
    <3>1. i \in CutAt(over, from)
      BY <2>1, <2>3, <2>4, <2>7 DEF CutAt
    <3>2. PICK k \in DOMAIN one : /\ Piece(one[k], r) /\ one[k].in = from
                                  /\ one[k].out = IF to < y THEN to ELSE y
      BY <1>12, <2>1, <2>4, <3>1 DEF NewPieces
    <3>3. On(one[k], e, s)
      BY <2>2, <2>7, <3>2 DEF On, Piece
    <3>4. PICK j \in DOMAIN rows : rows[j] = one[k]
      BY <1>14 DEF Joined
    <3> QED BY <2>1, <3>2, <3>3, <3>4
  <2>8. CASE x < to /\ to < y /\ s \in to .. (IF LastInstant < y THEN LastInstant ELSE y) - 1
    <3>1. i \in CutAt(over, to)
      BY <2>1, <2>3, <2>4, <2>8 DEF CutAt
    <3>2. PICK k \in DOMAIN two : /\ Piece(two[k], r) /\ two[k].in = to
                                  /\ two[k].out = IF LastInstant < y THEN LastInstant ELSE y
      BY <1>13, <2>1, <2>4, <3>1 DEF NewPieces
    <3>3. On(two[k], e, s)
      BY <2>2, <2>8, <3>2 DEF On, Piece
    <3>4. PICK j \in DOMAIN rows : rows[j] = two[k]
      BY <1>14 DEF Joined
    <3> QED BY <2>1, <3>2, <3>3, <3>4
  <2>9. \/ s \in x .. FirstEnd(r, from, to) - 1
        \/ x < from /\ from < y /\ s \in from .. (IF to < y THEN to ELSE y) - 1
        \/ x < to /\ to < y /\ s \in to .. (IF LastInstant < y THEN LastInstant ELSE y) - 1
    <3>1. /\ \/ s \in r.in .. FirstEnd(r, from, to) - 1
             \/ /\ r.in < from /\ from < r.out
                /\ s \in from .. (IF to < r.out THEN to ELSE r.out) - 1
             \/ /\ r.in < to /\ to < r.out
                /\ s \in to .. (IF LastInstant < r.out THEN LastInstant ELSE r.out) - 1
      BY <1>1, <1>2, <2>2, PiecesCover
    <3> QED BY <2>3, <2>4, <3>1
  <2> QED BY <2>6, <2>7, <2>8, <2>9
<1>18. Recut(rows, e)
  <2>1. ASSUME NEW j \in DOMAIN rows, rows[j].emp = e, IsClosed(rows[j])
        PROVE  \E i \in Ids : /\ entries[i].emp = e /\ IsClosed(entries[i])
                              /\ rows[j] = entries[i] \/ Piece(rows[j], entries[i])
    BY <1>8, <1>15, <2>1
  <2>2. ASSUME NEW i \in Ids, NEW s, On(entries[i], e, s)
        PROVE  \E j \in DOMAIN rows : /\ On(rows[j], e, s)
                                      /\ rows[j] = entries[i] \/ Piece(rows[j], entries[i])
    <3>1. CASE i \in over
      BY <1>17, <2>2, <3>1 DEF On
    <3>2. CASE i \notin over
      <4>1. i \in DOMAIN rows /\ rows[i] = entries[i]
        BY <1>10, <1>11, <1>14, <3>2 DEF Joined
      <4> QED BY <2>2, <4>1
    <3> QED BY <3>1, <3>2
  <2>3. Continues(rows, e)
    <3>1. ASSUME NEW j \in DOMAIN rows, IsOpen(rows[j])
          PROVE  j \in Ids /\ rows[j] = entries[j]
      BY <1>15, <3>1 DEF Piece, IsOpen, IsClosed
    <3>2. ASSUME NEW j \in Ids, IsOpen(entries[j])
          PROVE  j \in DOMAIN rows /\ rows[j] = entries[j]
      <4>1. j \notin over
        BY <1>8, <3>2 DEF IsOpen, IsClosed
      <4> QED BY <1>10, <1>11, <1>14, <4>1 DEF Joined
    <3> QED BY <3>1, <3>2 DEF Continues
  <2> QED BY <2>1, <2>2, <2>3 DEF Recut
<1> QED BY <1>16, <1>18, RecutBook

-----------------------------------------------------------------------------
(* The books and the approvals before a step and after it *)

\* The books before a step, and after it.
LEMMA BooksAre ==
    ASSUME NEW f \in Employees
    PROVE  IsBook(Books[f], entries, f)
BY DEF Books, IsBook

LEMMA BooksBecome ==
    ASSUME NEW f \in Employees, NEW rows, entries' = rows
    PROVE  IsBook(Books'[f], rows, f)
<1>1. Books' = [g \in Employees |-> BookOf(entries', g)]
  BY DEF Books
<1>2. Books'[f] = BookOf(rows, f)
  BY <1>1
<1> QED BY <1>2 DEF IsBook

LEMMA BooksStay ==
    ASSUME UNCHANGED entries
    PROVE  UNCHANGED Books
BY DEF Books

\* Requests that are no approvals do not count.
LEMMA ApprovingStays ==
    ASSUME \A c \in Clients : \/ UNCHANGED call[c]
                              \/ call[c].op # "Approve" /\ call'[c].op # "Approve"
    PROVE  UNCHANGED Approving
<1>1. ASSUME NEW e \in Employees PROVE Approvals(e)' = Approvals(e)
  BY DEF Approvals
<1>2. ASSUME NEW e \in Employees PROVE Cardinality(Approvals(e))' = Cardinality(Approvals(e))
  BY <1>1
<1> QED BY <1>2 DEF Approving

\* An approval that ends is one less.
LEMMA ApprovalsCount ==
    ASSUME IInv, NEW c \in Clients, NEW e \in Employees,
           call[c].op = "Approve", call[c].emp = e, call' = [call EXCEPT ![c] = Idle]
    PROVE  /\ Approving[e] \in Nat /\ Approving[e] > 0
           /\ Approving' = [Approving EXCEPT ![e] = @ - 1]
<1>1. ASSUME NEW f \in Employees
      PROVE  IsFiniteSet(Approvals(f)) /\ Cardinality(Approvals(f)) \in Nat
  <2>1. Approvals(f) \subseteq Clients /\ IsFiniteSet(Clients)
    BY LedgerAssumption DEF Approvals
  <2> QED BY <2>1, FS_Subset, FS_CardinalityType
<1>2. c \in Approvals(e)
  BY DEF Approvals
<1>3. Approvals(e)' = Approvals(e) \ {c}
  BY DEF Approvals, Idle, IInv, TypeOK
<1>4. ASSUME NEW f \in Employees, f # e PROVE Approvals(f)' = Approvals(f)
  BY <1>4 DEF Approvals, Idle, IInv, TypeOK
<1>5. Cardinality(Approvals(e) \ {c}) = Cardinality(Approvals(e)) - 1
  BY <1>1, <1>2, FS_RemoveElement
<1>6. Cardinality(Approvals(e)) > 0
  <2>1. Cardinality(Approvals(e)) # 0
    BY <1>1, <1>2, FS_EmptySet
  <2> QED BY <1>1, <2>1
<1>7. Cardinality(Approvals(e))' = Cardinality(Approvals(e)) - 1
  BY <1>3, <1>5
<1>8. ASSUME NEW f \in Employees, f # e
      PROVE  Cardinality(Approvals(f))' = Cardinality(Approvals(f))
  BY <1>4, <1>8
<1>9. Approving[e] = Cardinality(Approvals(e))
  BY DEF Approving
<1>10. Approving' = [Approving EXCEPT ![e] = @ - 1]
  BY <1>7, <1>8 DEF Approving
<1> QED BY <1>1, <1>6, <1>9, <1>10

\* An approval that begins is one more.
LEMMA ApprovalAsked ==
    ASSUME IInv, NEW c \in Clients, NEW e \in Employees, call[c] = Idle,
           NEW k, k.op = "Approve", k.emp = e, call' = [call EXCEPT ![c] = k]
    PROVE  Approving' = [Approving EXCEPT ![e] = @ + 1]
<1>1. IsFiniteSet(Approvals(e))
  <2>1. Approvals(e) \subseteq Clients /\ IsFiniteSet(Clients)
    BY LedgerAssumption DEF Approvals
  <2> QED BY <2>1, FS_Subset
<1>2. c \notin Approvals(e)
  BY DEF Approvals, Idle
<1>3. Approvals(e)' = Approvals(e) \cup {c}
  BY DEF Approvals, Idle, IInv, TypeOK
<1>4. ASSUME NEW f \in Employees, f # e PROVE Approvals(f)' = Approvals(f)
  BY <1>4 DEF Approvals, Idle, IInv, TypeOK
<1>5. Cardinality(Approvals(e) \cup {c}) = Cardinality(Approvals(e)) + 1
  BY <1>1, <1>2, FS_AddElement
<1>6. Cardinality(Approvals(e))' = Cardinality(Approvals(e)) + 1
  BY <1>3, <1>5
<1>7. ASSUME NEW f \in Employees, f # e
      PROVE  Cardinality(Approvals(f))' = Cardinality(Approvals(f))
  BY <1>4, <1>7
<1> QED BY <1>6, <1>7 DEF Approving

-----------------------------------------------------------------------------
(* The invariant, and what a commit does to a book *)

\* What a transaction that is no approval does to a book.
Moves(b, n) ==
    \/ Promise!Start(b, n) \/ Promise!Stop(b, n) \/ Promise!Block(b, n)
    \/ Promise!Manual(b, n) \/ Promise!Rebook(b, n) \/ Promise!Amend(b, n)

\* Every transaction moves the books of its employee as Ledger says.
LEMMA CommitBook ==
    ASSUME LedgerInv, NEW c \in Clients, CommitStep(c), NEW e, Asks(c, e),
           NEW rows, NEW b, NEW n, Writes(rows, e, b, n)
    PROVE  /\ Bounded(rows)
           /\ \/ call[c].op # "Approve" /\ (n = b \/ Moves(b, n))
              \/ call[c].op = "Approve" /\ Promise!Records(b, n)
<1>1. CASE ClockIn(c)
  <2>1. Bounded(rows) /\ Promise!Start(b, n)
    BY <1>1, ClockInBook
  <2>2. call[c].op # "Approve"
    BY <1>1 DEF ClockIn, InTransaction
  <2> QED BY <2>1, <2>2 DEF Moves
<1>2. CASE ClockOut(c)
  <2>1. Bounded(rows) /\ Promise!Stop(b, n)
    BY <1>2, ClockOutBook
  <2>2. call[c].op # "Approve"
    BY <1>2 DEF ClockOut, InTransaction
  <2> QED BY <2>1, <2>2 DEF Moves
<1>3. CASE Switch(c)
  <2>1. Bounded(rows) /\ Promise!Stop(b, n)
    BY <1>3, SwitchBook
  <2>2. call[c].op # "Approve"
    BY <1>3 DEF Switch, InTransaction
  <2> QED BY <2>1, <2>2 DEF Moves
<1>4. CASE DailyBlock(c)
  <2>1. Bounded(rows) /\ Promise!Block(b, n)
    BY <1>4, DailyBlockBook
  <2>2. call[c].op # "Approve"
    BY <1>4 DEF DailyBlock, InTransaction
  <2> QED BY <2>1, <2>2 DEF Moves
<1>5. CASE Manual(c)
  <2>1. Bounded(rows) /\ Promise!Manual(b, n)
    BY <1>5, ManualBook
  <2>2. call[c].op # "Approve"
    BY <1>5 DEF Manual, InTransaction
  <2> QED BY <2>1, <2>2 DEF Moves
<1>6. CASE Update(c)
  <2>1. Bounded(rows) /\ n = b
    BY <1>6, UpdateBook
  <2>2. call[c].op # "Approve"
    BY <1>6 DEF Update, InTransaction
  <2> QED BY <2>1, <2>2 DEF Moves
<1>7. CASE Split(c)
  <2>1. Bounded(rows) /\ (n = b \/ Promise!Rebook(b, n))
    BY <1>7, SplitBook
  <2>2. call[c].op # "Approve"
    BY <1>7 DEF Split, InTransaction
  <2> QED BY <2>1, <2>2 DEF Moves
<1>8. CASE RangeBook(c)
  <2>1. Bounded(rows) /\ (n = b \/ Promise!Rebook(b, n))
    BY <1>8, RangeBookBook
  <2>2. call[c].op # "Approve"
    BY <1>8 DEF RangeBook, InTransaction
  <2> QED BY <2>1, <2>2 DEF Moves
<1>9. CASE Correct(c)
  <2>1. Bounded(rows) /\ (n = b \/ Promise!Amend(b, n))
    BY <1>9, CorrectBook
  <2>2. call[c].op # "Approve"
    BY <1>9 DEF Correct, InTransaction
  <2> QED BY <2>1, <2>2 DEF Moves
<1>10. CASE Void(c)
  <2>1. Bounded(rows) /\ (n = b \/ Promise!Amend(b, n))
    BY <1>10, VoidBook
  <2>2. call[c].op # "Approve"
    BY <1>10 DEF Void, InTransaction
  <2> QED BY <2>1, <2>2 DEF Moves
<1>11. CASE Approve(c)
  <2>1. Bounded(rows) /\ Promise!Records(b, n)
    BY <1>11, ApproveBook
  <2>2. call[c].op = "Approve"
    BY <1>11 DEF Approve
  <2> QED BY <2>1, <2>2
<1> QED BY <1>1, <1>2, <1>3, <1>4, <1>5, <1>6, <1>7, <1>8, <1>9, <1>10, <1>11 DEF CommitStep

\* The table a LedgerStep leaves.
LEMMA StepLeaves ==
    ASSUME NEW e, LedgerStep(e)
    PROVE  \E rows : Leaves(rows, e) /\ UNCHANGED world
BY DEF LedgerStep, Leaves, Save

LEMMA CallerExists ==
    ASSUME IInv, NEW c \in Clients, CommitStep(c)
    PROVE  call[c].emp \in Employees
<1>1. call[c].op \in Requests
  BY DEF CommitStep, ClockIn, ClockOut, Switch, DailyBlock, Manual, Update, Split, RangeBook,
         Correct, Void, Approve, InTransaction, Requests
<1>2. call[c] # Idle
  BY <1>1 DEF Idle, Requests
<1> QED BY <1>2 DEF IInv, TypeOK, IsCall

\* The transactions of a commit and of a terminal.
LEMMA CommitWrites ==
    ASSUME LedgerInv, NEW c \in Clients, CommitStep(c), NEW e, Asks(c, e)
    PROVE  /\ e \in Employees /\ UNCHANGED world /\ call' = [call EXCEPT ![c] = Idle]
           /\ \E rows : Leaves(rows, e) /\ Bounded(rows)
<1>0. IInv
  BY DEF LedgerInv
<1>1. LedgerStep(e) /\ Finish(c)
  BY <1>0, CommitShape DEF Asks
<1>2. PICK rows : Leaves(rows, e) /\ UNCHANGED world
  BY <1>1, StepLeaves
<1>3. PICK b : IsBook(b, entries, e)
  BY DEF IsBook
<1>4. PICK n : IsBook(n, rows, e)
  BY DEF IsBook
<1>5. Bounded(rows)
  BY <1>2, <1>3, <1>4, CommitBook DEF Writes
<1>6. e \in Employees
  BY <1>0, CallerExists DEF Asks
<1> QED BY <1>1, <1>2, <1>5, <1>6 DEF Finish

LEMMA TerminalWrites ==
    ASSUME LedgerInv, NEW e \in Employees, TerminalBook(e)
    PROVE  /\ UNCHANGED world /\ UNCHANGED call
           /\ \E rows : Leaves(rows, e) /\ Bounded(rows)
<1>0. IInv
  BY DEF LedgerInv
<1>1. LedgerStep(e)
  BY <1>0, TerminalStep
<1>2. PICK rows : Leaves(rows, e) /\ UNCHANGED world
  BY <1>1, StepLeaves
<1>3. PICK b : IsBook(b, entries, e)
  BY DEF IsBook
<1>4. PICK n : IsBook(n, rows, e)
  BY DEF IsBook
<1>5. Bounded(rows)
  BY <1>2, <1>3, <1>4, TerminalBookBook DEF Writes
<1> QED BY <1>2, <1>5 DEF TerminalBook


\* The invariant holds initially and is kept by every step.
LEMMA LedgerInitial == Init => LedgerInv
<1> SUFFICES ASSUME Init PROVE LedgerInv
  OBVIOUS
<1>1. IInv
  BY InitInvariant
<1>2. Sound(entries)
  BY DEF Init, Sound, DatabaseAccepts
<1> QED BY <1>1, <1>2, LedgerAssumption DEF LedgerInv, Init

LEMMA LedgerInductive == LedgerInv /\ [Next]_vars => LedgerInv'
<1> SUFFICES ASSUME LedgerInv, [Next]_vars PROVE LedgerInv'
  OBVIOUS
<1>0. IInv /\ IInv'
  BY NextInvariant DEF LedgerInv
<1>1. ASSUME NEW e, NEW rows, Leaves(rows, e), Bounded(rows), UNCHANGED world PROVE LedgerInv'
  <2>1. Sound(rows)
    BY <1>1, LeavesSound
  <2>2. Sound(entries)'
    BY <1>1, <2>1 DEF Leaves, Sound, DatabaseAccepts
  <2>3. now' <= Horizon
    BY <1>1 DEF LedgerInv, world
  <2> QED BY <1>0, <2>2, <2>3 DEF LedgerInv
<1>2. ASSUME UNCHANGED entries, now' = now \/ (now < Horizon /\ now' = now + 1) PROVE LedgerInv'
  <2>1. Sound(entries)'
    BY <1>2 DEF LedgerInv, Sound, DatabaseAccepts
  <2>2. now' <= Horizon
    BY <1>0, <1>2, LedgerAssumption DEF LedgerInv, IInv, TypeOK
  <2> QED BY <1>0, <2>1, <2>2 DEF LedgerInv
<1>3. CASE UNCHANGED vars
  BY <1>2, <1>3 DEF vars
<1>4. ASSUME NEW c \in Clients, CommitStep(c) PROVE LedgerInv'
  <2>1. PICK e : e = call[c].emp
    OBVIOUS
  <2>2. PICK rows : Leaves(rows, e) /\ Bounded(rows) /\ UNCHANGED world
    BY <1>4, <2>1, CommitWrites DEF Asks
  <2> QED BY <1>1, <2>2
<1>5. ASSUME NEW e \in Employees, TerminalBook(e) PROVE LedgerInv'
  <2>1. PICK rows : Leaves(rows, e) /\ Bounded(rows) /\ UNCHANGED world
    BY <1>5, TerminalWrites
  <2> QED BY <1>1, <2>1
<1>6. ASSUME NEW c \in Clients, BeginStep(c) \/ ChangeMode(c) \/ Abort(c) PROVE LedgerInv'
  <2>1. UNCHANGED entries /\ now' = now
    BY <1>6 DEF BeginStep, BeginNew, BeginOnRow, BeginOnLedger, BeginApproval, BeginChange,
                Begin, Ask, ChangeMode, Abort, world
  <2> QED BY <1>2, <2>1
<1>7. ASSUME NEW e \in Employees, SetActive(e) PROVE LedgerInv'
  BY <1>2, <1>7 DEF SetActive
<1>8. ASSUME NEW t \in Targets, SetArchived(t) PROVE LedgerInv'
  BY <1>2, <1>8 DEF SetArchived
<1>9. CASE Tick
  BY <1>2, <1>9 DEF Tick
<1> QED BY <1>3, <1>4, <1>5, <1>6, <1>7, <1>8, <1>9 DEF Next

-----------------------------------------------------------------------------
(* Every step is an entry of Ledger or leaves it alone *)

\* An entry in the book of e: the others keep theirs.
LEMMA EntryMade ==
    ASSUME LedgerInv, NEW e \in Employees, NEW rows, Leaves(rows, e), Bounded(rows),
           UNCHANGED world, NEW b, IsBook(b, entries, e), NEW n, IsBook(n, rows, e),
           \/ Moves(b, n) /\ UNCHANGED Approving
           \/ Promise!Adjust(e, b, n)
    PROVE  Promise!Entry(e)
<1>1. Sound(rows) /\ Extends(rows) /\ Owns(rows, e) /\ entries' = rows
  BY LeavesSound DEF Leaves
<1>2. Promise!Balanced(n)
  BY <1>1, Balances
<1>3. b = Books[e] /\ n = Books'[e]
  <2>1. IsBook(Books[e], entries, e) /\ IsBook(Books'[e], rows, e)
    BY <1>1, BooksAre, BooksBecome
  <2> QED BY <2>1 DEF IsBook
<1>4. ASSUME NEW f \in Employees \ {e} PROVE Books'[f] = Books[f]
  <2>1. PICK x : x = Books[f]
    OBVIOUS
  <2>2. PICK y : y = Books'[f]
    OBVIOUS
  <2>3. IsBook(x, entries, f) /\ IsBook(y, rows, f)
    BY <1>1, <2>1, <2>2, BooksAre, BooksBecome
  <2>4. y = x
    BY <1>1, <2>3, OthersBook
  <2> QED BY <2>1, <2>2, <2>4
<1>5. UNCHANGED <<now, mode>>
  BY DEF world
<1> QED BY <1>2, <1>3, <1>4, <1>5 DEF Promise!Entry, Moves

\* Where nobody's book changes, Ledger stutters.
LEMMA BooksKept ==
    ASSUME LedgerInv, NEW e \in Employees, NEW rows, Leaves(rows, e), Bounded(rows),
           UNCHANGED world, NEW b, IsBook(b, entries, e), IsBook(b, rows, e)
    PROVE  UNCHANGED Books
<1>1. Sound(rows) /\ Extends(rows) /\ Owns(rows, e) /\ entries' = rows
  BY LeavesSound DEF Leaves
<1>2. ASSUME NEW f \in Employees PROVE Books'[f] = Books[f]
  <2>1. PICK x : x = Books[f]
    OBVIOUS
  <2>2. PICK y : y = Books'[f]
    OBVIOUS
  <2>3. IsBook(x, entries, f) /\ IsBook(y, rows, f)
    BY <1>1, <2>1, <2>2, BooksAre, BooksBecome
  <2>4. CASE f = e
    BY <2>1, <2>2, <2>3, <2>4 DEF IsBook
  <2>5. CASE f # e
    <3>1. y = x
      BY <1>1, <2>3, <2>5, OthersBook
    <3> QED BY <2>1, <2>2, <3>1
  <2> QED BY <2>4, <2>5
<1>3. Books = [f \in Employees |-> Books[f]] /\ Books' = [f \in Employees |-> Books'[f]]
  BY DEF Books
<1> QED BY <1>2, <1>3

\* A commit is an entry in the book of the request's employee.
LEMMA CommitKeeps ==
    ASSUME LedgerInv, NEW c \in Clients, CommitStep(c)
    PROVE  Promise!LedgerNext \/ UNCHANGED Promise!ledger
<1>0. IInv
  BY DEF LedgerInv
<1>1. PICK e : e = call[c].emp
  OBVIOUS
<1>2. Asks(c, e)
  BY <1>1 DEF Asks
<1>3. e \in Employees /\ UNCHANGED world /\ call' = [call EXCEPT ![c] = Idle]
  BY <1>2, CommitWrites
<1>4. PICK rows : Leaves(rows, e) /\ Bounded(rows)
  BY <1>2, CommitWrites
<1>5. PICK b : IsBook(b, entries, e)
  BY DEF IsBook
<1>6. PICK n : IsBook(n, rows, e)
  BY DEF IsBook
<1>7. \/ call[c].op # "Approve" /\ (n = b \/ Moves(b, n))
      \/ call[c].op = "Approve" /\ Promise!Records(b, n)
  BY <1>2, <1>4, <1>5, <1>6, CommitBook DEF Writes
<1>8. CASE call[c].op # "Approve"
  <2>1. UNCHANGED Approving
    BY <1>0, <1>3, <1>8, ApprovingStays DEF Idle, IInv, TypeOK
  <2>2. CASE n = b
    <3>1. IsBook(b, rows, e)
      BY <1>6, <2>2 DEF IsBook
    <3>2. UNCHANGED Books
      BY <1>3, <1>4, <1>5, <3>1, BooksKept
    <3> QED BY <1>3, <2>1, <3>2 DEF Promise!ledger, world
  <2>3. CASE Moves(b, n)
    <3>1. Promise!Entry(e)
      BY <1>3, <1>4, <1>5, <1>6, <2>1, <2>3, EntryMade
    <3> QED BY <1>3, <3>1 DEF Promise!LedgerNext
  <2> QED BY <1>7, <1>8, <2>2, <2>3
<1>9. CASE call[c].op = "Approve"
  <2>1. Promise!Adjust(e, b, n)
    BY <1>0, <1>1, <1>3, <1>7, <1>9, ApprovalsCount DEF Promise!Adjust
  <2>2. Promise!Entry(e)
    BY <1>3, <1>4, <1>5, <1>6, <2>1, EntryMade
  <2> QED BY <1>3, <2>2 DEF Promise!LedgerNext
<1> QED BY <1>8, <1>9

\* So is the toggle of a terminal.
LEMMA TerminalKeeps ==
    ASSUME LedgerInv, NEW e \in Employees, TerminalBook(e)
    PROVE  Promise!LedgerNext
<1>1. UNCHANGED world /\ UNCHANGED call
  BY TerminalWrites
<1>2. PICK rows : Leaves(rows, e) /\ Bounded(rows)
  BY TerminalWrites
<1>3. PICK b : IsBook(b, entries, e)
  BY DEF IsBook
<1>4. PICK n : IsBook(n, rows, e)
  BY DEF IsBook
<1>5. Moves(b, n)
  BY <1>2, <1>3, <1>4, TerminalBookBook DEF Writes, Moves
<1>6. UNCHANGED Approving
  BY <1>1, ApprovingStays
<1>7. Promise!Entry(e)
  BY <1>1, <1>2, <1>3, <1>4, <1>5, <1>6, EntryMade
<1> QED BY <1>7 DEF Promise!LedgerNext

\* An approval that begins, or comes to nothing, is an entry that leaves the book.
LEMMA BookStays ==
    ASSUME LedgerInv, NEW e \in Employees, UNCHANGED <<entries, world>>,
           \A b : Promise!Adjust(e, b, b) \/ Promise!AskAdjustment(e, b, b)
    PROVE  Promise!Entry(e)
<1>1. UNCHANGED Books
  BY BooksStay
<1>2. PICK b : b = Books[e]
  OBVIOUS
<1>3. Promise!Balanced(b)
  <2>1. PICK table : table = entries
    OBVIOUS
  <2>2. Sound(table) /\ IsBook(b, table, e)
    BY <1>2, <2>1, BooksAre DEF LedgerInv, IsBook
  <2> QED BY <2>2, Balances
<1>4. b = Books'[e] /\ \A f \in Employees \ {e} : Books'[f] = Books[f]
  BY <1>1, <1>2
<1>5. UNCHANGED <<now, mode>>
  BY DEF world
<1> QED BY <1>2, <1>3, <1>4, <1>5 DEF Promise!Entry

\* A request that begins or is given up leaves every book.
LEMMA RequestKeeps ==
    ASSUME LedgerInv, NEW c \in Clients, BeginStep(c) \/ Abort(c)
    PROVE  Promise!LedgerNext \/ UNCHANGED Promise!ledger
<1>0. IInv
  BY DEF LedgerInv
<1>1. ASSUME NEW op, NEW e, NEW seen, NEW withRev, op # "Approve", Ask(c, op, e, seen, withRev)
      PROVE  UNCHANGED Promise!ledger
  <2>1. UNCHANGED Books /\ UNCHANGED <<now, mode>>
    BY <1>1, BooksStay DEF Ask, world
  <2>2. UNCHANGED Approving
    BY <1>0, <1>1, ApprovingStays DEF Ask, Idle, IInv, TypeOK
  <2> QED BY <2>1, <2>2 DEF Promise!ledger
<1>2. ASSUME NEW e \in Employees, BeginApproval(c, e) PROVE Promise!LedgerNext
  <2>1. call[c] = Idle /\ mode = "Team" /\ UNCHANGED <<entries, world>>
    BY <1>2 DEF BeginApproval, Ask
  <2>2. PICK k : k = [op |-> "Approve", emp |-> e, rev |-> FALSE, solo |-> mode = "Solo",
                      view |-> [i \in {} |-> entries[i]]]
    OBVIOUS
  <2>3. call' = [call EXCEPT ![c] = k] /\ k.op = "Approve" /\ k.emp = e
    BY <1>2, <2>2 DEF BeginApproval, Ask
  <2>4. Approving' = [Approving EXCEPT ![e] = @ + 1]
    BY <1>0, <2>1, <2>3, ApprovalAsked
  <2>5. \A b : Promise!AskAdjustment(e, b, b)
    BY <2>1, <2>4 DEF Promise!AskAdjustment
  <2> QED BY <2>1, <2>5, BookStays DEF Promise!LedgerNext
<1>3. CASE BeginStep(c)
  <2>1. PICK e \in Employees : \/ BeginNew(c, e) \/ BeginOnRow(c, e) \/ BeginOnLedger(c, e)
                               \/ BeginApproval(c, e) \/ BeginChange(c, e)
    BY <1>3 DEF BeginStep
  <2>2. CASE BeginNew(c, e)
    BY <1>1, <2>2 DEF BeginNew, Begin
  <2>3. CASE BeginOnRow(c, e)
    BY <1>1, <2>3 DEF BeginOnRow, Begin
  <2>4. CASE BeginOnLedger(c, e)
    BY <1>1, <2>4 DEF BeginOnLedger, Begin
  <2>5. CASE BeginApproval(c, e)
    BY <1>2, <2>5
  <2>6. CASE BeginChange(c, e)
    BY <1>1, <2>6 DEF BeginChange
  <2> QED BY <2>1, <2>2, <2>3, <2>4, <2>5, <2>6
<1>4. CASE Abort(c)
  <2>1. call[c] # Idle /\ call' = [call EXCEPT ![c] = Idle] /\ UNCHANGED <<entries, world>>
    BY <1>4 DEF Abort
  <2>2. CASE call[c].op # "Approve"
    <3>1. UNCHANGED Approving
      BY <1>0, <2>1, <2>2, ApprovingStays DEF Idle, IInv, TypeOK
    <3>2. UNCHANGED Books
      BY <2>1, BooksStay
    <3> QED BY <2>1, <3>1, <3>2 DEF Promise!ledger, world
  <2>3. CASE call[c].op = "Approve"
    <3>1. PICK e \in Employees : e = call[c].emp
      BY <1>0, <2>1 DEF IInv, TypeOK, IsCall
    <3>2. Approving[e] > 0 /\ Approving' = [Approving EXCEPT ![e] = @ - 1]
      BY <1>0, <2>1, <2>3, <3>1, ApprovalsCount
    <3>3. \A b : Promise!Adjust(e, b, b)
      BY <3>2 DEF Promise!Adjust
    <3> QED BY <2>1, <3>3, BookStays DEF Promise!LedgerNext
  <2> QED BY <2>2, <2>3
<1> QED BY <1>3, <1>4

\* Every step of TimeEntries is one of Ledger, or leaves its variables alone.
LEMMA StepKeeps ==
    ASSUME LedgerInv, [Next]_vars
    PROVE  [Promise!LedgerNext]_(Promise!ledger)
<1>0. IInv
  BY DEF LedgerInv
<1>1. CASE UNCHANGED vars
  <2>1. UNCHANGED Books
    BY <1>1, BooksStay DEF vars
  <2>2. UNCHANGED Approving
    BY <1>1, ApprovingStays DEF vars
  <2> QED BY <1>1, <2>1, <2>2 DEF vars, Promise!ledger
<1>2. ASSUME NEW c \in Clients, BeginStep(c) \/ Abort(c)
      PROVE  Promise!LedgerNext \/ UNCHANGED Promise!ledger
  BY <1>2, RequestKeeps
<1>3. ASSUME NEW c \in Clients, CommitStep(c)
      PROVE  Promise!LedgerNext \/ UNCHANGED Promise!ledger
  BY <1>3, CommitKeeps
<1>4. ASSUME NEW c \in Clients, ChangeMode(c) PROVE Promise!LedgerNext
  <2>1. UNCHANGED Books /\ now' = now
    BY <1>4, BooksStay DEF ChangeMode
  <2>2. UNCHANGED Approving
    BY <1>0, <1>4, ApprovingStays DEF ChangeMode, Idle
  <2>3. mode' = IF mode = "Team" THEN "Solo" ELSE "Team"
    BY <1>4 DEF ChangeMode
  <2> QED BY <2>1, <2>2, <2>3 DEF Promise!LedgerNext, Promise!ChangeMode
<1>5. ASSUME NEW e \in Employees, TerminalBook(e) PROVE Promise!LedgerNext
  BY <1>5, TerminalKeeps
<1>6. ASSUME UNCHANGED <<entries, call, now, mode>> PROVE UNCHANGED Promise!ledger
  <2>1. UNCHANGED Books
    BY <1>6, BooksStay
  <2>2. UNCHANGED Approving
    BY <1>6, ApprovingStays
  <2> QED BY <1>6, <2>1, <2>2 DEF Promise!ledger
<1>7. ASSUME NEW e \in Employees, SetActive(e) PROVE UNCHANGED Promise!ledger
  BY <1>6, <1>7 DEF SetActive
<1>8. ASSUME NEW t \in Targets, SetArchived(t) PROVE UNCHANGED Promise!ledger
  BY <1>6, <1>8 DEF SetArchived
<1>9. CASE Tick
  <2>1. UNCHANGED Books /\ mode' = mode /\ now' = now + 1
    BY <1>9, BooksStay DEF Tick
  <2>2. UNCHANGED Approving
    BY <1>9, ApprovingStays DEF Tick
  <2> QED BY <2>1, <2>2 DEF Promise!LedgerNext, Promise!Pass
<1> QED BY <1>1, <1>2, <1>3, <1>4, <1>5, <1>7, <1>8, <1>9 DEF Next

\* The books begin empty.
LEMMA BooksEmpty == Init => Promise!LedgerInit
<1> SUFFICES ASSUME Init PROVE Promise!LedgerInit
  OBVIOUS
<1>1. LedgerInv
  BY LedgerInitial
<1>2. ASSUME NEW e \in Employees PROVE Books[e] = Promise!Empty
  <2>1. PICK table : table = entries
    OBVIOUS
  <2>2. PICK b : b = Books[e]
    OBVIOUS
  <2>3. Sound(table) /\ IsBook(b, table, e) /\ DOMAIN table = {}
    BY <1>1, <2>1, <2>2, BooksAre DEF LedgerInv, Init, IsBook
  <2>4. ASSUME NEW s PROVE Says(b, table, e, s)
    BY <2>3, BookSays
  <2>5. ASSUME NEW s
        PROVE  /\ s \notin b.worked /\ s \notin b.pending
               /\ \A g \in 1 .. MaxRows : s \notin b.captures[g]
    BY <2>3, <2>4 DEF Says
  <2>6. b.worked = {}
    BY <2>5
  <2>7. b.pending = {}
    <3>1. b.pending \subseteq b.worked
      BY <2>3, Balances
    <3> QED BY <2>6, <3>1
  <2>8. b.captures = [g \in 1 .. MaxRows |-> {}]
    <3>1. b.captures = [g \in 1 .. MaxRows |-> b.captures[g]]
      BY <2>3, BookShape
    <3>2. ASSUME NEW g \in 1 .. MaxRows PROVE b.captures[g] = {}
      <4>1. b.captures[g] = Covered(table, {i \in Closed(table, e) : table[i].grp = g})
        BY <2>3 DEF IsBook, BookOf
      <4>2. Closed(table, e) = {}
        BY <2>3 DEF Closed
      <4> QED BY <4>1, <4>2 DEF Covered
    <3> QED BY <3>1, <3>2
  <2>9. b.credited = 0
    BY <2>3, <2>6, Balances, FS_EmptySet
  <2>10. b.since = Running /\ b.rule = "Team"
    BY <2>3, NoTimerIs
  <2>11. Shaped(b)
    BY <2>3, BookShape
  <2> QED BY <2>2, <2>6, <2>7, <2>8, <2>9, <2>10, <2>11
         DEF Shaped, Promise!Empty, Promise!Stopped, Running
<1>3. Books = [e \in Employees |-> Promise!Empty]
  BY <1>2 DEF Books
<1>4. Approving = [e \in Employees |-> 0]
  <2>1. ASSUME NEW e \in Employees PROVE Approvals(e) = {}
    BY DEF Init, Approvals, Idle
  <2>2. ASSUME NEW e \in Employees PROVE Cardinality(Approvals(e)) = 0
    BY <2>1, FS_EmptySet
  <2> QED BY <2>2 DEF Approving
<1>5. now = 0 /\ mode \in {"Team", "Solo"}
  BY LedgerAssumption DEF Init, Mode
<1> QED BY <1>3, <1>4, <1>5 DEF Promise!LedgerInit

\* The attendance ledger implements Ledger, for any number of employees, clients,
\* rows and instants: whatever its writers do to the rows, in whatever order their
\* reads and their transactions interleave (every handler of time-entries.service.ts,
\* terminal-booking.service.ts and materializeTimeAdjustment), an instant is
\* recorded and credited once, attendance comes and goes only as Ledger permits, and
\* what waits for an approval is not waved through.
THEOREM BooksKeptAsPromised == Spec => KeepsTheBooks
<1>1. Init => LedgerInv /\ Promise!LedgerInit
  BY LedgerInitial, BooksEmpty
<1>2. LedgerInv /\ [Next]_vars => LedgerInv'
  BY LedgerInductive
<1>3. LedgerInv /\ [Next]_vars => [Promise!LedgerNext]_(Promise!ledger)
  BY StepKeeps
<1> QED BY <1>1, <1>2, <1>3, PTL DEF Spec, KeepsTheBooks, Promise!LedgerSpec
=============================================================================
