---------------------------- MODULE StaffRecords ----------------------------
(***************************************************************************)
(* Records about employees that are kept without an advisory lock:         *)
(* absences, work schedules, leave allowances and the files attached to a  *)
(* request (apps/api/src/app: absences, work-schedules, leave-allowances,  *)
(* attachments).                                                           *)
(*                                                                         *)
(* A handler reads, checks and writes in steps of their own; what holds    *)
(* the records together is the order of the steps and the constraints of   *)
(* the database.  A caller whose handler has begun is in `handler`.        *)
(*                                                                         *)
(* A definition whose name ends in _Fault is a plausible mistake in the    *)
(* definition below it; nothing uses it.                                   *)
(***************************************************************************)
EXTENDS Integers, FiniteSets

CONSTANTS
    Workers,      \* employees, and the actors of every handler
    HRPeople,     \* those with the role HRAdmin
    BossOf,       \* [Workers -> Workers]: the manager
    Handlers,     \* requests the server can be handling at once
    AbsenceIds, ScheduleIds, FileIds,  \* rows and files that may come to exist
    Nothing,      \* NULL
    LastDate,     \* bound: the last day of an absence
    Reasons       \* what an administrator may write beside an allowance

ASSUME StaffRecordsAssumption ==
    /\ HRPeople \subseteq Workers /\ BossOf \in [Workers -> Workers]
    /\ LastDate \in Nat /\ Nothing \notin ScheduleIds
    /\ "expired" \notin Reasons

VARIABLES
    absences,    \* the Absence table
    schedules,   \* the WorkSchedule table: no row, a schedule, or the default one
    onSchedule,  \* Employee.workScheduleId
    allowances,  \* EmployeeLeaveAllowance of a year: carry-over, whether it is past its date, reasons
    files,       \* what the storage adapter holds
    attached,    \* the RequestAttachment table of one request
    decided,     \* that request is approved or rejected
    handler      \* [Handlers -> what is under way]

records == <<absences, schedules, onSchedule, allowances, files, attached, decided, handler>>

-----------------------------------------------------------------------------

Dates == 0..LastDate
NoRow == [row |-> FALSE]
Free == [op |-> "Free"]
Defaults == {s \in ScheduleIds : schedules[s] = "default"}

Begin(h, record) ==
    /\ handler[h] = Free /\ handler' = [handler EXCEPT ![h] = record]
    /\ UNCHANGED <<absences, schedules, onSchedule, allowances, files, attached, decided>>

Ended(h) == handler' = [handler EXCEPT ![h] = Free]

\* The handler fails, or the server stops, between two of its steps.
Fail(h) ==
    /\ handler[h] # Free /\ Ended(h)
    /\ UNCHANGED <<absences, schedules, onSchedule, allowances, files, attached, decided>>

-----------------------------------------------------------------------------
(* Absences *)

MayWrite(actor, e) == actor \in HRPeople \cup {e, BossOf[e]}

Overlap(r, from, to) == r # NoRow /\ r.from <= to /\ from <= r.to

\* assertNoOverlap
NoOverlap(e, from, to, except) ==
    \A a \in AbsenceIds \ {except} :
        Overlap(absences[a], from, to) => absences[a].emp # e

\* The service has looked for an overlap already.
AbsenceAdmitted_Fault(a, r) == TRUE

\* Absence_no_employee_overlap_excl, over the range from..to, which must be one
AbsenceAdmitted(a, r) == r.from <= r.to /\ NoOverlap(r.emp, r.from, r.to, a)

BeginCreateAbsence(h, actor, a, e, from, to) ==
    /\ absences[a] = NoRow /\ MayWrite(actor, e)
    /\ from <= to /\ NoOverlap(e, from, to, a)
    /\ Begin(h, [op |-> "CreateAbsence", id |-> a, row |-> [emp |-> e, from |-> from, to |-> to]])

\* Either end may be left as it was: it is checked as read, and not written.
BeginUpdateAbsence(h, actor, a, from, to) ==
    LET old == absences[a]
        next(new, was) == IF new = Nothing THEN was ELSE new
    IN /\ old # NoRow /\ MayWrite(actor, old.emp)
       /\ next(from, old.from) <= next(to, old.to)
       /\ NoOverlap(old.emp, next(from, old.from), next(to, old.to), a)
       /\ Begin(h, [op |-> "UpdateAbsence", id |-> a, from |-> from, to |-> to])

WriteAbsence(h, a, row) ==
    /\ AbsenceAdmitted(a, row)
    /\ absences' = [absences EXCEPT ![a] = row]
    /\ Ended(h) /\ UNCHANGED <<schedules, onSchedule, allowances, files, attached, decided>>

CreateAbsence(h) ==
    LET q == handler[h]
    IN q.op = "CreateAbsence" /\ absences[q.id] = NoRow /\ WriteAbsence(h, q.id, q.row)

UpdateAbsence(h) ==
    LET q == handler[h]
        old == absences[q.id]
    IN /\ q.op = "UpdateAbsence" /\ old # NoRow
       /\ WriteAbsence(h, q.id, [old EXCEPT !.from = IF q.from = Nothing THEN @ ELSE q.from,
                                            !.to = IF q.to = Nothing THEN @ ELSE q.to])

RemoveAbsence(actor, a) ==
    /\ absences[a] # NoRow /\ MayWrite(actor, absences[a].emp)
    /\ absences' = [absences EXCEPT ![a] = NoRow]
    /\ UNCHANGED <<schedules, onSchedule, allowances, files, attached, decided, handler>>

AbsencesNext ==
    \/ \E h \in Handlers :
         \/ \E actor \in Workers, a \in AbsenceIds :
              \/ \E e \in Workers, from, to \in Dates : BeginCreateAbsence(h, actor, a, e, from, to)
              \/ \E from, to \in Dates \cup {Nothing} : BeginUpdateAbsence(h, actor, a, from, to)
         \/ CreateAbsence(h) \/ UpdateAbsence(h)
         \/ Fail(h)
    \/ \E actor \in Workers, a \in AbsenceIds : RemoveAbsence(actor, a)

-----------------------------------------------------------------------------
(* Work schedules *)

\* The transaction unsets the default before it sets another.
OneDefaultAdmitted_Fault(s, others) == TRUE

\* WorkSchedule_single_default_idx
OneDefaultAdmitted(s, others) == others \subseteq {s}

\* create and update: the defaults that the transaction saw are unset
BeginSchedule(h, s, default) ==
    Begin(h, [op |-> "Schedule", id |-> s, new |-> schedules[s] = "none", default |-> default,
              seen |-> IF default THEN Defaults \ {s} ELSE {}])

SaveSchedule(h) ==
    LET q == handler[h]
    IN /\ q.op = "Schedule" /\ q.new = (schedules[q.id] = "none")
       /\ q.default => OneDefaultAdmitted(q.id, Defaults \ q.seen)
       /\ schedules' = [s \in ScheduleIds |->
              IF s = q.id THEN IF q.default THEN "default" ELSE "kept"
              ELSE IF s \in q.seen /\ schedules[s] = "default" THEN "kept" ELSE schedules[s]]
       /\ Ended(h) /\ UNCHANGED <<absences, onSchedule, allowances, files, attached, decided>>

\* The employees keep the reference.
WithoutSchedule_Fault(s) == onSchedule

\* ON DELETE SET NULL
WithoutSchedule(s) == [e \in Workers |-> IF onSchedule[e] = s THEN Nothing ELSE onSchedule[e]]

RemoveSchedule(s) ==
    /\ schedules[s] # "none"
    /\ schedules' = [schedules EXCEPT ![s] = "none"] /\ onSchedule' = WithoutSchedule(s)
    /\ UNCHANGED <<absences, allowances, files, attached, decided, handler>>

\* assignToEmployee, unassignFromEmployee and bulkAssignByTimeModel
AssignSchedule(S, s, overrideExisting) ==
    /\ s # Nothing => schedules[s] # "none"
    /\ onSchedule' = [e \in Workers |->
           IF e \in S /\ (overrideExisting \/ onSchedule[e] = Nothing) THEN s ELSE onSchedule[e]]
    /\ UNCHANGED <<absences, schedules, allowances, files, attached, decided, handler>>

\* resolveForEmployee: the employee's schedule, the default, or the built-in one
Resolved(e) ==
    IF onSchedule[e] # Nothing THEN onSchedule[e]
    ELSE IF Defaults # {} THEN CHOOSE s \in Defaults : TRUE ELSE Nothing

SchedulesNext ==
    \/ \E h \in Handlers :
         \/ \E s \in ScheduleIds, default \in BOOLEAN : BeginSchedule(h, s, default)
         \/ SaveSchedule(h) \/ Fail(h)
    \/ \E s \in ScheduleIds :
         \/ RemoveSchedule(s)
         \/ \E S \in SUBSET Workers, b \in BOOLEAN : AssignSchedule(S, s, b)
    \/ \E e \in Workers : AssignSchedule({e}, Nothing, TRUE)

-----------------------------------------------------------------------------
(* Leave allowances *)

\* getOrDefault, for a balance that is asked for; a second creation fails.
DefaultAllowance(e) ==
    /\ allowances[e] = NoRow
    /\ allowances' = [allowances EXCEPT ![e] = [carry |-> 0, due |-> FALSE, reason |-> {}]]
    /\ UNCHANGED <<absences, schedules, onSchedule, files, attached, decided, handler>>

UpsertAllowance(e, carry, due, reason) ==
    /\ allowances' = [allowances EXCEPT ![e] = [carry |-> carry, due |-> due, reason |-> reason]]
    /\ UNCHANGED <<absences, schedules, onSchedule, files, attached, decided, handler>>

\* expireCarryOvers reads the rows that are due ...
BeginExpiry(h) ==
    Begin(h, [op |-> "Expire", rows |-> [e \in {w \in Workers : allowances[w] # NoRow
                  /\ allowances[w].due /\ allowances[w].carry > 0} |-> allowances[e].reason]])

\* ... and writes each with the reason it had been read with.
ExpireRow(h, e) ==
    LET q == handler[h]
        rest == DOMAIN q.rows \ {e}
    IN /\ q.op = "Expire" /\ e \in DOMAIN q.rows
       /\ allowances' = [allowances EXCEPT ![e] =
              [@ EXCEPT !.carry = 0, !.reason = q.rows[e] \cup {"expired"}]]
       /\ handler' = [handler EXCEPT ![h] =
              IF rest = {} THEN Free ELSE [q EXCEPT !.rows = [w \in rest |-> q.rows[w]]]]
       /\ UNCHANGED <<absences, schedules, onSchedule, files, attached, decided>>

AllowancesNext ==
    \/ \E e \in Workers :
         \/ DefaultAllowance(e)
         \/ \E carry \in 0..1, due \in BOOLEAN, reason \in SUBSET Reasons :
              UpsertAllowance(e, carry, due, reason)
         \/ \E h \in Handlers : ExpireRow(h, e)
    \/ \E h \in Handlers : BeginExpiry(h) \/ Fail(h)

-----------------------------------------------------------------------------
(* Attachments: the bytes are stored first and deleted last *)

PutFile(h, f) ==
    /\ handler[h] = Free /\ f \notin files
    /\ \A g \in Handlers : handler[g].op \in {"Remove", "Erase"} => handler[g].file # f
    /\ files' = files \cup {f}
    /\ handler' = [handler EXCEPT ![h] = [op |-> "Upload", file |-> f]]
    /\ UNCHANGED <<absences, schedules, onSchedule, allowances, attached, decided>>

CreateAttachment(h) ==
    /\ handler[h].op = "Upload"
    /\ attached' = attached \cup {handler[h].file}
    /\ Ended(h) /\ UNCHANGED <<absences, schedules, onSchedule, allowances, files, decided>>

\* Off a decided request an HRAdmin alone removes.
BeginRemove(h, actor, f) ==
    /\ f \in attached /\ (decided => actor \in HRPeople)
    /\ Begin(h, [op |-> "Remove", file |-> f])

\* The file goes first.
DeleteAttachment_Fault(h) ==
    /\ handler[h].op = "Remove" /\ handler[h].file \in attached
    /\ files' = files \ {handler[h].file}
    /\ handler' = [handler EXCEPT ![h] = [@ EXCEPT !.op = "Erase"]]
    /\ UNCHANGED <<absences, schedules, onSchedule, allowances, attached, decided>>

DeleteAttachment(h) ==
    /\ handler[h].op = "Remove" /\ handler[h].file \in attached
    /\ attached' = attached \ {handler[h].file}
    /\ handler' = [handler EXCEPT ![h] = [@ EXCEPT !.op = "Erase"]]
    /\ UNCHANGED <<absences, schedules, onSchedule, allowances, files, decided>>

\* Idempotent: an unknown key is no error.
EraseFile(h) ==
    /\ handler[h].op = "Erase"
    /\ files' = files \ {handler[h].file}
    /\ Ended(h) /\ UNCHANGED <<absences, schedules, onSchedule, allowances, attached, decided>>

DecideRequest ==
    /\ ~decided /\ decided' = TRUE
    /\ UNCHANGED <<absences, schedules, onSchedule, allowances, files, attached, handler>>

FilesNext ==
    \/ \E h \in Handlers :
         \/ \E f \in FileIds : PutFile(h, f) \/ \E actor \in Workers : BeginRemove(h, actor, f)
         \/ CreateAttachment(h) \/ DeleteAttachment(h) \/ EraseFile(h)
         \/ Fail(h)
    \/ DecideRequest

-----------------------------------------------------------------------------

RecordsInit ==
    /\ absences = [a \in AbsenceIds |-> NoRow]
    /\ schedules = [s \in ScheduleIds |-> "none"]
    /\ onSchedule = [e \in Workers |-> Nothing]
    /\ allowances = [e \in Workers |-> NoRow]
    /\ files = {} /\ attached = {} /\ decided = FALSE
    /\ handler = [h \in Handlers |-> Free]

RecordsNext == AbsencesNext \/ SchedulesNext \/ AllowancesNext \/ FilesNext

RecordsSpec == RecordsInit /\ [][RecordsNext]_records

-----------------------------------------------------------------------------
(* Properties *)

AbsencesDisjoint ==
    \A a \in AbsenceIds : absences[a] # NoRow =>
        absences[a].from <= absences[a].to
          /\ NoOverlap(absences[a].emp, absences[a].from, absences[a].to, a)

\* The fallback of everyone without a schedule is one, and whoever has a schedule
\* has one that exists.
SchedulesResolve ==
    /\ Cardinality(Defaults) <= 1
    /\ \A e \in Workers : Resolved(e) # Nothing => schedules[Resolved(e)] # "none"

FilesBehindRows == attached \subseteq files

\* Handlers that read, check and write with no lock, that fail half way or run
\* twice, never leave absences that overlap or end before they begin, two default
\* schedules, an employee on a schedule that is gone, or an attachment without
\* its file (absences, work-schedules and attachments services).
RecordsSound == AbsencesDisjoint /\ SchedulesResolve /\ FilesBehindRows
=============================================================================
