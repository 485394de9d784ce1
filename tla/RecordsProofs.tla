---------------------------- MODULE RecordsProofs ----------------------------
(***************************************************************************)
(* What the records about employees, and the books on projects and orders, *)
(* guarantee for every number of rows, files, handlers and bookings.       *)
(*                                                                         *)
(* No lock protects the first.  Each handler's write is admitted by what   *)
(* the tables hold at that moment; what an earlier step has read matters   *)
(* only where the order of the steps is the protection, as it is for       *)
(* files.  The second are written under the lock, and what protects them   *)
(* is that a dozen handlers keep the same rules.  So is the calendar of    *)
(* the owner, where a request that waits must not reach a day that has     *)
(* become history.                                                         *)
(***************************************************************************)
EXTENDS StaffRecords, Projects, PersonalCalendar, FiniteSetTheorems, WellFoundedInduction, TLAPS

Absence == [emp: Workers, from: Dates, to: Dates]

Allowance == [carry: Nat, due: BOOLEAN, reason: SUBSET (Reasons \cup {"expired"})]

FileOps == {"Upload", "Remove", "Erase"}

CreateCall == [op: {"CreateAbsence"}, id: AbsenceIds, row: Absence]
UpdateCall ==
    [op: {"UpdateAbsence"}, id: AbsenceIds, from: Dates \cup {Nothing}, to: Dates \cup {Nothing}]
ScheduleCall ==
    [op: {"Schedule"}, id: ScheduleIds, new: BOOLEAN, default: BOOLEAN, seen: SUBSET ScheduleIds]
ExpireCall ==
    [op: {"Expire"}, rows: UNION {[E -> SUBSET (Reasons \cup {"expired"})] : E \in SUBSET Workers}]
FileCall == [op: FileOps, file: FileIds]

Calls == {Free} \cup CreateCall \cup UpdateCall \cup ScheduleCall \cup ExpireCall \cup FileCall

RecordsTypes ==
    /\ absences \in [AbsenceIds -> {NoRow} \cup Absence]
    /\ schedules \in [ScheduleIds -> {"none", "kept", "default"}]
    /\ onSchedule \in [Workers -> ScheduleIds \cup {Nothing}]
    /\ allowances \in [Workers -> {NoRow} \cup Allowance]
    /\ files \subseteq FileIds /\ attached \subseteq FileIds /\ decided \in BOOLEAN
    /\ handler \in [Handlers -> Calls]

\* Allowances are never deleted, so what is to expire is still there.
ExpiriesFounded ==
    \A h \in Handlers : handler[h].op = "Expire" =>
        \A e \in DOMAIN handler[h].rows : allowances[e] \in Allowance

OneDefault ==
    \A s, t \in ScheduleIds : schedules[s] = "default" /\ schedules[t] = "default" => s = t

SchedulesExist ==
    \A e \in Workers : onSchedule[e] # Nothing => schedules[onSchedule[e]] # "none"

\* A file is stored before its row and erased after it, by nobody else meanwhile.
FilesSound ==
    /\ attached \subseteq files
    /\ \A h \in Handlers :
         /\ handler[h].op = "Upload" => /\ handler[h].file \in files \ attached
                                        /\ \A g \in Handlers :
                                             handler[g].op \in FileOps /\ g # h
                                               => handler[g].file # handler[h].file
         /\ handler[h].op = "Erase" => handler[h].file \notin attached

RecordsInv ==
    /\ RecordsTypes /\ ExpiriesFounded
    /\ AbsencesDisjoint /\ OneDefault /\ SchedulesExist /\ FilesSound

-----------------------------------------------------------------------------
(* The calls under way *)

LEMMA CallFields ==
    ASSUME NEW q \in Calls
    PROVE  /\ q.op = "CreateAbsence" => q \in CreateCall
           /\ q.op = "UpdateAbsence" => q \in UpdateCall
           /\ q.op = "Schedule" => q \in ScheduleCall
           /\ q.op = "Expire" => q \in ExpireCall
           /\ q.op \in FileOps => q \in FileCall
<1>1. CASE q = Free
  BY <1>1 DEF Free, FileOps
<1>2. CASE q \in CreateCall
  BY <1>2 DEF CreateCall, FileOps
<1>3. CASE q \in UpdateCall
  BY <1>3 DEF UpdateCall, FileOps
<1>4. CASE q \in ScheduleCall
  BY <1>4 DEF ScheduleCall, FileOps
<1>5. CASE q \in ExpireCall
  BY <1>5 DEF ExpireCall, FileOps
<1>6. CASE q \in FileCall
  BY <1>6 DEF FileCall, FileOps
<1> QED BY <1>1, <1>2, <1>3, <1>4, <1>5, <1>6 DEF Calls

\* A handler turns to something that has nothing to do with files or expiry.
LEMMA QuietCall ==
    ASSUME RecordsInv, NEW h \in Handlers, NEW q \in Calls, handler' = [handler EXCEPT ![h] = q],
           q.op \notin FileOps \cup {"Expire"}, UNCHANGED <<files, attached>>,
           \A e \in Workers : allowances[e] \in Allowance => allowances'[e] \in Allowance
    PROVE  FilesSound' /\ ExpiriesFounded' /\ handler' \in [Handlers -> Calls]
<1>1. handler \in [Handlers -> Calls]
  BY DEF RecordsInv, RecordsTypes
<1>2. \A g \in Handlers : handler'[g] = IF g = h THEN q ELSE handler[g]
  BY <1>1
<1>3. FilesSound'
  BY <1>2 DEF RecordsInv, FilesSound, FileOps
<1>4. ASSUME NEW g \in Handlers, handler'[g].op = "Expire", NEW e \in DOMAIN handler'[g].rows
      PROVE  allowances'[e] \in Allowance
  <2>1. g # h /\ handler'[g] = handler[g]
    BY <1>2, <1>4
  <2>2. handler[g] \in ExpireCall
    BY <1>1, <1>4, <2>1, CallFields
  <2>3. e \in Workers
    BY <1>4, <2>1, <2>2 DEF ExpireCall
  <2> QED BY <1>4, <2>1, <2>3 DEF RecordsInv, ExpiriesFounded
<1> QED BY <1>1, <1>2, <1>3, <1>4 DEF ExpiriesFounded

LEMMA FreeCall == Free \in Calls /\ Free.op = "Free"
BY DEF Free, Calls

\* Nothing but the calls changes.
LEMMA TablesStay ==
    ASSUME RecordsInv, handler' \in [Handlers -> Calls], FilesSound', ExpiriesFounded',
           UNCHANGED <<absences, schedules, onSchedule, allowances, files, attached, decided>>
    PROVE  RecordsInv'
BY DEF RecordsInv, RecordsTypes, AbsencesDisjoint, NoOverlap, Overlap, OneDefault, SchedulesExist

LEMMA BeginStep ==
    ASSUME RecordsInv, NEW h \in Handlers, NEW q \in Calls, Begin(h, q),
           q.op \notin FileOps \cup {"Expire"}
    PROVE  RecordsInv'
BY QuietCall, TablesStay DEF Begin

LEMMA FailStep ==
    ASSUME RecordsInv, NEW h \in Handlers, Fail(h)
    PROVE  RecordsInv'
BY QuietCall, TablesStay, FreeCall DEF Fail, Ended, FileOps

-----------------------------------------------------------------------------
(* Absences *)

\* Whatever a handler has looked at, the constraint admits a row only where no
\* other is.
LEMMA WrittenDisjoint ==
    ASSUME RecordsInv, NEW a \in AbsenceIds, NEW row \in Absence, AbsenceAdmitted(a, row),
           absences' = [absences EXCEPT ![a] = row]
    PROVE  AbsencesDisjoint'
<1>1. \A b \in AbsenceIds : absences'[b] = IF b = a THEN row ELSE absences[b]
  BY DEF RecordsInv, RecordsTypes
<1>2. ASSUME NEW b \in AbsenceIds, absences'[b] # NoRow PROVE absences'[b].from <= absences'[b].to
  BY <1>1, <1>2 DEF RecordsInv, AbsencesDisjoint, AbsenceAdmitted
<1>3. ASSUME NEW b \in AbsenceIds, absences'[b] # NoRow,
             NEW c \in AbsenceIds \ {b}, absences'[c] # NoRow,
             absences'[c].from <= absences'[b].to, absences'[b].from <= absences'[c].to
      PROVE  absences'[c].emp # absences'[b].emp
  <2>1. CASE b = a
    BY <1>1, <1>3, <2>1 DEF AbsenceAdmitted, NoOverlap, Overlap
  <2>2. CASE c = a
    BY <1>1, <1>3, <2>2 DEF AbsenceAdmitted, NoOverlap, Overlap
  <2>3. CASE b # a /\ c # a
    BY <1>1, <1>3, <2>3 DEF RecordsInv, AbsencesDisjoint, NoOverlap, Overlap
  <2> QED BY <2>1, <2>2, <2>3
<1> QED BY <1>2, <1>3 DEF AbsencesDisjoint, NoOverlap, Overlap

LEMMA WriteAbsenceStep ==
    ASSUME RecordsInv, NEW h \in Handlers, NEW a \in AbsenceIds, NEW row \in Absence,
           WriteAbsence(h, a, row)
    PROVE  RecordsInv'
<1>1. AbsencesDisjoint'
  BY WrittenDisjoint DEF WriteAbsence
<1>2. FilesSound' /\ ExpiriesFounded' /\ handler' \in [Handlers -> Calls]
  BY QuietCall, FreeCall DEF WriteAbsence, Ended, FileOps
<1>3. absences' \in [AbsenceIds -> {NoRow} \cup Absence]
  BY DEF WriteAbsence, RecordsInv, RecordsTypes
<1> QED BY <1>1, <1>2, <1>3
        DEF WriteAbsence, RecordsInv, RecordsTypes, OneDefault, SchedulesExist

LEMMA AbsencesStep == RecordsInv /\ AbsencesNext => RecordsInv'
<1> SUFFICES ASSUME RecordsInv, AbsencesNext PROVE RecordsInv'
  OBVIOUS
<1>1. ASSUME NEW h \in Handlers, NEW actor \in Workers, NEW a \in AbsenceIds,
             NEW e \in Workers, NEW from \in Dates, NEW to \in Dates,
             BeginCreateAbsence(h, actor, a, e, from, to)
      PROVE  RecordsInv'
  <2>1. PICK q : q = [op |-> "CreateAbsence", id |-> a,
                      row |-> [emp |-> e, from |-> from, to |-> to]]
    OBVIOUS
  <2>2. q \in Calls /\ q.op = "CreateAbsence"
    BY <2>1 DEF Calls, CreateCall, Absence
  <2>3. Begin(h, q)
    BY <1>1, <2>1 DEF BeginCreateAbsence
  <2> QED BY <2>2, <2>3, BeginStep DEF FileOps
<1>2. ASSUME NEW h \in Handlers, NEW actor \in Workers, NEW a \in AbsenceIds,
             NEW from \in Dates \cup {Nothing}, NEW to \in Dates \cup {Nothing},
             BeginUpdateAbsence(h, actor, a, from, to)
      PROVE  RecordsInv'
  <2>1. PICK q : q = [op |-> "UpdateAbsence", id |-> a, from |-> from, to |-> to]
    OBVIOUS
  <2>2. q \in Calls /\ q.op = "UpdateAbsence"
    BY <2>1 DEF Calls, UpdateCall
  <2>3. Begin(h, q)
    BY <1>2, <2>1 DEF BeginUpdateAbsence
  <2> QED BY <2>2, <2>3, BeginStep DEF FileOps
<1>3. ASSUME NEW h \in Handlers, CreateAbsence(h) PROVE RecordsInv'
  <2>1. handler[h] \in CreateCall
    BY <1>3, CallFields DEF CreateAbsence, RecordsInv, RecordsTypes
  <2>2. handler[h].id \in AbsenceIds /\ handler[h].row \in Absence
    BY <2>1 DEF CreateCall
  <2> QED BY <1>3, <2>2, WriteAbsenceStep DEF CreateAbsence
<1>4. ASSUME NEW h \in Handlers, UpdateAbsence(h) PROVE RecordsInv'
  <2>1. handler[h] \in UpdateCall
    BY <1>4, CallFields DEF UpdateAbsence, RecordsInv, RecordsTypes
  <2>2. PICK a, from, to : a = handler[h].id /\ from = handler[h].from /\ to = handler[h].to
    OBVIOUS
  <2>3. /\ a \in AbsenceIds /\ from \in Dates \cup {Nothing} /\ to \in Dates \cup {Nothing}
    BY <2>1, <2>2 DEF UpdateCall
  <2>4. PICK old : old = absences[a]
    OBVIOUS
  <2>5. old \in Absence
    BY <1>4, <2>2, <2>3, <2>4 DEF UpdateAbsence, RecordsInv, RecordsTypes
  <2>6. PICK row : row = [old EXCEPT !.from = IF from = Nothing THEN @ ELSE from,
                                    !.to = IF to = Nothing THEN @ ELSE to]
    OBVIOUS
  <2>7. row \in Absence
    BY <2>3, <2>5, <2>6 DEF Absence
  <2>8. WriteAbsence(h, a, row)
    BY <1>4, <2>2, <2>4, <2>6 DEF UpdateAbsence
  <2> QED BY <2>3, <2>7, <2>8, WriteAbsenceStep
<1>5. ASSUME NEW actor \in Workers, NEW a \in AbsenceIds, RemoveAbsence(actor, a)
      PROVE  RecordsInv'
  <2>1. /\ absences' = [absences EXCEPT ![a] = NoRow]
        /\ UNCHANGED <<schedules, onSchedule, allowances, files, attached, decided, handler>>
    BY <1>5 DEF RemoveAbsence
  <2>2. \A b \in AbsenceIds : absences'[b] = IF b = a THEN NoRow ELSE absences[b]
    BY <2>1 DEF RecordsInv, RecordsTypes
  <2>3. absences' \in [AbsenceIds -> {NoRow} \cup Absence]
    BY <2>1 DEF RecordsInv, RecordsTypes
  <2>4. AbsencesDisjoint'
    BY <2>2 DEF RecordsInv, AbsencesDisjoint, NoOverlap, Overlap
  <2> QED BY <2>1, <2>3, <2>4 DEF RecordsInv, RecordsTypes, ExpiriesFounded, OneDefault,
                                  SchedulesExist, FilesSound
<1> QED BY <1>1, <1>2, <1>3, <1>4, <1>5, FailStep DEF AbsencesNext

-----------------------------------------------------------------------------
(* Work schedules *)

LEMMA SaveScheduleStep ==
    ASSUME RecordsInv, NEW h \in Handlers, SaveSchedule(h)
    PROVE  RecordsInv'
<1>1. handler[h] \in ScheduleCall
  BY CallFields DEF SaveSchedule, RecordsInv, RecordsTypes
<1>2. PICK id, default, seen :
        id = handler[h].id /\ default = handler[h].default /\ seen = handler[h].seen
  OBVIOUS
<1>3. id \in ScheduleIds /\ default \in BOOLEAN /\ seen \subseteq ScheduleIds
  BY <1>1, <1>2 DEF ScheduleCall
<1>4. /\ default => Defaults \ seen \subseteq {id}
      /\ schedules' = [s \in ScheduleIds |->
              IF s = id THEN IF default THEN "default" ELSE "kept"
              ELSE IF s \in seen /\ schedules[s] = "default" THEN "kept" ELSE schedules[s]]
      /\ UNCHANGED <<absences, onSchedule, allowances, files, attached, decided>>
  BY <1>2 DEF SaveSchedule, OneDefaultAdmitted
<1>5. /\ schedules \in [ScheduleIds -> {"none", "kept", "default"}]
      /\ onSchedule \in [Workers -> ScheduleIds \cup {Nothing}]
  BY DEF RecordsInv, RecordsTypes
<1>6. schedules' \in [ScheduleIds -> {"none", "kept", "default"}]
  BY <1>4, <1>5
<1>7. OneDefault'
  <2> SUFFICES ASSUME NEW s \in ScheduleIds, NEW t \in ScheduleIds,
                      schedules'[s] = "default", schedules'[t] = "default"
               PROVE  s = t
    BY DEF OneDefault
  <2>1. CASE ~default
    <3>1. schedules[s] = "default" /\ schedules[t] = "default"
      BY <1>4, <2>1
    <3> QED BY <3>1 DEF RecordsInv, OneDefault
  <2>2. CASE default
    <3>1. \A u \in ScheduleIds : schedules'[u] = "default" => u = id
      BY <1>4, <2>2 DEF Defaults
    <3> QED BY <3>1
  <2> QED BY <1>3, <2>1, <2>2
<1>8. SchedulesExist'
  <2>1. \A s \in ScheduleIds : schedules[s] # "none" => schedules'[s] # "none"
    BY <1>4
  <2> QED BY <1>4, <1>5, <2>1 DEF RecordsInv, SchedulesExist
<1>9. FilesSound' /\ ExpiriesFounded' /\ handler' \in [Handlers -> Calls]
  BY <1>4, QuietCall, FreeCall DEF SaveSchedule, Ended, FileOps
<1> QED BY <1>4, <1>6, <1>7, <1>8, <1>9
        DEF RecordsInv, RecordsTypes, AbsencesDisjoint, NoOverlap, Overlap

\* Only who is on which schedule, and which schedules there are.
LEMMA OnlySchedules ==
    ASSUME RecordsInv, schedules' \in [ScheduleIds -> {"none", "kept", "default"}],
           onSchedule' \in [Workers -> ScheduleIds \cup {Nothing}], OneDefault', SchedulesExist',
           UNCHANGED <<absences, allowances, files, attached, decided, handler>>
    PROVE  RecordsInv'
BY DEF RecordsInv, RecordsTypes, AbsencesDisjoint, NoOverlap, Overlap, ExpiriesFounded, FilesSound

LEMMA SchedulesStep == RecordsInv /\ SchedulesNext => RecordsInv'
<1> SUFFICES ASSUME RecordsInv, SchedulesNext PROVE RecordsInv'
  OBVIOUS
<1>0. /\ schedules \in [ScheduleIds -> {"none", "kept", "default"}]
      /\ onSchedule \in [Workers -> ScheduleIds \cup {Nothing}]
      /\ OneDefault /\ SchedulesExist
  BY DEF RecordsInv, RecordsTypes
<1>1. ASSUME NEW h \in Handlers, NEW s \in ScheduleIds, NEW default \in BOOLEAN,
             BeginSchedule(h, s, default)
      PROVE  RecordsInv'
  <2>1. PICK q : q = [op |-> "Schedule", id |-> s, new |-> schedules[s] = "none",
                      default |-> default, seen |-> IF default THEN Defaults \ {s} ELSE {}]
    OBVIOUS
  <2>2. q \in Calls /\ q.op = "Schedule"
    <3>1. (schedules[s] = "none") \in BOOLEAN
      OBVIOUS
    <3>2. (IF default THEN Defaults \ {s} ELSE {}) \in SUBSET ScheduleIds
      BY DEF Defaults
    <3> QED BY <2>1, <3>1, <3>2 DEF Calls, ScheduleCall
  <2>3. Begin(h, q)
    BY <1>1, <2>1 DEF BeginSchedule
  <2> QED BY <2>2, <2>3, BeginStep DEF FileOps
<1>2. ASSUME NEW s \in ScheduleIds, RemoveSchedule(s) PROVE RecordsInv'
  <2>1. /\ schedules' = [schedules EXCEPT ![s] = "none"]
        /\ onSchedule' = [e \in Workers |-> IF onSchedule[e] = s THEN Nothing ELSE onSchedule[e]]
        /\ UNCHANGED <<absences, allowances, files, attached, decided, handler>>
    BY <1>2 DEF RemoveSchedule, WithoutSchedule
  <2>2. /\ schedules' \in [ScheduleIds -> {"none", "kept", "default"}]
        /\ onSchedule' \in [Workers -> ScheduleIds \cup {Nothing}]
    BY <1>0, <2>1
  <2>3. \A t \in ScheduleIds : schedules'[t] = IF t = s THEN "none" ELSE schedules[t]
    BY <1>0, <2>1
  <2>4. OneDefault'
    BY <1>0, <2>3 DEF OneDefault
  <2>5. SchedulesExist'
    BY <1>0, <2>1, <2>3 DEF SchedulesExist
  <2> QED BY <2>1, <2>2, <2>4, <2>5, OnlySchedules
<1>3. ASSUME NEW S \in SUBSET Workers, NEW s \in ScheduleIds \cup {Nothing}, NEW b \in BOOLEAN,
             AssignSchedule(S, s, b)
      PROVE  RecordsInv'
  <2>1. /\ s # Nothing => schedules[s] # "none"
        /\ onSchedule' = [e \in Workers |->
              IF e \in S /\ (b \/ onSchedule[e] = Nothing) THEN s ELSE onSchedule[e]]
        /\ UNCHANGED <<absences, schedules, allowances, files, attached, decided, handler>>
    BY <1>3 DEF AssignSchedule
  <2>2. onSchedule' \in [Workers -> ScheduleIds \cup {Nothing}]
    BY <1>0, <2>1
  <2>3. OneDefault' /\ SchedulesExist'
    BY <1>0, <2>1 DEF OneDefault, SchedulesExist
  <2> QED BY <1>0, <2>1, <2>2, <2>3, OnlySchedules
<1> QED BY <1>1, <1>2, <1>3, SaveScheduleStep, FailStep DEF SchedulesNext

-----------------------------------------------------------------------------
(* Leave allowances *)

\* Only allowances and calls.
LEMMA OnlyAllowances ==
    ASSUME RecordsInv, allowances' \in [Workers -> {NoRow} \cup Allowance],
           handler' \in [Handlers -> Calls], ExpiriesFounded', FilesSound',
           UNCHANGED <<absences, schedules, onSchedule, files, attached, decided>>
    PROVE  RecordsInv'
BY DEF RecordsInv, RecordsTypes, AbsencesDisjoint, NoOverlap, Overlap, OneDefault, SchedulesExist

LEMMA AllowanceWritten ==
    ASSUME RecordsInv, NEW e \in Workers, NEW row \in Allowance,
           allowances' = [allowances EXCEPT ![e] = row],
           UNCHANGED <<absences, schedules, onSchedule, files, attached, decided, handler>>
    PROVE  RecordsInv'
<1>1. allowances \in [Workers -> {NoRow} \cup Allowance] /\ handler \in [Handlers -> Calls]
  BY DEF RecordsInv, RecordsTypes
<1>2. allowances' \in [Workers -> {NoRow} \cup Allowance]
  BY <1>1
<1>3. \A w \in Workers : allowances[w] \in Allowance => allowances'[w] \in Allowance
  BY <1>1
<1>4. ExpiriesFounded'
  <2>1. ASSUME NEW h \in Handlers, handler[h].op = "Expire", NEW w \in DOMAIN handler[h].rows
        PROVE  w \in Workers
    <3>1. handler[h] \in ExpireCall
      BY <1>1, <2>1, CallFields
    <3> QED BY <2>1, <3>1 DEF ExpireCall
  <2> QED BY <1>3, <2>1 DEF RecordsInv, ExpiriesFounded
<1>5. FilesSound'
  BY DEF RecordsInv, FilesSound
<1> QED BY <1>1, <1>2, <1>4, <1>5, OnlyAllowances

LEMMA BeginExpiryStep ==
    ASSUME RecordsInv, NEW h \in Handlers, BeginExpiry(h)
    PROVE  RecordsInv'
<1>0. allowances \in [Workers -> {NoRow} \cup Allowance] /\ handler \in [Handlers -> Calls]
  BY DEF RecordsInv, RecordsTypes
<1>1. PICK E : E = {w \in Workers : allowances[w] # NoRow
                                       /\ allowances[w].due /\ allowances[w].carry > 0}
  OBVIOUS
<1>2. PICK rows : rows = [e \in E |-> allowances[e].reason]
  OBVIOUS
<1>3. E \subseteq Workers /\ DOMAIN rows = E /\ \A e \in E : allowances[e] \in Allowance
  BY <1>0, <1>1, <1>2
<1>4. rows \in [E -> SUBSET (Reasons \cup {"expired"})]
  BY <1>2, <1>3 DEF Allowance
<1>5. PICK q : q = [op |-> "Expire", rows |-> rows]
  OBVIOUS
<1>6. q \in Calls /\ q.op = "Expire" /\ q.rows = rows
  BY <1>3, <1>4, <1>5 DEF Calls, ExpireCall
<1>7. /\ handler' = [handler EXCEPT ![h] = q]
      /\ UNCHANGED <<absences, schedules, onSchedule, allowances, files, attached, decided>>
  BY <1>1, <1>2, <1>5 DEF BeginExpiry, Begin
<1>8. handler' \in [Handlers -> Calls]
      /\ \A g \in Handlers : handler'[g] = IF g = h THEN q ELSE handler[g]
  BY <1>0, <1>6, <1>7
<1>9. ExpiriesFounded'
  BY <1>3, <1>6, <1>7, <1>8 DEF RecordsInv, ExpiriesFounded
<1>10. FilesSound'
  BY <1>6, <1>7, <1>8 DEF RecordsInv, FilesSound, FileOps
<1> QED BY <1>7, <1>8, <1>9, <1>10, TablesStay

LEMMA ExpireRowStep ==
    ASSUME RecordsInv, NEW h \in Handlers, NEW e \in Workers, ExpireRow(h, e)
    PROVE  RecordsInv'
<1>0. allowances \in [Workers -> {NoRow} \cup Allowance] /\ handler \in [Handlers -> Calls]
  BY DEF RecordsInv, RecordsTypes
<1>1. handler[h].op = "Expire" /\ handler[h] \in ExpireCall /\ e \in DOMAIN handler[h].rows
  BY <1>0, CallFields DEF ExpireRow
<1>2. PICK rows : rows = handler[h].rows
  OBVIOUS
<1>3. PICK E \in SUBSET Workers : rows \in [E -> SUBSET (Reasons \cup {"expired"})]
  BY <1>1, <1>2 DEF ExpireCall
<1>4. e \in E /\ DOMAIN rows = E /\ rows[e] \subseteq Reasons \cup {"expired"}
  BY <1>1, <1>2, <1>3
<1>5. \A w \in E : allowances[w] \in Allowance
  BY <1>1, <1>2, <1>4 DEF RecordsInv, ExpiriesFounded
<1>6. PICK row : row = [allowances[e] EXCEPT !.carry = 0, !.reason = rows[e] \cup {"expired"}]
  OBVIOUS
<1>7. row \in Allowance
  BY <1>4, <1>5, <1>6 DEF Allowance
<1>8. /\ allowances' = [allowances EXCEPT ![e] = row]
      /\ UNCHANGED <<absences, schedules, onSchedule, files, attached, decided>>
  BY <1>2, <1>6 DEF ExpireRow
<1>9. \A w \in Workers : allowances[w] \in Allowance => allowances'[w] \in Allowance
  BY <1>0, <1>7, <1>8
<1>10. PICK rest : rest = E \ {e}
  OBVIOUS
<1>11. PICK left : left = [w \in rest |-> rows[w]]
  OBVIOUS
<1>12. left \in [rest -> SUBSET (Reasons \cup {"expired"})] /\ DOMAIN left = rest
       /\ rest \in SUBSET Workers /\ rest \subseteq E
  BY <1>3, <1>10, <1>11
<1>13. PICK q : q = IF rest = {} THEN Free ELSE [handler[h] EXCEPT !.rows = left]
  OBVIOUS
<1>14. handler' = [handler EXCEPT ![h] = q]
  BY <1>2, <1>4, <1>10, <1>11, <1>13 DEF ExpireRow
<1>15. CASE rest = {}
  <2>1. q = Free
    BY <1>13, <1>15
  <2>2. FilesSound' /\ ExpiriesFounded' /\ handler' \in [Handlers -> Calls]
    BY <1>8, <1>9, <1>14, <2>1, QuietCall, FreeCall DEF FileOps
  <2> QED BY <1>0, <1>7, <1>8, <2>2, OnlyAllowances
<1>16. CASE rest # {}
  <2>1. q = [handler[h] EXCEPT !.rows = left]
    BY <1>13, <1>16
  <2>2. q \in ExpireCall /\ q.op = "Expire" /\ q.rows = left
    BY <1>1, <1>12, <2>1 DEF ExpireCall
  <2>3. handler' \in [Handlers -> Calls]
        /\ \A g \in Handlers : handler'[g] = IF g = h THEN q ELSE handler[g]
    BY <1>0, <1>14, <2>2 DEF Calls
  <2>4. ASSUME NEW g \in Handlers, handler'[g].op = "Expire", NEW w \in DOMAIN handler'[g].rows
        PROVE  allowances'[w] \in Allowance
    <3>1. CASE g = h
      <4>1. w \in E
        BY <1>12, <2>2, <2>3, <2>4, <3>1
      <4> QED BY <1>5, <1>9, <4>1
    <3>2. CASE g # h
      <4>1. handler[g] \in ExpireCall /\ w \in DOMAIN handler[g].rows /\ handler[g].op = "Expire"
        BY <1>0, <2>3, <2>4, <3>2, CallFields
      <4>2. w \in Workers
        BY <4>1 DEF ExpireCall
      <4> QED BY <1>9, <4>1, <4>2 DEF RecordsInv, ExpiriesFounded
    <3> QED BY <3>1, <3>2
  <2>5. ExpiriesFounded'
    BY <2>4 DEF ExpiriesFounded
  <2>6. FilesSound'
    BY <1>8, <2>2, <2>3 DEF RecordsInv, FilesSound, FileOps
  <2>7. allowances' \in [Workers -> {NoRow} \cup Allowance]
    BY <1>0, <1>7, <1>8
  <2> QED BY <1>8, <2>3, <2>5, <2>6, <2>7, OnlyAllowances
<1> QED BY <1>15, <1>16

LEMMA AllowancesStep == RecordsInv /\ AllowancesNext => RecordsInv'
<1> SUFFICES ASSUME RecordsInv, AllowancesNext PROVE RecordsInv'
  OBVIOUS
<1>1. ASSUME NEW e \in Workers, DefaultAllowance(e) PROVE RecordsInv'
  <2>1. PICK row : row = [carry |-> 0, due |-> FALSE, reason |-> {}]
    OBVIOUS
  <2>2. row \in Allowance
    BY <2>1 DEF Allowance
  <2> QED BY <1>1, <2>1, <2>2, AllowanceWritten DEF DefaultAllowance
<1>2. ASSUME NEW e \in Workers, NEW carry \in 0 .. 1, NEW due \in BOOLEAN,
             NEW reason \in SUBSET Reasons, UpsertAllowance(e, carry, due, reason)
      PROVE  RecordsInv'
  <2>1. PICK row : row = [carry |-> carry, due |-> due, reason |-> reason]
    OBVIOUS
  <2>2. carry \in Nat /\ reason \in SUBSET (Reasons \cup {"expired"})
    OBVIOUS
  <2>3. row \in Allowance
    BY <2>1, <2>2 DEF Allowance
  <2> QED BY <1>2, <2>1, <2>3, AllowanceWritten DEF UpsertAllowance
<1> QED BY <1>1, <1>2, ExpireRowStep, BeginExpiryStep, FailStep DEF AllowancesNext

-----------------------------------------------------------------------------
(* Files *)

\* Only files and calls about them.
LEMMA OnlyFiles ==
    ASSUME RecordsInv, NEW h \in Handlers, NEW q \in {Free} \cup FileCall,
           handler' = [handler EXCEPT ![h] = q],
           files' \subseteq FileIds, attached' \subseteq FileIds, FilesSound',
           UNCHANGED <<absences, schedules, onSchedule, allowances, decided>>
    PROVE  RecordsInv'
<1>1. q \in Calls /\ q.op # "Expire"
  BY DEF Calls, FileCall, FileOps, Free
<1>2. handler \in [Handlers -> Calls]
  BY DEF RecordsInv, RecordsTypes
<1>3. handler' \in [Handlers -> Calls]
      /\ \A g \in Handlers : handler'[g] = IF g = h THEN q ELSE handler[g]
  BY <1>1, <1>2
<1>4. ExpiriesFounded'
  BY <1>1, <1>3 DEF RecordsInv, ExpiriesFounded
<1> QED BY <1>3, <1>4 DEF RecordsInv, RecordsTypes, AbsencesDisjoint, NoOverlap, Overlap,
                          OneDefault, SchedulesExist

LEMMA FileFields ==
    ASSUME RecordsInv, NEW h \in Handlers, handler[h].op \in FileOps
    PROVE  handler[h] \in FileCall /\ handler[h].file \in FileIds
<1>1. handler[h] \in FileCall
  BY CallFields DEF RecordsInv, RecordsTypes
<1> QED BY <1>1 DEF FileCall

LEMMA FilesStep == RecordsInv /\ FilesNext => RecordsInv'
<1> SUFFICES ASSUME RecordsInv, FilesNext PROVE RecordsInv'
  OBVIOUS
<1>0. /\ handler \in [Handlers -> Calls] /\ files \subseteq FileIds /\ attached \subseteq FileIds
      /\ FilesSound
  BY DEF RecordsInv, RecordsTypes
<1>1. ASSUME NEW h \in Handlers, NEW f \in FileIds, PutFile(h, f) PROVE RecordsInv'
  <2>1. PICK q : q = [op |-> "Upload", file |-> f]
    OBVIOUS
  <2>2. q \in FileCall /\ q.op = "Upload" /\ q.file = f
    BY <2>1 DEF FileCall, FileOps
  <2>3. /\ files' = files \cup {f} /\ handler' = [handler EXCEPT ![h] = q] /\ f \notin files
        /\ \A g \in Handlers : handler[g].op \in {"Remove", "Erase"} => handler[g].file # f
        /\ UNCHANGED <<absences, schedules, onSchedule, allowances, attached, decided>>
    BY <1>1, <2>1 DEF PutFile
  <2>4. \A g \in Handlers : handler'[g] = IF g = h THEN q ELSE handler[g]
    BY <1>0, <2>3
  <2>5. \A g \in Handlers : handler[g].op \in FileOps => handler[g].file # f
    BY <1>0, <2>3 DEF FilesSound, FileOps
  <2>6. FilesSound'
    <3>1. ASSUME NEW g \in Handlers, handler'[g].op = "Upload"
          PROVE  /\ handler'[g].file \in files' \ attached'
                 /\ \A k \in Handlers : handler'[k].op \in FileOps /\ k # g
                                         => handler'[k].file # handler'[g].file
      <4>1. CASE g = h
        BY <1>0, <2>2, <2>3, <2>4, <2>5, <4>1 DEF FilesSound
      <4>2. CASE g # h
        BY <1>0, <2>2, <2>3, <2>4, <2>5, <3>1, <4>2 DEF FilesSound, FileOps
      <4> QED BY <4>1, <4>2
    <3>2. ASSUME NEW g \in Handlers, handler'[g].op = "Erase"
          PROVE  handler'[g].file \notin attached'
      BY <1>0, <2>2, <2>3, <2>4, <3>2 DEF FilesSound
    <3> QED BY <1>0, <2>3, <3>1, <3>2 DEF FilesSound
  <2> QED BY <1>0, <2>2, <2>3, <2>6, OnlyFiles
<1>2. ASSUME NEW h \in Handlers, NEW actor \in Workers, NEW f \in FileIds, BeginRemove(h, actor, f)
      PROVE  RecordsInv'
  <2>1. PICK q : q = [op |-> "Remove", file |-> f]
    OBVIOUS
  <2>2. q \in FileCall /\ q.op = "Remove" /\ q.file = f
    BY <2>1 DEF FileCall, FileOps
  <2>3. /\ f \in attached /\ handler' = [handler EXCEPT ![h] = q]
        /\ UNCHANGED <<absences, schedules, onSchedule, allowances, files, attached, decided>>
    BY <1>2, <2>1 DEF BeginRemove, Begin
  <2>4. \A g \in Handlers : handler'[g] = IF g = h THEN q ELSE handler[g]
    BY <1>0, <2>3
  <2>5. FilesSound'
    BY <1>0, <2>2, <2>3, <2>4 DEF FilesSound, FileOps
  <2> QED BY <1>0, <2>2, <2>3, <2>5, OnlyFiles
<1>3. ASSUME NEW h \in Handlers, CreateAttachment(h) PROVE RecordsInv'
  <2>1. handler[h].op = "Upload" /\ handler[h].file \in FileIds
    BY <1>3, FileFields DEF CreateAttachment, FileOps
  <2>2. /\ attached' = attached \cup {handler[h].file} /\ handler' = [handler EXCEPT ![h] = Free]
        /\ UNCHANGED <<absences, schedules, onSchedule, allowances, files, decided>>
    BY <1>3 DEF CreateAttachment, Ended
  <2>3. \A g \in Handlers : handler'[g] = IF g = h THEN Free ELSE handler[g]
    BY <1>0, <2>2
  <2>4. FilesSound'
    BY <1>0, <2>1, <2>2, <2>3, FreeCall DEF FilesSound, FileOps
  <2> QED BY <1>0, <2>1, <2>2, <2>4, OnlyFiles
<1>4. ASSUME NEW h \in Handlers, DeleteAttachment(h) PROVE RecordsInv'
  <2>1. handler[h] \in FileCall /\ handler[h].file \in attached
    BY <1>4, FileFields DEF DeleteAttachment, FileOps
  <2>2. PICK q : q = [handler[h] EXCEPT !.op = "Erase"]
    OBVIOUS
  <2>3. q \in FileCall /\ q.op = "Erase" /\ q.file = handler[h].file
    BY <2>1, <2>2 DEF FileCall, FileOps
  <2>4. /\ attached' = attached \ {handler[h].file} /\ handler' = [handler EXCEPT ![h] = q]
        /\ UNCHANGED <<absences, schedules, onSchedule, allowances, files, decided>>
    BY <1>4, <2>2 DEF DeleteAttachment
  <2>5. \A g \in Handlers : handler'[g] = IF g = h THEN q ELSE handler[g]
    BY <1>0, <2>4
  <2>6. FilesSound'
    BY <1>0, <2>1, <2>3, <2>4, <2>5 DEF FilesSound, FileOps
  <2> QED BY <1>0, <2>3, <2>4, <2>6, OnlyFiles
<1>5. ASSUME NEW h \in Handlers, EraseFile(h) PROVE RecordsInv'
  <2>1. /\ handler[h].op = "Erase" /\ files' = files \ {handler[h].file}
        /\ handler' = [handler EXCEPT ![h] = Free]
        /\ UNCHANGED <<absences, schedules, onSchedule, allowances, attached, decided>>
    BY <1>5 DEF EraseFile, Ended
  <2>2. \A g \in Handlers : handler'[g] = IF g = h THEN Free ELSE handler[g]
    BY <1>0, <2>1
  <2>3. FilesSound'
    BY <1>0, <2>1, <2>2, FreeCall DEF FilesSound, FileOps
  <2> QED BY <1>0, <2>1, <2>3, OnlyFiles
<1>6. CASE DecideRequest
  BY <1>6 DEF DecideRequest, RecordsInv, RecordsTypes, AbsencesDisjoint, NoOverlap, Overlap,
              OneDefault, SchedulesExist, ExpiriesFounded, FilesSound
<1> QED BY <1>1, <1>2, <1>3, <1>4, <1>5, <1>6, FailStep DEF FilesNext

-----------------------------------------------------------------------------
(* Theorems *)

\* The invariant behind the next two: types, what calls under way still find, and
\* the records' own soundness (absences.service.ts, work-schedules.service.ts,
\* leave-allowances.service.ts, attachments.service.ts).
THEOREM RecordsInvariant == RecordsSpec => []RecordsInv
<1>1. ASSUME RecordsInit PROVE RecordsInv
  <2>1. RecordsTypes
    BY <1>1, FreeCall DEF RecordsInit, RecordsTypes
  <2>2. \A h \in Handlers : handler[h].op = "Free"
    BY <1>1, FreeCall DEF RecordsInit
  <2> QED BY <1>1, <2>1, <2>2 DEF RecordsInit, RecordsInv, AbsencesDisjoint, OneDefault,
             SchedulesExist, ExpiriesFounded, FilesSound, NoRow
<1>2. RecordsInv /\ UNCHANGED records => RecordsInv'
  BY DEF records, RecordsInv, RecordsTypes, AbsencesDisjoint, NoOverlap, Overlap, OneDefault,
         SchedulesExist, ExpiriesFounded, FilesSound
<1>3. RecordsInv /\ [RecordsNext]_records => RecordsInv'
  BY <1>2, AbsencesStep, SchedulesStep, AllowancesStep, FilesStep DEF RecordsNext
<1> QED BY <1>1, <1>3, PTL DEF RecordsSpec

\* The four tables, the files and every call under way are well formed
\* (schema.prisma and the services named above).
THEOREM RecordsTypeCorrect == RecordsSpec => []RecordsTypes
<1>1. RecordsInv => RecordsTypes
  BY DEF RecordsInv
<1> QED BY <1>1, RecordsInvariant, PTL

\* No two absences of anybody overlap, the fallback schedule is one, nobody is on
\* a schedule that is gone and no attachment is without its file, whatever is
\* under way, fails or runs twice (absences, work-schedules and attachments
\* services).
THEOREM RecordsAreSound == RecordsSpec => []RecordsSound
<1>1. ASSUME RecordsInv PROVE SchedulesResolve
  <2>1. OneDefault /\ SchedulesExist
    BY <1>1 DEF RecordsInv
  <2>2. Cardinality(Defaults) <= 1
    <3>1. CASE Defaults = {}
      BY <3>1, FS_EmptySet
    <3>2. CASE Defaults # {}
      <4>1. PICK s : s \in Defaults
        BY <3>2
      <4>2. Defaults = {s}
        BY <2>1, <4>1 DEF OneDefault, Defaults
      <4> QED BY <4>2, FS_Singleton
    <3> QED BY <3>1, <3>2
  <2>3. ASSUME NEW e \in Workers, Resolved(e) # Nothing PROVE schedules[Resolved(e)] # "none"
    <3>1. CASE onSchedule[e] # Nothing
      BY <2>1, <3>1 DEF Resolved, SchedulesExist
    <3>2. CASE onSchedule[e] = Nothing
      <4>1. Defaults # {} /\ Resolved(e) = CHOOSE s \in Defaults : TRUE
        BY <2>3, <3>2 DEF Resolved
      <4>2. Resolved(e) \in Defaults
        BY <4>1
      <4>3. schedules[Resolved(e)] = "default"
        BY <4>2 DEF Defaults
      <4> QED BY <4>3
    <3> QED BY <3>1, <3>2
  <2> QED BY <2>2, <2>3 DEF SchedulesResolve
<1>2. RecordsInv => RecordsSound
  BY <1>1 DEF RecordsInv, RecordsSound, FilesSound, FilesBehindRows
<1> QED BY <1>2, RecordsInvariant, PTL

-----------------------------------------------------------------------------
(* Projects, orders and customers *)

BooksInv == TargetsTypeOK /\ BookingsKeepTarget /\ TimersOnActiveTargets

\* A row that is not absent exists.
LEMMA RowsExist ==
    ASSUME NEW row, row \in Project \cup Order
    PROVE  Exists(row) /\ row.state \in {"active", "archived"}
<1>1. row.state \in {"active", "archived"}
  BY DEF Project, Order
<1> QED BY <1>1 DEF Exists, Gone

LEMMA ProjectFields ==
    ASSUME TargetsTypeOK, NEW p \in ProjectIds
    PROVE  /\ projects[p] \in Project \cup {Gone}
           /\ Exists(projects[p]) <=> projects[p] \in Project
           /\ projects[p].state = "active" => Exists(projects[p])
           /\ Exists(projects[p]) => projects[p].customer \in CustomerIds \cup {NoRef}
<1>1. projects[p] \in Project \cup {Gone}
  BY DEF TargetsTypeOK
<1>2. Exists(projects[p]) <=> projects[p] \in Project
  BY <1>1, RowsExist DEF Exists
<1>3. projects[p].state = "active" => Exists(projects[p])
  BY <1>1 DEF Exists, Gone
<1>4. projects[p] \in Project => projects[p].customer \in CustomerIds \cup {NoRef}
  BY DEF Project
<1> QED BY <1>1, <1>2, <1>3, <1>4

LEMMA OrderFields ==
    ASSUME TargetsTypeOK, NEW o \in OrderIds
    PROVE  /\ orders[o] \in Order \cup {Gone}
           /\ Exists(orders[o]) <=> orders[o] \in Order
<1>1. orders[o] \in Order \cup {Gone}
  BY DEF TargetsTypeOK
<1> QED BY <1>1, RowsExist DEF Exists

LEMMA BookingFields ==
    ASSUME TargetsTypeOK, NEW b \in bookings
    PROVE  /\ b \in Booking /\ b.emp \in Staff /\ b.project \in ProjectIds
           /\ b.order \in OrderIds \cup {NoRef} /\ b.running \in BOOLEAN
BY DEF TargetsTypeOK, Booking

LEMMA BooksTyped == TargetsTypeOK /\ TargetsNext => TargetsTypeOK'
<1> SUFFICES ASSUME TargetsTypeOK, TargetsNext PROVE TargetsTypeOK'
  OBVIOUS
<1> USE DEF TargetsTypeOK
<1>1. ASSUME NEW a \in Staff, NEW p \in ProjectIds, NEW row \in Project,
             CreateProject(a, p, row) \/ UpdateProject(a, p, row)
      PROVE  TargetsTypeOK'
  <2>1. projects' = [projects EXCEPT ![p] = row]
        /\ UNCHANGED <<customers, orders, bookings, booking, solo>>
    BY <1>1 DEF CreateProject, UpdateProject
  <2>2. assigned' \in {assigned, assigned \cup {<<a, p>>}}
    BY <1>1 DEF CreateProject, UpdateProject
  <2>3. assigned' \subseteq Staff \X ProjectIds
    BY <2>2
  <2> QED BY <2>1, <2>3
<1>2. ASSUME NEW a \in Staff, NEW p \in ProjectIds, RemoveProject(a, p) PROVE TargetsTypeOK'
  BY <1>2 DEF RemoveProject
<1>3. ASSUME NEW a \in Staff, NEW p \in ProjectIds, NEW e \in Staff, Assign(a, e, p) \/ Unassign(a, e, p)
      PROVE  TargetsTypeOK'
  BY <1>3 DEF Assign, Unassign
<1>4. ASSUME NEW a \in Staff, NEW o \in OrderIds, NEW row \in Order,
             CreateServiceOrder(a, o, row) \/ UpdateServiceOrder(a, o, row)
      PROVE  TargetsTypeOK'
  BY <1>4 DEF CreateServiceOrder, UpdateServiceOrder
<1>5. ASSUME NEW a \in Staff, NEW o \in OrderIds, RemoveServiceOrder(a, o) PROVE TargetsTypeOK'
  BY <1>5 DEF RemoveServiceOrder
<1>6. CASE ChangeOperatingMode
  <2>1. Owner \in Staff
    BY ProjectsAssumption
  <2>2. assigned' \subseteq Staff \X ProjectIds
    BY <1>6, <2>1 DEF ChangeOperatingMode
  <2>3. solo' \in BOOLEAN /\ UNCHANGED <<customers, projects, orders, bookings, booking>>
    BY <1>6 DEF ChangeOperatingMode
  <2> QED BY <2>2, <2>3
<1>7. ASSUME NEW k \in CustomerIds, RemoveCustomer(k) PROVE TargetsTypeOK'
  BY <1>7 DEF RemoveCustomer
<1>8. ASSUME NEW k \in CustomerIds, NEW state \in {"active", "archived"}, SaveCustomer(k, state)
      PROVE  TargetsTypeOK'
  BY <1>8 DEF SaveCustomer
<1>9. ASSUME NEW t \in Target, BeginBooking(t) PROVE TargetsTypeOK'
  BY <1>9 DEF BeginBooking
<1>10. ASSUME NEW running \in BOOLEAN, CommitBooking(running) PROVE TargetsTypeOK'
  <2>1. booking \in Target /\ Exists(projects[booking.project])
    BY <1>10 DEF CommitBooking, StillBookable
  <2>2. /\ booking.emp \in Staff /\ booking.project \in ProjectIds
        /\ booking.order \in OrderIds \cup {NoRef}
    BY <2>1 DEF Target
  <2>3. projects[booking.project].customer \in CustomerIds \cup {NoRef}
    BY <2>1, <2>2, ProjectFields
  <2>4. PICK b : b = [emp |-> booking.emp, project |-> booking.project, order |-> booking.order,
                      customer |-> projects[booking.project].customer, running |-> running]
    OBVIOUS
  <2>5. b \in Booking
    BY <2>2, <2>3, <2>4 DEF Booking
  <2>6. /\ bookings' = bookings \cup {b} /\ booking' = NoBooking
        /\ UNCHANGED <<customers, projects, orders, assigned, solo>>
    BY <1>10, <2>4 DEF CommitBooking
  <2> QED BY <2>5, <2>6
<1>11. CASE AbandonBooking
  BY <1>11 DEF AbandonBooking
<1>12. ASSUME NEW b \in bookings, StopTimer(b) PROVE TargetsTypeOK'
  <2>1. [b EXCEPT !.running = FALSE] \in Booking
    BY DEF Booking
  <2> QED BY <1>12, <2>1 DEF StopTimer
<1> QED BY <1>1, <1>2, <1>3, <1>4, <1>5, <1>6, <1>7, <1>8, <1>9, <1>10, <1>11, <1>12 DEF TargetsNext

\* What a booking is on may change as long as it stays the same target, and
\* active under a timer.
OnTarget(b) ==
    /\ Exists(projects[b.project]) /\ projects[b.project].customer = b.customer
    /\ b.order # NoRef => Exists(orders[b.order]) /\ orders[b.order].project = b.project

OnActive(b) ==
    /\ projects[b.project].state = "active" /\ CustomerActive(projects[b.project].customer)
    /\ b.order # NoRef => orders[b.order].state = "active"

LEMMA BooksSplit ==
    ASSUME TargetsTypeOK
    PROVE  BookingsKeepTarget /\ TimersOnActiveTargets
             <=> \A b \in bookings : OnTarget(b) /\ (b.running => OnActive(b))
<1>1. \A b \in bookings : b.order # NoRef => b.order \in OrderIds
  BY BookingFields
<1> QED BY <1>1 DEF BookingsKeepTarget, TimersOnActiveTargets, Running, OrdersOf, OnTarget, OnActive

LEMMA BooksStep == BooksInv /\ TargetsNext => BooksInv'
<1> SUFFICES ASSUME BooksInv, TargetsNext PROVE BooksInv'
  OBVIOUS
<1>0. TargetsTypeOK /\ TargetsTypeOK'
  BY BooksTyped DEF BooksInv
<1>1. \A b \in bookings : OnTarget(b) /\ (b.running => OnActive(b))
  BY <1>0, BooksSplit DEF BooksInv
<1>2. \A b \in bookings : b \in Booking /\ b.project \in ProjectIds
                           /\ b.order \in OrderIds \cup {NoRef} /\ b.running \in BOOLEAN
  BY <1>0, BookingFields
<1> DEFINE Kept(b) == (OnTarget(b) /\ (b.running => OnActive(b)))'
<1>3. SUFFICES ASSUME NEW b \in bookings' PROVE Kept(b)
  <2>1. (\A b \in bookings : OnTarget(b) /\ (b.running => OnActive(b)))'
    BY <1>3
  <2>2. \A b \in bookings' : b.order # NoRef => b.order \in OrderIds
    BY <1>0 DEF TargetsTypeOK, Booking
  <2>3. (BookingsKeepTarget /\ TimersOnActiveTargets)'
    BY <2>1, <2>2 DEF BookingsKeepTarget, TimersOnActiveTargets, Running, OrdersOf, OnTarget,
                      OnActive
  <2> QED BY <1>0, <2>3 DEF BooksInv
<1>4. ASSUME NEW a \in Staff, NEW p \in ProjectIds, NEW row \in Project, CreateProject(a, p, row)
      PROVE  Kept(b)
  <2>1. /\ ~Exists(projects[p]) /\ projects' = [projects EXCEPT ![p] = row]
        /\ UNCHANGED <<customers, orders, bookings>>
    BY <1>4 DEF CreateProject
  <2>2. b.project # p /\ projects'[b.project] = projects[b.project]
    BY <1>0, <1>1, <1>2, <1>3, <2>1 DEF OnTarget, TargetsTypeOK
  <2> QED BY <1>1, <1>3, <2>1, <2>2 DEF OnTarget, OnActive, CustomerActive
<1>5. ASSUME NEW a \in Staff, NEW p \in ProjectIds, NEW row \in Project, UpdateProject(a, p, row)
      PROVE  Kept(b)
  <2>1. /\ projects' = [projects EXCEPT ![p] = row]
        /\ UNCHANGED <<customers, orders, bookings>>
        /\ row.customer # projects[p].customer => BookingsOn(p) = {}
        /\ projects[p].state = "active" /\ row.state = "archived" => Running(BookingsOn(p)) = {}
    BY <1>5 DEF UpdateProject, CustomerMayChange
  <2>2. b \in bookings /\ OnTarget(b) /\ (b.running => OnActive(b)) /\ b.project \in ProjectIds
    BY <1>1, <1>2, <1>3, <2>1
  <2>3. CASE b.project = p
    <3>1. projects'[p] = row /\ Exists(row) /\ row.state \in {"active", "archived"}
      BY <1>0, <2>1, RowsExist DEF TargetsTypeOK
    <3>2. row.customer = projects[p].customer
      BY <2>1, <2>2, <2>3 DEF BookingsOn
    <3>3. b.running => row.state = "active"
      BY <2>1, <2>2, <2>3, <3>1 DEF BookingsOn, Running, OnActive
    <3> QED BY <2>1, <2>2, <2>3, <3>1, <3>2, <3>3 DEF OnTarget, OnActive, CustomerActive
  <2>4. CASE b.project # p
    <3>1. projects'[b.project] = projects[b.project]
      BY <1>0, <2>1, <2>2, <2>4 DEF TargetsTypeOK
    <3> QED BY <2>1, <2>2, <3>1 DEF OnTarget, OnActive, CustomerActive
  <2> QED BY <2>3, <2>4
<1>6. ASSUME NEW a \in Staff, NEW p \in ProjectIds, RemoveProject(a, p) PROVE Kept(b)
  <2>1. /\ BookingsOn(p) = {} /\ projects' = [projects EXCEPT ![p] = Gone]
        /\ orders' = [o \in OrderIds |-> IF o \in OrdersOf(p) THEN Gone ELSE orders[o]]
        /\ UNCHANGED <<customers, bookings>>
    BY <1>6 DEF RemoveProject
  <2>2. b \in bookings /\ OnTarget(b) /\ (b.running => OnActive(b)) /\ b.project # p
    BY <1>1, <1>3, <2>1 DEF BookingsOn
  <2>3. projects'[b.project] = projects[b.project]
    BY <1>0, <1>2, <2>1, <2>2 DEF TargetsTypeOK
  <2>4. b.order # NoRef => orders'[b.order] = orders[b.order]
    BY <1>2, <2>1, <2>2 DEF OnTarget, OrdersOf
  <2> QED BY <2>1, <2>2, <2>3, <2>4 DEF OnTarget, OnActive, CustomerActive
<1>7. ASSUME NEW a \in Staff, NEW o \in OrderIds, NEW row \in Order,
             CreateServiceOrder(a, o, row) \/ UpdateServiceOrder(a, o, row)
      PROVE  Kept(b)
  <2>1. /\ orders' = [orders EXCEPT ![o] = row] /\ UNCHANGED <<customers, projects, bookings>>
        /\ \/ ~Exists(orders[o])
           \/ /\ orders[o].project = row.project
              /\ row.state = "archived" => ~\E c \in Running(bookings) : c.order = o
    BY <1>7 DEF CreateServiceOrder, UpdateServiceOrder, OrdersOf
  <2>2. b \in bookings /\ OnTarget(b) /\ (b.running => OnActive(b))
    BY <1>1, <1>3, <2>1
  <2>3. CASE b.order = o /\ b.order # NoRef
    <3>1. orders'[o] = row /\ Exists(row) /\ row.state \in {"active", "archived"}
      BY <1>0, <2>1, RowsExist DEF TargetsTypeOK
    <3>2. orders[o].project = row.project
      BY <2>1, <2>2, <2>3 DEF OnTarget
    <3>3. b.running => row.state = "active"
      BY <2>1, <2>2, <2>3, <3>1 DEF Running, OnTarget
    <3> QED BY <2>1, <2>2, <2>3, <3>1, <3>2, <3>3 DEF OnTarget, OnActive, CustomerActive
  <2>4. CASE b.order # o \/ b.order = NoRef
    <3>1. b.order # NoRef => orders'[b.order] = orders[b.order]
      BY <1>0, <1>2, <2>1, <2>2, <2>4 DEF TargetsTypeOK
    <3> QED BY <2>1, <2>2, <3>1 DEF OnTarget, OnActive, CustomerActive
  <2> QED BY <2>3, <2>4
<1>8. ASSUME NEW a \in Staff, NEW o \in OrderIds, RemoveServiceOrder(a, o) PROVE Kept(b)
  <2>1. /\ orders' = [orders EXCEPT ![o] = Gone] /\ UNCHANGED <<customers, projects, bookings>>
        /\ ~\E c \in bookings : c.order = o
    BY <1>8 DEF RemoveServiceOrder
  <2>2. b \in bookings /\ OnTarget(b) /\ (b.running => OnActive(b)) /\ b.order # o
    BY <1>1, <1>3, <2>1
  <2>3. b.order # NoRef => orders'[b.order] = orders[b.order]
    BY <1>0, <1>2, <2>1, <2>2 DEF TargetsTypeOK
  <2> QED BY <2>1, <2>2, <2>3 DEF OnTarget, OnActive, CustomerActive
<1>9. ASSUME NEW k \in CustomerIds, NEW state \in {"active", "archived"}, SaveCustomer(k, state)
      PROVE  Kept(b)
  <2>1. /\ customers' = [customers EXCEPT ![k] = state] /\ UNCHANGED <<projects, orders, bookings>>
        /\ customers[k] = "active" /\ state = "archived" =>
             ~\E c \in Running(bookings) : projects[c.project].customer = k
    BY <1>9 DEF SaveCustomer
  <2>2. b \in bookings /\ OnTarget(b) /\ (b.running => OnActive(b)) /\ b.project \in ProjectIds
    BY <1>1, <1>2, <1>3, <2>1
  <2>3. projects[b.project].customer \in CustomerIds \cup {NoRef}
    BY <1>0, <2>2, ProjectFields DEF OnTarget
  <2>4. b.running => CustomerActive(projects[b.project].customer)'
    <3>1. CASE projects[b.project].customer = k
      BY <1>0, <2>1, <2>2, <3>1 DEF OnActive, CustomerActive, Running, TargetsTypeOK
    <3>2. CASE projects[b.project].customer # k
      BY <1>0, <2>1, <2>2, <2>3, <3>2 DEF OnActive, CustomerActive, TargetsTypeOK
    <3> QED BY <3>1, <3>2
  <2> QED BY <2>1, <2>2, <2>4 DEF OnTarget, OnActive
<1>10. ASSUME NEW k \in CustomerIds, RemoveCustomer(k) PROVE Kept(b)
  <2>1. /\ customers' = [customers EXCEPT ![k] = "absent"]
        /\ UNCHANGED <<projects, orders, bookings>>
        /\ ~\E p \in ProjectIds : Exists(projects[p]) /\ projects[p].customer = k
    BY <1>10 DEF RemoveCustomer
  <2>2. b \in bookings /\ OnTarget(b) /\ (b.running => OnActive(b)) /\ b.project \in ProjectIds
    BY <1>1, <1>2, <1>3, <2>1
  <2>3. projects[b.project].customer # k
        /\ projects[b.project].customer \in CustomerIds \cup {NoRef}
    BY <1>0, <2>1, <2>2, ProjectFields DEF OnTarget
  <2>4. b.running => CustomerActive(projects[b.project].customer)'
    BY <1>0, <2>1, <2>2, <2>3 DEF OnActive, CustomerActive, TargetsTypeOK
  <2> QED BY <2>1, <2>2, <2>4 DEF OnTarget, OnActive
<1>11. ASSUME NEW running \in BOOLEAN, CommitBooking(running) PROVE Kept(b)
  <2>1. PICK c : c = [emp |-> booking.emp, project |-> booking.project, order |-> booking.order,
                      customer |-> projects[booking.project].customer, running |-> running]
    OBVIOUS
  <2>2. /\ c.project = booking.project /\ c.order = booking.order
        /\ c.customer = projects[booking.project].customer
    BY <2>1
  <2>3. /\ bookings' = bookings \cup {c} /\ StillBookable(booking)
        /\ UNCHANGED <<customers, projects, orders>>
    BY <1>11, <2>1 DEF CommitBooking
  <2>4. CASE b = c
    BY <2>2, <2>3, <2>4 DEF StillBookable, OrderBookable, OrdersOf, OnTarget, OnActive,
                            CustomerActive
  <2>5. CASE b # c
    BY <1>1, <1>3, <2>3, <2>5 DEF OnTarget, OnActive, CustomerActive
  <2> QED BY <2>4, <2>5
<1>12. ASSUME NEW c \in bookings, StopTimer(c) PROVE Kept(b)
  <2>1. PICK d : d = [c EXCEPT !.running = FALSE]
    OBVIOUS
  <2>2. /\ d.project = c.project /\ d.order = c.order /\ d.customer = c.customer
        /\ d.running = FALSE
    BY <1>2, <2>1 DEF Booking
  <2>3. bookings' = (bookings \ {c}) \cup {d} /\ UNCHANGED <<customers, projects, orders>>
    BY <1>12, <2>1 DEF StopTimer
  <2>4. CASE b = d
    BY <1>1, <2>2, <2>3, <2>4 DEF OnTarget
  <2>5. CASE b # d
    BY <1>1, <1>3, <2>3, <2>5 DEF OnTarget, OnActive, CustomerActive
  <2> QED BY <2>4, <2>5
<1>13. ASSUME UNCHANGED <<customers, projects, orders, bookings>> PROVE Kept(b)
  BY <1>1, <1>3, <1>13 DEF OnTarget, OnActive, CustomerActive
<1>14. ASSUME \/ ChangeOperatingMode \/ AbandonBooking \/ \E t \in Target : BeginBooking(t)
              \/ \E a \in Staff, p \in ProjectIds, e \in Staff : Assign(a, e, p) \/ Unassign(a, e, p)
       PROVE  Kept(b)
  BY <1>13, <1>14 DEF ChangeOperatingMode, AbandonBooking, BeginBooking, Assign, Unassign
<1> HIDE DEF Kept
<1> QED BY <1>4, <1>5, <1>6, <1>7, <1>8, <1>9, <1>10, <1>11, <1>12, <1>14 DEF TargetsNext
-----------------------------------------------------------------------------
(* Sums over finite sets, one element at a time *)

\* The hours that a table of orders plans for one, and for several.
HoursIn(table, o) == IF table[o].plan = NoPlan THEN 0 ELSE table[o].plan

SumIn(table, S) == MapThenSumSet(LAMBDA o : HoursIn(table, o), S)

PickOf(s) == CHOOSE x \in s : TRUE

\* g sums f over the subsets of S, one element at a time.
Sums(g, f, S) ==
    g = [s \in SUBSET S |-> IF s = {} THEN 0 ELSE f[PickOf(s)] + g[s \ {PickOf(s)}]]

\* Induction over the numbers that have a property, as a set.
LEMMA SetOfNumbers ==
    ASSUME NEW P \in SUBSET Nat, 0 \in P, \A n \in P : n + 1 \in P
    PROVE  P = Nat
<1>1. SUFFICES ASSUME Nat \ P # {} PROVE FALSE
  OBVIOUS
<1>2. PICK m \in Nat \ P : \A n \in Nat \ P : ~(<<n, m>> \in OpToRel(<, Nat))
  BY <1>1, WFMin, NatLessThanWellFounded
<1>3. \A n \in Nat \ P : ~(n < m)
  BY <1>2 DEF OpToRel
<1>4. m # 0 /\ m \in Nat
  OBVIOUS
<1>5. m - 1 \in Nat /\ m - 1 < m
  BY <1>4
<1>6. m - 1 \in P
  BY <1>3, <1>5
<1>7. m \in P
  BY <1>4, <1>6
<1> QED BY <1>7

\* Smaller and smaller subsets.
LEMMA Shrinks ==
    ASSUME NEW S, IsFiniteSet(S), NEW s \in SUBSET S, NEW y \in s
    PROVE  /\ IsFiniteSet(s) /\ Cardinality(s) \in Nat /\ Cardinality(s) # 0
           /\ s \ {y} \in SUBSET S /\ Cardinality(s \ {y}) = Cardinality(s) - 1
<1>1. IsFiniteSet(s)
  BY FS_Subset
<1>2. Cardinality(s) \in Nat /\ Cardinality(s \ {y}) = Cardinality(s) - 1
  BY <1>1, FS_RemoveElement, FS_CardinalityType
<1>3. Cardinality(s) # 0
  BY <1>1, FS_EmptySet
<1> QED BY <1>1, <1>2, <1>3

LEMMA Picked == ASSUME NEW s, s # {} PROVE PickOf(s) \in s
BY DEF PickOf

\* The sums of finite sets exist.
LEMMA SumsExist ==
    ASSUME NEW S, IsFiniteSet(S), NEW f
    PROVE  \E g : Sums(g, f, S)
<1> DEFINE Value(g, s) == IF s = {} THEN 0 ELSE f[PickOf(s)] + g[s \ {PickOf(s)}]
           Upto(g, n) == \A s \in SUBSET S : Cardinality(s) <= n => g[s] = Value(g, s)
           P == {n \in Nat : \E g : g = [s \in SUBSET S |-> g[s]] /\ Upto(g, n)}
<1> HIDE DEF Value, Upto
<1>1. \A s \in SUBSET S : Cardinality(s) \in Nat /\ Cardinality(s) <= Cardinality(S)
  BY FS_Subset, FS_CardinalityType
<1>2. 0 \in P
  <2>1. PICK g : g = [s \in SUBSET S |-> 0]
    OBVIOUS
  <2>2. g = [s \in SUBSET S |-> g[s]]
    BY <2>1
  <2>3. ASSUME NEW s \in SUBSET S, Cardinality(s) <= 0 PROVE g[s] = Value(g, s)
    <3>1. s = {}
      BY <1>1, <2>3, Shrinks, FS_Subset, FS_EmptySet
    <3> QED BY <2>1, <3>1 DEF Value
  <2> QED BY <2>2, <2>3 DEF Upto
<1>3. ASSUME NEW n \in P PROVE n + 1 \in P
  <2>1. PICK g : Upto(g, n)
    OBVIOUS
  <2>2. PICK k : k = [s \in SUBSET S |-> Value(g, s)]
    OBVIOUS
  <2>3. k = [s \in SUBSET S |-> k[s]]
    BY <2>2
  <2>4. ASSUME NEW s \in SUBSET S, Cardinality(s) <= n + 1 PROVE k[s] = Value(k, s)
    <3>1. CASE s = {}
      BY <2>2, <3>1 DEF Value
    <3>2. CASE s # {}
      <4>1. PICK t : t = s \ {PickOf(s)}
        OBVIOUS
      <4>2. t \in SUBSET S /\ Cardinality(t) <= n
        BY <1>1, <2>4, <3>2, <4>1, Picked, Shrinks
      <4>3. k[t] = g[t]
        BY <2>1, <2>2, <4>2 DEF Upto
      <4>4. k[s] = Value(g, s)
        BY <2>2
      <4> QED BY <3>2, <4>1, <4>3, <4>4 DEF Value
    <3> QED BY <3>1, <3>2
  <2>5. Upto(k, n + 1)
    BY <2>4 DEF Upto
  <2> QED BY <2>3, <2>5
<1>4. P = Nat
  <2>1. P \in SUBSET Nat
    OBVIOUS
  <2> HIDE DEF P
  <2> QED BY <1>2, <1>3, <2>1, SetOfNumbers
<1>5. PICK g : g = [s \in SUBSET S |-> g[s]] /\ Upto(g, Cardinality(S))
  BY <1>4, FS_CardinalityType
<1>6. \A s \in SUBSET S : g[s] = Value(g, s)
  BY <1>1, <1>5 DEF Upto
<1>7. g = [s \in SUBSET S |-> Value(g, s)]
  BY <1>5, <1>6
<1> QED BY <1>7 DEF Sums, Value

LEMMA SumsStep ==
    ASSUME NEW S, NEW f, NEW g, Sums(g, f, S)
    PROVE  /\ g[{}] = 0
           /\ \A s \in SUBSET S : s # {} => g[s] = f[PickOf(s)] + g[s \ {PickOf(s)}]
BY DEF Sums

LEMMA SumsNatural ==
    ASSUME NEW S, IsFiniteSet(S), NEW f, \A o \in S : f[o] \in Nat, NEW g, Sums(g, f, S)
    PROVE  \A s \in SUBSET S : g[s] \in Nat
<1> DEFINE P == {n \in Nat : \A s \in SUBSET S : Cardinality(s) <= n => g[s] \in Nat}
<1>1. \A s \in SUBSET S : IsFiniteSet(s) /\ Cardinality(s) \in Nat /\ Cardinality(s) <= Cardinality(S)
  BY FS_Subset, FS_CardinalityType
<1>2. 0 \in P
  <2>1. ASSUME NEW s \in SUBSET S, Cardinality(s) <= 0 PROVE s = {}
    BY <1>1, <2>1, FS_EmptySet
  <2> QED BY <2>1, SumsStep
<1>3. ASSUME NEW n \in P PROVE n + 1 \in P
  <2>0. n + 1 \in Nat /\ \A s \in SUBSET S : s = {} => g[s] \in Nat
    BY SumsStep
  <2> SUFFICES ASSUME NEW s \in SUBSET S, Cardinality(s) <= n + 1, s # {} PROVE g[s] \in Nat
    BY <2>0
  <2>1. PICK t : t = s \ {PickOf(s)}
    OBVIOUS
  <2>2. t \in SUBSET S /\ Cardinality(t) <= n
    BY <1>1, <2>1, Picked, Shrinks
  <2>3. g[t] \in Nat /\ f[PickOf(s)] \in Nat
    BY <1>3, <2>2, Picked
  <2>4. g[s] = f[PickOf(s)] + g[t]
    BY <2>1, SumsStep
  <2> QED BY <2>3, <2>4
<1>4. P = Nat
  <2>1. P \in SUBSET Nat
    OBVIOUS
  <2> HIDE DEF P
  <2> QED BY <1>2, <1>3, <2>1, SetOfNumbers
<1> QED BY <1>1, <1>4, FS_CardinalityType

\* It does not matter which element is taken first.
LEMMA SumsAnyOrder ==
    ASSUME NEW S, IsFiniteSet(S), NEW f, \A o \in S : f[o] \in Nat, NEW g, Sums(g, f, S)
    PROVE  \A s \in SUBSET S : \A y \in s : g[s] = f[y] + g[s \ {y}]
<1> DEFINE P == {n \in Nat : \A s \in SUBSET S : Cardinality(s) <= n =>
                                 \A y \in s : g[s] = f[y] + g[s \ {y}]}
<1>1. \A s \in SUBSET S : IsFiniteSet(s) /\ Cardinality(s) \in Nat /\ Cardinality(s) <= Cardinality(S)
  BY FS_Subset, FS_CardinalityType
<1>2. 0 \in P
  <2>1. ASSUME NEW s \in SUBSET S, Cardinality(s) <= 0 PROVE s = {}
    BY <1>1, <2>1, FS_EmptySet
  <2> QED BY <2>1
<1>3. ASSUME NEW n \in P PROVE n + 1 \in P
  <2> SUFFICES ASSUME NEW s \in SUBSET S, Cardinality(s) <= n + 1, NEW y \in s
               PROVE  g[s] = f[y] + g[s \ {y}]
    OBVIOUS
  <2>1. PICK x : x = PickOf(s)
    OBVIOUS
  <2>2. x \in s /\ g[s] = f[x] + g[s \ {x}]
    BY <2>1, Picked, SumsStep
  <2>3. CASE y = x
    BY <2>2, <2>3
  <2>4. CASE y # x
    <3>1. PICK t, u, v : t = s \ {x} /\ u = s \ {y} /\ v = (s \ {x}) \ {y}
      OBVIOUS
    <3>2. /\ t \in SUBSET S /\ u \in SUBSET S /\ v \in SUBSET S
          /\ y \in t /\ x \in u /\ v = t \ {y} /\ v = u \ {x}
      BY <2>2, <2>4, <3>1
    <3>3. Cardinality(t) <= n /\ Cardinality(u) <= n
      BY <1>1, <2>2, <3>1, Shrinks
    <3>4. g[t] = f[y] + g[v] /\ g[u] = f[x] + g[v]
      BY <1>3, <3>2, <3>3
    <3>5. g[v] \in Nat /\ f[x] \in Nat /\ f[y] \in Nat
      BY <2>2, <3>2, SumsNatural
    <3> QED BY <2>2, <3>1, <3>4, <3>5
  <2> QED BY <2>3, <2>4
<1>4. P = Nat
  <2>1. P \in SUBSET Nat
    OBVIOUS
  <2> HIDE DEF P
  <2> QED BY <1>2, <1>3, <2>1, SetOfNumbers
<1> QED BY <1>1, <1>4, FS_CardinalityType

\* A sum depends on nothing but what is added.
LEMMA SumsAgree ==
    ASSUME NEW S, NEW T, IsFiniteSet(S), T \subseteq S,
           NEW f, NEW h, \A o \in T : f[o] = h[o],
           NEW g, Sums(g, f, S), NEW k, Sums(k, h, T)
    PROVE  \A s \in SUBSET T : g[s] = k[s]
<1> DEFINE P == {n \in Nat : \A s \in SUBSET T : Cardinality(s) <= n => g[s] = k[s]}
<1>1. \A s \in SUBSET T : IsFiniteSet(s) /\ Cardinality(s) \in Nat /\ Cardinality(s) <= Cardinality(S)
  BY FS_Subset, FS_CardinalityType
<1>2. 0 \in P
  <2>1. ASSUME NEW s \in SUBSET T, Cardinality(s) <= 0 PROVE s = {}
    BY <1>1, <2>1, FS_EmptySet
  <2> QED BY <2>1, SumsStep
<1>3. ASSUME NEW n \in P PROVE n + 1 \in P
  <2>0. g[{}] = 0 /\ k[{}] = 0
    BY SumsStep
  <2> SUFFICES ASSUME NEW s \in SUBSET T, Cardinality(s) <= n + 1, s # {} PROVE g[s] = k[s]
    BY <2>0
  <2>1. PICK t : t = s \ {PickOf(s)}
    OBVIOUS
  <2>2. t \in SUBSET T /\ Cardinality(t) <= n
    BY <1>1, <2>1, Picked, Shrinks
  <2>3. g[t] = k[t] /\ f[PickOf(s)] = h[PickOf(s)]
    BY <1>3, <2>2, Picked
  <2>4. g[s] = f[PickOf(s)] + g[t] /\ k[s] = h[PickOf(s)] + k[t]
    BY <2>1, SumsStep
  <2> QED BY <2>3, <2>4
<1>4. P = Nat
  <2>1. P \in SUBSET Nat
    OBVIOUS
  <2> HIDE DEF P
  <2> QED BY <1>2, <1>3, <2>1, SetOfNumbers
<1> QED BY <1>1, <1>4, FS_CardinalityType

\* The community modules' fold is such a sum.
LEMMA SumUnfold ==
    ASSUME NEW S, IsFiniteSet(S), NEW table, NEW f, \A o \in S : f[o] = HoursIn(table, o)
    PROVE  \E h : Sums(h, f, S) /\ SumIn(table, S) = h[S]
<1> DEFINE Step(h) == [s \in SUBSET S |-> IF s = {} THEN 0
                         ELSE HoursIn(table, CHOOSE x \in s : TRUE)
                                + h[s \ {CHOOSE x \in s : TRUE}]]
           h == CHOOSE h : h = Step(h)
<1>1. SumIn(table, S) = h[S]
  BY DEF SumIn, MapThenSumSet, MapThenFoldSet
<1>2. ASSUME NEW k
      PROVE  Step(k) = [s \in SUBSET S |-> IF s = {} THEN 0
                                          ELSE f[PickOf(s)] + k[s \ {PickOf(s)}]]
  <2>1. ASSUME NEW s \in SUBSET S, s # {}
        PROVE  HoursIn(table, CHOOSE x \in s : TRUE) = f[PickOf(s)]
    BY <2>1 DEF PickOf
  <2> QED BY <2>1 DEF PickOf
<1>3. PICK g : Sums(g, f, S)
  BY SumsExist
<1>4. g = Step(g)
  BY <1>2, <1>3 DEF Sums
<1>5. h = Step(h)
  BY <1>4
<1>6. Sums(h, f, S)
  BY <1>2, <1>5 DEF Sums
<1> QED BY <1>1, <1>6

LEMMA SumOne ==
    ASSUME NEW S, IsFiniteSet(S), NEW table, \A o \in S : HoursIn(table, o) \in Nat
    PROVE  /\ SumIn(table, S) \in Nat
           /\ S = {} => SumIn(table, S) = 0
           /\ \A o \in S : SumIn(table, S) = HoursIn(table, o) + SumIn(table, S \ {o})
<1>1. PICK f : f = [o \in S |-> HoursIn(table, o)]
  OBVIOUS
<1>2. \A o \in S : f[o] = HoursIn(table, o) /\ f[o] \in Nat
  BY <1>1
<1>3. PICK h : Sums(h, f, S) /\ SumIn(table, S) = h[S]
  BY <1>2, SumUnfold
<1>4. SumIn(table, S) \in Nat
  BY <1>2, <1>3, SumsNatural
<1>5. S = {} => SumIn(table, S) = 0
  BY <1>3, SumsStep
<1>6. ASSUME NEW o \in S PROVE SumIn(table, S) = HoursIn(table, o) + SumIn(table, S \ {o})
  <2>1. PICK T : T = S \ {o}
    OBVIOUS
  <2>2. IsFiniteSet(T) /\ T \subseteq S
    BY <2>1, FS_Subset
  <2>3. PICK k : Sums(k, f, T) /\ SumIn(table, T) = k[T]
    BY <1>2, <2>2, SumUnfold
  <2>4. h[T] = k[T]
    BY <1>3, <2>2, <2>3, SumsAgree
  <2>5. h[S] = f[o] + h[T]
    BY <1>2, <1>3, <2>1, SumsAnyOrder
  <2> QED BY <1>2, <1>3, <2>1, <2>3, <2>4, <2>5
<1> QED BY <1>4, <1>5, <1>6

LEMMA SumSame ==
    ASSUME NEW S, IsFiniteSet(S), NEW table, NEW other,
           \A o \in S : HoursIn(table, o) = HoursIn(other, o)
    PROVE  SumIn(table, S) = SumIn(other, S)
<1>1. PICK f : f = [o \in S |-> HoursIn(table, o)]
  OBVIOUS
<1>2. \A o \in S : f[o] = HoursIn(table, o) /\ f[o] = HoursIn(other, o)
  BY <1>1
<1>3. PICK h : Sums(h, f, S) /\ SumIn(table, S) = h[S]
  BY <1>2, SumUnfold
<1>4. PICK k : Sums(k, f, S) /\ SumIn(other, S) = k[S]
  BY <1>2, SumUnfold
<1>5. h[S] = k[S]
  BY <1>3, <1>4, SumsAgree
<1> QED BY <1>3, <1>4, <1>5

LEMMA SumNow == ASSUME NEW S PROVE SumPlanHours(S) = SumIn(orders, S)
BY DEF SumPlanHours, SumIn, HoursIn

LEMMA SumThen == ASSUME NEW S PROVE SumPlanHours(S)' = SumIn(orders', S)
BY DEF SumPlanHours, SumIn, HoursIn, MapThenSumSet, MapThenFoldSet

-----------------------------------------------------------------------------
(* Plans *)

\* Orders go with their projects.
OrdersBelong ==
    \A o \in OrderIds : Exists(orders[o]) => Exists(projects[orders[o].project])

LEMMA OrdersFinite ==
    ASSUME NEW S \in SUBSET OrderIds
    PROVE  IsFiniteSet(S)
BY FS_Subset, ProjectsAssumption

LEMMA OrdersOfProject ==
    ASSUME TargetsTypeOK, NEW p
    PROVE  /\ OrdersOf(p) \in SUBSET OrderIds
           /\ \A o \in OrdersOf(p) : orders[o] \in Order /\ HoursIn(orders, o) \in Nat
<1>1. OrdersOf(p) \in SUBSET OrderIds
  BY DEF OrdersOf
<1>2. ASSUME NEW o \in OrdersOf(p) PROVE orders[o] \in Order /\ HoursIn(orders, o) \in Nat
  <2>1. orders[o] \in Order
    BY <1>2, OrderFields DEF OrdersOf
  <2>2. orders[o].plan \in Plans \cup {NoPlan}
    BY <2>1 DEF Order
  <2> QED BY <2>1, <2>2, ProjectsAssumption DEF HoursIn
<1> QED BY <1>1, <1>2

\* Where neither the orders of a project nor its plan change, it still fits.
LEMMA PlanStays ==
    ASSUME TargetsTypeOK, PlansFit, NEW p \in ProjectIds, NEW S, S = OrdersOf(p),
           OrdersOf(p)' = S, \A o \in S : orders'[o] = orders[o],
           Exists(projects'[p]), projects'[p].plan # NoPlan,
           Exists(projects[p]), projects[p].plan = projects'[p].plan
    PROVE  SumPlanHours(OrdersOf(p))' <= projects'[p].plan
<1>1. S \in SUBSET OrderIds /\ IsFiniteSet(S)
  BY OrdersOfProject, OrdersFinite
<1>2. SumIn(orders, S) <= projects[p].plan
  BY SumNow DEF PlansFit
<1>3. SumIn(orders', S) = SumIn(orders, S)
  BY <1>1, SumSame DEF HoursIn
<1>4. SumPlanHours(OrdersOf(p))' = SumIn(orders', S)
  BY SumThen
<1> QED BY <1>2, <1>3, <1>4

PlansInv == TargetsTypeOK /\ PlansFit /\ OrdersBelong

LEMMA PlansStep == PlansInv /\ TargetsNext => PlansInv'
<1> SUFFICES ASSUME PlansInv, TargetsNext PROVE PlansInv'
  OBVIOUS
<1>0. TargetsTypeOK /\ TargetsTypeOK' /\ PlansFit /\ OrdersBelong
  BY BooksTyped DEF PlansInv
<1> DEFINE Fits(p) == SumPlanHours(OrdersOf(p))' <= projects'[p].plan
           Planned(p) == Exists(projects'[p]) /\ projects'[p].plan # NoPlan
<1>1. SUFFICES (\A p \in ProjectIds : Planned(p) => Fits(p)) /\ OrdersBelong'
  BY <1>0 DEF PlansInv, PlansFit
<1>2. ASSUME UNCHANGED <<projects, orders>>
      PROVE  (\A p \in ProjectIds : Planned(p) => Fits(p)) /\ OrdersBelong'
  <2>1. ASSUME NEW p \in ProjectIds, Planned(p) PROVE Fits(p)
    <3>1. OrdersOf(p)' = OrdersOf(p)
      BY <1>2 DEF OrdersOf
    <3> QED BY <1>0, <1>2, <2>1, <3>1, PlanStays
  <2>2. OrdersBelong'
    BY <1>0, <1>2 DEF OrdersBelong
  <2> QED BY <2>1, <2>2
<1>3. ASSUME NEW a \in Staff, NEW q \in ProjectIds, NEW row \in Project,
             CreateProject(a, q, row) \/ UpdateProject(a, q, row)
      PROVE  (\A p \in ProjectIds : Planned(p) => Fits(p)) /\ OrdersBelong'
  <2>1. /\ projects' = [projects EXCEPT ![q] = row] /\ orders' = orders
        /\ \/ ~Exists(projects[q])
           \/ row.plan # NoPlan => SumPlanHours(OrdersOf(q)) <= row.plan
    BY <1>3 DEF CreateProject, UpdateProject
  <2>2. \A p \in ProjectIds : projects'[p] = IF p = q THEN row ELSE projects[p]
    BY <1>0, <2>1 DEF TargetsTypeOK
  <2>3. Exists(row)
    BY RowsExist
  <2>4. ASSUME NEW p \in ProjectIds, Planned(p) PROVE Fits(p)
    <3>1. PICK S : S = OrdersOf(p)
      OBVIOUS
    <3>2. OrdersOf(p)' = S
      BY <2>1, <3>1 DEF OrdersOf
    <3>3. CASE p # q
      BY <1>0, <2>1, <2>2, <2>4, <3>1, <3>2, <3>3, PlanStays
    <3>4. CASE p = q
      <4>1. SumPlanHours(OrdersOf(p))' = SumIn(orders, S)
        BY <2>1, <3>2, SumThen
      <4>2. CASE ~Exists(projects[q])
        <5>1. S = {}
          BY <1>0, <3>1, <3>4, <4>2 DEF OrdersOf, OrdersBelong
        <5>2. SumIn(orders, S) = 0
          BY <5>1, SumOne, FS_EmptySet
        <5>3. row.plan \in Nat
          BY <2>2, <2>4, <3>4, ProjectsAssumption DEF Project
        <5> QED BY <2>2, <3>4, <4>1, <5>2, <5>3
      <4>3. CASE row.plan # NoPlan => SumPlanHours(OrdersOf(q)) <= row.plan
        <5>1. SumIn(orders, S) <= row.plan
          BY <2>2, <2>4, <3>1, <3>4, <4>3, SumNow
        <5> QED BY <2>2, <3>4, <4>1, <5>1
      <4> QED BY <2>1, <4>2, <4>3
    <3> QED BY <3>3, <3>4
  <2>5. OrdersBelong'
    <3>1. ASSUME NEW o \in OrderIds, Exists(orders[o]) PROVE Exists(projects'[orders[o].project])
      <4>1. orders[o].project \in ProjectIds
        BY <1>0, <3>1, OrderFields DEF Order
      <4> QED BY <1>0, <2>2, <2>3, <3>1, <4>1 DEF OrdersBelong
    <3> QED BY <2>1, <3>1 DEF OrdersBelong
  <2> QED BY <2>4, <2>5
<1>4. ASSUME NEW a \in Staff, NEW q \in ProjectIds, RemoveProject(a, q)
      PROVE  (\A p \in ProjectIds : Planned(p) => Fits(p)) /\ OrdersBelong'
  <2>1. /\ projects' = [projects EXCEPT ![q] = Gone]
        /\ orders' = [o \in OrderIds |-> IF o \in OrdersOf(q) THEN Gone ELSE orders[o]]
    BY <1>4 DEF RemoveProject
  <2>2. \A p \in ProjectIds : projects'[p] = IF p = q THEN Gone ELSE projects[p]
    BY <1>0, <2>1 DEF TargetsTypeOK
  <2>3. ASSUME NEW o \in OrderIds, Exists(orders'[o])
        PROVE  orders'[o] = orders[o] /\ Exists(orders[o]) /\ orders[o].project # q
    BY <2>1, <2>3 DEF OrdersOf, Exists
  <2>4. ASSUME NEW p \in ProjectIds, Planned(p) PROVE Fits(p)
    <3>1. p # q /\ projects'[p] = projects[p]
      BY <2>2, <2>4 DEF Exists
    <3>2. PICK S : S = OrdersOf(p)
      OBVIOUS
    <3>3. \A o \in S : o \in OrderIds /\ orders'[o] = orders[o]
      BY <2>1, <3>1, <3>2 DEF OrdersOf
    <3>4. OrdersOf(p)' = S
      BY <2>3, <3>2, <3>3 DEF OrdersOf
    <3> QED BY <1>0, <2>4, <3>1, <3>2, <3>3, <3>4, PlanStays
  <2>5. OrdersBelong'
    <3>1. ASSUME NEW o \in OrderIds, Exists(orders'[o]) PROVE Exists(projects'[orders'[o].project])
      <4>1. orders[o].project \in ProjectIds
        BY <1>0, <2>3, <3>1, OrderFields DEF Order
      <4> QED BY <1>0, <2>2, <2>3, <3>1, <4>1 DEF OrdersBelong
    <3> QED BY <3>1 DEF OrdersBelong
  <2> QED BY <2>4, <2>5
<1>5. ASSUME NEW a \in Staff, NEW o \in OrderIds, NEW row \in Order,
             CreateServiceOrder(a, o, row) \/ UpdateServiceOrder(a, o, row)
      PROVE  (\A p \in ProjectIds : Planned(p) => Fits(p)) /\ OrdersBelong'
  <2>1. PICK q : q = row.project
    OBVIOUS
  <2>2. q \in ProjectIds /\ row.plan \in Plans \cup {NoPlan} /\ Exists(row)
    BY <2>1, RowsExist DEF Order
  <2>3. PICK old : old = OrdersOf(q) \ {o}
    OBVIOUS
  <2>4. /\ orders' = [orders EXCEPT ![o] = row] /\ projects' = projects
        /\ Exists(orders[o]) => orders[o].project = q
        /\ Exists(projects[q]) /\ OrderPlanFits(q, old, row.plan)
    <3>1. CASE CreateServiceOrder(a, o, row)
      <4>1. OrdersOf(q) = old
        BY <2>3, <3>1 DEF CreateServiceOrder, OrdersOf
      <4> QED BY <2>1, <3>1, <4>1 DEF CreateServiceOrder
    <3>2. CASE UpdateServiceOrder(a, o, row)
      <4>1. /\ orders' = [orders EXCEPT ![o] = row] /\ projects' = projects
            /\ o \in OrdersOf(q) /\ OrderPlanFits(q, old, row.plan)
        BY <2>1, <2>3, <3>2 DEF UpdateServiceOrder
      <4>2. orders[o].project = q /\ Exists(projects[q])
        BY <1>0, <4>1 DEF OrdersOf, OrdersBelong
      <4> QED BY <4>1, <4>2
    <3> QED BY <1>5, <3>1, <3>2
  <2>5. \A k \in OrderIds : orders'[k] = IF k = o THEN row ELSE orders[k]
    BY <1>0, <2>4 DEF TargetsTypeOK
  <2>6. ASSUME NEW p \in ProjectIds, Planned(p) PROVE Fits(p)
    <3>1. CASE p # q
      <4>1. PICK S : S = OrdersOf(p)
        OBVIOUS
      <4>2. \A k \in S : orders'[k] = orders[k]
        BY <2>4, <2>5, <3>1, <4>1 DEF OrdersOf
      <4>3. OrdersOf(p)' = S
        BY <2>1, <2>4, <2>5, <3>1, <4>1 DEF OrdersOf
      <4> QED BY <1>0, <2>4, <2>6, <4>1, <4>2, <4>3, PlanStays
    <3>2. CASE p = q
      <4>1. PICK S : S = old \cup {o}
        OBVIOUS
      <4>2. OrdersOf(p)' = S
        BY <2>1, <2>2, <2>3, <2>5, <3>2, <4>1 DEF OrdersOf
      <4>3. /\ S \in SUBSET OrderIds /\ old \in SUBSET OrderIds
            /\ IsFiniteSet(S) /\ IsFiniteSet(old) /\ o \in S /\ S \ {o} = old
        BY <2>3, <4>1, OrdersFinite DEF OrdersOf
      <4>4. \A k \in old : /\ HoursIn(orders', k) = HoursIn(orders, k)
                           /\ HoursIn(orders, k) \in Nat
        BY <1>0, <2>3, <2>5, <4>3, OrdersOfProject DEF HoursIn
      <4>5. HoursIn(orders', o) = (IF row.plan = NoPlan THEN 0 ELSE row.plan)
            /\ HoursIn(orders', o) \in Nat
        BY <2>2, <2>5, ProjectsAssumption DEF HoursIn
      <4>6. SumIn(orders', S) = HoursIn(orders', o) + SumIn(orders', old)
        <5>1. \A k \in S : HoursIn(orders', k) \in Nat
          BY <4>1, <4>4, <4>5
        <5> QED BY <4>3, <5>1, SumOne
      <4>7. SumIn(orders', old) = SumIn(orders, old) /\ SumIn(orders, old) \in Nat
        BY <4>3, <4>4, SumSame, SumOne
      <4>8. SumIn(orders, old) + HoursIn(orders', o) <= projects[q].plan
        BY <2>4, <2>6, <3>2, <4>5, SumNow DEF OrderPlanFits
      <4>9. SumPlanHours(OrdersOf(p))' = SumIn(orders', S)
        BY <4>2, SumThen
      <4> QED BY <2>4, <3>2, <4>5, <4>6, <4>7, <4>8, <4>9
    <3> QED BY <3>1, <3>2
  <2>7. OrdersBelong'
    BY <1>0, <2>1, <2>4, <2>5 DEF OrdersBelong
  <2> QED BY <2>6, <2>7
<1>6. ASSUME NEW a \in Staff, NEW o \in OrderIds, RemoveServiceOrder(a, o)
      PROVE  (\A p \in ProjectIds : Planned(p) => Fits(p)) /\ OrdersBelong'
  <2>1. orders' = [orders EXCEPT ![o] = Gone] /\ projects' = projects
    BY <1>6 DEF RemoveServiceOrder
  <2>2. \A k \in OrderIds : orders'[k] = IF k = o THEN Gone ELSE orders[k]
    BY <1>0, <2>1 DEF TargetsTypeOK
  <2>3. ASSUME NEW p \in ProjectIds, Planned(p) PROVE Fits(p)
    <3>1. PICK all, S : all = OrdersOf(p) /\ S = all \ {o}
      OBVIOUS
    <3>2. OrdersOf(p)' = S
      BY <2>2, <3>1 DEF OrdersOf, Exists
    <3>3. /\ all \in SUBSET OrderIds /\ S \in SUBSET OrderIds /\ IsFiniteSet(all) /\ IsFiniteSet(S)
          /\ \A k \in all : HoursIn(orders, k) \in Nat
      BY <1>0, <3>1, OrdersOfProject, OrdersFinite
    <3>4. SumIn(orders', S) = SumIn(orders, S)
      <4>1. \A k \in S : HoursIn(orders', k) = HoursIn(orders, k)
        BY <2>2, <3>1, <3>3 DEF HoursIn
      <4> QED BY <3>3, <4>1, SumSame
    <3>5. /\ SumIn(orders, S) \in Nat /\ SumIn(orders, all) \in Nat
          /\ SumIn(orders, S) <= SumIn(orders, all)
      <4>1. SumIn(orders, S) \in Nat /\ SumIn(orders, all) \in Nat
        BY <3>1, <3>3, SumOne
      <4>2. CASE o \in all
        <5>1. SumIn(orders, all) = HoursIn(orders, o) + SumIn(orders, S)
          BY <3>1, <3>3, <4>2, SumOne
        <5> QED BY <3>3, <4>1, <4>2, <5>1
      <4>3. CASE o \notin all
        <5>1. S = all
          BY <3>1, <4>3
        <5> QED BY <4>1, <5>1
      <4> QED BY <4>2, <4>3
    <3>6. SumIn(orders, all) <= projects[p].plan /\ projects[p].plan \in Nat
      <4>1. projects[p] \in Project /\ projects[p].plan # NoPlan
        BY <1>0, <2>1, <2>3, ProjectFields
      <4>2. projects[p].plan \in Nat
        BY <4>1, ProjectsAssumption DEF Project
      <4>3. SumPlanHours(OrdersOf(p)) <= projects[p].plan
        BY <1>0, <2>1, <2>3 DEF PlansFit
      <4> QED BY <3>1, <4>2, <4>3, SumNow
    <3>7. SumPlanHours(OrdersOf(p))' = SumIn(orders', S)
      BY <3>2, SumThen
    <3> QED BY <2>1, <3>4, <3>5, <3>6, <3>7
  <2>4. OrdersBelong'
    BY <1>0, <2>1, <2>2 DEF OrdersBelong, Exists
  <2> QED BY <2>3, <2>4
<1>7. ASSUME \/ ChangeOperatingMode \/ AbandonBooking
             \/ \E a \in Staff, p \in ProjectIds, e \in Staff : Assign(a, e, p) \/ Unassign(a, e, p)
             \/ \E k \in CustomerIds :
                  RemoveCustomer(k) \/ \E state \in {"active", "archived"} : SaveCustomer(k, state)
             \/ \E t \in Target : BeginBooking(t)
             \/ \E running \in BOOLEAN : CommitBooking(running)
             \/ \E b \in bookings : StopTimer(b)
      PROVE  UNCHANGED <<projects, orders>>
  BY <1>7 DEF ChangeOperatingMode, AbandonBooking, Assign, Unassign, RemoveCustomer, SaveCustomer,
              BeginBooking, CommitBooking, StopTimer
<1> HIDE DEF Fits, Planned
<1> QED BY <1>2, <1>3, <1>4, <1>5, <1>6, <1>7 DEF TargetsNext

\* The list of the form and the check of the server are the same condition.
LEMMA OffersKept == TargetsTypeOK => OffersAreKept
<1> SUFFICES ASSUME TargetsTypeOK, NEW e \in Staff
             PROVE  Offered(e) = {t \in Target : /\ t.emp = e /\ ProjectBookable(e, t.project)
                                                /\ OrderBookable(t.project, t.order)}
  BY DEF OffersAreKept
<1> DEFINE Choice == [emp: {e}, project: ProjectIds, order: OrderIds \cup {NoRef}]
<1>1. \A t : t \in Choice <=> t \in Target /\ t.emp = e
  BY DEF Target
<1>2. ASSUME NEW t \in Choice
      PROVE  /\ t.project \in ProjectIds
             /\ t.order \in ActiveOrders(t.project)
                  <=> t.order \in OrdersOf(t.project) /\ orders[t.order].state = "active"
             /\ projects[t.project].state = "active" => Exists(projects[t.project])
  <2>1. t.project \in ProjectIds
    OBVIOUS
  <2> QED BY <2>1, ProjectFields DEF ActiveOrders
<1>3. ASSUME NEW t \in Choice
      PROVE  t \in Offered(e) <=> ProjectBookable(e, t.project) /\ OrderBookable(t.project, t.order)
  BY <1>2 DEF Offered, ProjectBookable, OrderBookable
<1>4. \A t \in Offered(e) : t \in Choice
  BY DEF Offered
<1> HIDE DEF Choice
<1> QED BY <1>1, <1>3, <1>4

\* The invariant behind the next two (projects.service.ts, customers.service.ts).
TargetsInv == BooksInv /\ PlansInv

\* The tables of customers, projects, orders, assignments and bookings stay well
\* formed, with the booking that waits for the lock (schema.prisma:376-470).
THEOREM TargetsInvariant == TargetsSpec => []TargetsInv
<1>1. ASSUME TargetsInit PROVE TargetsInv
  <2>1. TargetsTypeOK
    BY <1>1 DEF TargetsInit, TargetsTypeOK
  <2>2. \A p \in ProjectIds : ~Exists(projects[p])
    BY <1>1 DEF TargetsInit, Exists
  <2>3. \A o \in OrderIds : ~Exists(orders[o])
    BY <1>1 DEF TargetsInit, Exists
  <2>4. BookingsKeepTarget /\ TimersOnActiveTargets
    BY <1>1 DEF TargetsInit, BookingsKeepTarget, TimersOnActiveTargets, Running
  <2> QED BY <2>1, <2>2, <2>3, <2>4 DEF TargetsInv, BooksInv, PlansInv, PlansFit, OrdersBelong
<1>2. TargetsInv /\ UNCHANGED targets => TargetsInv'
  <2> SUFFICES ASSUME TargetsInv, UNCHANGED targets PROVE TargetsInv'
    OBVIOUS
  <2>1. UNCHANGED <<customers, projects, orders, assigned, bookings, booking, solo>>
    BY DEF targets
  <2>2. TargetsTypeOK' /\ BookingsKeepTarget' /\ TimersOnActiveTargets' /\ OrdersBelong'
    BY <2>1 DEF TargetsInv, BooksInv, PlansInv, TargetsTypeOK, BookingsKeepTarget, OrdersOf,
                TimersOnActiveTargets, Running, CustomerActive, OrdersBelong
  <2>3. PlansFit'
    <3>1. ASSUME NEW p \in ProjectIds, Exists(projects'[p]), projects'[p].plan # NoPlan
          PROVE  SumPlanHours(OrdersOf(p))' <= projects'[p].plan
      <4>1. OrdersOf(p)' = OrdersOf(p)
        BY <2>1 DEF OrdersOf
      <4> QED BY <2>1, <3>1, <4>1, PlanStays DEF TargetsInv, PlansInv
    <3> QED BY <3>1 DEF PlansFit
  <2> QED BY <2>2, <2>3 DEF TargetsInv, BooksInv, PlansInv
<1>3. TargetsInv /\ [TargetsNext]_targets => TargetsInv'
  BY <1>2, BooksStep, PlansStep DEF TargetsInv
<1> QED BY <1>1, <1>3, PTL DEF TargetsSpec

\* Whatever a customer, project or order goes through, the plans add up, booked
\* time keeps its target, no timer is left on something archived, and the form
\* offers what the server accepts (projects.service.ts, customers.service.ts).
THEOREM ProjectBooksAreSound == TargetsSpec => []ProjectBooksSound
<1>1. TargetsInv => ProjectBooksSound
  BY OffersKept DEF TargetsInv, BooksInv, PlansInv, ProjectBooksSound
<1> QED BY <1>1, TargetsInvariant, PTL

-----------------------------------------------------------------------------
(* The owner's calendar *)

Settings == [solo: BOOLEAN, rev: Nat]
Change == [effective: Nat, solo: BOOLEAN]
SavedDay == [from: Days, to: Days, rev: Nat, cancelled: BOOLEAN]

\* What a request that waits has been checked for.
Asks(q) ==
    /\ q.op = "Settings" => q.effective \in Nat /\ q.effective >= q.asked
    /\ q.op = "Mode" => q.solo \in BOOLEAN
    /\ q.op \in {"Day", "Cancel"} => q.id \in DayIds /\ q.rev \in Int
    /\ q.op = "Day" => q.from \in Days /\ q.to \in Days /\ q.rev >= -1
    /\ q.op = "Cancel" => q.rev >= 0

Apart(a, b) == a.to < b.from \/ b.to < a.from

DaysApart == \A i, j \in DayIds : i # j /\ InUse(i) /\ InUse(j) => Apart(days[i], days[j])

CalendarInv ==
    /\ today \in Days /\ settings \in Settings
    /\ policies \in Seq(Nat) /\ modes \in Seq(Change)
    /\ Len(modes) # 0 /\ modes[1].effective = 0
    /\ days \in [DayIds -> {Unsaved} \cup SavedDay]
    /\ request = [c \in Callers |-> request[c]] /\ \A c \in Callers : Asks(request[c])
    /\ DaysApart

-----------------------------------------------------------------------------
(* What is saved for a later day changes nothing for an earlier one *)

LEMMA PolicyOfEarlier ==
    ASSUME NEW ps \in Seq(Nat), NEW e \in Nat, NEW d \in Nat, e > d
    PROVE  PolicyInForce(Append(ps, e), d) = PolicyInForce(ps, d)
<1> DEFINE past(s) == {i \in DOMAIN s : s[i] <= d}
           latest(s) == {i \in past(s) : \A j \in past(s) : s[j] <= s[i]}
<1>1. PICK new : new = Append(ps, e)
  OBVIOUS
<1>2. /\ DOMAIN new = 1 .. (Len(ps) + 1) /\ DOMAIN ps = 1 .. Len(ps) /\ Len(ps) \in Nat
      /\ new[Len(ps) + 1] = e /\ \A i \in 1 .. Len(ps) : new[i] = ps[i]
  BY <1>1
<1>3. past(new) = past(ps)
  <2>1. \A i \in DOMAIN new : i \in DOMAIN ps \/ (i = Len(ps) + 1 /\ ~(new[i] <= d))
    BY <1>2
  <2>2. \A i \in DOMAIN ps : i \in DOMAIN new /\ new[i] = ps[i]
    BY <1>2
  <2> QED BY <2>1, <2>2
<1>4. \A i \in past(ps) : new[i] = ps[i]
  BY <1>2
<1> HIDE DEF past
<1>5. latest(new) = latest(ps)
  BY <1>3, <1>4
<1>6. PICK p : p = past(ps)
  OBVIOUS
<1>7. PICK l : l = latest(ps)
  OBVIOUS
<1>8. ASSUME NEW s, past(s) = p, latest(s) = l
      PROVE  PolicyInForce(s, d) = IF p = {} THEN 0 ELSE CHOOSE i \in l : \A j \in l : j <= i
  <2>1. PolicyInForce(s, d) = IF past(s) = {} THEN 0
                              ELSE CHOOSE i \in latest(s) : \A j \in latest(s) : j <= i
    BY DEF PolicyInForce, past
  <2> HIDE DEF latest
  <2> QED BY <1>8, <2>1
<1> HIDE DEF latest
<1>9. past(new) = p /\ latest(new) = l /\ past(ps) = p /\ latest(ps) = l
  BY <1>3, <1>5, <1>6, <1>7
<1>10. PolicyInForce(new, d) = IF p = {} THEN 0 ELSE CHOOSE i \in l : \A j \in l : j <= i
  BY <1>8, <1>9, Zenon
<1>11. PolicyInForce(ps, d) = IF p = {} THEN 0 ELSE CHOOSE i \in l : \A j \in l : j <= i
  BY <1>8, <1>9, Zenon
<1> QED BY <1>1, <1>10, <1>11

LEMMA LastOfSome ==
    ASSUME NEW n \in Nat, NEW S \in SUBSET (1 .. n), S # {}
    PROVE  \E m \in S : \A i \in S : i <= m
<1>1. \A i \in S : i \in Nat /\ i <= n
  OBVIOUS
<1> DEFINE T == {n - i : i \in S}
<1>2. T \in SUBSET Nat /\ T # {}
  <2>1. \A i \in S : n - i \in Nat
    BY <1>1
  <2> QED BY <2>1
<1>3. PICK t \in T : \A u \in T : ~(<<u, t>> \in OpToRel(<, Nat))
  <2> HIDE DEF T
  <2> QED BY <1>2, WFMin, NatLessThanWellFounded
<1>4. \A u \in T : ~(u < t)
  BY <1>2, <1>3 DEF OpToRel
<1>5. PICK m \in S : t = n - m
  BY <1>3
<1>6. ASSUME NEW i \in S PROVE i <= m
  <2>1. n - i \in T /\ i \in Nat /\ m \in Nat
    BY <1>1
  <2> QED BY <1>4, <1>5, <2>1
<1> QED BY <1>6

LEMMA ModeOfEarlier ==
    ASSUME NEW ms \in Seq(Change), Len(ms) # 0, ms[1].effective = 0,
           NEW x \in Change, NEW d \in Nat, x.effective > d
    PROVE  AccountedSolo(Append(ms, x), d) = AccountedSolo(ms, d)
<1> DEFINE past(s) == {i \in DOMAIN s : s[i].effective <= d}
<1>1. PICK new : new = Append(ms, x)
  OBVIOUS
<1>2. /\ DOMAIN new = 1 .. (Len(ms) + 1) /\ DOMAIN ms = 1 .. Len(ms) /\ Len(ms) \in Nat
      /\ new[Len(ms) + 1] = x /\ \A i \in 1 .. Len(ms) : new[i] = ms[i]
  BY <1>1
<1>3. past(new) = past(ms)
  <2>1. x.effective \in Nat
    BY DEF Change
  <2>2. \A i \in DOMAIN new : i \in DOMAIN ms \/ (i = Len(ms) + 1 /\ ~(new[i].effective <= d))
    BY <1>2, <2>1
  <2>3. \A i \in DOMAIN ms : i \in DOMAIN new /\ new[i] = ms[i]
    BY <1>2
  <2> QED BY <2>2, <2>3
<1>4. PICK p : p = past(ms)
  OBVIOUS
<1>5. p \in SUBSET (1 .. Len(ms)) /\ 1 \in p
  BY <1>2, <1>4
<1>6. PICK i : i = CHOOSE k \in p : \A j \in p : j <= k
  OBVIOUS
<1>7. i \in p
  BY <1>2, <1>5, <1>6, LastOfSome
<1>8. AccountedSolo(new, d) = new[i].solo /\ AccountedSolo(ms, d) = ms[i].solo
  <2>1. /\ AccountedSolo(new, d) = new[CHOOSE k \in past(new) : \A j \in past(new) : j <= k].solo
        /\ AccountedSolo(ms, d) = ms[CHOOSE k \in past(ms) : \A j \in past(ms) : j <= k].solo
    BY DEF AccountedSolo
  <2> HIDE DEF past
  <2> QED BY <1>3, <1>4, <1>6, <2>1
<1> QED BY <1>1, <1>2, <1>5, <1>7, <1>8

-----------------------------------------------------------------------------
(* The invariant *)

LEMMA WaitSound ==
    ASSUME CalendarInv, NEW c \in Callers, NEW q, Asks(q), Wait(c, q)
    PROVE  CalendarInv'
<1>1. /\ request' = [request EXCEPT ![c] = q]
      /\ UNCHANGED <<today, settings, policies, modes, days, worked, leave>>
  BY DEF Wait
<1>2. DaysApart'
  BY <1>1 DEF CalendarInv, DaysApart, InUse
<1>3. request' = [b \in Callers |-> request'[b]] /\ \A b \in Callers : Asks(request'[b])
  BY <1>1 DEF CalendarInv
<1> QED BY <1>1, <1>2, <1>3 DEF CalendarInv

LEMMA AnswerSound ==
    ASSUME CalendarInv, NEW c \in Callers, Answer(c)
    PROVE  request' = [b \in Callers |-> request'[b]] /\ \A b \in Callers : Asks(request'[b])
<1>1. Asks(Idle)
  BY DEF Asks, Idle
<1>2. PICK idle : idle = Idle
  OBVIOUS
<1> QED BY <1>1, <1>2 DEF CalendarInv, Answer

\* Everything but the days is as sound as it was.
LEMMA OnlyAnswered ==
    ASSUME CalendarInv, NEW c \in Callers, Answer(c), UNCHANGED days,
           today' \in Days, settings' \in Settings, policies' \in Seq(Nat),
           modes' \in Seq(Change), Len(modes') # 0, modes'[1].effective = 0
    PROVE  CalendarInv'
<1>1. DaysApart'
  BY DEF CalendarInv, DaysApart, InUse
<1> QED BY <1>1, AnswerSound DEF CalendarInv

LEMMA NextRevision == ASSUME NEW s \in Settings PROVE [s EXCEPT !.rev = @ + 1] \in Settings
BY DEF Settings

LEMMA SaveSettingsSound ==
    ASSUME CalendarInv, NEW c \in Callers, SaveSettings(c)
    PROVE  CalendarInv' /\ policies' = Append(policies, request[c].effective) /\ modes' = modes
<1>1. Asks(request[c]) /\ request[c].op = "Settings"
  BY DEF CalendarInv, SaveSettings
<1>2. PICK e \in Nat : e = request[c].effective
  BY <1>1 DEF Asks
<1>3. /\ settings' = [settings EXCEPT !.rev = @ + 1] /\ policies' = Append(policies, e)
      /\ Answer(c) /\ UNCHANGED <<today, modes, days, worked, leave>>
  BY <1>2 DEF SaveSettings
<1>4. settings' \in Settings /\ policies' \in Seq(Nat)
  BY <1>3, NextRevision DEF CalendarInv
<1>5. today' \in Days /\ modes' \in Seq(Change) /\ Len(modes') # 0 /\ modes'[1].effective = 0
  BY <1>3 DEF CalendarInv
<1> QED BY <1>2, <1>3, <1>4, <1>5, OnlyAnswered

LEMMA ChangeModeSound ==
    ASSUME CalendarInv, NEW c \in Callers, ChangeMode(c)
    PROVE  /\ CalendarInv'
           /\ \E from \in Nat, asSolo \in BOOLEAN :
                /\ from = IF today \in request[c].history THEN today + 1 ELSE today
                /\ modes' = Append(modes, [effective |-> from, solo |-> asSolo])
                /\ policies' = policies \/ policies' = Append(policies, from)
<1>1. Asks(request[c]) /\ request[c].op = "Mode" /\ today \in Nat /\ settings \in Settings
  BY DEF CalendarInv, ChangeMode, Days
<1>2. PICK asSolo \in BOOLEAN : asSolo = request[c].solo
  BY <1>1 DEF Asks
<1>3. PICK from \in Nat : from = IF today \in request[c].history THEN today + 1 ELSE today
  BY <1>1
<1>4. PICK n \in Nat : n = settings.rev + 1
  BY <1>1 DEF Settings
<1>5. PICK x \in Change : x = [effective |-> from, solo |-> asSolo]
  BY DEF Change
<1>6. /\ settings' = [solo |-> asSolo, rev |-> n] /\ modes' = Append(modes, x)
      /\ (policies' = <<from>> /\ policies = <<>>) \/ policies' = policies
      /\ Answer(c) /\ UNCHANGED <<today, days>>
  BY <1>2, <1>3, <1>4, <1>5 DEF ChangeMode
<1>7. policies' = policies \/ policies' = Append(policies, from)
  <2>1. <<from>> = Append(<<>>, from)
    OBVIOUS
  <2>2. CASE policies' = <<from>> /\ policies = <<>>
    BY <2>1, <2>2
  <2> QED BY <1>6, <2>2
<1>8. settings' \in Settings
  BY <1>6 DEF Settings
<1>9. policies' \in Seq(Nat)
  <2>1. policies \in Seq(Nat)
    BY DEF CalendarInv
  <2>2. Append(policies, from) \in Seq(Nat)
    BY <2>1
  <2> QED BY <1>7, <2>1, <2>2
<1>10. modes' \in Seq(Change) /\ Len(modes') # 0 /\ modes'[1].effective = 0
  BY <1>6 DEF CalendarInv
<1>11. CalendarInv'
  BY <1>6, <1>8, <1>9, <1>10, OnlyAnswered DEF CalendarInv
<1> QED BY <1>3, <1>5, <1>6, <1>7, <1>11

LEMMA SaveDaySound == ASSUME CalendarInv, NEW c \in Callers, SaveDay(c) PROVE CalendarInv'
<1>1. PICK q : q = request[c]
  OBVIOUS
<1>2. /\ Asks(q) /\ q.op = "Day" /\ Unchanged(q) /\ RangeFree(q.id, q.from, q.to)
      /\ days \in [DayIds -> {Unsaved} \cup SavedDay]
  BY <1>1 DEF CalendarInv, SaveDay
<1>3. PICK id \in DayIds, from \in Days, to \in Days, n \in Nat :
         id = q.id /\ from = q.from /\ to = q.to /\ n = q.rev + 1
  BY <1>2 DEF Asks
<1>4. PICK row \in SavedDay : row = [from |-> from, to |-> to, rev |-> n, cancelled |-> FALSE]
  BY DEF SavedDay
<1>5. /\ days' = [days EXCEPT ![id] = row] /\ Answer(c)
      /\ UNCHANGED <<today, settings, policies, modes>>
  BY <1>1, <1>3, <1>4 DEF SaveDay
<1>6. days' \in [DayIds -> {Unsaved} \cup SavedDay]
  BY <1>2, <1>5
<1>7. days'[id] = row /\ \A j \in DayIds \ {id} : days'[j] = days[j]
  BY <1>2, <1>5
<1>8. \A j \in DayIds \ {id} : InUse(j) => Apart(row, days[j]) /\ Apart(days[j], row)
  BY <1>2, <1>3, <1>4 DEF RangeFree, Apart
<1>9. DaysApart'
  BY <1>7, <1>8 DEF CalendarInv, DaysApart, InUse
<1> QED BY <1>5, <1>6, <1>9, AnswerSound DEF CalendarInv

LEMMA CancelDaySound == ASSUME CalendarInv, NEW c \in Callers, CancelDay(c) PROVE CalendarInv'
<1>1. PICK q : q = request[c]
  OBVIOUS
<1>2. /\ Asks(q) /\ q.op = "Cancel" /\ Unchanged(q)
      /\ days \in [DayIds -> {Unsaved} \cup SavedDay]
  BY <1>1 DEF CalendarInv, CancelDay
<1>3. PICK id \in DayIds : id = q.id /\ days[id].rev >= 0
  BY <1>2 DEF Asks, Unchanged
<1>4. days[id] \in SavedDay
  <2>1. Unsaved.rev = -1
    BY DEF Unsaved
  <2> QED BY <1>2, <1>3, <2>1
<1>5. PICK n \in Nat : n = days[id].rev + 1
  BY <1>4 DEF SavedDay
<1>6. PICK row : row = [days[id] EXCEPT !.cancelled = TRUE, !.rev = n]
  OBVIOUS
<1>7. row \in SavedDay /\ row.cancelled = TRUE
  BY <1>4, <1>6 DEF SavedDay
<1>8. /\ days' = [days EXCEPT ![id] = row] /\ Answer(c)
      /\ UNCHANGED <<today, settings, policies, modes>>
  BY <1>1, <1>2, <1>3, <1>5, <1>6 DEF CancelDay
<1>9. days' \in [DayIds -> {Unsaved} \cup SavedDay]
  BY <1>2, <1>7, <1>8
<1>10. days'[id] = row /\ \A j \in DayIds \ {id} : days'[j] = days[j]
  BY <1>2, <1>8
<1>11. DaysApart'
  BY <1>7, <1>10 DEF CalendarInv, DaysApart, InUse
<1> QED BY <1>8, <1>9, <1>11, AnswerSound DEF CalendarInv

\* A step that neither grants a request about policies or modes nor asks for one
LEMMA OtherSteps ==
    ASSUME CalendarInv, UNCHANGED <<policies, modes, days, request>>,
           today' \in Days, settings' \in Settings
    PROVE  CalendarInv'
<1>1. DaysApart'
  BY DEF CalendarInv, DaysApart, InUse
<1> QED BY <1>1 DEF CalendarInv

LEMMA AskSound ==
    ASSUME CalendarInv, NEW c \in Callers,
           \/ \E d \in Days : AskSettings(c, d) \/ AskTimeOff(c, d)
           \/ AskMode(c)
           \/ \E i \in DayIds : AskCancel(c, i) \/ \E from, to \in Days : AskDay(c, i, from, to)
    PROVE  CalendarInv' /\ UNCHANGED <<policies, modes>>
<1>1. /\ today \in Nat /\ settings \in Settings
      /\ days \in [DayIds -> {Unsaved} \cup SavedDay]
  BY DEF CalendarInv, Days
<1>2. \A i \in DayIds : days[i].rev \in Int /\ days[i].rev >= -1 /\ (InUse(i) => days[i].rev >= 0)
  <2> SUFFICES ASSUME NEW i \in DayIds
               PROVE  /\ days[i].rev \in Int /\ days[i].rev >= -1
                      /\ InUse(i) => days[i].rev >= 0
    OBVIOUS
  <2>1. CASE days[i] = Unsaved
    <3>1. Unsaved.rev = -1
      BY DEF Unsaved
    <3> QED BY <2>1, <3>1 DEF InUse
  <2>2. CASE days[i] \in SavedDay
    BY <2>2 DEF SavedDay
  <2> QED BY <1>1, <2>1, <2>2
<1>3. ASSUME NEW d \in Days, AskSettings(c, d) PROVE \E q : Asks(q) /\ Wait(c, q)
  <2>1. PICK q : q = [op |-> "Settings", effective |-> d, rev |-> settings.rev, asked |-> today]
    OBVIOUS
  <2>2. Asks(q)
    BY <1>3, <2>1 DEF Asks, AskSettings, Days
  <2> QED BY <1>3, <2>1, <2>2 DEF AskSettings
<1>4. ASSUME NEW d \in Days, AskTimeOff(c, d) PROVE \E q : Asks(q) /\ Wait(c, q)
  <2>1. PICK q : q = [op |-> "TimeOff", day |-> d]
    OBVIOUS
  <2>2. Asks(q)
    BY <2>1 DEF Asks
  <2> QED BY <1>4, <2>1, <2>2 DEF AskTimeOff
<1>5. ASSUME AskMode(c) PROVE \E q : Asks(q) /\ Wait(c, q)
  <2>1. PICK b \in BOOLEAN : b = ~settings.solo
    BY <1>1 DEF Settings
  <2>2. PICK q : q = [op |-> "Mode", rev |-> settings.rev, solo |-> b, history |-> Used]
    OBVIOUS
  <2>3. Asks(q)
    BY <2>2 DEF Asks
  <2> QED BY <1>5, <2>1, <2>2, <2>3 DEF AskMode
<1>6. ASSUME NEW i \in DayIds, AskCancel(c, i) PROVE \E q : Asks(q) /\ Wait(c, q)
  <2>1. PICK q : q = [op |-> "Cancel", id |-> i, rev |-> days[i].rev]
    OBVIOUS
  <2>2. Asks(q)
    BY <1>2, <1>6, <2>1 DEF Asks, AskCancel
  <2> QED BY <1>6, <2>1, <2>2 DEF AskCancel
<1>7. ASSUME NEW i \in DayIds, NEW from \in Days, NEW to \in Days, AskDay(c, i, from, to)
      PROVE  \E q : Asks(q) /\ Wait(c, q)
  <2>1. PICK q : q = [op |-> "Day", id |-> i, from |-> from, to |-> to, rev |-> days[i].rev]
    OBVIOUS
  <2>2. Asks(q)
    BY <1>2, <2>1 DEF Asks
  <2> QED BY <1>7, <2>1, <2>2 DEF AskDay
<1>8. PICK q : Asks(q) /\ Wait(c, q)
  BY <1>3, <1>4, <1>5, <1>6, <1>7
<1> QED BY <1>8, WaitSound DEF Wait

\* A policy is saved, the mode is changed, or neither.
LEMMA CalendarSteps ==
    ASSUME CalendarInv, CalendarNext
    PROVE  /\ CalendarInv'
           /\ \/ UNCHANGED <<policies, modes>>
              \/ \E c \in Callers : SaveSettings(c) \/ ChangeMode(c)
<1>1. ASSUME NEW c \in Callers, SaveTimeOff(c) \/ Refuse(c)
      PROVE  CalendarInv' /\ UNCHANGED <<policies, modes>>
  <2>1. Answer(c) /\ UNCHANGED <<today, settings, policies, modes, days>>
    BY <1>1 DEF SaveTimeOff, Refuse
  <2> QED BY <2>1, OnlyAnswered DEF CalendarInv
<1>2. ASSUME CompleteSetup \/ DayPasses \/ \E d \in Days : Work(d)
      PROVE  CalendarInv' /\ UNCHANGED <<policies, modes>>
  <2>1. /\ UNCHANGED <<policies, modes, days, request>>
        /\ settings' = settings \/ settings' = [settings EXCEPT !.rev = @ + 1]
        /\ today' = today \/ (today < LastDay /\ today' = today + 1)
    BY <1>2 DEF CompleteSetup, DayPasses, Work
  <2>2. settings' \in Settings
    BY <2>1, NextRevision DEF CalendarInv
  <2>3. today' \in Days
    BY <2>1, PersonalCalendarAssumption DEF CalendarInv, Days
  <2> QED BY <2>1, <2>2, <2>3, OtherSteps
<1>3. ASSUME NEW c \in Callers, SaveDay(c) \/ CancelDay(c)
      PROVE  CalendarInv' /\ UNCHANGED <<policies, modes>>
  <2>1. CalendarInv'
    BY <1>3, SaveDaySound, CancelDaySound
  <2> QED BY <1>3, <2>1 DEF SaveDay, CancelDay
<1>4. CASE \/ CompleteSetup \/ DayPasses \/ \E d \in Days : Work(d)
  BY <1>2, <1>4
<1>5. CASE \E c \in Callers :
             \/ \E d \in Days : AskSettings(c, d) \/ AskTimeOff(c, d)
             \/ AskMode(c)
             \/ \E i \in DayIds :
                  AskCancel(c, i) \/ \E from, to \in Days : AskDay(c, i, from, to)
  BY <1>5, AskSound
<1>6. CASE \E c \in Callers : SaveTimeOff(c) \/ Refuse(c)
  BY <1>1, <1>6
<1>7. CASE \E c \in Callers : SaveDay(c) \/ CancelDay(c)
  BY <1>3, <1>7
<1>8. CASE \E c \in Callers : SaveSettings(c) \/ ChangeMode(c)
  BY <1>8, SaveSettingsSound, ChangeModeSound
<1> QED BY <1>4, <1>5, <1>6, <1>7, <1>8 DEF CalendarNext

\* Policies, modes, personal days and the requests that wait are well formed, the first
\* mode holds from the first day, and no personal day meets another (installation.service.ts).
THEOREM CalendarInvariant == CalendarSpec => []CalendarInv
<1>1. CalendarInit => CalendarInv
  <2> SUFFICES ASSUME CalendarInit PROVE CalendarInv
    OBVIOUS
  <2>1. today \in Days /\ settings \in Settings /\ settings.solo \in BOOLEAN
    BY PersonalCalendarAssumption DEF CalendarInit, Days, Settings
  <2>2. PICK x \in Change : x = [effective |-> 0, solo |-> settings.solo]
    BY <2>1 DEF Change
  <2>3. modes = <<x>> /\ x.effective = 0
    BY <2>2 DEF CalendarInit
  <2>4. modes \in Seq(Change) /\ Len(modes) # 0 /\ modes[1].effective = 0
    BY <2>3
  <2>5. days \in [DayIds -> {Unsaved} \cup SavedDay] /\ DaysApart
    BY DEF CalendarInit, DaysApart, InUse
  <2>6. request = [c \in Callers |-> request[c]] /\ \A c \in Callers : Asks(request[c])
    <3>1. Asks(Idle)
      BY DEF Asks, Idle
    <3> QED BY <3>1 DEF CalendarInit
  <2> QED BY <2>1, <2>4, <2>5, <2>6 DEF CalendarInv, CalendarInit
<1>2. CalendarInv /\ UNCHANGED calendar => CalendarInv'
  <2> SUFFICES ASSUME CalendarInv, UNCHANGED calendar PROVE CalendarInv'
    OBVIOUS
  <2>1. UNCHANGED <<today, settings, policies, modes, days, request>>
    BY DEF calendar
  <2> QED BY <2>1, OtherSteps DEF CalendarInv
<1>3. CalendarInv /\ [CalendarNext]_calendar => CalendarInv'
  BY <1>2, CalendarSteps
<1> QED BY <1>1, <1>3, PTL DEF CalendarSpec

-----------------------------------------------------------------------------
(* History is final *)

\* A day of the past is earlier than what a request on current grounds makes effective.
LEMMA EffectiveLater ==
    ASSUME CalendarInv, NEW c \in Callers, ~Outdated(c), NEW d \in Past
    PROVE  /\ d \in Nat /\ d <= today /\ today \in Nat
           /\ SaveSettings(c) => request[c].effective \in Nat /\ request[c].effective > d
           /\ ChangeMode(c) /\ d = today => today \in request[c].history
<1>1. d \in Nat /\ today \in Nat /\ d <= today /\ today \in Days
  BY DEF CalendarInv, Past, Days
<1>2. d = today => History(today)
  BY DEF Past, History
<1>3. ASSUME SaveSettings(c) PROVE request[c].effective \in Nat /\ request[c].effective > d
  <2>1. /\ request[c].effective \in Nat /\ request[c].effective >= request[c].asked
        /\ request[c].asked = today
    BY <1>3 DEF CalendarInv, Asks, SaveSettings, Outdated
  <2>2. request[c].effective = today => ~History(today)
    BY <1>3 DEF SaveSettings, MayTakeEffect
  <2> QED BY <1>1, <1>2, <2>1, <2>2
<1>4. ASSUME ChangeMode(c), d = today PROVE today \in request[c].history
  <2>1. request[c].history = Used
    BY <1>4 DEF ChangeMode, Outdated
  <2> QED BY <1>1, <1>2, <1>4, <2>1 DEF Used
<1> QED BY <1>1, <1>3, <1>4

LEMMA AccountingFinal ==
    ASSUME CalendarInv, CalendarNext, NEW d \in Past,
           \A c \in Callers : Outdated(c) => request'[c] = request[c]
    PROVE  Accounting(d)' = Accounting(d)
<1>1. /\ policies \in Seq(Nat) /\ modes \in Seq(Change) /\ Len(modes) # 0
      /\ modes[1].effective = 0 /\ request = [c \in Callers |-> request[c]]
  BY DEF CalendarInv
<1>2. CASE UNCHANGED <<policies, modes>>
  BY <1>2 DEF Accounting
<1>3. ASSUME NEW c \in Callers, SaveSettings(c) PROVE Accounting(d)' = Accounting(d)
  <2>1. request'[c] # request[c]
    <3>1. request'[c] = Idle /\ Idle.op = "Idle"
      BY <1>1, <1>3 DEF SaveSettings, Answer, Idle
    <3> QED BY <1>3, <3>1 DEF SaveSettings
  <2>2. /\ request[c].effective \in Nat /\ request[c].effective > d /\ d \in Nat
        /\ policies' = Append(policies, request[c].effective) /\ modes' = modes
    BY <1>3, <2>1, EffectiveLater, SaveSettingsSound
  <2>3. PolicyInForce(policies', d) = PolicyInForce(policies, d)
    BY <1>1, <2>2, PolicyOfEarlier
  <2> QED BY <2>2, <2>3 DEF Accounting
<1>4. ASSUME NEW c \in Callers, ChangeMode(c) PROVE Accounting(d)' = Accounting(d)
  <2>1. request'[c] # request[c]
    <3>1. request'[c] = Idle /\ Idle.op = "Idle"
      BY <1>1, <1>4 DEF ChangeMode, Answer, Idle
    <3> QED BY <1>4, <3>1 DEF ChangeMode
  <2>2. PICK from \in Nat, asSolo \in BOOLEAN :
           /\ from = IF today \in request[c].history THEN today + 1 ELSE today
           /\ modes' = Append(modes, [effective |-> from, solo |-> asSolo])
           /\ policies' = policies \/ policies' = Append(policies, from)
    BY <1>4, ChangeModeSound
  <2>3. d \in Nat /\ from > d
    BY <1>4, <2>1, <2>2, EffectiveLater
  <2>4. PolicyInForce(policies', d) = PolicyInForce(policies, d)
    <3>1. PolicyInForce(Append(policies, from), d) = PolicyInForce(policies, d)
      BY <1>1, <2>3, PolicyOfEarlier
    <3> QED BY <2>2, <3>1
  <2>5. PICK x \in Change : x = [effective |-> from, solo |-> asSolo]
    BY DEF Change
  <2>6. x.effective > d /\ modes' = Append(modes, x)
    BY <2>2, <2>3, <2>5
  <2>7. AccountedSolo(modes', d) = AccountedSolo(modes, d)
    BY <1>1, <2>3, <2>6, ModeOfEarlier
  <2> QED BY <2>4, <2>7 DEF Accounting
<1> QED BY <1>2, <1>3, <1>4, CalendarSteps

\* The target, the calendar and the mode of a day with recorded work are final, and
\* personal days never overlap, however requests wait and are granted (HistoryIsFinal).
THEOREM HistoryStays == CalendarSpec => HistoryIsFinal
<1> DEFINE Overlapless ==
              \A i, j \in DayIds : i # j /\ InUse(i) /\ InUse(j) =>
                 days[i].to < days[j].from \/ days[j].to < days[i].from
           Final == \A d \in Past :
                      (\A c \in Callers : Outdated(c) => request'[c] = request[c]) =>
                         Accounting(d)' = Accounting(d)
<1>1. CalendarInv => Overlapless
  BY DEF CalendarInv, DaysApart, Apart
<1>2. CalendarInv /\ [CalendarNext]_calendar => [Final]_calendar
  BY AccountingFinal
<1>3. CalendarSpec => []Overlapless /\ [][Final]_calendar
  <2> HIDE DEF Overlapless, Final
  <2> QED BY <1>1, <1>2, CalendarInvariant, PTL DEF CalendarSpec
<1> QED BY <1>3 DEF HistoryIsFinal
=============================================================================
