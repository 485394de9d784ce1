------------------------------ MODULE MCRecords ------------------------------
(* Statements, what time is booked on, the owner's calendar and the records   *)
(* about employees for TLC, each alone in a part of one state graph.          *)
EXTENDS MCRules, Projects, PersonalCalendar, StaffRecords

VARIABLE part

vars == <<statements, targets, calendar, records, part>>

Parts == {"statements", "projects", "days", "policies", "absences", "schedules", "allowances", "files"}

MCInit ==
    /\ part \in Parts
    /\ IF part = "statements" THEN StatementsInit
       ELSE query = [kind |-> "none"] /\ answer = NoAnswer
    /\ TargetsInit /\ CalendarInit /\ RecordsInit
    /\ part # "projects" => solo
    /\ part \notin {"days", "policies"} => settings.solo

Statement == part = "statements" /\ StatementsNext /\ UNCHANGED <<targets, calendar, records>>

BossOfAll == [e \in Workers |-> CHOOSE b \in Workers : TRUE]

Bookings == part = "projects" /\ TargetsNext /\ UNCHANGED <<statements, calendar, records>>

\* Saved days meet each other and Team's time off in one part, and policies and
\* modes meet history in the other.
Waits(ops) == \A c \in Callers : request'[c].op \in ops \cup {"Idle", "Day", "TimeOff"}
OneDay == \A i, j \in DayIds : days'[i] # Unsaved /\ days'[j] # Unsaved => i = j

DaysPart ==
    /\ part = "days"
    /\ CalendarNext /\ Waits({"Cancel"}) /\ worked' = worked
    /\ UNCHANGED <<statements, targets, records>>
PoliciesPart ==
    /\ part = "policies"
    /\ CalendarNext /\ Waits({"Settings", "Mode"}) /\ OneDay
    /\ UNCHANGED <<statements, targets, records>>

Records ==
    /\ \/ part = "absences" /\ AbsencesNext
       \/ part = "schedules" /\ SchedulesNext
       \/ part = "allowances" /\ AllowancesNext
       \/ part = "files" /\ FilesNext
    /\ UNCHANGED <<statements, targets, calendar>>

MCNext == (Statement \/ Bookings \/ DaysPart \/ PoliciesPart \/ Records) /\ UNCHANGED part

Symmetric == Permutations(Callers) \cup Permutations(Handlers)

MCSpec == MCInit /\ [][MCNext]_vars
=============================================================================
