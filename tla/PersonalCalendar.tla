-------------------------- MODULE PersonalCalendar --------------------------
(***************************************************************************)
(* The owner's calendar in Solo: policies that take effect on a day,       *)
(* personal days, the mode in which each day is accounted, and the work    *)
(* and leave that make a day history (apps/api/src/app/installation).      *)
(*                                                                         *)
(* Policies and days are saved under the advisory lock 7261500: a request  *)
(* is checked as far as it can be (Ask...), waits, and is one step.  A     *)
(* change of mode is Serializable: it sees the calendar of the moment it   *)
(* began to wait, and fails if the settings were changed meanwhile.        *)
(*                                                                         *)
(* A definition whose name ends in _Fault is a plausible mistake in the    *)
(* definition below it; nothing uses it.                                   *)
(***************************************************************************)
EXTENDS Integers, Sequences, FiniteSets

CONSTANTS
    Callers,     \* requests that can wait together
    DayIds,      \* personal days that may come to exist
    LastDay,     \* bound: the last calendar day
    MaxPolicies, \* bound: policies saved
    MaxRevision  \* bound: revisions of the settings and of a day

ASSUME PersonalCalendarAssumption ==
    LastDay \in Nat /\ MaxPolicies \in Nat /\ MaxRevision \in Nat

VARIABLES
    today,
    settings,  \* InstallationSettings: solo and revision
    policies,  \* the SoloPolicy table, as the day each takes effect, in order of creation
    modes,     \* the first mode and the ModeChanged events: when the mode's accounting begins
    days,      \* the PersonalDay table
    worked,    \* days with completed attendance
    leave,     \* days of Team absences and approved leave
    request    \* the requests that wait

calendar == <<today, settings, policies, modes, days, worked, leave, request>>

-----------------------------------------------------------------------------
(* The calendar *)

Days == 0..LastDay
Unsaved == [rev |-> -1]
Waiting(c) == request[c].op # "Idle"
Idle == [op |-> "Idle"]

InUse(i) == days[i] # Unsaved /\ ~days[i].cancelled
Covers(row, d) == d \in row.from..row.to

\* Only attendance is looked for.
History_Fault(d) == d \in worked

\* hasAccountingHistory: completed work or time off, personal or from Team
History(d) == d \in worked \cup leave \/ \E i \in DayIds : InUse(i) /\ Covers(days[i], d)

Used == {d \in Days : History(d)}

\* policyFor: of the latest effective policies the one that was saved last; 0 is none
PolicyInForce(ps, d) ==
    LET past == {i \in DOMAIN ps : ps[i] <= d}
        latest == {i \in past : \A j \in past : ps[j] <= ps[i]}
    IN IF past = {} THEN 0 ELSE CHOOSE i \in latest : \A j \in latest : j <= i

\* The mode whose rules account a day: that of the last change in effect
AccountedSolo(ms, d) ==
    LET past == {i \in DOMAIN ms : ms[i].effective <= d}
    IN ms[CHOOSE i \in past : \A j \in past : j <= i].solo

Wait(c, record) ==
    /\ request[c] = Idle /\ request' = [request EXCEPT ![c] = record]
    /\ UNCHANGED <<today, settings, policies, modes, days, worked, leave>>

Answer(c) == request' = [request EXCEPT ![c] = Idle]

\* Refused, timed out or disconnected
Refuse(c) ==
    /\ Waiting(c) /\ Answer(c)
    /\ UNCHANGED <<today, settings, policies, modes, days, worked, leave>>

-----------------------------------------------------------------------------
(* Policies *)

\* saveSettings up to the lock: `effective` is no past day.
AskSettings(c, effective) ==
    /\ settings.solo /\ effective >= today
    /\ Wait(c, [op |-> "Settings", effective |-> effective, rev |-> settings.rev, asked |-> today])

\* The lock is thought to be enough.
MayTakeEffect_Fault(effective) == TRUE

\* "Once a day has completed work or a personal calendar entry, protect its
\* historical target/calendar."
MayTakeEffect(effective) == effective = today => ~History(today)

SaveSettings(c) ==
    LET q == request[c]
    IN /\ q.op = "Settings" /\ settings.solo
       /\ q.rev = settings.rev /\ MayTakeEffect(q.effective)
       /\ settings.rev < MaxRevision /\ Len(policies) < MaxPolicies
       /\ settings' = [settings EXCEPT !.rev = @ + 1]
       /\ policies' = Append(policies, q.effective)
       /\ Answer(c) /\ UNCHANGED <<today, modes, days, worked, leave>>

\* completeSetup changes the revision alone.
CompleteSetup ==
    /\ settings.solo /\ settings.rev < MaxRevision
    /\ settings' = [settings EXCEPT !.rev = @ + 1]
    /\ UNCHANGED <<today, policies, modes, days, worked, leave, request>>

-----------------------------------------------------------------------------
(* The mode *)

\* changeMode when it begins to wait: its snapshot is taken
AskMode(c) ==
    Wait(c, [op |-> "Mode", rev |-> settings.rev, solo |-> ~settings.solo, history |-> Used])

\* A day that is history is accounted to its end as it was.
ChangeMode(c) ==
    LET q == request[c]
        from == IF today \in q.history THEN today + 1 ELSE today
    IN /\ q.op = "Mode" /\ q.rev = settings.rev /\ settings.rev < MaxRevision
       /\ settings' = [solo |-> q.solo, rev |-> settings.rev + 1]
       /\ modes' = Append(modes, [effective |-> from, solo |-> q.solo])
       /\ IF q.solo /\ policies = <<>>
          THEN MaxPolicies > 0 /\ policies' = <<from>>
          ELSE UNCHANGED policies
       /\ Answer(c) /\ UNCHANGED <<today, days, worked, leave>>

-----------------------------------------------------------------------------
(* Personal days *)

\* The day as the client last saw it, or a new one
AskDay(c, i, from, to) ==
    /\ settings.solo /\ from <= to
    /\ days[i] # Unsaved => ~days[i].cancelled
    /\ Wait(c, [op |-> "Day", id |-> i, from |-> from, to |-> to, rev |-> days[i].rev])

AskCancel(c, i) ==
    /\ settings.solo /\ InUse(i)
    /\ Wait(c, [op |-> "Cancel", id |-> i, rev |-> days[i].rev])

\* The range is compared with where the day lay before.
RangeFree_Fault(i, from, to) ==
    /\ \A j \in DayIds \ {i} : InUse(j) => to < days[j].from \/ days[j].to < to
    /\ \A d \in from..to : d \notin leave

\* No other personal day, and no time off of the days in Team
RangeFree(i, from, to) ==
    /\ \A j \in DayIds \ {i} : InUse(j) => to < days[j].from \/ days[j].to < from
    /\ \A d \in from..to : d \notin leave

Unchanged(q) == days[q.id].rev = q.rev /\ (q.rev >= 0 => ~days[q.id].cancelled)

SaveDay(c) ==
    LET q == request[c]
    IN /\ q.op = "Day" /\ settings.solo
       /\ Unchanged(q) /\ RangeFree(q.id, q.from, q.to) /\ q.rev < MaxRevision
       /\ days' = [days EXCEPT ![q.id] = [from |-> q.from, to |-> q.to, rev |-> q.rev + 1,
                                          cancelled |-> FALSE]]
       /\ Answer(c) /\ UNCHANGED <<today, settings, policies, modes, worked, leave>>

CancelDay(c) ==
    LET q == request[c]
    IN /\ q.op = "Cancel" /\ settings.solo /\ Unchanged(q)
       /\ days' = [days EXCEPT ![q.id].cancelled = TRUE, ![q.id].rev = @ + 1]
       /\ Answer(c) /\ UNCHANGED <<today, settings, policies, modes, worked, leave>>

-----------------------------------------------------------------------------
(* What the other components write *)

\* An entry of a day is closed, added later, or voided.
Work(d) ==
    /\ d <= today
    /\ worked' = IF d \in worked THEN worked \ {d} ELSE worked \cup {d}
    /\ UNCHANGED <<today, settings, policies, modes, days, leave, request>>

\* An absence or the approval of leave: Solo admits no such request, but one that
\* was admitted in Team may end in Solo.
AskTimeOff(c, d) == ~settings.solo /\ Wait(c, [op |-> "TimeOff", day |-> d])

SaveTimeOff(c) ==
    LET d == request[c].day
    IN /\ request[c].op = "TimeOff"
       /\ leave' = IF d \in leave THEN leave \ {d} ELSE leave \cup {d}
       /\ Answer(c) /\ UNCHANGED <<today, settings, policies, modes, days, worked>>

DayPasses ==
    /\ today < LastDay /\ today' = today + 1
    /\ UNCHANGED <<settings, policies, modes, days, worked, leave, request>>

-----------------------------------------------------------------------------

CalendarInit ==
    /\ today = 0 /\ settings \in [solo: BOOLEAN, rev: {0}]
    /\ policies = <<>> /\ modes = <<[effective |-> 0, solo |-> settings.solo]>>
    /\ days = [i \in DayIds |-> Unsaved]
    /\ worked = {} /\ leave = {}
    /\ request = [c \in Callers |-> Idle]

CalendarNext ==
    \/ \E c \in Callers :
         \/ \E d \in Days : AskSettings(c, d) \/ AskTimeOff(c, d)
         \/ SaveSettings(c) \/ AskMode(c) \/ ChangeMode(c) \/ SaveTimeOff(c) \/ Refuse(c)
         \/ \E i \in DayIds :
              AskCancel(c, i) \/ \E from, to \in Days : AskDay(c, i, from, to)
         \/ SaveDay(c) \/ CancelDay(c)
    \/ CompleteSetup
    \/ \E d \in Days : Work(d)
    \/ DayPasses

CalendarSpec == CalendarInit /\ [][CalendarNext]_calendar

-----------------------------------------------------------------------------
(* Properties *)

\* Days on which somebody worked or was off
Past == {d \in 0..today : d \in worked \cup leave \/ \E i \in DayIds : InUse(i) /\ Covers(days[i], d)}

Accounting(d) == <<PolicyInForce(policies, d), AccountedSolo(modes, d)>>

\* A request that is granted on grounds that have changed since: it has waited past
\* midnight, or work was recorded while it waited for the lock.
Outdated(c) ==
    LET q == request[c]
    IN \/ q.op = "Settings" /\ q.asked # today
       \/ q.op = "Mode" /\ q.history # Used

\* The target, the calendar and the mode by which a day with recorded work is
\* accounted are final, whatever is saved later and in whatever order, and personal
\* days never overlap (installation.service.ts, hasAccountingHistory and saveDay).
\* A request on outdated grounds is the exception.
HistoryIsFinal ==
    /\ [](\A i, j \in DayIds : i # j /\ InUse(i) /\ InUse(j) =>
             days[i].to < days[j].from \/ days[j].to < days[i].from)
    /\ [][\A d \in Past : (\A c \in Callers : Outdated(c) => request'[c] = request[c]) =>
             Accounting(d)' = Accounting(d)]_calendar
=============================================================================
