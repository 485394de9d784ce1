------------------------------- MODULE MCRules -------------------------------
(* Statements for TLC: every request of a set is answered once.  A minute has *)
(* 720 shares, a day six minutes; 2026 begins on a Thursday.                  *)
EXTENDS Reports

NewYear == DayOf(2026, 1, 1)
Monday == NewYear + 4
Rules == {[after |-> 2, rest |-> 1], [after |-> 4, rest |-> 2]}
BW == [state |-> "BW", dates |-> {}]
OwnDates == [state |-> "NONE", dates |-> {Monday + 2}]

Row(id, in, out, group) ==
    [id |-> id, in |-> Midnight(Monday) + in * Minute,
     out |-> IF out = Open THEN Open ELSE Midnight(Monday) + out * Minute,
     rules |-> Rules, group |-> group, voided |-> FALSE, status |-> "Approved",
     customer |-> 0, project |-> 0, order |-> 0, billable |-> FALSE]

Off(kind, from, to, halfStart, halfEnd) ==
    [kind |-> kind, from |-> from, to |-> to, halfStart |-> halfStart, halfEnd |-> halfEnd,
     state |-> "Approved", recorded |-> 0]

\* Two years of leave for a year's carry-over, which expires on the Wednesday
Policy == [target |-> TRUE, weekly |-> 10, mask |-> MondayToFriday, leave |-> TRUE,
           annual |-> 4 * Whole, carry |-> 2 * Whole, expires |-> Monday + 2, adjustment |-> 0,
           year |-> 2026, from |-> NewYear - 9, calendar |-> [state |-> "NONE", dates |-> {}], hints |-> TRUE,
           windows |-> {[start |-> 1, end |-> 3, weekdays |-> 1..5],
                        [start |-> 3, end |-> 5, weekdays |-> {1, 3}]},
           frameStart |-> 1, frameEnd |-> LastMinute, blocks |-> TRUE, rules |-> Rules]
Stricter == [Policy EXCEPT !.from = Monday + 1, !.mask = 2..6, !.hints = FALSE]

Books ==
    [entries |-> {}, absences |-> {}, requests |-> {}, days |-> {},
     policies |-> <<>>, modes |-> <<>>, mask |-> MondayToFriday, calendar |-> BW,
     windows |-> {[start |-> 1, end |-> 3, weekdays |-> 1..5]}, trusted |-> FALSE,
     weekly |-> 10, rules |-> Rules, blocks |-> TRUE, frame |-> [start |-> 1, end |-> 5],
     opening |-> Minute, startDate |-> NewYear - 9, today |-> Monday + 5,
     allowance |-> [base |-> 8, carry |-> 2, adjustment |-> 0, expires |-> Monday]]

AccountQueries ==
    {[kind |-> "account",
      books |-> [Books EXCEPT !.startDate = start, !.today = today, !.absences = absent,
                              !.requests = leave, !.entries = {Row(1, 0, 3, 0), Row(2, 7, 8, 0)}]] :
       start \in {NewYear - 9, Monday + 2}, today \in {Monday + 2, Monday + 9},
       absent \in {{}} \cup {{Off(kind, from, from + length, FALSE, FALSE)} :
                      kind \in {"Sickness", "Flextime"}, from \in {NewYear - 3, Monday},
                      length \in {0, 3}},
       leave \in {{}} \cup {{[Off("Vacation", from, from + length, h, k) EXCEPT !.state = state]} :
                      from \in {Monday + 1, Monday + 4}, length \in 0..3, h \in BOOLEAN,
                      k \in BOOLEAN, state \in {"Approved", "PendingManager"}}}

SummaryQueries ==
    {[kind |-> "summary", from |-> NewYear + 1, to |-> to,
      books |-> [Books EXCEPT !.policies = policies, !.modes = modes, !.days = day,
                              !.requests = leave]] :
       to \in Monday..(Monday + 4),
       policies \in {<<Policy>>, <<Policy, Stricter>>},
       modes \in {<<>>, <<[effective |-> Monday + 2, before |-> FALSE, after |-> TRUE]>>},
       day \in {{Off(kind, from, from + length, h, FALSE)} :
                  kind \in {"Vacation", "Sickness"}, from \in {Monday, Monday + 2},
                  length \in {0, 2}, h \in BOOLEAN},
       leave \in {{}} \cup {{[Off("Vacation", from, from + 1, FALSE, FALSE) EXCEPT !.recorded = n]} :
                  from \in {NewYear + 1, Monday + 1}, n \in {0, 2, 4}}}

TwoRows ==
    {{[Row(1, in, in + pair[1], g[1]) EXCEPT !.project = 1, !.billable = TRUE],
      [Row(2, in + pair[1] + pause, in + pair[1] + pause + pair[2], g[2])
         EXCEPT !.status = status, !.billable = FALSE]} :
       in \in {1, 3, 5}, pause \in {0, 2}, g \in {<<1, 1>>, <<0, 0>>, <<1, 2>>},
       pair \in {<<1, 1>>, <<1, 2>>, <<1, 3>>, <<2, 1>>, <<3, 3>>},
       status \in {"Approved", "Rejected"}}

\* The first row ends, and the second begins, half a minute later.
HalfMinutes ==
    {{IF e.id = 1 THEN [e EXCEPT !.out = @ + Minute \div 2]
                  ELSE [e EXCEPT !.in = @ + Minute \div 2] : e \in rows} :
       rows \in {r \in TwoRows : \A e \in r : e.id = 1 => e.out - e.in < 3 * Minute}}

ReportQueries ==
    {[kind |-> "report", from |-> Monday, to |-> to, filter |-> f,
      books |-> [Books EXCEPT !.entries = rows \cup timer]] :
       rows \in TwoRows \cup HalfMinutes, to \in {Monday, Monday + 1},
       timer \in {{}, {Row(3, 11, Open, 3)}},
       f \in {NoFilter, [NoFilter EXCEPT !.project = 1], [NoFilter EXCEPT !.unassigned = "true"],
              [NoFilter EXCEPT !.billable = "false"]}}

HintQueries ==
    {[kind |-> kind, from |-> Monday, to |-> Monday + 1,
      books |-> [Books EXCEPT !.entries = rows, !.policies = policies, !.days = day,
                              !.today = Monday + 2]] :
       kind \in {"hints", "violations"},
       rows \in TwoRows \cup HalfMinutes \cup {{Row(1, 0, 6, 1), Row(2, 2, 3, 2)}},
       policies \in {<<Policy>>, <<Policy, Stricter>>, <<[Policy EXCEPT !.calendar = OwnDates]>>},
       day \in {{}, {Off("Sickness", Monday + 1, Monday + 1, FALSE, TRUE)}}}

ExportQueries ==
    {[kind |-> "export", from |-> Midnight(Monday), to |-> Midnight(Monday + 1), page |-> page,
      size |-> size, books |-> [Books EXCEPT !.entries = rows]] :
       page \in 0..3, size \in 0..2,
       rows \in {{Row(1, 0, 2, 0), Row(2, 2, 3, 0), Row(3, 3, 6, 0)},
                 {Row(1, 0, 2, 0), Row(2, 0, 3, 0), Row(3, 3, 6, 0)}}}

\* A project with an order, beside another one and time without any
ProjectQueries ==
    {[kind |-> "project", project |-> 1, solo |-> solo,
      from |-> Midnight(Monday), to |-> Midnight(Monday + 1),
      books |-> [Books EXCEPT !.entries =
                   {[e EXCEPT !.order = IF e.id = 1 THEN order ELSE 0] : e \in rows} \cup more]] :
       solo \in BOOLEAN, rows \in TwoRows \cup HalfMinutes, order \in {0, 1},
       more \in {{}, {[Row(3, -3, -1, 1) EXCEPT !.project = 1], [Row(4, -6, -4, 4) EXCEPT !.project = 2]}}}

Leave == Off("Vacation", Monday, Monday + 2, FALSE, TRUE)

DayQueries ==
    {[kind |-> "day", solo |-> solo, day |-> day, start |-> start,
      books |-> [Books EXCEPT !.policies = <<[Policy EXCEPT !.weekly = weekly]>>,
                              !.weekly = weekly, !.today = Monday + 3, !.startDate = Monday,
                              !.entries = rows, !.absences = off.absences,
                              !.requests = off.requests, !.days = off.days]] :
       solo \in BOOLEAN, day \in (Monday - 1)..(Monday + 4), start \in {0, 1, 2, 4}, weekly \in {0, 10, 13},
       rows \in {{}, {Row(1, -2, 1, 1)}, {Row(1, 5, 7, 1)}},
       off \in {[absences |-> a, requests |-> r, days |-> {}] :
                  a \in {{}, {Off("Sickness", Monday, Monday + 1, FALSE, FALSE)}},
                  r \in {{}, {Leave}, {[Leave EXCEPT !.kind = "TimeAdjustment", !.state = "PendingManager"]}}}
               \cup {[absences |-> {}, requests |-> {}, days |-> {Leave}]}}

BlockQueries ==
    {[kind |-> "block", rules |-> rules, net |-> n * Minute] : n \in 0..6,
       rules \in {r \in SUBSET [after : {0, 2, 4, 6}, rest : {0, 1, 2, 3}] :
                    Cardinality(r) <= 2 /\ ValidRules(r)}}

LeaveQueries ==
    {[kind |-> "leave", from |-> from, to |-> from + length, mask |-> mask, calendar |-> c,
      halfStart |-> h, halfEnd |-> k] :
       from \in NewYear..(NewYear + 6), length \in 0..7,
       mask \in {MondayToFriday, {1, 3, 6}}, c \in {BW, OwnDates}, h \in BOOLEAN, k \in BOOLEAN}

HolidayQueries ==
    {[kind |-> "holidays", year |-> year, state |-> state] :
       year \in 1990..2110, state \in {"NW", "SN"}}

MCQueries ==
    <<AccountQueries, SummaryQueries, ReportQueries, HintQueries, ProjectQueries,
      DayQueries, ExportQueries, BlockQueries, LeaveQueries, HolidayQueries>>

Calendars == <<HolidayQueries>>
=============================================================================
