------------------------------ MODULE Reports ------------------------------
(***************************************************************************)
(* Reports over time entries (apps/api/src/app/reports) and the export for *)
(* an ERP system (apps/api/src/app/integrations), made from the same rows  *)
(* as the statements.  An entry also names what it was booked on:          *)
(* customer, project and order (0 is none) and whether it is billable.     *)
(*                                                                         *)
(* A definition whose name ends in _Fault is a plausible mistake in the    *)
(* definition below it; nothing uses it.                                   *)
(***************************************************************************)
EXTENDS DailyBlocks

\* A filter of the report; 0 and "any" ask for nothing.
NoFilter == [customer |-> 0, project |-> 0, order |-> 0, unassigned |-> "any", billable |-> "any"]

Selected(e, f) ==
    /\ f.customer # 0 => e.customer = f.customer
    /\ CASE f.unassigned = "true" -> e.project = 0
         [] f.project # 0 -> e.project = f.project
         [] f.unassigned = "false" -> e.project # 0
         [] OTHER -> TRUE
    /\ f.order # 0 => e.order = f.order
    /\ f.billable # "any" => e.billable = (f.billable = "true")

\* Unassigned time has no customer, project or order to ask for.
ValidFilter(f) == f.unassigned = "true" => f.customer = 0 /\ f.project = 0 /\ f.order = 0

\* The break of a group is shared among the rows of the report alone.
Basis_Fault(b, rows) == rows

\* The rows whose groups must be complete for the break to be shared rightly
Basis(b, rows) ==
    rows \cup {e \in b.entries : /\ e.group \in {r.group : r \in rows} \ {0}
                                 /\ ~e.voided /\ e.status # "Rejected" /\ e.out # Open}

ReportRow(e, day, gross, rest) ==
    [id |-> e.id, date |-> day, gross |-> gross, rest |-> rest, net |-> gross - rest,
     billable |-> IF e.billable THEN gross - rest ELSE 0]

SoloRow(e, day, part, summary) ==
    ReportRow(e, day, Portion(summary.gross, e, part), Portion(summary.rest, e, part))

\* ReportsService.solo: a row for every day an entry touches in the period
SoloReport(b, from, to, f) ==
    LET entries == {e \in b.entries : /\ ~e.voided /\ e.status # "Rejected" /\ e.out # Open
                                      /\ e.in < Midnight(to + 1) /\ e.out > Midnight(from)
                                      /\ Selected(e, f)}
        rows(summaries) ==
            UNION {{SoloRow(e, d, Within(e, d, d), summaries[e.id]) :
                      d \in {d \in from..to : Within(e, d, d).in < Within(e, d, d).out}} :
                     e \in {e \in entries : Counted(e, Open)}}
    IN rows(CaptureSummaries(Basis(b, entries), Open))

OpenTimers(b, to, f) ==
    Cardinality({e \in b.entries : /\ ~e.voided /\ e.status # "Rejected" /\ e.out = Open
                                   /\ e.in < Midnight(to + 1) /\ Selected(e, f)})

\* buildWorkingTimes: a row for every entry that begins in the period
WorkingTimes(b, from, to) ==
    LET entries == {e \in b.entries : /\ ~e.voided /\ e.status # "Rejected" /\ e.out # Open
                                      /\ DateOf(e.in) \in from..to}
        rows(summaries) ==
            {[id |-> e.id, date |-> DateOf(e.in), gross |-> e.out - e.in,
              rest |-> summaries[e.id].rest, net |-> e.out - e.in - summaries[e.id].rest] :
               e \in {e \in entries : Counted(e, Open)}}
    IN rows(CaptureSummaries(Basis(b, entries), Open))

\* ProjectsService.report: the closed bookings of a project that begin from `from` to `to`
ProjectReport(b, p, from, to) ==
    {[id |-> e.id, date |-> DateOf(e.in), order |-> e.order,
      gross |-> Summarize(e.in, e.out, e.rules).gross] :
       e \in {e \in b.entries : /\ ~e.voided /\ e.status # "Rejected" /\ e.out # Open
                                /\ e.project = p /\ e.in >= from /\ e.in <= to}}

\* The groups are narrowed to the project before their break is shared.
IstStats_Fault(b, solo, p) ==
    LET mine == {e \in b.entries : Counted(e, Open) /\ e.project = p}
        summaries == CaptureSummaries(mine, Open)
        sum(S) == [gross |-> SumFunction([e \in S |-> Floor(e.out - e.in)]),
                   net |-> SumFunction([e \in S |-> summaries[e.id].net])]
    IN [total |-> sum(mine),
        byOrder |-> [o \in {e.order : e \in mine} \ {0} |-> sum({e \in mine : e.order = o})]]

\* loadIstStats sums whole minutes of attendance in the database and knows no net
\* time; loadSoloIstStats loads whole capture groups before it looks for the project.
IstStats(b, solo, p) ==
    LET mine == {e \in b.entries : Counted(e, Open) /\ e.project = p}
        summaries == CaptureSummaries(b.entries, Open)
        gross(e) == IF solo THEN summaries[e.id].gross ELSE Floor(e.out - e.in)
        sum(S) == [gross |-> SumFunction([e \in S |-> gross(e)]),
                   net |-> IF solo THEN SumFunction([e \in S |-> summaries[e.id].net]) ELSE 0]
    IN [total |-> sum(mine),
        byOrder |-> [o \in {e.order : e \in mine} \ {0} |-> sum({e \in mine : e.order = o})]]

Skipped(page, take) == Greater(0, page - 1) * take

\* ErpExportService.list: rows that begin at the same instant have no order.
ErpPages(b, from, to, page, size) ==
    LET take == Lesser(Greater(size, 1), 500)
        rows == {e \in b.entries : /\ e.status = "Approved" /\ e.out # Open
                                   /\ e.in >= from /\ e.in <= to}
        orders == {o \in SetToSeqs(rows) : \A i, j \in DOMAIN o : i < j => o[i].in <= o[j].in}
        exported(e) == [id |-> e.id, net |-> Summarize(e.in, e.out, e.rules).net]
        cut(o) == SubSeq(o, Skipped(page, take) + 1,
                         Lesser(Len(o), Skipped(page, take) + take))
    IN {[i \in DOMAIN cut(o) |-> exported(cut(o)[i])] : o \in orders}

-----------------------------------------------------------------------------
(* The requests *)

StatementsInit == (\E i \in DOMAIN Queries : query \in Queries[i]) /\ answer = NoAnswer

Ask(kind) == answer = NoAnswer /\ query.kind = kind /\ UNCHANGED query

AskAccount ==
    /\ Ask("account")
    /\ answer' = [overtime |-> OvertimeAccount(query.books),
                  leave |-> LeaveBalance(query.books, YearOf(query.books.today))]

\* More than 366 days, or none, are refused with the empty answer.
InRange(q) == q.to - q.from \in 0..365

AskSummary ==
    /\ Ask("summary") /\ InRange(query)
    /\ answer' = PersonalSummary(query.books, query.from, query.to)

AskHints ==
    /\ Ask("hints") /\ query.to - query.from \in 0..366
    /\ answer' = [hints |-> Hints(query.books, query.from, query.to)]

AskViolations ==
    /\ Ask("violations")
    /\ answer' = [hints |-> ViolationList(query.books, query.from, query.to)]

AskReport ==
    /\ Ask("report") /\ InRange(query) /\ ValidFilter(query.filter)
    /\ answer' = [rows |-> SoloReport(query.books, query.from, query.to, query.filter),
                  open |-> OpenTimers(query.books, query.to, query.filter),
                  starts |-> WorkingTimes(query.books, query.from, query.to)]

AskExport ==
    /\ Ask("export")
    /\ \E rows \in ErpPages(query.books, query.from, query.to, query.page, query.size) :
         answer' = [rows |-> rows]

AskProject ==
    /\ Ask("project")
    /\ answer' = [rows |-> ProjectReport(query.books, query.project, query.from, query.to),
                  stats |-> IstStats(query.books, query.solo, query.project)]

\* The option is shown first, and a block that is not allowed books nothing.
AskDailyBlock ==
    /\ Ask("day")
    /\ answer' = [option |-> DailyBlockOption(query.books, query.solo, query.day),
                  booked |-> IF BlockAllowed(query.books, query.solo, query.day, query.start)
                             THEN {DailyBlock(query.books, query.solo, query.day, query.start)}
                             ELSE {}]

\* The attendance that a daily block of so many net minutes is given
AskBlock ==
    /\ Ask("block") /\ ValidRules(query.rules)
    /\ answer' = [gross |-> GrossForNet(query.net, query.rules)]

\* The leave of a request, and the holidays it may meet
AskLeave ==
    /\ Ask("leave") /\ query.from <= query.to
    /\ answer' = [halves |-> VacationHalves(query.from, query.to, query.mask, query.calendar,
                                            query.halfStart, query.halfEnd)]

AskHolidays ==
    /\ Ask("holidays")
    /\ answer' = [dates |-> HolidaysFor(query.state, query.year)]

StatementsNext ==
    \/ AskAccount \/ AskSummary \/ AskHints \/ AskViolations
    \/ AskReport \/ AskExport \/ AskProject \/ AskDailyBlock
    \/ AskBlock \/ AskLeave \/ AskHolidays

-----------------------------------------------------------------------------
(* Properties *)

Answered(kind) == answer # NoAnswer /\ query.kind = kind

\* What is excused of a day, in halves
OffOn(b, day) ==
    LET rows == {a \in b.absences : a.kind # "Flextime"}
                  \cup {v \in b.requests : v.kind = "Vacation" /\ v.state = "Approved"}
        half(r) == (r.halfStart /\ day = r.from) \/ (r.halfEnd /\ day = r.to)
    IN Max({0} \cup {IF half(r) THEN 1 ELSE 2 : r \in {q \in rows : day \in q.from..q.to}})

\* Leave that is counted once, and none of it on the day that is still running
PlainLeave(b) ==
    /\ OffOn(b, b.today) = 0
    /\ \A r, q \in b.absences \cup b.requests :
         r # q => r.from > q.to \/ q.from > r.to

\* What a day of the team asks for, less what excuses it
TeamTarget(b, day) ==
    IF Workday(day, b.mask, b.calendar)
    THEN ((2 - OffOn(b, day)) * DailyTarget(b.weekly, b.mask)) \div 2 ELSE 0

\* The overtime account, which is computed from totals clipped to the year and to
\* the first day of work, is what every completed working day adds to it: the time
\* worked less a day's target, of which a day or half a day of sickness, training
\* or approved leave takes its part (accounts.service.ts, overtime.ts).
OvertimeByDay ==
    LET b == query.books
        from == Greater(b.startDate, DayOf(YearOf(b.today), 1, 1))
        worked == SumFunction([e \in {f \in b.entries : f.out # Open} |->
                                 NetOf(Floor(e.out - e.in), e.rules)])
    IN PlainLeave(b) /\ from < b.today =>
         answer.overtime = b.opening + worked - SumFunction([d \in from..(b.today - 1) |-> TeamTarget(b, d)])

\* "Only unused carry-over expires; consumed carry-over is not deducted" again:
\* leave until the day of expiry comes out of the carry-over first, later leave
\* only out of the year's own days, and a day is never taken twice
\* (personal-summary.service.ts).
CarryUsedFirst ==
    LET b == query.books
        policy == PolicyOn(b, query.to)
        year == DayOf(YearOf(query.to), 1, 1)..query.to
        taken(S) == SumFunction([d \in S |-> LeaveOn(b, d)])
        early == taken({d \in year : d <= policy.expires})
        fromCarry == Lesser(policy.carry, early)
        ownLeft == policy.annual + policy.adjustment - (taken(year) - fromCarry)
    IN /\ \A d \in year : LeaveOn(b, d) <= Whole
       /\ policy.year = YearOf(query.to) =>
            answer.remaining = ownLeft
                + IF query.to <= policy.expires THEN policy.carry - fromCarry ELSE 0

NetOfRows(rows) == SumFunction([r \in rows |-> r.net])

\* Statements made from the same rows agree: a filter only chooses among the rows
\* of the whole report, a split capture has the break of the whole, days add up to
\* the period, and the report's net time is that of the personal summary, which
\* computes it on its own.
ReportsAgree ==
    LET b == query.books
        all == SoloReport(b, query.from, query.to, NoFilter)
        entry(id) == CHOOSE e \in b.entries : e.id = id
        group(g) == {e \in b.entries : e.group = g /\ Counted(e, Open)}
        wide == SoloReport(b, query.from - 2, query.to + 2, NoFilter)
        length(g) == SumFunction([e \in group(g) |-> e.out - e.in])
        first(g) == CHOOSE e \in group(g) : \A f \in group(g) : e.in <= f.in
    IN Answered("report") =>
         /\ answer.rows = {r \in all : Selected(entry(r.id), query.filter)}
         /\ NetOfRows(all) = Actual(b, query.from..query.to)
         /\ \A m \in query.from..(query.to - 1) :
              all = SoloReport(b, query.from, m, NoFilter)
                      \cup SoloReport(b, m + 1, query.to, NoFilter)
         /\ \A g \in {e.group : e \in b.entries} \ {0} : group(g) # {} =>
              NetOfRows({r \in wide : entry(r.id).group = g})
                = NetOf(length(g), first(g).rules)
         /\ \A s \in answer.starts : entry(s.id).group # 0 =>
              s.net = NetOfRows({r \in wide : r.id = s.id})

\* A core-time hint tells the whole minutes of a gap in a window, every gap and no
\* other, on a completed working day with some attendance and nothing that excuses
\* it; attendance past midnight counts for the day it lies on, and a gap of less
\* than a minute is no gap (personal-hints.service.ts, core-time.ts).  It is looked
\* at in steps of half a minute, in which the rows asked about begin and end.
GapsAreReal ==
    LET b == query.books
        half == Minute \div 2
        hints(d) == {h.hint : h \in {g \in answer.hints : g.date = d}}
        worked(t) == \E e \in b.entries :
                       Counted(e, Open) /\ e.in <= t /\ t + half <= e.out
        on(d) == {Midnight(d) + m * half : m \in 0..(2 * LastMinute + 1)}
        missed(d, w) == {t \in on(d) : /\ t >= Midnight(d) + w.start * Minute
                                       /\ t < Midnight(d) + w.end * Minute /\ ~worked(t)}
        gap(d, w, t) == {u \in missed(d, w) : t <= u /\
                           \A v \in on(d) : v \in t..u => v \in missed(d, w)}
        gaps(d, w) == {gap(d, w, t) : t \in {u \in missed(d, w) : u - half \notin missed(d, w)}}
        assessed(d) == /\ PolicyOn(b, d).hints /\ d < b.today /\ PolicyWorkday(b, d)
                       /\ ~Excused(b, d) /\ \E t \in on(d) : worked(t)
        told(d, w) == {h \in hints(d) : h.window = w /\ h.kind \notin {"BeforeFrame", "AfterFrame"}}
    IN Answered("hints") =>
         \A d \in query.from..query.to :
           /\ ~assessed(d) => hints(d) = {}
           /\ assessed(d) => \A w \in {v \in PolicyOn(b, d).windows : Weekday(d) \in v.weekdays} :
                /\ SumFunction([h \in told(d, w) |-> h.minutes])
                     = SumFunction([g \in gaps(d, w) |-> Cardinality(g) \div 2])
                /\ (\E h \in told(d, w) : h.kind = "LateArrival")
                     <=> {Midnight(d) + w.start * Minute + m : m \in {0, half}} \subseteq missed(d, w)

\* The hours of a project, in all and by order, are those of its report: "FLOOR-per-
\* entry rounding matches summarize()" (projects.service.ts:541).  In Solo they are
\* what the owner's own report says of the project, to the fraction of a minute
\* (capture-summary.ts:22), which the project's report drops from every row.
ProjectHoursAgree ==
    LET b == query.books
        stats == answer.stats
        listed == ProjectReport(b, query.project, 0, query.to + query.to)
        owner == SoloReport(b, DateOf(query.from) - 2, DateOf(query.to) + 2,
                            [NoFilter EXCEPT !.project = query.project])
        row(id) == CHOOSE e \in b.entries : e.id = id
        of(rows, order) == {r \in rows : row(r.id).order = order}
        gross(rows) == SumFunction([r \in rows |-> r.gross])
        agree(hours, whole, exact) ==
            IF query.solo
            THEN /\ hours.gross = gross(exact) /\ hours.net = NetOfRows(exact)
                 /\ hours.gross - gross(whole) \in 0..(Cardinality(whole) * (Minute - 1))
            ELSE hours.gross = gross(whole)
    IN Answered("project") =>
         /\ agree(stats.total, listed, owner)
         /\ \A o \in DOMAIN stats.byOrder :
              agree(stats.byOrder[o], of(listed, o), of(owner, o))

\* The statements made about the same attendance agree with each other and with
\* it: reports and personal summary, the hints that tell what is missing, and the
\* hours of a project.
StatementsAgree == ReportsAgree /\ GapsAreReal /\ ProjectHoursAgree

\* A day booked as a block comes out even: its net time is what the client was
\* offered, and what the account of the team, or to the minute the owner's summary,
\* asks of that day (time-entries.service.ts, createDailyBlock, against
\* personal-summary.service.ts and overtime.ts).
DayComesOutEven ==
    LET b == query.books
        day == query.day
    IN Answered("day") => \A e \in answer.booked :
         /\ answer.option.enabled /\ NetOf(e.out - e.in, e.rules) = answer.option.net
         /\ ~query.solo => answer.option.net = TeamTarget(b, day)
         /\ query.solo /\ e.out <= Midnight(day + 1) =>
              NetOn([b EXCEPT !.entries = @ \cup {e}], day) - TargetOn(b, day)
                \in (1 - Minute)..(Minute - 1)

\* A daily block is as short as it can be for its breaks to leave exactly the
\* target (breaks.ts, calculateGrossMinutesForNet).
ShortestBlock ==
    LET pays(g) == NetOf(g, query.rules) = query.net
    IN Answered("block") =>
         /\ pays(answer.gross)
         /\ \A m \in 0..(answer.gross \div Minute) : pays(m * Minute) => m * Minute = answer.gross

\* A block is the shortest that pays a day's target, and is booked where a day's
\* target is due.
BlockPaysItsTarget == ShortestBlock /\ DayComesOutEven

\* Easter by golden number and epact, as almanacs have it
AlmanacEaster(y) ==
    LET golden == 1 + (y % 19)
        century == 1 + (y \div 100)
        solar == (3 * century) \div 4 - 12
        lunar == (8 * century + 5) \div 25 - 5
        age == (11 * golden + 20 + lunar - solar) % 30
        epact == IF (age = 25 /\ golden > 11) \/ age = 24 THEN age + 1 ELSE age
        moon == DayOf(y, 3, 1) + (IF epact > 23 THEN 73 ELSE 43) - epact
    IN CHOOSE d \in (moon + 1)..(moon + 7) : Weekday(d) = 7

Moveable == [Karfreitag |-> -2, Ostermontag |-> 1, Pfingstmontag |-> 50, Fronleichnam |-> 60]

\* Leave is additive: however a request is cut, its parts cost what it costs, half
\* days on days off are free, and a moveable holiday, on which nobody takes leave,
\* is where the almanac has it (leave-calculator.ts, holidays.ts).
LeaveIsAdditive ==
    LET q == query
        halves(from, to, start, end) ==
            VacationHalves(from, to, q.mask, q.calendar, start, end)
    IN /\ Answered("leave") => \A m \in q.from..(q.to - 1) :
            answer.halves = halves(q.from, m, q.halfStart, FALSE)
                              + halves(m + 1, q.to, FALSE, q.halfEnd)
       /\ Answered("holidays") => \A h \in answer.dates :
            h.name \in DOMAIN Moveable => h.date = AlmanacEaster(q.year) + Moveable[h.name]

\* What employees are owed is the sum of their days: the overtime of Team and the
\* leave account of Solo agree with an account kept day by day, and leave costs
\* what its days cost.
AccountsByDay ==
    /\ Answered("account") => OvertimeByDay
    /\ Answered("summary") => CarryUsedFirst
    /\ LeaveIsAdditive

\* holidays.ts:155 says "Wednesday before November 23."
RepentanceOnWednesday ==
    Answered("holidays") => \A h \in answer.dates : h.name = "Busstag" => Weekday(h.date) = 3
=============================================================================
