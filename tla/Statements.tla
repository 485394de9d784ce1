----------------------------- MODULE Statements -----------------------------
(***************************************************************************)
(* The statements made from the recorded rows of one employee: overtime    *)
(* and leave accounts, the personal summary and hints of Solo, core-time   *)
(* violations, reports and the ERP export.  Each handler reads the rows in *)
(* one snapshot (`books`) and answers; only the answer changes.            *)
(*                                                                         *)
(* The working days of a mode event are already its accounting day, days   *)
(* off have the halves of a leave request, leave is counted in twelfths of *)
(* a day (Whole) where the code divides it, and the server's time zone is  *)
(* UTC.                                                                    *)
(*                                                                         *)
(* A definition whose name ends in _Fault is a plausible mistake in the    *)
(* definition below it; nothing uses it.                                   *)
(***************************************************************************)
EXTENDS WorkTime, Calendar

CONSTANT Queries     \* sets of requests that are made, with the rows they meet

VARIABLES query, answer

statements == <<query, answer>>

NoAnswer == [none |-> TRUE]
Never == 1000000     \* an expiry that is NULL
Whole == 12          \* shares of a day of leave

LastMinute == (Day \div Minute) - 1     \* 23:59

\* The days a row with `from` and `to` has in a period
Overlaps(r, from, to) == r.from <= to /\ r.to >= from

-----------------------------------------------------------------------------
(* Team: the overtime account and the leave balance *)

\* The end of a leave is not clipped: leave still to come is excused already.
ExcusedHalves_Fault(b, from, to) ==
    LET halves(r) == VacationHalves(Greater(r.from, from), r.to,
                                    b.mask, b.calendar, r.halfStart, r.halfEnd)
    IN IF from > to THEN 0
       ELSE SumFunction([r \in {q \in b.absences \cup b.requests :
                                 /\ q.kind \in {"Sickness", "Training", "Vacation"}
                                 /\ (q.kind = "Vacation" => q.state = "Approved")
                                 /\ Overlaps(q, from, to)} |-> halves(r)])

\* excusedWorkingDays: a half day counts as one only where the period still has it.
ExcusedHalves(b, from, to) ==
    LET start(r) == Greater(r.from, from)
        end(r) == Lesser(r.to, to)
        absent(a) == 2 * WorkingDays(start(a), end(a), b.mask, b.calendar)
        onLeave(v) == VacationHalves(start(v), end(v), b.mask, b.calendar,
                                     v.halfStart /\ start(v) = v.from,
                                     v.halfEnd /\ end(v) = v.to)
    IN IF from > to THEN 0
       ELSE SumFunction([a \in {r \in b.absences : /\ r.kind \in {"Sickness", "Training"}
                                                   /\ Overlaps(r, from, to)} |-> absent(a)])
            + SumFunction([v \in {r \in b.requests : /\ r.kind = "Vacation" /\ r.state = "Approved"
                                                     /\ Overlaps(r, from, to)} |-> onLeave(v)])

\* AccountsService.account: neither status nor voidedAt is asked for, and every
\* row has a break of its own.
OvertimeAccount(b) ==
    LET yearStart == DayOf(YearOf(b.today), 1, 1)
        closed == {e \in b.entries : e.in >= Midnight(yearStart) /\ e.out # Open}
        net(e) == NetOf(Floor(e.out - e.in), e.rules)
        from == Greater(b.startDate, yearStart)
    IN IF from > b.today - 1 THEN b.opening
       ELSE Overtime(b.opening, SumFunction([e \in closed |-> net(e)]),
                     WorkingDays(from, b.today - 1, b.mask, b.calendar),
                     ExcusedHalves(b, from, b.today),
                     DailyTarget(b.weekly, b.mask))

PendingStates == {"Submitted", "PendingSubstitute", "PendingManager", "PendingHr"}

\* VacationBalanceService.compute, in halves; what is left is never negative.
LeaveBalance(b, year) ==
    LET mine == {r \in b.requests : /\ r.kind = "Vacation"
                                    /\ Overlaps(r, DayOf(year, 1, 1), DayOf(year, 12, 31))}
        halves(r) == IF r.recorded > 0 THEN r.recorded
                     ELSE 2 * WorkingDays(r.from, r.to, b.mask, b.calendar)
        approved == SumFunction([r \in {q \in mine : q.state = "Approved"} |-> halves(r)])
        pending == SumFunction([r \in {q \in mine : q.state \in PendingStates} |-> halves(r)])
        carry == IF b.allowance.expires <= b.today THEN 0 ELSE b.allowance.carry
        total == b.allowance.base + carry + b.allowance.adjustment
    IN [total |-> total, approved |-> approved, pending |-> pending,
        remaining |-> Greater(0, total - approved - pending)]

-----------------------------------------------------------------------------
(* Solo: which policy and which mode a day had *)

DefaultPolicy ==
    [target |-> FALSE, weekly |-> 0, mask |-> MondayToFriday, leave |-> FALSE,
     annual |-> 0, carry |-> 0, expires |-> Never, adjustment |-> 0, year |-> 0,
     calendar |-> [state |-> "NONE", dates |-> {}], hints |-> FALSE,
     windows |-> {}, frameStart |-> 0, frameEnd |-> LastMinute,
     blocks |-> FALSE, rules |-> {}]

\* The policies of the owner in the order of effectiveFrom, createdAt, id
InForce(b, day) == {i \in DOMAIN b.policies : b.policies[i].from <= day}

PolicyOn(b, day) ==
    IF InForce(b, day) = {} THEN DefaultPolicy ELSE b.policies[Max(InForce(b, day))]

\* Mode events in the order they happened; the first one tells what was before.
ModeOn(b, day) ==
    LET before == IF b.modes = <<>> THEN TRUE ELSE b.modes[1].before
        apply(solo, event) == IF event.effective > day THEN solo ELSE event.after
    IN FoldLeft(apply, before, b.modes)

Coverage(r, day) ==
    IF day \notin r.from..r.to THEN 0
    ELSE IF (r.halfStart /\ day = r.from) \/ (r.halfEnd /\ day = r.to)
         THEN Whole \div 2 ELSE Whole

MostCovered(rows, day) == Max({0} \cup {Coverage(r, day) : r \in rows})

WorkdayOf(policy, day) == Workday(day, policy.mask, policy.calendar)
PolicyWorkday(b, day) == WorkdayOf(PolicyOn(b, day), day)

\* Days of leave that were recorded, spread over those they are taken from
Spread(r, day, days, weight, recorded) ==
    IF day \notin days THEN 0
    ELSE IF weight = 0 \/ recorded = 0 THEN Coverage(r, day)
    ELSE Lesser(Whole, (Coverage(r, day) * recorded) \div weight)

\* What an approved request of Team takes of a day: its recorded days, spread over
\* its working days or, where these no longer bear them, over all its days.
Inherited(b, r, day) ==
    LET rule(d) == IF InForce(b, d) = {} THEN [mask |-> b.mask, calendar |-> b.calendar]
                   ELSE PolicyOn(b, d)
        weight(S) == SumFunction([d \in S |-> Coverage(r, d)])
        recorded == r.recorded * (Whole \div 2)
        over(days) == Spread(r, day, days, weight(days), recorded)
        chosen(working) == over(IF recorded > weight(working) THEN r.from..r.to ELSE working)
    IN chosen({d \in r.from..r.to : WorkdayOf(rule(d), d)})

InheritedLeave(b, day) ==
    Max({0} \cup {Inherited(b, r, day) :
                    r \in {q \in b.requests : q.kind = "Vacation" /\ q.state = "Approved"}})

-----------------------------------------------------------------------------
(* Solo: the summary of a period *)

\* The part of an entry that lies in the days from..to
Within(e, from, to) ==
    [in |-> Greater(e.in, Midnight(from)), out |-> Lesser(e.out, Midnight(to + 1))]

\* The part of what an entry has that falls into a part of its time
Portion(amount, e, part) == (amount * (part.out - part.in)) \div (e.out - e.in)

Touching(b, day) ==
    {e \in b.entries : /\ Counted(e, Open)
                       /\ Within(e, day, day).in < Within(e, day, day).out}

\* Every day the entry touches gets the whole of its net time.
NetOn_Fault(b, day) ==
    LET net(summaries) == SumFunction([e \in Touching(b, day) |-> summaries[e.id].net])
    IN net(CaptureSummaries(b.entries, Open))

\* actualByDate: an entry's net time is spread over the days it lies on.
NetOn(b, day) ==
    LET net(summaries) ==
            SumFunction([e \in Touching(b, day) |->
                           Portion(summaries[e.id].net, e, Within(e, day, day))])
    IN net(CaptureSummaries(b.entries, Open))

\* What a day with a target asks for, less what excuses it
TargetOn(b, day) ==
    LET due(policy, excused) ==
            IF ~WorkdayOf(policy, day) \/ policy.mask = {} THEN 0
            ELSE ((policy.weekly * Minute * (Whole - Lesser(Whole, excused)))
                    \div Cardinality(policy.mask)) \div Whole
    IN due(PolicyOn(b, day),
           Max({MostCovered(b.days, day), InheritedLeave(b, day),
                MostCovered({a \in b.absences : a.kind # "Flextime"}, day)}))

\* vacationByDate
LeaveOn(b, day) ==
    LET own(policy) == IF policy.leave /\ ModeOn(b, day) /\ WorkdayOf(policy, day)
                       THEN MostCovered({d \in b.days : d.kind = "Vacation"}, day) ELSE 0
    IN Greater(InheritedLeave(b, day), own(PolicyOn(b, day)))

\* The carry-over expires whether or not it has been used by then.
CarryOver_Fault(configured, expires, takenBy, last) ==
    [used |-> Lesser(configured, takenBy),
     expired |-> IF last > expires THEN configured ELSE 0]

CarryOver(configured, expires, takenBy, last) ==
    LET used == Lesser(configured, takenBy)
    IN [used |-> used, expired |-> IF last > expires THEN configured - used ELSE 0]

\* What a policy grants in a year; carry-over and adjustment are for one year.
Granted(policy, year) ==
    IF policy.year = year
    THEN [days |-> policy.annual + policy.adjustment, carry |-> policy.carry,
          expires |-> policy.expires]
    ELSE [days |-> policy.annual, carry |-> 0, expires |-> Never]

LeaveAccount(granted, taken, carry) ==
    [allowance |-> granted.days + granted.carry - carry.expired, taken |-> taken,
     remaining |-> granted.days + granted.carry - carry.expired - taken,
     carryUsed |-> carry.used, expired |-> carry.expired]

LeaveOfYear(b, granted, to) ==
    LET taken(until) == SumFunction([d \in DayOf(YearOf(to), 1, 1)..until |-> LeaveOn(b, d)])
    IN LeaveAccount(granted, taken(to),
                    CarryOver(granted.carry, granted.expires,
                              taken(Lesser(to, granted.expires)), to))

Actual(b, days) == SumFunction([d \in days |-> NetOn(b, d)])

\* PersonalSummaryService.summary for the days from..to
PersonalSummary(b, from, to) ==
    LET balance(targets) ==
            [targets |-> targets # {},
             overtime |-> Actual(b, targets) - SumFunction([d \in targets |-> TargetOn(b, d)])]
    IN balance({d \in from..to : PolicyOn(b, d).target /\ ModeOn(b, d)})
         @@ [leave |-> PolicyOn(b, to).leave /\ ModeOn(b, to), actual |-> Actual(b, from..to)]
         @@ LeaveOfYear(b, Granted(PolicyOn(b, to), YearOf(to)), to)

-----------------------------------------------------------------------------
(* Solo: hints; Team: core-time violations *)

\* parsePersonalWindows and validatePersonalFrame
ValidWindows(windows, start, end) ==
    /\ start < end
    /\ \A w \in windows :
         /\ w.start < w.end /\ w.start >= start /\ w.end <= end
         /\ w.weekdays # {} /\ w.weekdays \subseteq 1..7
         /\ \A v \in windows \ {w} : \/ v.weekdays \cap w.weekdays = {}
                                     \/ v.start >= w.end \/ v.end <= w.start

\* Only such windows are ever saved with a policy.
ASSUME StatementsAssumption ==
    \A i \in DOMAIN Queries : \A q \in Queries[i] : "books" \in DOMAIN q =>
        \A j \in DOMAIN q.books.policies :
            LET p == q.books.policies[j] IN ValidWindows(p.windows, p.frameStart, p.frameEnd)

\* Only what an entry's own day has of it covers a window.
Presence_Fault(b, day) ==
    {[in |-> e.in, out |-> Lesser(e.out, Midnight(day + 1))] :
       e \in {f \in b.entries : ~f.voided /\ f.status # "Rejected" /\ f.out # Open
                                /\ DateOf(f.in) = day}}

\* The attendance of a day, clipped at its midnights
Presence(b, day) ==
    {Within(e, day, day) :
       e \in {f \in b.entries : /\ ~f.voided /\ f.status # "Rejected" /\ f.out # Open
                                /\ Within(f, day, day).in < Within(f, day, day).out}}

Excused(b, day) ==
    \E r \in b.days \cup b.absences
             \cup {q \in b.requests : q.kind \in {"Vacation", "SpecialLeave"} /\ q.state = "Approved"} :
        r.from <= day /\ r.to >= day

\* Minutes of attendance outside the frame, where there is at least one
OutsideFrame(b, day) ==
    LET policy == PolicyOn(b, day)
        merged == Range(Merged(Presence(b, day)))
        start == Midnight(day) + policy.frameStart * Minute
        end == IF policy.frameEnd = LastMinute THEN Midnight(day + 1)
               ELSE Midnight(day) + policy.frameEnd * Minute
        before == SumFunction([i \in merged |-> Greater(0, Lesser(start, i.out) - i.in)])
        after == SumFunction([i \in merged |-> Greater(0, i.out - Greater(end, i.in))])
        frame == [start |-> policy.frameStart, end |-> policy.frameEnd]
    IN {h \in {[kind |-> "BeforeFrame", window |-> frame, minutes |-> before \div Minute],
               [kind |-> "AfterFrame", window |-> frame, minutes |-> after \div Minute]} :
          h.minutes > 0}

\* PersonalHintsService.hints of one day; today can still be completed.
HintsOn(b, day) ==
    LET policy == PolicyOn(b, day)
        found == Violations(Presence(b, day), policy.windows, day, Weekday(day))
    IN IF \/ ~policy.hints \/ day >= b.today \/ ~PolicyWorkday(b, day)
          \/ Excused(b, day) \/ Presence(b, day) = {}
       THEN {}
       ELSE {h \in found : h.minutes > 0} \cup OutsideFrame(b, day)

Hints(b, from, to) ==
    UNION {{[date |-> d, hint |-> h] : h \in HintsOn(b, d)} : d \in from..to}

\* ViolationsService.list: the rows of a day are those that begin on it, whatever
\* their status, and today is not assessed.
ViolationList(b, from, to) ==
    LET mine == {e \in b.entries : DateOf(e.in) \in from..to /\ DateOf(e.in) < b.today}
        on(day) == {[in |-> e.in, out |-> e.out] : e \in {f \in mine : DateOf(f.in) = day}}
    IN IF b.trusted THEN {}
       ELSE UNION {{[date |-> d, hint |-> v] :
                      v \in Violations(on(d), b.windows, d, Weekday(d))} :
                     d \in {DateOf(e.in) : e \in mine}}
=============================================================================
