------------------------------ MODULE WorkTime ------------------------------
(***************************************************************************)
(* What an interval of attendance counts for (libs/shared/src/lib/         *)
(* work-time and apps/api/src/app/time-entries/capture-summary.ts).        *)
(*                                                                         *)
(* Instants and amounts of time are integers in shares of a minute, so     *)
(* that the fractions the code computes are exact here: Minute must be     *)
(* divisible by what a break is divided among.  Every local day has Day    *)
(* shares: the changes of summer time are left out.                        *)
(*                                                                         *)
(* A definition whose name ends in _Fault is a plausible mistake in the    *)
(* definition below it; nothing uses it.                                   *)
(***************************************************************************)
EXTENDS Integers, Sequences, FiniteSets, FiniteSetsExt, SequencesExt

CONSTANTS
    Minute,    \* shares of a minute
    Day        \* shares of a day

ASSUME WorkTimeAssumption == Minute \in Nat \ {0} /\ Day \in Nat \ {0}

Open == -1     \* clockOut = NULL

Greater(a, b) == IF a >= b THEN a ELSE b
Lesser(a, b) == IF a <= b THEN a ELSE b
Floor(x) == (x \div Minute) * Minute

\* The local day an instant lies on, and its first instant.
DateOf(t) == t \div Day
Midnight(day) == day * Day

-----------------------------------------------------------------------------
(* Breaks *)

\* parseBreakRules, in minutes
ValidRules(rules) ==
    \A r \in rules : r.after \in 0..1440 /\ r.rest \in 0..r.after

LongestRest(rules, gross) ==
    Max({0} \cup {r.rest * Minute : r \in {q \in rules : gross >= q.after * Minute}})

BreakOf(gross, rules) == Lesser(Greater(0, gross), LongestRest(rules, gross))

NetOf(gross, rules) ==
    IF gross <= 0 THEN 0 ELSE Greater(0, gross - BreakOf(gross, rules))

\* The break of the target's own length is added, without looking at what it adds.
GrossForNet_Fault(net, rules) == net + BreakOf(net, rules)

\* The target and the attendance tried for it are whole minutes.
GrossForNet(net, rules) ==
    LET all == Max({0} \cup {r.rest : r \in rules})
        most == net + all * Minute
        fits == {g \in {net + m * Minute : m \in 0..all} : NetOf(g, rules) = net}
    IN IF fits = {} THEN most ELSE Min(fits)

Attended(gross, rest) == [gross |-> gross, rest |-> rest, net |-> gross - rest]

Summarize(in, out, rules) ==
    IF out = Open \/ out <= in THEN Attended(0, 0)
    ELSE Attended(Floor(out - in), BreakOf(Floor(out - in), rules))

-----------------------------------------------------------------------------
(* Capture groups: the rows of the time entries, of one employee *)

Until(e, now) == IF e.out = Open THEN now ELSE e.out

\* now = Open stands for no `now`: an open timer is left out.
Counted(e, now) ==
    /\ ~e.voided /\ e.status # "Rejected"
    /\ Until(e, now) # Open /\ Until(e, now) > e.in

Earlier(a, b) == a.in < b.in \/ (a.in = b.in /\ a.id < b.id)

\* Every part of a group has the break of its own length.
Shared_Fault(e, parts, now) ==
    Attended(Until(e, now) - e.in, BreakOf(Until(e, now) - e.in, e.rules))

\* The group's one break, under the rules of its first part, is spread over the
\* parts in proportion; the last one takes what is left.
Shared(e, parts, now) ==
    LET length(s) == SumFunction([p \in s |-> Until(p, now) - p.in])
        first == CHOOSE p \in parts : \A q \in parts \ {p} : Earlier(p, q)
        before == length({p \in parts : Earlier(p, e)})
        share(all, total) == (all * (before + length({e}))) \div total - (all * before) \div total
    IN Attended(length({e}), share(BreakOf(length(parts), first.rules), length(parts)))

SummaryOf(e, rows, now) ==
    IF e.group = 0 THEN Summarize(e.in, Until(e, now), e.rules)
    ELSE Shared(e, {p \in rows : p.group = e.group}, now)

\* calculateCaptureSummaries: the rows that count, by their ids
CaptureSummaries(entries, now) ==
    LET rows == {e \in entries : Counted(e, now)}
    IN [id \in {e.id : e \in rows} |->
          SummaryOf(CHOOSE e \in rows : e.id = id, rows, now)]

-----------------------------------------------------------------------------
(* Core time: a window has the minutes of the day it starts and ends, and its
   weekdays. *)

\* Intervals that only touch stay apart, and one inside another ends the first.
Merged_Fault(intervals) ==
    LET join(merged, i) ==
            IF merged # <<>> /\ i.in < Last(merged).out
            THEN [merged EXCEPT ![Len(merged)].out = i.out]
            ELSE Append(merged, i)
    IN FoldLeft(join, <<>>, SetToSortSeq(intervals, LAMBDA a, b : a.in < b.in))

\* mergeIntervals
Merged(intervals) ==
    LET closed == {i \in intervals : i.out # Open /\ i.out > i.in}
        join(merged, i) ==
            IF merged # <<>> /\ i.in <= Last(merged).out
            THEN [merged EXCEPT ![Len(merged)].out = Greater(@, i.out)]
            ELSE Append(merged, i)
    IN FoldLeft(join, <<>>, SetToSortSeq(closed, LAMBDA a, b : a.in < b.in))

Classify(gap, start, end) ==
    IF gap.in <= start THEN "LateArrival"
    ELSE IF gap.out >= end THEN "EarlyDeparture"
    ELSE "MidDayGap"

\* The loop over the intervals of a day; both of its breaks leave what follows
\* without effect.
Gaps(merged, start, end) ==
    LET scan(s, i) ==
            IF i.out <= s.cursor \/ i.in >= end \/ s.cursor >= end THEN s
            ELSE [cursor |-> Greater(s.cursor, i.out),
                  found |-> IF i.in <= s.cursor THEN s.found
                            ELSE s.found \cup {[in |-> s.cursor, out |-> Lesser(i.in, end)]}]
        done == FoldLeft(scan, [cursor |-> start, found |-> {}], merged)
    IN IF done.cursor < end THEN done.found \cup {[in |-> done.cursor, out |-> end]}
       ELSE done.found

\* detectCoreTimeViolationsForDay; `weekday` is that of `day`.
Violations(intervals, windows, day, weekday) ==
    LET merged == Merged(intervals)
        start(w) == Midnight(day) + w.start * Minute
        end(w) == Midnight(day) + w.end * Minute
        violation(w, g) == [kind |-> Classify(g, start(w), end(w)), window |-> w,
                            minutes |-> (g.out - g.in) \div Minute]
    IN IF merged = <<>> THEN {}
       ELSE UNION {{violation(w, g) : g \in Gaps(merged, start(w), end(w))} :
                     w \in {v \in windows : weekday \in v.weekdays}}

-----------------------------------------------------------------------------
(* Targets and the overtime account; days and weekday masks as in Calendar *)

\* Math.round of a quotient of naturals
Rounded(a, b) == (2 * a + b) \div (2 * b)

DailyTarget(weeklyMinutes, mask) ==
    IF weeklyMinutes <= 0 \/ mask = {} THEN 0
    ELSE Rounded(weeklyMinutes, Cardinality(mask)) * Minute

\* calculateOvertimeMinutes, with the working days until yesterday counted by the
\* caller: `worked` is net time, `excused` is in half days.
Overtime(opening, worked, workdays, excused, daily) ==
    opening + worked
        - Rounded((2 * workdays - Greater(0, Lesser(2 * workdays, excused))) * daily, 2 * Minute)
            * Minute
=============================================================================
