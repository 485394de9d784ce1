---------------------------- MODULE DailyBlocks ----------------------------
(***************************************************************************)
(* A day that is booked as one block (dailyBlockOption and                 *)
(* createDailyBlock in apps/api/src/app/time-entries): what the client is  *)
(* offered, when the server books it and the entry it makes, all from the  *)
(* rows of one moment.  TimeEntries has the block among other writers.     *)
(* Summer time is left out, and with it the refusal of an ambiguous start. *)
(*                                                                         *)
(* A definition whose name ends in _Fault is a plausible mistake in the    *)
(* definition below it; nothing uses it.                                   *)
(***************************************************************************)
EXTENDS Statements

\* The owner's policy of the day, or the employee's contract and schedule
Terms(b, solo, day) ==
    LET p == PolicyOn(b, day)
    IN IF solo
       THEN [enabled |-> p.blocks /\ p.target, weekly |-> IF p.target THEN p.weekly ELSE 0,
             mask |-> p.mask, calendar |-> p.calendar, rules |-> p.rules]
       ELSE [enabled |-> b.blocks, weekly |-> b.weekly,
             mask |-> b.mask, calendar |-> b.calendar, rules |-> b.rules]

DailyBlockOption(b, solo, day) ==
    LET terms == Terms(b, solo, day)
        net == DailyTarget(terms.weekly, terms.mask)
        gross == GrossForNet(net, terms.rules)
    IN [enabled |-> terms.enabled, net |-> net, gross |-> gross,
        rest |-> BreakOf(gross, terms.rules)]

MinuteOfDay(t) == (t - Midnight(DateOf(t))) \div Minute

RequiresSpecialApproval(in, out, frame) ==
    \/ MinuteOfDay(in) < frame.start
    \/ DateOf(out) # DateOf(in)
    \/ MinuteOfDay(out) > frame.end

HasEntry(b, day) ==
    \E e \in b.entries : /\ ~e.voided /\ e.status # "Rejected"
                         /\ e.in < Midnight(day + 1)
                         /\ e.out = Open \/ e.out > Midnight(day)

Spans(r, day) == r.from <= day /\ day <= r.to

\* What began on another day is not seen.
DayIsOff_Fault(b, solo, day) ==
    \E r \in b.absences \cup b.days
             \cup {q \in b.requests : q.kind = "Vacation" /\ q.state = "Approved"} : r.from = day

\* An absence, leave, a correction that is still to be decided or, in Solo, a personal day
DayIsOff(b, solo, day) ==
    \/ \E a \in b.absences : Spans(a, day)
    \/ \E q \in b.requests :
         /\ Spans(q, day)
         /\ \/ q.kind \in {"Vacation", "SpecialLeave"} /\ q.state = "Approved"
            \/ q.kind = "TimeAdjustment" /\ q.state \in PendingStates \cup {"Draft"}
    \/ solo /\ \E d \in b.days : Spans(d, day)

\* The attendance of a block that begins at a minute of the day
BlockAt(b, solo, day, minute) ==
    LET in == Midnight(day) + minute * Minute
    IN [in |-> in, out |-> in + DailyBlockOption(b, solo, day).gross]

BlockAllowed(b, solo, day, minute) ==
    LET terms == Terms(b, solo, day)
        block == BlockAt(b, solo, day, minute)
    IN /\ terms.enabled
       /\ day <= b.today /\ day >= b.startDate
       /\ DailyBlockOption(b, solo, day).net > 0
       /\ Workday(day, terms.mask, terms.calendar)
       /\ solo \/ ~RequiresSpecialApproval(block.in, block.out, b.frame)
       /\ ~HasEntry(b, day) /\ ~DayIsOff(b, solo, day)

\* The entry that createDailyBlock writes, with a capture group of its own in Solo
DailyBlock(b, solo, day, minute) ==
    LET block == BlockAt(b, solo, day, minute)
        id == Max({0} \cup {e.id : e \in b.entries} \cup {e.group : e \in b.entries}) + 1
    IN [id |-> id, in |-> block.in, out |-> block.out, rules |-> Terms(b, solo, day).rules,
        group |-> IF solo THEN id ELSE 0, voided |-> FALSE, status |-> "Approved",
        customer |-> 0, project |-> 0, order |-> 0, billable |-> FALSE]
=============================================================================
