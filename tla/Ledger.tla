------------------------------- MODULE Ledger -------------------------------
(***************************************************************************)
(* What the attendance ledger promises to each employee, whatever rows it   *)
(* is kept in: one timer at most, every instant recorded and credited once, *)
(* no attendance that comes or goes when work is only booked differently,   *)
(* and work outside the frame that stays pending until it is approved.      *)
(*                                                                          *)
(* A step takes the book b of one employee to the book n.                   *)
(***************************************************************************)
EXTENDS Integers, FiniteSets

CONSTANTS
    Employees,
    Groups,      \* capture groups, over which breaks are computed
    LastInstant,
    DayLen, FrameStart, FrameEnd

VARIABLES
    clock,
    mode,
    book,       \* per employee: attendance, what of it is pending, the running timer
    approving   \* per employee: adjustments that are being approved

ledger == <<clock, mode, book, approving>>

-----------------------------------------------------------------------------

Stopped == -1
Span(a, b) == a .. b - 1
Spans == {Span(a, b) : a, b \in 0 .. LastInstant + 1}
Day(t) == t \div DayLen
Outside == {s \in 0 .. LastInstant :
               s % DayLen < FrameStart \/ s % DayLen >= FrameEnd \/ Day(s + 1) # Day(s)}

Before(span, t) == \A s \in span : s < t

\* A span booked beside a running timer lies before its start.
BeforeTimer(b, span) == b.since # Stopped => Before(span, b.since)

\* Breaks are deducted once per capture group: nothing leaves its group.
KeepsGroups(b, n) == \A g \in Groups : b.captures[g] \subseteq n.captures[g]

SameTimer(b, n) == n.since = b.since /\ n.rule = b.rule
NoTimer(n) == n.since = Stopped

\* The book with one more span, some of it pending
Adds(b, n, span, waits) ==
    /\ span \cap b.worked = {}
    /\ n.worked = b.worked \cup span
    /\ n.pending = b.pending \cup waits
    /\ KeepsGroups(b, n)

-----------------------------------------------------------------------------
(* The timer *)

Start(b, n) ==
    /\ b.since = Stopped
    /\ mode = "Solo" => Before(b.worked, clock)
    /\ n = [b EXCEPT !.since = clock, !.rule = mode]

\* What ran is recorded, pending outside the frame if it began in Team mode; the
\* timer stops, or in Solo goes on for another project.
Stop(b, n) ==
    LET ran == Span(b.since, clock)
    IN  /\ b.since # Stopped /\ b.since < clock
        /\ Adds(b, n, ran, IF b.rule = "Team" THEN ran \cap Outside ELSE {})
        /\ \/ NoTimer(n)
           \/ mode = "Solo" /\ b.rule = "Solo" /\ n.since = clock /\ n.rule = "Solo"

-----------------------------------------------------------------------------
(* Work recorded otherwise *)

Records(b, n) ==
    LET span == n.worked \ b.worked
    IN  span \in Spans \ {{}} /\ Adds(b, n, span, {}) /\ SameTimer(b, n)

\* A block of the daily target takes a day on which nothing is recorded or running.
Block(b, n) ==
    LET span == n.worked \ b.worked
        first == CHOOSE s \in span : \A x \in span : s <= x
        day == {s \in 0 .. LastInstant : Day(s) = Day(first)}
    IN  /\ Records(b, n)
        /\ mode = "Team" => span \cap Outside = {}
        /\ day \cap b.worked = {} /\ BeforeTimer(b, day)

Manual(b, n) ==
    LET span == n.worked \ b.worked
    IN  mode = "Solo" /\ Records(b, n) /\ Before(span, clock) /\ BeforeTimer(b, span)

\* An approval asked for in Team mode records its interval, or comes to nothing.
Adjust(e, b, n) ==
    /\ approving[e] > 0
    /\ approving' = [approving EXCEPT ![e] = @ - 1]
    /\ n = b \/ Records(b, n)

AskAdjustment(e, b, n) ==
    /\ mode = "Team"
    /\ approving' = [approving EXCEPT ![e] = @ + 1]
    /\ n = b

-----------------------------------------------------------------------------
(* Work recorded before *)

\* Booked on another project, split, or partly booked: the same attendance, of
\* which nothing that waits for an approval is waved through.
Rebook(b, n) ==
    /\ n # b
    /\ n.worked = b.worked /\ SameTimer(b, n) /\ KeepsGroups(b, n)
    /\ b.pending \subseteq n.pending /\ n.pending \subseteq Outside

\* Solo corrects one span, or cancels it: the new one is over and free.
Amend(b, n) ==
    /\ mode = "Solo"
    /\ n # b
    /\ \E old, new \in Spans :
         LET rest == b.worked \ old
         IN  /\ n.worked = rest \cup new /\ new \cap rest = {} /\ Before(new, clock)
             /\ n.pending \ new = b.pending \ (old \cup new) /\ n.pending \cap new \subseteq Outside
             /\ \/ SameTimer(b, n) /\ old # {} /\ old \subseteq b.worked /\ BeforeTimer(b, new)
                \/ b.since # Stopped /\ NoTimer(n) /\ old = {}

-----------------------------------------------------------------------------

\* The book keeper's part: an instant is credited once, to a timer or a record.
Balanced(n) ==
    /\ n.credited = Cardinality(n.worked)
    /\ n.pending \subseteq n.worked

Entry(e) ==
    \E b \in {book[e]}, n \in {book'[e]} :
        /\ Balanced(n)
        /\ \/ /\ \/ Start(b, n) \/ Stop(b, n) \/ Block(b, n) \/ Manual(b, n)
                 \/ Rebook(b, n) \/ Amend(b, n)
              /\ UNCHANGED approving
           \/ Adjust(e, b, n) \/ AskAdjustment(e, b, n)
        /\ \A f \in Employees \ {e} : book'[f] = book[f]
        /\ UNCHANGED <<clock, mode>>

Pass == clock' = clock + 1 /\ UNCHANGED <<mode, book, approving>>

ChangeMode ==
    /\ mode' = IF mode = "Team" THEN "Solo" ELSE "Team"
    /\ UNCHANGED <<clock, book, approving>>

Empty == [worked |-> {}, credited |-> 0, pending |-> {}, since |-> Stopped,
          rule |-> "Team", captures |-> [g \in Groups |-> {}]]

LedgerInit ==
    /\ clock = 0
    /\ mode \in {"Team", "Solo"}
    /\ book = [e \in Employees |-> Empty]
    /\ approving = [e \in Employees |-> 0]

LedgerNext == (\E e \in Employees : Entry(e)) \/ Pass \/ ChangeMode

LedgerSpec == LedgerInit /\ [][LedgerNext]_ledger
=============================================================================
