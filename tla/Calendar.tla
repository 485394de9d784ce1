------------------------------ MODULE Calendar ------------------------------
(***************************************************************************)
(* Days, public holidays and leave days (libs/shared/src/lib/vacation).    *)
(* A day is its number, 1 January 1970 being 0; the functions work on UTC  *)
(* midnights, so no time of day is left.  Leave is counted in half days.   *)
(*                                                                         *)
(* A definition whose name ends in _Fault is a plausible mistake in the    *)
(* definition below it; nothing uses it.                                   *)
(***************************************************************************)
EXTENDS Integers, FiniteSets

\* Date.UTC(y, m, d) in days, with March as the first month of a year.
DayOf(y, m, d) ==
    LET c == IF m <= 2 THEN y - 1 ELSE y
        e == c % 400
        n == (153 * ((m + 9) % 12) + 2) \div 5 + d - 1
    IN (c \div 400) * 146097 + e * 365 + e \div 4 - e \div 100 + n - 719468

\* getUTCFullYear
YearOf(day) ==
    LET y == 1970 + day \div 366
    IN CHOOSE x \in y..(y + 2) : DayOf(x, 1, 1) <= day /\ day < DayOf(x + 1, 1, 1)

\* getUTCDay, with Sunday as 7: the bit of the weekday masks, Monday being 1.
Weekday(day) == 1 + ((day + 3) % 7)

MondayToFriday == 1..5

-----------------------------------------------------------------------------
(* Holidays *)

\* The century's correction `g` of the moon has an 8 for 25 centuries.
Easter_Fault(y) ==
    LET b == y \div 100
        h == (19 * (y % 19) + b - b \div 4 - (b + 1) \div 3 + 15) % 30
        l == (32 + 2 * (b % 4) + 2 * ((y % 100) \div 4) - h - ((y % 100) % 4)) % 7
        n == h + l - 7 * (((y % 19) + 11 * h + 22 * l) \div 451) + 114
    IN DayOf(y, n \div 31, 1 + (n % 31))

Easter(y) ==
    LET a == y % 19
        b == y \div 100
        c == y % 100
        g == (b - (b + 8) \div 25 + 1) \div 3
        h == (19 * a + b - b \div 4 - g + 15) % 30
        l == (32 + 2 * (b % 4) + 2 * (c \div 4) - h - (c % 4)) % 7
        n == h + l - 7 * ((a + 11 * h + 22 * l) \div 451) + 114
    IN DayOf(y, n \div 31, 1 + (n % 31))

States == {"BW", "BY", "BE", "BB", "HB", "HH", "HE", "MV",
           "NI", "NW", "RP", "SL", "SN", "ST", "SH", "TH"}

\* "Wednesday before November 23", as the code reaches it.
DayOfRepentance(y) ==
    LET ref == DayOf(y, 11, 23)
    IN ref - (1 + ((Weekday(ref) + 4) % 7))

\* SPECS: holidays of a date, of a distance to Easter, and the Day of Repentance
On(name, states, month, day) == [name |-> name, states |-> states, month |-> month, day |-> day]

FixedSpecs == {
    On("Neujahr", States, 1, 1),
    On("Heilige Drei Koenige", {"BW", "BY", "ST"}, 1, 6),
    On("Frauentag", {"BE", "MV"}, 3, 8),
    On("Tag der Arbeit", States, 5, 1),
    On("Mariae Himmelfahrt", {"BY", "SL"}, 8, 15),
    On("Weltkindertag", {"TH"}, 9, 20),
    On("Einheit", States, 10, 3),
    On("Reformationstag", {"BB", "HB", "HH", "MV", "NI", "SH", "SN", "ST", "TH"}, 10, 31),
    On("Allerheiligen", {"BW", "BY", "NW", "RP", "SL"}, 11, 1),
    On("1. Weihnachtstag", States, 12, 25),
    On("2. Weihnachtstag", States, 12, 26)}

After(name, states, days) == [name |-> name, states |-> states, days |-> days]

EasterSpecs == {
    After("Karfreitag", States, -2), After("Ostermontag", States, 1),
    After("Christi Himmelfahrt", States, 39), After("Pfingstmontag", States, 50),
    After("Fronleichnam", {"BW", "BY", "HE", "NW", "RP", "SL"}, 60)}

HolidaysFor(state, y) ==
    {[name |-> s.name, date |-> DayOf(y, s.month, s.day)] :
       s \in {t \in FixedSpecs : state \in t.states}}
    \cup {[name |-> s.name, date |-> Easter(y) + s.days] :
            s \in {t \in EasterSpecs : state \in t.states}}
    \cup {[name |-> "Busstag", date |-> DayOfRepentance(y)] : s \in {state} \cap {"SN"}}

\* holidayProviderForCalendar: `state` outside States is the calendar NONE.
IsHoliday(calendar, day) ==
    \/ day \in calendar.dates
    \/ \E h \in HolidaysFor(calendar.state, YearOf(day)) : h.date = day

-----------------------------------------------------------------------------
(* Leave *)

\* isWorkday of a mask of weekdays and a calendar
Workday(day, mask, calendar) == Weekday(day) \in mask /\ ~IsHoliday(calendar, day)

WorkingDays(from, to, mask, calendar) ==
    Cardinality({d \in from..to : Workday(d, mask, calendar)})

\* A half day is taken off even where the day does not count.
VacationHalves_Fault(from, to, mask, calendar, halfStart, halfEnd) ==
    LET all == 2 * WorkingDays(from, to, mask, calendar)
    IN IF all = 0 THEN 0
       ELSE IF from = to THEN IF halfStart \/ halfEnd THEN 1 ELSE all
       ELSE all - (IF halfStart THEN 1 ELSE 0) - (IF halfEnd THEN 1 ELSE 0)

\* calculateVacationDays, twice
VacationHalves(from, to, mask, calendar, halfStart, halfEnd) ==
    LET all == 2 * WorkingDays(from, to, mask, calendar)
    IN IF all = 0 THEN 0
       ELSE IF from = to THEN IF halfStart \/ halfEnd THEN 1 ELSE all
       ELSE all - (IF halfStart /\ Workday(from, mask, calendar) THEN 1 ELSE 0)
                - (IF halfEnd /\ Workday(to, mask, calendar) THEN 1 ELSE 0)
=============================================================================
