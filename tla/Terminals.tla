----------------------------- MODULE Terminals -----------------------------
(***************************************************************************)
(* Kiosk terminals and the codes they display for phones (a Team feature,  *)
(* apps/api/src/app/terminals/terminals.service.ts): administration,       *)
(* pairing of a device, the rotating challenges and the scans that redeem  *)
(* them.  PINs are TerminalAuth's.                                         *)
(*                                                                         *)
(* Every transaction holds the advisory lock 7261500, so it is one step.   *)
(* Three operations read before they enter it: the issue of a pairing code,*)
(* the use of one, and a scan (BeginXxx).  Times read before the lock are  *)
(* kept in the call.                                                       *)
(*                                                                         *)
(* Locations, names, the methods beside QR and an employee's own account   *)
(* only decide whether a call is refused and are left out.                 *)
(*                                                                         *)
(* A definition whose name ends in _Fault is a plausible mistake in the    *)
(* definition below it; nothing else uses it.                              *)
(***************************************************************************)
EXTENDS Integers, Sequences, FiniteSets

CONSTANTS
    Terminals,    \* terminals
    Phones,       \* employees with a phone
    Callers,      \* calls in flight together
    Zones,        \* time zones: how far the local day is ahead
    Day,          \* length of a day
    CodeTtl,      \* life of a pairing code
    ShowTtl,      \* life of a displayed challenge
    Minute,       \* the window of the two budgets
    Budget,       \* challenges of a device, and scans of an employee, in it
    LastInstant,  \* bound: the last instant
    MaxDevices,   \* bound: devices that are paired
    MaxCodes,     \* bound: pairing codes that are issued
    MaxShown,     \* bound: challenges that are made
    MaxConfigs    \* bound: updates by an administrator

ASSUME TerminalsAssumption ==
    /\ Zones # {} /\ Zones \subseteq Nat
    /\ Day \in Nat \ {0} /\ CodeTtl \in Nat \ {0} /\ ShowTtl \in Nat \ {0}
    /\ Minute \in Nat \ {0} /\ Budget \in Nat \ {0}
    /\ {LastInstant, MaxDevices, MaxCodes, MaxShown, MaxConfigs} \subseteq Nat

VARIABLES
    clock,   \* the server's clock
    kiosk,   \* Terminal
    paired,  \* TerminalDevice; an id is an index
    shown,   \* TerminalChallenge of purpose DisplayQr; an id is an index
    scans,   \* TerminalChallengeRedemption, by challenge and employee
    timers,  \* employees whose timer runs
    codes,   \* how many pairing codes were issued: each is different
    updates, \* how many updates were made
    pending, \* calls that have read and have not written
    dead     \* history: challenges whose display was switched off or revoked

server == <<clock, kiosk, paired, shown, scans, timers, codes, updates, pending, dead>>

NoCode == 0
Gone == [exists |-> FALSE]
Kiosk == [exists: {TRUE}, active: BOOLEAN, qr: BOOLEAN, zone: Zones,
          code: Nat, codeEnds: Nat]
Booked == {"clock-in", "clock-out"}

NoCall == [op |-> "none"]

IsOn(t) == kiosk[t].exists /\ kiosk[t].active

DevicesAt(t) == {d \in DOMAIN paired : paired[d].terminal = t /\ ~paired[d].gone}
LiveAt(t) == {d \in DevicesAt(t) : ~paired[d].revoked}

ShownBy(ds) == {k \in DOMAIN shown : shown[k].device \in ds}

Off(ds) == dead' = dead \cup ShownBy(ds)

Revoked(ds) == [d \in DOMAIN paired |->
                   [paired[d] EXCEPT !.revoked = @ \/ d \in ds]]

-----------------------------------------------------------------------------
(* Local days *)

\* dateKey
DateKey(at, zone) == (at + zone) \div Day

\* nextLocalMidnight
NextLocalMidnight(at, zone) == (DateKey(at, zone) + 1) * Day - zone

Earlier(a, b) == IF a < b THEN a ELSE b

-----------------------------------------------------------------------------
(* Administration *)

Administers(t) == updates < MaxConfigs /\ updates' = updates + 1 /\ t \in Terminals

CreateTerminal(t, on, zone) ==
    /\ Administers(t)
    /\ ~kiosk[t].exists /\ DevicesAt(t) = {}
    /\ kiosk' = [kiosk EXCEPT ![t] = [exists |-> TRUE, active |-> on, qr |-> TRUE,
                                      zone |-> zone, code |-> NoCode, codeEnds |-> 0]]
    /\ UNCHANGED <<clock, paired, shown, scans, timers, codes, pending, dead>>

\* The code survives while the terminal is off.
SwitchedOff_Fault(row) == [row EXCEPT !.active = FALSE]

SwitchedOff(row) == [row EXCEPT !.active = FALSE, !.code = NoCode, !.codeEnds = 0]

\* update with isActive = FALSE, and deactivate
SwitchOff(t) ==
    /\ Administers(t)
    /\ kiosk[t].exists
    /\ kiosk' = [kiosk EXCEPT ![t] = SwitchedOff(@)]
    /\ paired' = Revoked(LiveAt(t))
    /\ Off(DevicesAt(t))
    /\ UNCHANGED <<clock, shown, scans, timers, codes, pending>>

\* The other fields of an update; a terminal that is on keeps its displays.
Configure(t) ==
    /\ Administers(t)
    /\ kiosk[t].exists
    /\ \E on \in {TRUE, kiosk[t].active}, qr \in BOOLEAN, zone \in Zones :
           kiosk' = [kiosk EXCEPT ![t] = [@ EXCEPT !.active = on, !.qr = qr, !.zone = zone]]
    /\ UNCHANGED <<clock, paired, shown, scans, timers, codes, pending, dead>>

\* Devices, challenges and redemptions go with the terminal; the time entries
\* only lose their references.
DeletePermanently(t) ==
    /\ Administers(t)
    /\ kiosk[t].exists
    /\ kiosk' = [kiosk EXCEPT ![t] = Gone]
    /\ paired' = [d \in DOMAIN paired |-> [paired[d] EXCEPT !.gone = @ \/ d \in DevicesAt(t)]]
    /\ scans' = {s \in scans : s.challenge \notin ShownBy(DevicesAt(t))}
    /\ Off(DevicesAt(t))
    /\ UNCHANGED <<clock, shown, timers, codes, pending>>

RevokeDevice(t, d) ==
    /\ Administers(t)
    /\ kiosk[t].exists /\ d \in LiveAt(t)
    /\ paired' = Revoked({d})
    /\ Off({d})
    /\ UNCHANGED <<clock, kiosk, shown, scans, timers, codes, pending>>

-----------------------------------------------------------------------------
(* Pairing *)

Enter(c, record) == pending[c] = NoCall /\ pending' = [pending EXCEPT ![c] = record]
Leave(c, op) == pending[c].op = op /\ pending' = [pending EXCEPT ![c] = NoCall]

\* createPairing, up to the lock
BeginIssue(c, t) ==
    /\ IsOn(t)
    /\ Enter(c, [op |-> "issue", terminal |-> t, ends |-> clock + CodeTtl])
    /\ UNCHANGED <<clock, kiosk, paired, shown, scans, timers, codes, updates, dead>>

IssueCode(c) ==
    LET t == pending[c].terminal
    IN  /\ Leave(c, "issue")
        /\ IsOn(t) /\ codes < MaxCodes
        /\ kiosk' = [kiosk EXCEPT ![t] = [@ EXCEPT !.code = codes + 1, !.codeEnds = pending[c].ends]]
        /\ codes' = codes + 1
        /\ UNCHANGED <<clock, paired, shown, scans, timers, updates, dead>>

\* pair, up to the lock: whose code is it, and what time is it?
BeginPair(c, t) ==
    /\ kiosk[t].exists /\ kiosk[t].code # NoCode
    /\ Enter(c, [op |-> "pair", terminal |-> t, code |-> kiosk[t].code, at |-> clock])
    /\ UNCHANGED <<clock, kiosk, paired, shown, scans, timers, codes, updates, dead>>

\* The terminal is claimed by its id, as it was found by its code.
Claimable_Fault(t, code, at) == IsOn(t) /\ kiosk[t].codeEnds > at

Claimable(t, code, at) == IsOn(t) /\ kiosk[t].code = code /\ kiosk[t].codeEnds > at

Pair(c) ==
    LET t == pending[c].terminal
    IN  /\ Leave(c, "pair")
        /\ Claimable(t, pending[c].code, pending[c].at) /\ Len(paired) < MaxDevices
        /\ kiosk' = [kiosk EXCEPT ![t] = [@ EXCEPT !.code = NoCode, !.codeEnds = 0]]
        /\ paired' = Append(Revoked(LiveAt(t)), [terminal |-> t, code |-> pending[c].code,
                                                revoked |-> FALSE, gone |-> FALSE])
        /\ Off(LiveAt(t))
        /\ UNCHANGED <<clock, shown, scans, timers, codes, updates>>

-----------------------------------------------------------------------------
(* Challenges *)

\* TerminalDeviceGuard, and the same again under the lock
Working(d) ==
    /\ d \in DOMAIN paired /\ ~paired[d].gone /\ ~paired[d].revoked
    /\ IsOn(paired[d].terminal)

RecentlyShown(d) == {k \in ShownBy({d}) : shown[k].made > clock - Minute}

\* kioskState while QR is allowed; else it only reports the configuration.  That
\* it deletes what expired a day ago and nobody redeemed changes nothing here.
KioskState(d) ==
    /\ Working(d)
    /\ LET row == kiosk[paired[d].terminal]
       IN  /\ row.qr /\ Cardinality(RecentlyShown(d)) < Budget
           /\ Len(shown) < MaxShown
           /\ shown' = Append(shown,
                  [device |-> d, root |-> DateKey(clock, row.zone), made |-> clock,
                   ends |-> Earlier(clock + ShowTtl, NextLocalMidnight(clock, row.zone))])
    /\ UNCHANGED <<clock, kiosk, paired, scans, timers, codes, updates, pending, dead>>

-----------------------------------------------------------------------------
(* Scans *)

\* An action that is asked for is the one to take; without one it is either.
NextAction(e) == IF e \in timers THEN "clock-out" ELSE "clock-in"

\* What scan asks of a challenge, before and again under the lock
Scannable(k, at) ==
    LET d == shown[k].device
    IN  /\ Working(d) /\ kiosk[paired[d].terminal].qr
        /\ shown[k].ends > at
        /\ shown[k].root = DateKey(at, kiosk[paired[d].terminal].zone)

\* What was checked before the lock is not checked again under it.
StillScannable_Fault(k) == ~paired[shown[k].device].gone

StillScannable(k) == Scannable(k, clock)

ScansOf(e) == {s \in scans : s.emp = e}

BeginScan(c, e, k, asked) ==
    /\ Cardinality({s \in ScansOf(e) : s.at > clock - Minute}) < Budget
    /\ Scannable(k, clock)
    /\ Enter(c, [op |-> "scan", emp |-> e, challenge |-> k, asked |-> asked])
    /\ UNCHANGED <<clock, kiosk, paired, shown, scans, timers, codes, updates, dead>>

\* bookTerminalTime: the entry is opened or closed and the scan redeemed.
Scan(c) ==
    LET e == pending[c].emp
        k == pending[c].challenge
    IN  /\ Leave(c, "scan")
        /\ StillScannable(k)
        /\ \A s \in ScansOf(e) : s.challenge # k
        /\ pending[c].asked \in {"either", NextAction(e)}
        /\ timers' = IF e \in timers THEN timers \ {e} ELSE timers \cup {e}
        /\ scans' = scans \cup {[emp |-> e, challenge |-> k, at |-> clock,
                                 action |-> NextAction(e)]}
        /\ UNCHANGED <<clock, kiosk, paired, shown, codes, updates, dead>>

\* Refused, or the connection is lost; an identical call may follow.
GiveUp(c) ==
    /\ pending[c] # NoCall
    /\ pending' = [pending EXCEPT ![c] = NoCall]
    /\ UNCHANGED <<clock, kiosk, paired, shown, scans, timers, codes, updates, dead>>

Elapse ==
    /\ clock < LastInstant /\ clock' = clock + 1
    /\ UNCHANGED <<kiosk, paired, shown, scans, timers, codes, updates, pending, dead>>

-----------------------------------------------------------------------------
(* The system *)

TerminalsInit ==
    /\ clock = 0
    /\ kiosk = [t \in Terminals |-> Gone]
    /\ paired = <<>> /\ shown = <<>>
    /\ scans = {} /\ timers = {} /\ dead = {}
    /\ codes = 0 /\ updates = 0
    /\ pending = [c \in Callers |-> NoCall]

Administration ==
    \E t \in Terminals :
        \/ \E on \in BOOLEAN, zone \in Zones : CreateTerminal(t, on, zone)
        \/ SwitchOff(t) \/ Configure(t) \/ DeletePermanently(t)
        \/ \E d \in DOMAIN paired : RevokeDevice(t, d)

Calls(c) ==
    \/ \E t \in Terminals : BeginIssue(c, t) \/ BeginPair(c, t)
    \/ \E e \in Phones, k \in DOMAIN shown, asked \in Booked \cup {"either"} :
           BeginScan(c, e, k, asked)
    \/ IssueCode(c) \/ Pair(c) \/ Scan(c) \/ GiveUp(c)

TerminalsNext ==
    \/ Administration
    \/ \E c \in Callers : Calls(c)
    \/ \E d \in DOMAIN paired : KioskState(d)
    \/ Elapse

TerminalsSpec == TerminalsInit /\ [][TerminalsNext]_server

-----------------------------------------------------------------------------
(* Properties *)

(* A terminal has one display at most, one that is switched off has none,    *)
(* and a pairing code pairs one device, however many try it at the same time *)
(* (terminals.service.ts:314): switching off revokes what was paired, and a  *)
(* code that was asked for before is not paired with afterwards.             *)
OneDisplay ==
    /\ \A t \in Terminals : IF IsOn(t) THEN Cardinality(LiveAt(t)) <= 1 ELSE LiveAt(t) = {}
    /\ \A d, d2 \in DOMAIN paired : paired[d].code = paired[d2].code => d = d2
    /\ \A t \in Terminals :
           kiosk[t].exists /\ kiosk[t].code # NoCode =>
               IsOn(t) /\ \A d \in DOMAIN paired : paired[d].code # kiosk[t].code

(* A scan books with a display that is still there: not after its code       *)
(* expired, QR was disallowed, its device was revoked or replaced or its     *)
(* terminal switched off, while the scan waited for the lock                 *)
(* (terminals.service.ts:661).                                               *)
DeadDisplayNeverBooks ==
    [][\A s \in scans' \ scans :
           /\ s.challenge \notin dead
           /\ kiosk[paired[shown[s.challenge].device].terminal].qr
           /\ s.at < shown[s.challenge].ends]_server
=============================================================================
