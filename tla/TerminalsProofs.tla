-------------------------- MODULE TerminalsProofs --------------------------
(***************************************************************************)
(* What Terminals guarantees for every number of terminals, phones and     *)
(* calls in flight, and for all lengths of a day, of a code's life and of  *)
(* a display's.                                                            *)
(*                                                                         *)
(* A pairing code is a number that was never issued before.  It belongs to *)
(* one terminal that is on, or to one device, or to nobody any more; so    *)
(* whoever claims a terminal with it is the only one who ever does.        *)
(*                                                                         *)
(* And how many requests Admission lets a kiosk and a phone make, for all  *)
(* limits and windows: a counter tells of the window that began last, and  *)
(* two windows that adjoin are all that a minute can meet.                 *)
(***************************************************************************)
EXTENDS Terminals, Admission, FiniteSetTheorems, WellFoundedInduction, TLAPS

Device == [terminal: Terminals, code: Nat \ {NoCode}, revoked: BOOLEAN, gone: BOOLEAN]
Display == [device: Nat, root: Int, made: Nat, ends: Int]

\* What a call in flight has read.
CallOK(k) ==
    \/ k = NoCall
    \/ k.op = "issue" /\ k.terminal \in Terminals /\ k.ends \in Nat
    \/ k.op = "pair" /\ k.terminal \in Terminals /\ k.code \in Nat \ {NoCode}
    \/ k.op = "scan" /\ k.challenge \in DOMAIN shown

TerminalsTypes ==
    /\ clock \in Nat /\ codes \in Nat
    /\ kiosk \in [Terminals -> {Gone} \cup Kiosk]
    /\ paired \in Seq(Device)
    /\ shown \in Seq(Display)
    /\ \A k \in DOMAIN shown : shown[k].device \in DOMAIN paired
    /\ DOMAIN pending = Callers /\ \A c \in Callers : CallOK(pending[c])

\* The code that waits at terminal t, if any.
Waits(t) == kiosk[t].exists /\ kiosk[t].code # NoCode

\* Who holds a code: each was issued, and no two holders share one.
CodesSound ==
    /\ \A d \in DOMAIN paired : paired[d].code <= codes
    /\ \A d, d2 \in DOMAIN paired : paired[d].code = paired[d2].code => d = d2
    /\ \A t \in Terminals : Waits(t) =>
         /\ IsOn(t) /\ kiosk[t].code <= codes
         /\ \A d \in DOMAIN paired : paired[d].code # kiosk[t].code
         /\ \A t2 \in Terminals : Waits(t2) /\ kiosk[t2].code = kiosk[t].code => t2 = t

Lit(d) == ~paired[d].revoked /\ ~paired[d].gone

\* A display belongs to a terminal that is on, and to no other's.
DisplaysSingle ==
    \A d \in DOMAIN paired : Lit(d) =>
        /\ IsOn(paired[d].terminal)
        /\ \A d2 \in DOMAIN paired : Lit(d2) /\ paired[d2].terminal = paired[d].terminal => d2 = d

\* A display that was switched off stays off.
DeadStaysDark ==
    \A k \in dead : k \in DOMAIN shown /\ ~Lit(shown[k].device)

TInv == TerminalsTypes /\ CodesSound /\ DisplaysSingle /\ DeadStaysDark

-----------------------------------------------------------------------------
(* The types of what is read from the tables *)

LEMMA KioskFields ==
    ASSUME TerminalsTypes, NEW t \in Terminals
    PROVE  /\ kiosk[t] \in {Gone} \cup Kiosk
           /\ kiosk[t].exists \in BOOLEAN
           /\ kiosk[t].exists => kiosk[t] \in Kiosk /\ kiosk[t].active \in BOOLEAN
                                 /\ kiosk[t].code \in Nat
<1>1. kiosk[t] \in {Gone} \cup Kiosk
  BY DEF TerminalsTypes
<1>2. kiosk[t].exists => kiosk[t] \in Kiosk
  BY <1>1 DEF Gone
<1>3. ASSUME kiosk[t] \in Kiosk PROVE kiosk[t].exists \in BOOLEAN
  BY <1>3 DEF Kiosk
<1>4. Gone.exists \in BOOLEAN
  BY DEF Gone
<1> QED BY <1>1, <1>2, <1>3, <1>4 DEF Kiosk

LEMMA DeviceFields ==
    ASSUME TerminalsTypes, NEW d \in DOMAIN paired
    PROVE  /\ d \in Nat \ {0} /\ paired[d] \in Device /\ paired[d].terminal \in Terminals
           /\ paired[d].code \in Nat /\ paired[d].code # NoCode
           /\ paired[d].revoked \in BOOLEAN /\ paired[d].gone \in BOOLEAN
<1>1. paired \in Seq(Device)  BY DEF TerminalsTypes
<1>2. d \in Nat \ {0} /\ paired[d] \in Device  BY <1>1
<1> QED BY <1>2 DEF Device

\* A row of Terminal with new values is one again.
LEMMA KioskRow ==
    ASSUME NEW row \in Kiosk, NEW on \in BOOLEAN, NEW qr \in BOOLEAN, NEW zone \in Zones,
           NEW code \in Nat, NEW ends \in Nat
    PROVE  /\ [row EXCEPT !.active = on, !.code = code, !.codeEnds = ends] \in Kiosk
           /\ [row EXCEPT !.code = code, !.codeEnds = ends] \in Kiosk
           /\ [row EXCEPT !.active = on, !.qr = qr, !.zone = zone] \in Kiosk
BY DEF Kiosk

LEMMA Appended ==
    ASSUME NEW S, NEW s \in Seq(S), NEW x \in S
    PROVE  /\ Append(s, x) \in Seq(S) /\ DOMAIN Append(s, x) = 1 .. Len(s) + 1
           /\ Append(s, x)[Len(s) + 1] = x /\ \A i \in 1 .. Len(s) : Append(s, x)[i] = s[i]
           /\ Len(s) \in Nat /\ DOMAIN s = 1 .. Len(s)
OBVIOUS

\* The devices after some were revoked.
LEMMA RevokedFields ==
    ASSUME TerminalsTypes, NEW ds
    PROVE  /\ Revoked(ds) \in Seq(Device) /\ DOMAIN Revoked(ds) = DOMAIN paired
           /\ Len(Revoked(ds)) = Len(paired)
           /\ \A d \in DOMAIN paired :
                /\ Revoked(ds)[d].terminal = paired[d].terminal
                /\ Revoked(ds)[d].code = paired[d].code
                /\ Revoked(ds)[d].gone <=> paired[d].gone
                /\ Revoked(ds)[d].revoked <=> paired[d].revoked \/ d \in ds
<1> DEFINE new(d) == [paired[d] EXCEPT !.revoked = @ \/ d \in ds]
<1>1. paired \in Seq(Device) /\ DOMAIN paired = 1 .. Len(paired) /\ Len(paired) \in Nat
  BY DEF TerminalsTypes
<1>2. Revoked(ds) = [d \in 1 .. Len(paired) |-> new(d)]
  BY <1>1 DEF Revoked
<1>3. ASSUME NEW d \in DOMAIN paired
      PROVE  /\ new(d) \in Device /\ new(d).terminal = paired[d].terminal
             /\ new(d).code = paired[d].code
             /\ new(d).gone <=> paired[d].gone
             /\ new(d).revoked <=> paired[d].revoked \/ d \in ds
  <2>1. paired[d] \in Device
    BY DeviceFields
  <2> QED BY <2>1 DEF Device
<1> HIDE DEF new
<1> QED BY <1>1, <1>2, <1>3

\* The devices after those of a terminal were deleted with it.
LEMMA DeletedFields ==
    ASSUME TerminalsTypes, NEW ds,
           paired' = [d \in DOMAIN paired |-> [paired[d] EXCEPT !.gone = @ \/ d \in ds]]
    PROVE  /\ paired' \in Seq(Device) /\ DOMAIN paired' = DOMAIN paired
           /\ \A d \in DOMAIN paired :
                /\ paired'[d].terminal = paired[d].terminal
                /\ paired'[d].code = paired[d].code
                /\ paired'[d].revoked <=> paired[d].revoked
                /\ paired'[d].gone <=> paired[d].gone \/ d \in ds
<1> DEFINE new(d) == [paired[d] EXCEPT !.gone = @ \/ d \in ds]
<1>1. paired \in Seq(Device) /\ DOMAIN paired = 1 .. Len(paired) /\ Len(paired) \in Nat
  BY DEF TerminalsTypes
<1>2. paired' = [d \in 1 .. Len(paired) |-> new(d)]
  BY <1>1
<1>3. ASSUME NEW d \in DOMAIN paired
      PROVE  /\ new(d) \in Device /\ new(d).terminal = paired[d].terminal
             /\ new(d).code = paired[d].code
             /\ new(d).revoked <=> paired[d].revoked
             /\ new(d).gone <=> paired[d].gone \/ d \in ds
  <2>1. paired[d] \in Device
    BY DeviceFields
  <2> QED BY <2>1 DEF Device
<1> HIDE DEF new
<1> QED BY <1>1, <1>2, <1>3

-----------------------------------------------------------------------------
(* Steps of the devices *)

\* Devices keep their terminal and their code, and none is lit again.
Onward ==
    /\ paired' \in Seq(Device)
    /\ \A d \in DOMAIN paired :
         /\ d \in DOMAIN paired'
         /\ paired'[d].terminal = paired[d].terminal
         /\ paired'[d].code = paired[d].code
         /\ Lit(d)' => Lit(d)

\* Some devices are switched off, or none.
Dimmed(ds) ==
    /\ Onward /\ DOMAIN paired' = DOMAIN paired
    /\ \A d \in DOMAIN paired : d \in ds => ~Lit(d)'

LEMMA RevokedStep ==
    ASSUME TerminalsTypes, NEW ds, paired' = Revoked(ds)
    PROVE  Dimmed(ds)
BY RevokedFields DEF Onward, Dimmed, Lit

LEMMA DeletedStep ==
    ASSUME TerminalsTypes, NEW ds,
           paired' = [d \in DOMAIN paired |-> [paired[d] EXCEPT !.gone = @ \/ d \in ds]]
    PROVE  Dimmed(ds)
BY DeletedFields DEF Onward, Dimmed, Lit

LEMMA SamePaired ==
    ASSUME TerminalsTypes, paired' = paired
    PROVE  Dimmed({})
BY DEF Onward, Dimmed, Lit, TerminalsTypes

\* A device is paired in place of whatever was there.
LEMMA PairStep ==
    ASSUME TerminalsTypes, NEW t \in Terminals, NEW code \in Nat \ {NoCode},
           paired' = Append(Revoked(LiveAt(t)), [terminal |-> t, code |-> code,
                                                 revoked |-> FALSE, gone |-> FALSE])
    PROVE  /\ Onward /\ DOMAIN paired' = 1 .. Len(paired) + 1
           /\ DOMAIN paired = 1 .. Len(paired) /\ Len(paired) \in Nat
           /\ paired'[Len(paired) + 1].terminal = t
           /\ paired'[Len(paired) + 1].code = code
           /\ \A d \in DOMAIN paired : d \in LiveAt(t) => ~Lit(d)'
<1> DEFINE new == [terminal |-> t, code |-> code, revoked |-> FALSE, gone |-> FALSE]
           old == Revoked(LiveAt(t))
           n == Len(paired)
<1>1. new \in Device /\ new.terminal = t /\ new.code = code
  BY DEF Device
<1>2. /\ old \in Seq(Device) /\ DOMAIN old = DOMAIN paired /\ Len(old) = n
      /\ \A d \in DOMAIN paired :
           /\ old[d].terminal = paired[d].terminal /\ old[d].code = paired[d].code
           /\ old[d].gone <=> paired[d].gone
           /\ old[d].revoked <=> paired[d].revoked \/ d \in LiveAt(t)
  BY RevokedFields
<1>3. paired' = Append(old, new)
  OBVIOUS
<1>4. n \in Nat /\ DOMAIN paired = 1 .. n
  BY DEF TerminalsTypes
<1> HIDE DEF new, old
<1>5. /\ paired' \in Seq(Device) /\ DOMAIN paired' = 1 .. n + 1
      /\ paired'[n + 1] = new /\ \A d \in 1 .. n : paired'[d] = old[d]
  <2>1. /\ Append(old, new) \in Seq(Device) /\ DOMAIN Append(old, new) = 1 .. Len(old) + 1
        /\ Append(old, new)[Len(old) + 1] = new
        /\ \A d \in 1 .. Len(old) : Append(old, new)[d] = old[d]
    BY <1>1, <1>2, Appended
  <2> QED BY <1>2, <1>3, <2>1
<1> QED BY <1>1, <1>2, <1>4, <1>5 DEF Onward, Lit

-----------------------------------------------------------------------------
(* Types *)

LEMMA KioskStep ==
    ASSUME TerminalsTypes, NEW t \in Terminals, NEW row \in {Gone} \cup Kiosk,
           kiosk' = [kiosk EXCEPT ![t] = row]
    PROVE  /\ kiosk' \in [Terminals -> {Gone} \cup Kiosk] /\ kiosk'[t] = row
           /\ \A t2 \in Terminals : t2 # t => kiosk'[t2] = kiosk[t2]
BY DEF TerminalsTypes

LEMMA SameCalls ==
    ASSUME TerminalsTypes, pending' = pending, DOMAIN shown \subseteq DOMAIN shown'
    PROVE  DOMAIN pending' = Callers /\ \A c \in Callers : CallOK(pending[c])'
BY DEF TerminalsTypes, CallOK

LEMMA CallStep ==
    ASSUME TerminalsTypes, NEW c \in Callers, NEW k, CallOK(k),
           pending' = [pending EXCEPT ![c] = k], shown' = shown
    PROVE  DOMAIN pending' = Callers /\ \A c2 \in Callers : CallOK(pending[c2])'
<1>1. DOMAIN pending' = Callers
  BY DEF TerminalsTypes
<1>2. ASSUME NEW c2 \in Callers PROVE CallOK(pending[c2])'
  <2>1. pending'[c2] = IF c2 = c THEN k ELSE pending[c2]
    BY DEF TerminalsTypes
  <2> QED BY <2>1 DEF TerminalsTypes, CallOK
<1> QED BY <1>1, <1>2

LEMMA TypesStep ==
    ASSUME TInv, TerminalsNext
    PROVE  TerminalsTypes'
<1> USE TerminalsAssumption
<1>0. TerminalsTypes /\ codes \in Nat /\ clock \in Nat
  BY DEF TInv, TerminalsTypes
<1> DEFINE Displays == /\ shown \in Seq(Display)
                       /\ \A k \in DOMAIN shown : shown[k].device \in DOMAIN paired
           Callings == DOMAIN pending = Callers /\ \A c \in Callers : CallOK(pending[c])
           KioskRows == kiosk \in [Terminals -> {Gone} \cup Kiosk]
           Devices == paired \in Seq(Device)
<1>a. Displays /\ Callings /\ KioskRows /\ Devices
  BY <1>0 DEF TerminalsTypes
<1>b. ASSUME shown' = shown, Onward PROVE Displays' /\ Devices'
  BY <1>a, <1>b DEF Onward
<1>c. ASSUME paired' = paired PROVE Onward
  BY <1>0, <1>c, SamePaired DEF Dimmed
<1>d. ASSUME Displays', Callings', KioskRows', Devices', codes' \in Nat, clock' \in Nat
      PROVE  TerminalsTypes'
  BY <1>d DEF TerminalsTypes
<1>1. ASSUME Administration PROVE TerminalsTypes'
  <2>1. shown' = shown /\ pending' = pending /\ codes' = codes /\ clock' = clock
    BY <1>1 DEF Administration, CreateTerminal, SwitchOff, Configure, DeletePermanently,
                RevokeDevice
  <2>2. Callings'
    BY <1>0, <2>1, SameCalls
  <2>3. KioskRows' /\ Onward
    <3> SUFFICES ASSUME NEW t2 \in Terminals,
                        \/ \E on \in BOOLEAN, zone \in Zones : CreateTerminal(t2, on, zone)
                        \/ SwitchOff(t2) \/ Configure(t2) \/ DeletePermanently(t2)
                        \/ \E d \in DOMAIN paired : RevokeDevice(t2, d)
                 PROVE  KioskRows' /\ Onward
      BY <1>1 DEF Administration
    <3>1. CASE \E on \in BOOLEAN, zone \in Zones : CreateTerminal(t2, on, zone)
      <4>1. PICK row \in Kiosk : kiosk' = [kiosk EXCEPT ![t2] = row]
        BY <3>1 DEF CreateTerminal, Kiosk, NoCode
      <4> QED BY <1>0, <1>c, <3>1, <4>1, KioskStep DEF CreateTerminal
    <3>2. CASE SwitchOff(t2)
      <4>1. PICK row \in Kiosk : kiosk' = [kiosk EXCEPT ![t2] = row]
        BY <1>0, <3>2, KioskFields, KioskRow DEF SwitchOff, SwitchedOff, NoCode
      <4>2. Onward
        BY <1>0, <3>2, RevokedStep DEF SwitchOff, Dimmed
      <4> QED BY <1>0, <4>1, <4>2, KioskStep
    <3>3. CASE Configure(t2)
      <4>1. kiosk[t2] \in Kiosk /\ kiosk[t2].active \in BOOLEAN
        BY <1>0, <3>3, KioskFields DEF Configure
      <4>2. PICK on \in BOOLEAN, qr \in BOOLEAN, zone \in Zones :
              kiosk' = [kiosk EXCEPT ![t2] =
                           [kiosk[t2] EXCEPT !.active = on, !.qr = qr, !.zone = zone]]
        BY <3>3, <4>1 DEF Configure
      <4>3. PICK row \in Kiosk : kiosk' = [kiosk EXCEPT ![t2] = row]
        BY <4>1, <4>2 DEF Kiosk
      <4> QED BY <1>0, <1>c, <3>3, <4>3, KioskStep DEF Configure
    <3>4. CASE DeletePermanently(t2)
      <4>1. Onward
        BY <1>0, <3>4, DeletedStep DEF DeletePermanently, Dimmed
      <4> QED BY <1>0, <3>4, <4>1, KioskStep DEF DeletePermanently
    <3>5. CASE \E d \in DOMAIN paired : RevokeDevice(t2, d)
      <4>1. Onward
        BY <1>0, <3>5, RevokedStep DEF RevokeDevice, Dimmed
      <4> QED BY <1>a, <3>5, <4>1 DEF RevokeDevice
    <3> QED BY <3>1, <3>2, <3>3, <3>4, <3>5
  <2> QED BY <1>0, <1>b, <1>d, <2>1, <2>2, <2>3
<1>2. ASSUME NEW c \in Callers, Calls(c) PROVE TerminalsTypes'
  <2>0. shown' = shown
    BY <1>2 DEF Calls, BeginIssue, BeginPair, BeginScan, IssueCode, Pair, Scan, GiveUp
  <2>1. ASSUME NEW t \in Terminals, BeginIssue(c, t) PROVE TerminalsTypes'
    <3>1. PICK k : k = [op |-> "issue", terminal |-> t, ends |-> clock + CodeTtl]
      OBVIOUS
    <3>2. CallOK(k)
      BY <1>0, <3>1 DEF CallOK
    <3>3. Callings'
      BY <1>0, <2>0, <2>1, <3>1, <3>2, CallStep DEF BeginIssue, Enter
    <3> QED BY <1>0, <1>a, <1>b, <1>c, <1>d, <2>0, <2>1, <3>3 DEF BeginIssue
  <2>2. ASSUME NEW t \in Terminals, BeginPair(c, t) PROVE TerminalsTypes'
    <3>1. PICK k : k = [op |-> "pair", terminal |-> t, code |-> kiosk[t].code, at |-> clock]
      OBVIOUS
    <3>2. CallOK(k)
      BY <1>0, <2>2, <3>1, KioskFields DEF CallOK, BeginPair
    <3>3. Callings'
      BY <1>0, <2>0, <2>2, <3>1, <3>2, CallStep DEF BeginPair, Enter
    <3> QED BY <1>0, <1>a, <1>b, <1>c, <1>d, <2>0, <2>2, <3>3 DEF BeginPair
  <2>3. ASSUME NEW e \in Phones, NEW n \in DOMAIN shown, NEW only \in Booked \cup {"either"},
               BeginScan(c, e, n, only)
        PROVE  TerminalsTypes'
    <3>1. PICK k : k = [op |-> "scan", emp |-> e, challenge |-> n, asked |-> only]
      OBVIOUS
    <3>2. CallOK(k)
      BY <1>0, <3>1 DEF CallOK
    <3>3. Callings'
      BY <1>0, <2>0, <2>3, <3>1, <3>2, CallStep DEF BeginScan, Enter
    <3> QED BY <1>0, <1>a, <1>b, <1>c, <1>d, <2>0, <2>3, <3>3 DEF BeginScan
  <2>4. ASSUME IssueCode(c) \/ Pair(c) \/ Scan(c) \/ GiveUp(c) PROVE Callings'
    <3>1. CallOK(NoCall)
      BY DEF CallOK
    <3>2. pending' = [pending EXCEPT ![c] = NoCall]
      BY <2>4 DEF IssueCode, Pair, Scan, GiveUp, Leave
    <3> QED BY <1>0, <2>0, <3>1, <3>2, CallStep
  <2>5. CASE IssueCode(c)
    <3> DEFINE t == pending[c].terminal
    <3>1. t \in Terminals /\ pending[c].ends \in Nat
      BY <1>a, <2>5 DEF IssueCode, Leave, CallOK, NoCall
    <3>2. PICK row \in Kiosk : kiosk' = [kiosk EXCEPT ![t] = row]
      <4>1. kiosk[t] \in Kiosk
        BY <1>0, <2>5, <3>1, KioskFields DEF IssueCode, IsOn
      <4>2. codes + 1 \in Nat
        BY <1>0
      <4>3. [kiosk[t] EXCEPT !.code = codes + 1, !.codeEnds = pending[c].ends] \in Kiosk
        BY <3>1, <4>1, <4>2 DEF Kiosk
      <4> QED BY <2>5, <4>3 DEF IssueCode
    <3>3. KioskRows'
      BY <1>0, <3>1, <3>2, KioskStep
    <3>4. /\ codes' = codes + 1 /\ clock' = clock /\ paired' = paired
      BY <2>5 DEF IssueCode
    <3>5. codes' \in Nat /\ clock' \in Nat
      BY <1>0, <3>4
    <3> QED BY <1>a, <1>b, <1>c, <1>d, <2>0, <2>4, <2>5, <3>3, <3>4, <3>5
  <2>6. CASE Pair(c)
    <3> DEFINE t == pending[c].terminal
    <3>1. t \in Terminals /\ pending[c].code \in Nat \ {NoCode}
      BY <1>a, <2>6 DEF Pair, Leave, CallOK, NoCall
    <3>2. PICK row \in Kiosk : kiosk' = [kiosk EXCEPT ![t] = row]
      <4>1. kiosk[t] \in Kiosk
        BY <1>0, <2>6, <3>1, KioskFields DEF Pair, Claimable, IsOn
      <4> QED BY <1>0, <2>6, <3>1, <4>1 DEF Pair, Kiosk, NoCode
    <3>3. KioskRows'
      BY <1>0, <3>1, <3>2, KioskStep
    <3>4. Onward
      BY <1>0, <2>6, <3>1, PairStep DEF Pair
    <3> QED BY <1>0, <1>b, <1>d, <2>0, <2>4, <2>6, <3>3, <3>4 DEF Pair
  <2>7. CASE Scan(c) \/ GiveUp(c)
    BY <1>0, <1>a, <1>b, <1>c, <1>d, <2>0, <2>4, <2>7 DEF Scan, GiveUp
  <2> QED BY <1>2, <2>1, <2>2, <2>3, <2>5, <2>6, <2>7 DEF Calls
<1>3. ASSUME NEW d \in DOMAIN paired, KioskState(d) PROVE TerminalsTypes'
  <2> DEFINE row == kiosk[paired[d].terminal]
             root == DateKey(clock, row.zone)
             ends == Earlier(clock + ShowTtl, NextLocalMidnight(clock, row.zone))
  <2>1. paired[d].terminal \in Terminals /\ d \in Nat
    BY <1>0, DeviceFields
  <2>2. row.zone \in Nat
    BY <1>0, <1>3, <2>1, KioskFields DEF KioskState, Working, IsOn, Kiosk
  <2>3. root \in Int
    BY <1>0, <2>2 DEF DateKey
  <2>4. ends \in Int
    BY <1>0, <2>2, <2>3 DEF NextLocalMidnight, Earlier
  <2> HIDE DEF root, ends
  <2>5. PICK new : new = [device |-> d, root |-> root, made |-> clock, ends |-> ends]
    OBVIOUS
  <2>6. new \in Display /\ new.device = d
    BY <1>0, <2>1, <2>3, <2>4, <2>5 DEF Display
  <2>7. shown' = Append(shown, new) /\ paired' = paired
    BY <1>3, <2>5 DEF KioskState, root, ends
  <2>8. /\ shown' \in Seq(Display) /\ DOMAIN shown' = 1 .. Len(shown) + 1
        /\ shown'[Len(shown) + 1] = new /\ \A i \in 1 .. Len(shown) : shown'[i] = shown[i]
        /\ Len(shown) \in Nat /\ DOMAIN shown = 1 .. Len(shown)
    BY <1>a, <2>6, <2>7, Appended
  <2>9. Displays' /\ Callings'
    BY <1>0, <1>3, <1>a, <2>6, <2>7, <2>8, SameCalls DEF KioskState
  <2> QED BY <1>0, <1>3, <1>a, <1>d, <2>9 DEF KioskState
<1>4. CASE Elapse
  <2>1. Callings'
    BY <1>0, <1>4, SameCalls DEF Elapse
  <2> QED BY <1>0, <1>4, <1>a, <1>b, <1>c, <1>d, <2>1 DEF Elapse
<1> QED BY <1>1, <1>2, <1>3, <1>4 DEF TerminalsNext, Administration

-----------------------------------------------------------------------------
(* Codes and displays *)

\* Nothing new: codes go away, devices are switched off, and no terminal goes
\* off under a device that stays lit.
LEMMA QuietStep ==
    ASSUME TInv, TerminalsTypes', NEW ds, Dimmed(ds), codes' = codes,
           \A t \in Terminals : Waits(t)' =>
               /\ Waits(t) /\ kiosk'[t].code = kiosk[t].code
               /\ IsOn(t)',
           \A d \in DOMAIN paired : Lit(d)' => IsOn(paired[d].terminal)'
    PROVE  CodesSound' /\ DisplaysSingle'
<1>1. /\ TerminalsTypes /\ CodesSound /\ DisplaysSingle /\ DOMAIN paired' = DOMAIN paired
      /\ \A d \in DOMAIN paired : /\ paired'[d].terminal = paired[d].terminal
                                  /\ paired'[d].code = paired[d].code
                                  /\ Lit(d)' => Lit(d)
  BY DEF TInv, Dimmed, Onward
<1>2. CodesSound'
  <2>1. ASSUME NEW t \in Terminals, Waits(t)'
        PROVE  /\ IsOn(t)' /\ kiosk'[t].code <= codes'
               /\ \A d \in DOMAIN paired' : paired'[d].code # kiosk'[t].code
               /\ \A t2 \in Terminals : Waits(t2)' /\ kiosk'[t2].code = kiosk'[t].code => t2 = t
    BY <1>1, <2>1 DEF CodesSound
  <2>2. /\ \A d \in DOMAIN paired' : paired'[d].code <= codes'
        /\ \A d, d2 \in DOMAIN paired' : paired'[d].code = paired'[d2].code => d = d2
    BY <1>1 DEF CodesSound
  <2> QED BY <2>1, <2>2 DEF CodesSound
<1>3. DisplaysSingle'
  <2> SUFFICES ASSUME NEW d \in DOMAIN paired, Lit(d)'
               PROVE  /\ IsOn(paired[d].terminal)'
                      /\ \A d2 \in DOMAIN paired :
                           Lit(d2)' /\ paired'[d2].terminal = paired'[d].terminal => d2 = d
    BY <1>1 DEF DisplaysSingle
  <2> QED BY <1>1 DEF DisplaysSingle
<1> QED BY <1>2, <1>3

\* Without a new code or device it is enough that the terminals stay.
LEMMA StillStep ==
    ASSUME TInv, TerminalsTypes', UNCHANGED <<kiosk, paired, codes>>
    PROVE  CodesSound' /\ DisplaysSingle'
BY DEF TInv, CodesSound, DisplaysSingle, Waits, IsOn, Lit

LEMMA AdministrationStep ==
    ASSUME TInv, TerminalsTypes', Administration
    PROVE  CodesSound' /\ DisplaysSingle'
<1>0. TerminalsTypes /\ CodesSound /\ DisplaysSingle
  BY DEF TInv
<1>1. ASSUME NEW t \in Terminals, NEW on \in BOOLEAN, NEW zone \in Zones,
             CreateTerminal(t, on, zone)
      PROVE  CodesSound' /\ DisplaysSingle'
  <2>1. PICK row : row = [exists |-> TRUE, active |-> on, qr |-> TRUE, zone |-> zone,
                          code |-> NoCode, codeEnds |-> 0]
    OBVIOUS
  <2>2. kiosk' = [kiosk EXCEPT ![t] = row] /\ row \in Kiosk /\ row.code = NoCode
    BY <1>1, <2>1 DEF CreateTerminal, Kiosk, NoCode
  <2>3. kiosk'[t] = row /\ \A t2 \in Terminals : t2 # t => kiosk'[t2] = kiosk[t2]
    BY <1>0, <2>2, KioskStep
  <2>4. paired' = paired /\ codes' = codes /\ ~kiosk[t].exists
    BY <1>1 DEF CreateTerminal
  <2>5. ASSUME NEW t2 \in Terminals, Waits(t2)'
        PROVE  Waits(t2) /\ kiosk'[t2].code = kiosk[t2].code /\ IsOn(t2)'
    BY <1>0, <2>2, <2>3, <2>5 DEF Waits, CodesSound, IsOn
  <2>6. ASSUME NEW d \in DOMAIN paired, Lit(d)' PROVE IsOn(paired[d].terminal)'
    <3>1. IsOn(paired[d].terminal) /\ paired[d].terminal # t /\ paired[d].terminal \in Terminals
      BY <1>0, <2>4, <2>6, DeviceFields DEF DisplaysSingle, IsOn, Lit
    <3> QED BY <2>3, <2>4, <3>1 DEF IsOn
  <2> QED BY <1>0, <2>4, <2>5, <2>6, QuietStep, SamePaired
<1>2. ASSUME NEW t \in Terminals, SwitchOff(t)
      PROVE  CodesSound' /\ DisplaysSingle'
  <2>1. PICK row : row = SwitchedOff(kiosk[t])
    OBVIOUS
  <2>2. kiosk' = [kiosk EXCEPT ![t] = row] /\ row \in Kiosk /\ row.code = NoCode
    <3>1. kiosk[t] \in Kiosk
      BY <1>0, <1>2, KioskFields DEF SwitchOff
    <3>2. row \in Kiosk /\ row.code = NoCode
      BY <2>1, <3>1 DEF SwitchedOff, Kiosk, NoCode
    <3> QED BY <1>2, <2>1, <3>2 DEF SwitchOff
  <2>3. kiosk'[t] = row /\ \A t2 \in Terminals : t2 # t => kiosk'[t2] = kiosk[t2]
    BY <1>0, <2>2, KioskStep
  <2>4. Dimmed(LiveAt(t)) /\ codes' = codes
    BY <1>0, <1>2, RevokedStep DEF SwitchOff
  <2>5. ASSUME NEW t2 \in Terminals, Waits(t2)'
        PROVE  Waits(t2) /\ kiosk'[t2].code = kiosk[t2].code /\ IsOn(t2)'
    BY <1>0, <2>2, <2>3, <2>5 DEF Waits, CodesSound, IsOn
  <2>6. ASSUME NEW d \in DOMAIN paired, Lit(d)' PROVE IsOn(paired[d].terminal)'
    <3>1. Lit(d) /\ d \notin LiveAt(t) /\ paired'[d].terminal = paired[d].terminal
      BY <2>4, <2>6 DEF Dimmed, Onward
    <3>2. IsOn(paired[d].terminal) /\ paired[d].terminal # t /\ paired[d].terminal \in Terminals
      BY <1>0, <3>1, DeviceFields DEF DisplaysSingle, LiveAt, DevicesAt, Lit
    <3> QED BY <2>3, <3>1, <3>2 DEF IsOn
  <2> QED BY <2>4, <2>5, <2>6, QuietStep
<1>3. ASSUME NEW t \in Terminals, Configure(t)
      PROVE  CodesSound' /\ DisplaysSingle'
  <2>1. kiosk[t] \in Kiosk /\ kiosk[t].active \in BOOLEAN
    BY <1>0, <1>3, KioskFields DEF Configure
  <2>2. PICK on \in {TRUE, kiosk[t].active}, qr \in BOOLEAN, zone \in Zones :
          kiosk' = [kiosk EXCEPT ![t] =
                       [kiosk[t] EXCEPT !.active = on, !.qr = qr, !.zone = zone]]
    BY <1>3 DEF Configure
  <2>3. PICK row : row = [kiosk[t] EXCEPT !.active = on, !.qr = qr, !.zone = zone]
    OBVIOUS
  <2>4. /\ row \in Kiosk /\ row.code = kiosk[t].code
        /\ kiosk[t].active => row.active
    BY <2>1, <2>2, <2>3 DEF Kiosk
  <2>5. kiosk'[t] = row /\ \A t2 \in Terminals : t2 # t => kiosk'[t2] = kiosk[t2]
    BY <1>0, <2>2, <2>3, <2>4, KioskStep
  <2>6. paired' = paired /\ codes' = codes
    BY <1>3 DEF Configure
  <2>7. \A t2 \in Terminals : IsOn(t2) => IsOn(t2)'
    BY <2>1, <2>4, <2>5 DEF IsOn, Kiosk
  <2>8. ASSUME NEW t2 \in Terminals, Waits(t2)'
        PROVE  Waits(t2) /\ kiosk'[t2].code = kiosk[t2].code /\ IsOn(t2)'
    <3>1. Waits(t2) /\ kiosk'[t2].code = kiosk[t2].code
      BY <2>1, <2>4, <2>5, <2>8 DEF Waits, Kiosk
    <3> QED BY <1>0, <2>7, <3>1 DEF CodesSound
  <2>9. ASSUME NEW d \in DOMAIN paired, Lit(d)' PROVE IsOn(paired[d].terminal)'
    <3>1. IsOn(paired[d].terminal) /\ paired[d].terminal \in Terminals
      BY <1>0, <2>6, <2>9, DeviceFields DEF DisplaysSingle, Lit
    <3> QED BY <2>6, <2>7, <3>1 DEF IsOn
  <2> QED BY <1>0, <2>6, <2>8, <2>9, QuietStep, SamePaired
<1>4. ASSUME NEW t \in Terminals, DeletePermanently(t)
      PROVE  CodesSound' /\ DisplaysSingle'
  <2>3. kiosk'[t] = Gone /\ \A t2 \in Terminals : t2 # t => kiosk'[t2] = kiosk[t2]
    BY <1>0, <1>4, KioskStep DEF DeletePermanently
  <2>4. Dimmed(DevicesAt(t)) /\ codes' = codes
    BY <1>0, <1>4, DeletedStep DEF DeletePermanently
  <2>5. ASSUME NEW t2 \in Terminals, Waits(t2)'
        PROVE  Waits(t2) /\ kiosk'[t2].code = kiosk[t2].code /\ IsOn(t2)'
    <3>1. t2 # t
      BY <2>3, <2>5 DEF Waits, Gone
    <3> QED BY <1>0, <2>3, <2>5, <3>1 DEF Waits, CodesSound, IsOn
  <2>6. ASSUME NEW d \in DOMAIN paired, Lit(d)' PROVE IsOn(paired[d].terminal)'
    <3>1. Lit(d) /\ d \notin DevicesAt(t) /\ paired'[d].terminal = paired[d].terminal
      BY <2>4, <2>6 DEF Dimmed, Onward
    <3>2. IsOn(paired[d].terminal) /\ paired[d].terminal # t /\ paired[d].terminal \in Terminals
      BY <1>0, <3>1, DeviceFields DEF DisplaysSingle, DevicesAt, Lit
    <3> QED BY <2>3, <3>1, <3>2 DEF IsOn
  <2> QED BY <2>4, <2>5, <2>6, QuietStep
<1>5. ASSUME NEW t \in Terminals, NEW d \in DOMAIN paired, RevokeDevice(t, d)
      PROVE  CodesSound' /\ DisplaysSingle'
  <2>1. Dimmed({d}) /\ codes' = codes /\ kiosk' = kiosk
    BY <1>0, <1>5, RevokedStep DEF RevokeDevice
  <2>2. ASSUME NEW t2 \in Terminals, Waits(t2)'
        PROVE  Waits(t2) /\ kiosk'[t2].code = kiosk[t2].code /\ IsOn(t2)'
    BY <1>0, <2>1, <2>2 DEF Waits, CodesSound, IsOn
  <2>3. ASSUME NEW d2 \in DOMAIN paired, Lit(d2)' PROVE IsOn(paired[d2].terminal)'
    BY <1>0, <2>1, <2>3 DEF Dimmed, Onward, DisplaysSingle, IsOn
  <2> QED BY <2>1, <2>2, <2>3, QuietStep
<1> QED BY <1>1, <1>2, <1>3, <1>4, <1>5 DEF Administration

\* A code that is issued was never issued before.
LEMMA IssueStep ==
    ASSUME TInv, TerminalsTypes', NEW c \in Callers, IssueCode(c)
    PROVE  CodesSound' /\ DisplaysSingle'
<1> DEFINE t == pending[c].terminal
<1>0. TerminalsTypes /\ CodesSound /\ DisplaysSingle /\ codes \in Nat
  BY DEF TInv, TerminalsTypes
<1>1. t \in Terminals /\ pending[c].ends \in Nat /\ IsOn(t)
  BY <1>0 DEF IssueCode, Leave, TerminalsTypes, CallOK, NoCall
<1>2. kiosk[t] \in Kiosk /\ kiosk[t].exists /\ kiosk[t].active
  BY <1>0, <1>1, KioskFields DEF IsOn
<1>3. PICK row : row = [kiosk[t] EXCEPT !.code = codes + 1, !.codeEnds = pending[c].ends]
  OBVIOUS
<1>4. row \in Kiosk /\ row.code = codes + 1 /\ row.active /\ row.exists
  <2>1. codes + 1 \in Nat
    BY <1>0
  <2> QED BY <1>1, <1>2, <1>3, <2>1 DEF Kiosk
<1>5. kiosk' = [kiosk EXCEPT ![t] = row] /\ codes' = codes + 1 /\ paired' = paired
  BY <1>3 DEF IssueCode
<1>6. kiosk'[t] = row /\ \A t2 \in Terminals : t2 # t => kiosk'[t2] = kiosk[t2]
  BY <1>0, <1>1, <1>4, <1>5, KioskStep
<1> HIDE DEF t
<1>7. \A d \in DOMAIN paired : paired[d].code \in Nat /\ paired[d].code <= codes
  BY <1>0, DeviceFields DEF CodesSound
<1>8. \A t2 \in Terminals : Waits(t2) => kiosk[t2].code \in Nat /\ kiosk[t2].code <= codes
  BY <1>0, KioskFields DEF CodesSound, Waits
<1>9. \A t2 \in Terminals : IsOn(t2)' <=> IsOn(t2)
  BY <1>2, <1>4, <1>6 DEF IsOn
<1>10. ASSUME NEW t2 \in Terminals, Waits(t2)'
       PROVE  /\ IsOn(t2)' /\ kiosk'[t2].code <= codes'
              /\ \A d \in DOMAIN paired' : paired'[d].code # kiosk'[t2].code
              /\ \A t3 \in Terminals : Waits(t3)' /\ kiosk'[t3].code = kiosk'[t2].code => t3 = t2
  <2>1. CASE t2 = t
    <3>1. \A t3 \in Terminals : t3 # t /\ Waits(t3)' =>
              kiosk'[t3].code \in Nat /\ kiosk'[t3].code <= codes
      BY <1>6, <1>8 DEF Waits
    <3>2. kiosk'[t2].code = codes + 1
      BY <1>4, <1>6, <2>1
    <3>3. \A t3 \in Terminals : Waits(t3)' /\ kiosk'[t3].code = codes + 1 => t3 = t
      BY <1>0, <3>1
    <3> QED BY <1>0, <1>1, <1>5, <1>7, <1>9, <2>1, <3>2, <3>3
  <2>2. CASE t2 # t
    <3>1. Waits(t2) /\ kiosk'[t2].code = kiosk[t2].code /\ kiosk[t2].code <= codes
          /\ kiosk[t2].code \in Nat
      BY <1>6, <1>8, <1>10, <2>2 DEF Waits
    <3>2. ASSUME NEW t3 \in Terminals, Waits(t3)', kiosk'[t3].code = kiosk'[t2].code
          PROVE  t3 = t2
      <4>1. t3 # t
        BY <1>0, <1>4, <1>6, <3>1, <3>2
      <4> QED BY <1>0, <1>6, <3>1, <3>2, <4>1 DEF CodesSound, Waits
    <3> QED BY <1>0, <1>5, <1>9, <3>1, <3>2 DEF CodesSound
  <2> QED BY <2>1, <2>2
<1>11. CodesSound'
  <2>1. /\ \A d \in DOMAIN paired' : paired'[d].code <= codes'
        /\ \A d, d2 \in DOMAIN paired' : paired'[d].code = paired'[d2].code => d = d2
    BY <1>0, <1>5, <1>7 DEF CodesSound
  <2> QED BY <1>10, <2>1 DEF CodesSound
<1>12. DisplaysSingle'
  <2>1. \A d \in DOMAIN paired : paired[d].terminal \in Terminals
    BY <1>0, DeviceFields
  <2> QED BY <1>0, <1>5, <1>9, <2>1 DEF DisplaysSingle, Lit, IsOn
<1> QED BY <1>11, <1>12

\* A code that is claimed has no other holder, and the device that claims it
\* replaces the one that was lit.
LEMMA ClaimStep ==
    ASSUME TInv, TerminalsTypes', NEW c \in Callers, Pair(c)
    PROVE  CodesSound' /\ DisplaysSingle'
<1>a. PICK t, code, n : /\ t = pending[c].terminal /\ code = pending[c].code
                        /\ n = Len(paired) + 1
  OBVIOUS
<1>0. TerminalsTypes /\ CodesSound /\ DisplaysSingle
  BY DEF TInv
<1>1. t \in Terminals /\ code \in Nat \ {NoCode}
  <2>1. pending[c].op = "pair" /\ CallOK(pending[c])
    BY <1>0 DEF Pair, Leave, TerminalsTypes
  <2> QED BY <1>a, <2>1 DEF CallOK, NoCall
<1>2. IsOn(t) /\ kiosk[t].code = code /\ codes' = codes
  BY <1>a DEF Pair, Claimable
<1>3. kiosk[t] \in Kiosk /\ kiosk[t].exists /\ kiosk[t].active /\ Waits(t)
  BY <1>0, <1>1, <1>2, KioskFields DEF IsOn, Waits
<1>4. PICK row : row = [kiosk[t] EXCEPT !.code = NoCode, !.codeEnds = 0]
  OBVIOUS
<1>5. row \in Kiosk /\ row.code = NoCode /\ row.active /\ row.exists
  BY <1>3, <1>4 DEF Kiosk, NoCode
<1>6. kiosk' = [kiosk EXCEPT ![t] = row]
  BY <1>a, <1>4 DEF Pair
<1>7. kiosk'[t] = row /\ \A t2 \in Terminals : t2 # t => kiosk'[t2] = kiosk[t2]
  BY <1>0, <1>1, <1>5, <1>6, KioskStep
<1>8. /\ Onward /\ DOMAIN paired' = DOMAIN paired \cup {n} /\ n \notin DOMAIN paired
      /\ paired'[n].terminal = t /\ paired'[n].code = code
      /\ \A d \in DOMAIN paired : d \in LiveAt(t) => ~Lit(d)'
  <2>1. paired' = Append(Revoked(LiveAt(t)), [terminal |-> t, code |-> code,
                                              revoked |-> FALSE, gone |-> FALSE])
    BY <1>a DEF Pair
  <2>2. /\ Onward /\ DOMAIN paired' = 1 .. n /\ DOMAIN paired = 1 .. Len(paired)
        /\ Len(paired) \in Nat
        /\ paired'[n].terminal = t /\ paired'[n].code = code
        /\ \A d \in DOMAIN paired : d \in LiveAt(t) => ~Lit(d)'
    BY <1>a, <1>0, <1>1, <2>1, PairStep
  <2> QED BY <1>a, <2>2
<1>9. \A t2 \in Terminals : IsOn(t2)' <=> IsOn(t2)
  BY <1>3, <1>5, <1>7 DEF IsOn
<1>10. \A d \in DOMAIN paired : /\ paired'[d].code = paired[d].code
                                /\ paired'[d].terminal = paired[d].terminal
                                /\ Lit(d)' => Lit(d)
  BY <1>8 DEF Onward
<1>11. \A t2 \in Terminals : Waits(t2)' =>
         t2 # t /\ Waits(t2) /\ kiosk'[t2].code = kiosk[t2].code
  BY <1>5, <1>7 DEF Waits
<1>12. CodesSound'
  <2>1. \A d \in DOMAIN paired' : paired'[d].code <= codes'
    BY <1>0, <1>1, <1>2, <1>3, <1>8, <1>10 DEF CodesSound
  <2>2. \A d \in DOMAIN paired : paired[d].code # code
    BY <1>0, <1>1, <1>2, <1>3 DEF CodesSound
  <2>3. \A d, d2 \in DOMAIN paired' : paired'[d].code = paired'[d2].code => d = d2
    BY <1>0, <1>8, <1>10, <2>2 DEF CodesSound
  <2>4. ASSUME NEW t2 \in Terminals, Waits(t2)'
        PROVE  /\ IsOn(t2)' /\ kiosk'[t2].code <= codes'
               /\ \A d \in DOMAIN paired' : paired'[d].code # kiosk'[t2].code
               /\ \A t3 \in Terminals :
                    Waits(t3)' /\ kiosk'[t3].code = kiosk'[t2].code => t3 = t2
    <3>1. t2 # t /\ Waits(t2) /\ kiosk'[t2].code = kiosk[t2].code
      BY <1>11, <2>4
    <3>2. kiosk[t2].code # code
      BY <1>0, <1>1, <1>2, <1>3, <3>1 DEF CodesSound
    <3>3. IsOn(t2)' /\ kiosk'[t2].code <= codes'
      BY <1>0, <1>2, <1>9, <3>1 DEF CodesSound
    <3>4. \A d \in DOMAIN paired' : paired'[d].code # kiosk'[t2].code
      BY <1>0, <1>8, <1>10, <3>1, <3>2 DEF CodesSound
    <3>5. \A t3 \in Terminals : Waits(t3)' /\ kiosk'[t3].code = kiosk'[t2].code => t3 = t2
      BY <1>0, <1>11, <3>1 DEF CodesSound
    <3> QED BY <3>3, <3>4, <3>5
  <2> QED BY <2>1, <2>3, <2>4 DEF CodesSound
<1>13. DisplaysSingle'
  <2>1. ASSUME NEW d \in DOMAIN paired, Lit(d)'
        PROVE  /\ Lit(d) /\ paired[d].terminal \in Terminals /\ IsOn(paired[d].terminal)'
               /\ paired'[d].terminal = paired[d].terminal /\ paired[d].terminal # t
    <3>1. Lit(d) /\ d \notin LiveAt(t) /\ paired[d].terminal \in Terminals
      BY <1>0, <1>8, <1>10, <2>1, DeviceFields
    <3>2. IsOn(paired[d].terminal) /\ paired[d].terminal # t
      BY <1>0, <3>1 DEF DisplaysSingle, LiveAt, DevicesAt, Lit
    <3> QED BY <1>9, <1>10, <2>1, <3>1, <3>2 DEF IsOn
  <2>2. IsOn(t)'
    BY <1>1, <1>2, <1>9
  <2>3. \A d \in DOMAIN paired' : Lit(d)' => IsOn(paired[d].terminal)' \/ d = n
    BY <1>8, <2>1
  <2>4. ASSUME NEW d \in DOMAIN paired', Lit(d)'
        PROVE  /\ IsOn(paired[d].terminal)'
               /\ \A d2 \in DOMAIN paired' :
                    Lit(d2)' /\ paired'[d2].terminal = paired'[d].terminal => d2 = d
    <3>1. CASE d = n
      BY <1>8, <2>1, <2>2, <3>1 DEF IsOn
    <3>2. CASE d \in DOMAIN paired
      <4>1. \A d2 \in DOMAIN paired :
              Lit(d2)' /\ paired'[d2].terminal = paired'[d].terminal => d2 = d
        BY <1>0, <1>10, <2>1, <2>4, <3>2 DEF DisplaysSingle
      <4>2. paired'[d].terminal # paired'[n].terminal
        BY <1>8, <2>1, <2>4, <3>2
      <4>3. IsOn(paired[d].terminal)'
        BY <2>1, <2>4, <3>2 DEF IsOn
      <4> QED BY <1>8, <4>1, <4>2, <4>3
    <3> QED BY <1>8, <3>1, <3>2
  <2> QED BY <2>4 DEF DisplaysSingle, IsOn
<1> QED BY <1>12, <1>13

-----------------------------------------------------------------------------
(* Displays that are off *)

\* Displays are never taken back, and never move to another device.
ShownGrows == \A k \in DOMAIN shown : k \in DOMAIN shown' /\ shown'[k] = shown[k]

LEMMA DarkStep ==
    ASSUME TInv, Onward, ShownGrows, NEW ds, dead' = dead \cup ShownBy(ds),
           \A d \in DOMAIN paired : d \in ds => ~Lit(d)'
    PROVE  DeadStaysDark'
<1>1. /\ \A k \in dead : k \in DOMAIN shown /\ ~Lit(shown[k].device)
      /\ \A k \in DOMAIN shown : shown[k].device \in DOMAIN paired
  BY DEF TInv, DeadStaysDark, TerminalsTypes
<1>2. ASSUME NEW k \in dead' PROVE k \in DOMAIN shown' /\ ~Lit(shown[k].device)'
  <2>1. k \in DOMAIN shown /\ shown'[k].device = shown[k].device
    BY <1>1, <1>2 DEF ShownBy, ShownGrows
  <2>2. PICK d \in DOMAIN paired : d = shown[k].device
    BY <1>1, <2>1
  <2>3. ~Lit(d)'
    BY <1>1, <1>2, <2>2 DEF ShownBy, Onward
  <2> QED BY <2>1, <2>2, <2>3 DEF ShownGrows, Lit
<1> QED BY <1>2 DEF DeadStaysDark

LEMMA DeadStep ==
    ASSUME TInv, TerminalsNext
    PROVE  DeadStaysDark'
<1>0. TerminalsTypes
  BY DEF TInv
<1>1. ASSUME UNCHANGED <<paired, dead>>, ShownGrows PROVE DeadStaysDark'
  <2>1. Onward
    BY <1>0, <1>1, SamePaired DEF Dimmed
  <2>2. dead' = dead \cup ShownBy({})
    BY <1>1 DEF ShownBy
  <2> QED BY <1>1, <2>1, <2>2, DarkStep
<1>2. ASSUME shown' = shown PROVE ShownGrows
  BY <1>2 DEF ShownGrows
<1>3. CASE Administration
  <2>1. ASSUME NEW t \in Terminals, NEW on \in BOOLEAN, NEW zone \in Zones,
               CreateTerminal(t, on, zone)
        PROVE  DeadStaysDark'
    BY <1>1, <1>2, <2>1 DEF CreateTerminal
  <2>2. ASSUME NEW t \in Terminals, SwitchOff(t) PROVE DeadStaysDark'
    <3>1. Dimmed(LiveAt(t)) /\ ShownGrows /\ dead' = dead \cup ShownBy(DevicesAt(t))
      BY <1>0, <1>2, <2>2, RevokedStep DEF SwitchOff, Off
    <3>2. \A d \in DOMAIN paired : d \in DevicesAt(t) => ~Lit(d)'
      BY <3>1 DEF Dimmed, Onward, LiveAt, Lit
    <3> QED BY <3>1, <3>2, DarkStep DEF Dimmed
  <2>3. ASSUME NEW t \in Terminals, Configure(t) PROVE DeadStaysDark'
    BY <1>1, <1>2, <2>3 DEF Configure
  <2>4. ASSUME NEW t \in Terminals, DeletePermanently(t) PROVE DeadStaysDark'
    <3>1. Dimmed(DevicesAt(t)) /\ ShownGrows /\ dead' = dead \cup ShownBy(DevicesAt(t))
      BY <1>0, <1>2, <2>4, DeletedStep DEF DeletePermanently, Off
    <3> QED BY <3>1, DarkStep DEF Dimmed
  <2>5. ASSUME NEW t \in Terminals, NEW d \in DOMAIN paired, RevokeDevice(t, d)
        PROVE  DeadStaysDark'
    <3>1. Dimmed({d}) /\ ShownGrows /\ dead' = dead \cup ShownBy({d})
      BY <1>0, <1>2, <2>5, RevokedStep DEF RevokeDevice, Off
    <3> QED BY <3>1, DarkStep DEF Dimmed
  <2> QED BY <1>3, <2>1, <2>2, <2>3, <2>4, <2>5 DEF Administration
<1>4. ASSUME NEW c \in Callers, Calls(c) PROVE DeadStaysDark'
  <2>1. CASE Pair(c)
    <3>0. PICK t, code : t = pending[c].terminal /\ code = pending[c].code
      OBVIOUS
    <3>1. t \in Terminals /\ code \in Nat \ {NoCode}
      <4>1. pending[c].op = "pair" /\ CallOK(pending[c])
        BY <1>0, <2>1 DEF Pair, Leave, TerminalsTypes
      <4> QED BY <3>0, <4>1 DEF CallOK, NoCall
    <3>2. /\ paired' = Append(Revoked(LiveAt(t)), [terminal |-> t, code |-> code,
                                                   revoked |-> FALSE, gone |-> FALSE])
          /\ dead' = dead \cup ShownBy(LiveAt(t)) /\ ShownGrows
      BY <1>2, <2>1, <3>0 DEF Pair, Off
    <3>3. Onward /\ \A d \in DOMAIN paired : d \in LiveAt(t) => ~Lit(d)'
      BY <1>0, <3>1, <3>2, PairStep
    <3> QED BY <3>2, <3>3, DarkStep
  <2> QED BY <1>1, <1>2, <1>4, <2>1
        DEF Calls, BeginIssue, BeginPair, BeginScan, IssueCode, Scan, GiveUp
<1>5. ASSUME NEW d \in DOMAIN paired, KioskState(d) PROVE DeadStaysDark'
  <2>1. PICK new : shown' = Append(shown, new)
    BY <1>5 DEF KioskState
  <2>2. shown \in Seq(Display)
    BY <1>0 DEF TerminalsTypes
  <2>3. ShownGrows
    BY <2>1, <2>2 DEF ShownGrows
  <2> QED BY <1>1, <1>5, <2>3 DEF KioskState
<1>6. CASE Elapse
  BY <1>1, <1>2, <1>6 DEF Elapse
<1> QED BY <1>3, <1>4, <1>5, <1>6 DEF TerminalsNext

-----------------------------------------------------------------------------
(* Theorems *)

LEMMA TerminalsStart == TerminalsInit => TInv
<1> SUFFICES ASSUME TerminalsInit PROVE TInv
  OBVIOUS
<1>1. TerminalsTypes
  BY DEF TerminalsInit, TerminalsTypes, CallOK
<1>2. CodesSound /\ DisplaysSingle /\ DeadStaysDark
  BY DEF TerminalsInit, CodesSound, DisplaysSingle, DeadStaysDark, Waits, Gone
<1> QED BY <1>1, <1>2 DEF TInv

LEMMA TerminalsStep == TInv /\ [TerminalsNext]_server => TInv'
<1> SUFFICES ASSUME TInv, [TerminalsNext]_server PROVE TInv'
  OBVIOUS
<1>1. CASE TerminalsNext
  <2>1. TerminalsTypes' /\ DeadStaysDark'
    BY <1>1, TypesStep, DeadStep
  <2>2. ASSUME NEW c \in Callers, Calls(c) PROVE CodesSound' /\ DisplaysSingle'
    BY <2>1, <2>2, IssueStep, ClaimStep, StillStep
       DEF Calls, BeginIssue, BeginPair, BeginScan, Scan, GiveUp
  <2>3. CodesSound' /\ DisplaysSingle'
    BY <1>1, <2>1, <2>2, AdministrationStep, StillStep DEF TerminalsNext, KioskState, Elapse
  <2> QED BY <2>1, <2>3 DEF TInv
<1>2. CASE UNCHANGED server
  BY <1>2 DEF server, TInv, TerminalsTypes, CallOK, CodesSound, DisplaysSingle,
              DeadStaysDark, Waits, IsOn, Lit
<1> QED BY <1>1, <1>2

\* The invariant that every handler preserves: who holds a code, which displays
\* are lit, and that one that is off stays off (terminals.service.ts:150-404).
THEOREM TerminalsInvariant == TerminalsSpec => []TInv
<1>1. TerminalsInit => TInv
  BY TerminalsStart
<1>2. TInv /\ [TerminalsNext]_server => TInv'
  BY TerminalsStep
<1> QED BY <1>1, <1>2, PTL DEF TerminalsSpec

\* Terminals, devices, displays and calls in flight stay well formed.
THEOREM TerminalsTypeCorrect == TerminalsSpec => []TerminalsTypes
<1>1. TInv => TerminalsTypes
  BY DEF TInv
<1> QED BY <1>1, TerminalsInvariant, PTL

\* A terminal has at most one display and none while it is off, and a pairing
\* code pairs one device, whichever calls overlap (terminals.service.ts:314).
THEOREM TerminalsHaveOneDisplay == TerminalsSpec => []OneDisplay
<1>1. ASSUME TInv PROVE OneDisplay
  <2>1. TerminalsTypes /\ CodesSound /\ DisplaysSingle
    BY <1>1 DEF TInv
  <2>2. ASSUME NEW t \in Terminals
        PROVE  IF IsOn(t) THEN Cardinality(LiveAt(t)) <= 1 ELSE LiveAt(t) = {}
    <3>1. \A d \in LiveAt(t) : d \in DOMAIN paired /\ Lit(d) /\ paired[d].terminal = t
      BY DEF LiveAt, DevicesAt, Lit
    <3>2. CASE LiveAt(t) = {}
      BY <3>2, FS_EmptySet
    <3>3. ASSUME NEW d \in LiveAt(t) PROVE IsOn(t) /\ LiveAt(t) = {d}
      BY <2>1, <3>1, <3>3 DEF DisplaysSingle
    <3>4. CASE LiveAt(t) # {}
      <4>1. PICK d : d \in LiveAt(t)
        BY <3>4
      <4>2. IsOn(t) /\ LiveAt(t) = {d}
        BY <3>3, <4>1
      <4>3. Cardinality(LiveAt(t)) = 1
        BY <4>2, FS_Singleton
      <4> QED BY <4>2, <4>3
    <3> QED BY <3>2, <3>4
  <2> QED BY <2>1, <2>2 DEF OneDisplay, CodesSound, Waits
<1> QED BY <1>1, TerminalsInvariant, PTL

\* A scan books only with a display that is neither dead nor expired nor
\* disallowed when it gets the lock (terminals.service.ts:661).
THEOREM DeadDisplaysNeverBook == TerminalsSpec => DeadDisplayNeverBooks
<1> DEFINE Books == \A s \in scans' \ scans :
               /\ s.challenge \notin dead
               /\ kiosk[paired[shown[s.challenge].device].terminal].qr
               /\ s.at < shown[s.challenge].ends
<1>1. ASSUME TInv, [TerminalsNext]_server PROVE [Books]_server
  <2>1. ASSUME NEW c \in Callers, Scan(c) PROVE Books
    <3>1. PICK k : k = pending[c].challenge
      OBVIOUS
    <3>2. Scannable(k, clock)
      BY <2>1, <3>1 DEF Scan, StillScannable
    <3>3. \A s \in scans' \ scans : s.challenge = k /\ s.at = clock
      BY <2>1, <3>1 DEF Scan
    <3>4. k \in DOMAIN shown
      <4>1. pending[c].op = "scan" /\ CallOK(pending[c])
        BY <1>1, <2>1 DEF Scan, Leave, TInv, TerminalsTypes
      <4> QED BY <3>1, <4>1 DEF CallOK, NoCall
    <3>5. clock \in Nat /\ shown[k].ends \in Int
      <4>1. clock \in Nat /\ shown \in Seq(Display)
        BY <1>1 DEF TInv, TerminalsTypes
      <4>2. shown[k] \in Display
        BY <3>4, <4>1
      <4> QED BY <4>1, <4>2 DEF Display
    <3>6. Lit(shown[k].device) /\ shown[k].ends > clock
          /\ kiosk[paired[shown[k].device].terminal].qr
      BY <3>2 DEF Scannable, Working, Lit
    <3>7. k \notin dead
      BY <1>1, <3>6 DEF TInv, DeadStaysDark
    <3> QED BY <3>3, <3>5, <3>6, <3>7
  <2>2. ASSUME scans' \subseteq scans PROVE Books
    BY <2>2
  <2> HIDE DEF Books
  <2>3. ASSUME NEW c \in Callers, Calls(c) PROVE Books
    BY <2>1, <2>2, <2>3 DEF Calls, BeginIssue, BeginPair, BeginScan, IssueCode, Pair, GiveUp
  <2>4. CASE Administration
    BY <2>2, <2>4 DEF Administration, CreateTerminal, SwitchOff, Configure,
                      DeletePermanently, RevokeDevice
  <2>5. CASE TerminalsNext
    BY <2>2, <2>3, <2>4, <2>5 DEF TerminalsNext, KioskState, Elapse
  <2> QED BY <1>1, <2>5
<1> QED BY <1>1, TerminalsInvariant, PTL DEF TerminalsSpec, DeadDisplayNeverBooks

-----------------------------------------------------------------------------
(* Admission: the budgets and the limiter *)

Asked == [by: Kiosks \cup Peers, at: Nat, nr: Nat, admitted: BOOLEAN, audited: BOOLEAN]
Row == [counter: Nat, start: Nat]
Bucket == [peer: Peers, count: Nat, start: Nat, since: Nat]

AdmissionTypes ==
    /\ tick \in Nat /\ counters \in [Key -> Row] /\ cleaned \in Nat
    /\ buckets \in SUBSET Bucket /\ IsFiniteSet(buckets)
    /\ asked \in SUBSET Asked /\ IsFiniteSet(asked)
    /\ \A q \in asked : q.at <= tick /\ q.nr < Cardinality(asked)

Since(S, t) == {q \in S : q.at >= t}
Between(S, t, u) == {q \in S : t < q.at /\ q.at < u}

\* What a row tells of the requests charged to it and of those it granted: in the
\* window that began last, and in as long a time before it.
WindowSound(row, charged, granted, limit, length) ==
    /\ granted \subseteq charged
    /\ row = Unused => charged = {}
    /\ \A q \in charged : q.at < row.start + length
    /\ row.counter <= limit + 2
    /\ row.counter <= Cardinality(Since(charged, row.start))
    /\ Cardinality(Since(granted, row.start)) <= row.counter
    /\ Cardinality(Since(granted, row.start)) <= limit
    /\ Cardinality(Between(granted, row.start - length, row.start)) <= limit

-----------------------------------------------------------------------------
(* One window *)

LEMMA Subsets ==
    ASSUME NEW S, IsFiniteSet(S), NEW T \in SUBSET S
    PROVE  IsFiniteSet(T) /\ Cardinality(T) \in Nat /\ Cardinality(T) <= Cardinality(S)
BY FS_Subset, FS_CardinalityType

LEMMA OneMore ==
    ASSUME NEW S, IsFiniteSet(S), NEW q, q \notin S
    PROVE  /\ IsFiniteSet(S \cup {q}) /\ Cardinality(S) \in Nat
           /\ Cardinality(S \cup {q}) = Cardinality(S) + 1
BY FS_AddElement, FS_CardinalityType

LEMMA Nobody == IsFiniteSet({}) /\ Cardinality({}) = 0
BY FS_EmptySet

\* A request begins a window.
LEMMA WindowBegins ==
    ASSUME NEW row \in Row, NEW S \in SUBSET Asked, NEW G, NEW limit \in Nat \ {0},
           NEW length \in Nat \ {0}, NEW t \in Nat,
           WindowSound(row, S, G, limit, length), IsFiniteSet(S),
           row = Unused \/ t - row.start >= length,
           NEW q \in Asked, q \notin S, q.at = t, NEW H, H = G \/ H = G \cup {q}
    PROVE  WindowSound([counter |-> 1, start |-> t], S \cup {q}, H, limit, length)
<1>1. PICK new \in Row : new = [counter |-> 1, start |-> t]
  BY DEF Row
<1>2. new.counter = 1 /\ new.start = t /\ new # Unused
  BY <1>1 DEF Unused
<1>3. G \subseteq S /\ (row = Unused => S = {}) /\ \A x \in S : x.at < row.start + length
  BY DEF WindowSound
<1>4. row.start \in Nat /\ \A x \in S \cup {q} : x.at \in Nat
  BY DEF Row, Asked
<1>5. \A x \in S : x.at < t
  BY <1>3, <1>4
<1>6. Since(S \cup {q}, t) = {q}
  BY <1>4, <1>5 DEF Since
<1>7. Since(H, t) \in SUBSET {q}
  BY <1>3, <1>4, <1>5 DEF Since
<1>8. IsFiniteSet({q}) /\ Cardinality({q}) = 1
  BY FS_Singleton
<1>9. Cardinality(Since(H, t)) <= 1 /\ Cardinality(Since(H, t)) \in Nat
  BY <1>7, <1>8, Subsets
<1>10. Cardinality(Between(H, t - length, t)) <= limit
  <2>1. CASE row = Unused
    <3>1. Between(H, t - length, t) = {}
      BY <1>3, <2>1 DEF Between
    <3> QED BY <3>1, Nobody
  <2>2. CASE row # Unused
    <3>1. IsFiniteSet(Since(G, row.start))
      BY <1>3, Subsets DEF Since
    <3>2. Between(H, t - length, t) \in SUBSET Since(G, row.start)
      BY <1>3, <1>4, <2>2 DEF Between, Since
    <3>3. Cardinality(Since(G, row.start)) <= limit
      BY DEF WindowSound
    <3> QED BY <3>1, <3>2, <3>3, Subsets
  <2> QED BY <2>1, <2>2
<1>11. H \subseteq S \cup {q} /\ \A x \in S \cup {q} : x.at < t + length
  BY <1>3, <1>4, <1>5
<1>12. Cardinality(Since(S \cup {q}, t)) = 1
  BY <1>6, <1>8
<1>13. WindowSound(new, S \cup {q}, H, limit, length)
  BY <1>2, <1>9, <1>10, <1>11, <1>12 DEF WindowSound
<1> QED BY <1>1, <1>13

\* A request falls in the window that began last.
LEMMA WindowGoesOn ==
    ASSUME NEW row \in Row, NEW S \in SUBSET Asked, NEW G, NEW limit \in Nat \ {0},
           NEW length \in Nat \ {0}, NEW t \in Nat,
           WindowSound(row, S, G, limit, length), IsFiniteSet(S),
           row # Unused, t - row.start < length, row.start <= t,
           NEW q \in Asked, q \notin S, q.at = t,
           NEW n \in Nat, n = Least(row.counter + 1, limit + 2),
           NEW H, H = G \/ (H = G \cup {q} /\ n <= limit)
    PROVE  WindowSound([row EXCEPT !.counter = n], S \cup {q}, H, limit, length)
<1>1. PICK new \in Row : new = [row EXCEPT !.counter = n]
  BY DEF Row
<1>2. new.counter = n /\ new.start = row.start /\ row.start \in Nat /\ row.counter \in Nat
  BY <1>1 DEF Row
<1>3. G \subseteq S /\ \A x \in S : x.at < row.start + length
  BY DEF WindowSound
<1>4. \A x \in S \cup {q} : x.at \in Nat
  BY DEF Asked
<1>5. n <= limit + 2 /\ n <= row.counter + 1 /\ (n = row.counter + 1 \/ n = limit + 2)
  BY <1>2 DEF Least
<1>6. /\ row.counter <= limit + 2
      /\ row.counter <= Cardinality(Since(S, row.start))
      /\ Cardinality(Since(G, row.start)) <= row.counter
      /\ Cardinality(Since(G, row.start)) <= limit
      /\ Cardinality(Between(G, row.start - length, row.start)) <= limit
  BY DEF WindowSound
<1>7. /\ IsFiniteSet(Since(S, row.start)) /\ q \notin Since(S, row.start)
      /\ IsFiniteSet(Since(G, row.start)) /\ q \notin Since(G, row.start)
  BY <1>3, Subsets DEF Since
<1>8. /\ Since(S \cup {q}, row.start) = Since(S, row.start) \cup {q}
      /\ Since(G \cup {q}, row.start) = Since(G, row.start) \cup {q}
  BY <1>2 DEF Since
<1>9. /\ Cardinality(Since(S \cup {q}, row.start)) = Cardinality(Since(S, row.start)) + 1
      /\ Cardinality(Since(G \cup {q}, row.start)) = Cardinality(Since(G, row.start)) + 1
      /\ Cardinality(Since(S, row.start)) \in Nat /\ Cardinality(Since(G, row.start)) \in Nat
  BY <1>7, <1>8, OneMore
<1>10. Between(H, row.start - length, row.start) = Between(G, row.start - length, row.start)
  BY <1>2, <1>4 DEF Between
<1>11. H \subseteq S \cup {q} /\ \A x \in S \cup {q} : x.at < row.start + length
  BY <1>2, <1>3, <1>4
<1>12. n <= Cardinality(Since(S \cup {q}, row.start))
  BY <1>2, <1>5, <1>6, <1>9
<1>13. Cardinality(Since(H, row.start)) <= n /\ Cardinality(Since(H, row.start)) <= limit
  <2>1. CASE H = G
    BY <1>2, <1>5, <1>6, <1>9, <2>1
  <2>2. CASE H = G \cup {q} /\ n <= limit
    BY <1>2, <1>5, <1>6, <1>9, <2>2
  <2> QED BY <2>1, <2>2
<1>14. new = Unused => S \cup {q} = {}
  <2>1. n # 0
    BY <1>2, <1>5
  <2> QED BY <1>2, <2>1 DEF Unused
<1> QED BY <1>1, <1>2, <1>5, <1>6, <1>10, <1>11, <1>12, <1>13, <1>14 DEF WindowSound

\* Windows adjoin: in a time as long as one, two can be exhausted.
LEMMA TwoWindows ==
    ASSUME NEW row \in Row, NEW S \in SUBSET Asked, NEW G, NEW limit \in Nat \ {0},
           NEW length \in Nat \ {0}, NEW t \in Nat,
           WindowSound(row, S, G, limit, length), IsFiniteSet(S), row.start <= t
    PROVE  Cardinality({q \in G : q.at > t - length}) <= 2 * limit
<1>1. row.start \in Nat /\ G \subseteq S /\ \A x \in S : x.at \in Nat
  BY DEF Row, Asked, WindowSound
<1>2. PICK A, B : A = Since(G, row.start) /\ B = Between(G, row.start - length, row.start)
  OBVIOUS
<1>3. /\ Cardinality(A) <= limit /\ Cardinality(B) <= limit
      /\ IsFiniteSet(A) /\ IsFiniteSet(B)
  BY <1>1, <1>2, Subsets DEF WindowSound, Since, Between
<1>4. /\ Cardinality(A) \in Nat /\ Cardinality(B) \in Nat /\ Cardinality(A \cap B) \in Nat
      /\ IsFiniteSet(A \cup B) /\ Cardinality(A \cup B) \in Nat
      /\ Cardinality(A \cup B) = Cardinality(A) + Cardinality(B) - Cardinality(A \cap B)
  BY <1>3, FS_Union, FS_Intersection, FS_CardinalityType
<1>5. {q \in G : q.at > t - length} \in SUBSET (A \cup B)
  BY <1>1, <1>2 DEF Since, Between
<1>6. Cardinality({q \in G : q.at > t - length}) <= Cardinality(A \cup B)
  BY <1>4, <1>5, Subsets
<1>7. Cardinality({q \in G : q.at > t - length}) \in Nat
  BY <1>4, <1>5, Subsets
<1> QED BY <1>3, <1>4, <1>6, <1>7

\* A window is exhausted by what was requested in it.
LEMMA Exhausted ==
    ASSUME NEW row \in Row, NEW S \in SUBSET Asked, NEW G, NEW limit \in Nat \ {0},
           NEW length \in Nat \ {0}, NEW t \in Nat,
           WindowSound(row, S, G, limit, length), IsFiniteSet(S),
           row.start > t - length, row.counter > limit
    PROVE  Cardinality({q \in S : q.at > t - length}) > limit
<1>1. row.start \in Nat /\ row.counter \in Nat /\ \A x \in S : x.at \in Nat
  BY DEF Row, Asked
<1>2. PICK T : T = {q \in S : q.at > t - length}
  OBVIOUS
<1>3. T \in SUBSET S /\ Since(S, row.start) \in SUBSET T
  BY <1>1, <1>2 DEF Since
<1>4. IsFiniteSet(T)
  BY <1>3, Subsets
<1>5. /\ Cardinality(Since(S, row.start)) <= Cardinality(T)
      /\ Cardinality(Since(S, row.start)) \in Nat /\ Cardinality(T) \in Nat
  BY <1>3, <1>4, Subsets
<1>6. row.counter <= Cardinality(Since(S, row.start))
  BY DEF WindowSound
<1> QED BY <1>1, <1>2, <1>5, <1>6

-----------------------------------------------------------------------------
(* Budgets *)

MadeBy(d) == {q \in asked : q.by = d}
MadeByAny == {q \in asked : q.by \in Kiosks}
Admitted(S) == {q \in S : q.admitted}
Denied(S) == {q \in S : ~q.admitted}
Audited(S) == {q \in S : ~q.admitted /\ q.audited}

DeviceKey(d) == [scope |-> "device", kiosk |-> d]
BurstKey(d) == [scope |-> "burst", kiosk |-> d]
AuditKey(d) == [scope |-> "audit", kiosk |-> d]
TerminalKey == [scope |-> "terminal", kiosk |-> "any"]

KeySound(key, charged, granted) ==
    /\ WindowSound(counters[key], charged, granted, LimitOf(key), LengthOf(key))
    /\ counters[key].start <= tick

BudgetsInv ==
    /\ \A d \in Kiosks :
         /\ KeySound(DeviceKey(d), MadeBy(d), Admitted(MadeBy(d)))
         /\ KeySound(BurstKey(d), MadeBy(d), Admitted(MadeBy(d)))
         /\ KeySound(AuditKey(d), Denied(MadeBy(d)), Audited(MadeBy(d)))
    /\ KeySound(TerminalKey, MadeByAny, Admitted(MadeByAny))
    /\ \A q \in MadeByAny : q.audited => ~q.admitted

LEMMA Limits ==
    /\ \A key \in Key : LimitOf(key) \in Nat \ {0} /\ LengthOf(key) \in Nat \ {0}
    /\ \A d \in Kiosks :
         /\ {DeviceKey(d), BurstKey(d), AuditKey(d)} \subseteq Key
         /\ LimitOf(DeviceKey(d)) = DeviceLimit /\ LengthOf(DeviceKey(d)) = WindowLength
         /\ LimitOf(BurstKey(d)) = BurstLimit /\ LengthOf(BurstKey(d)) = BurstLength
         /\ LimitOf(AuditKey(d)) = 1 /\ LengthOf(AuditKey(d)) = WindowLength
    /\ TerminalKey \in Key
    /\ LimitOf(TerminalKey) = TerminalLimit /\ LengthOf(TerminalKey) = WindowLength
<1>1. /\ \A d \in Kiosks : {DeviceKey(d), BurstKey(d), AuditKey(d)} \subseteq Key
      /\ TerminalKey \in Key
  BY DEF DeviceKey, BurstKey, AuditKey, TerminalKey, Key
<1>2. \A key \in Key : key.scope \in {"device", "burst", "audit", "terminal"}
  BY DEF Key
<1>3. \A d : /\ DeviceKey(d).scope = "device" /\ BurstKey(d).scope = "burst"
             /\ AuditKey(d).scope = "audit" /\ TerminalKey.scope = "terminal"
  BY DEF DeviceKey, BurstKey, AuditKey, TerminalKey
<1>4. /\ WindowLength \in Nat \ {0} /\ BurstLength \in Nat \ {0} /\ DeviceLimit \in Nat \ {0}
      /\ BurstLimit \in Nat \ {0} /\ TerminalLimit \in Nat \ {0}
  BY AdmissionAssumption
<1>5. \A key :
        /\ key.scope = "device" => LimitOf(key) = DeviceLimit /\ LengthOf(key) = WindowLength
        /\ key.scope = "burst" => LimitOf(key) = BurstLimit /\ LengthOf(key) = BurstLength
        /\ key.scope = "audit" => LimitOf(key) = 1 /\ LengthOf(key) = WindowLength
        /\ key.scope = "terminal" => LimitOf(key) = TerminalLimit /\ LengthOf(key) = WindowLength
  BY DEF LimitOf, LengthOf
<1>6. \A key \in Key : LimitOf(key) \in Nat \ {0} /\ LengthOf(key) \in Nat \ {0}
  BY <1>2, <1>4, <1>5
<1> QED BY <1>1, <1>3, <1>5, <1>6

\* What a request does to a budget it is charged to
LEMMA KeyCharged ==
    ASSUME AdmissionTypes, NEW key \in Key, NEW S \in SUBSET asked, NEW G, KeySound(key, S, G),
           NEW q \in Asked, q \notin S, q.at = tick,
           NEW H, H = G \/ (H = G \cup {q} /\ Within(key))
    PROVE  /\ Counted(key) \in Row
           /\ WindowSound(Counted(key), S \cup {q}, H, LimitOf(key), LengthOf(key))
           /\ Counted(key).start <= tick /\ Counted(key).start > tick - LengthOf(key)
<1>1. PICK row \in Row, t \in Nat, limit \in Nat \ {0}, length \in Nat \ {0} :
         row = counters[key] /\ t = tick /\ limit = LimitOf(key) /\ length = LengthOf(key)
  BY Limits DEF AdmissionTypes
<1>2. /\ WindowSound(row, S, G, limit, length) /\ row.start <= t
      /\ IsFiniteSet(S) /\ S \in SUBSET Asked
  BY <1>1, Subsets DEF KeySound, AdmissionTypes
<1>3. row.start \in Nat /\ row.counter \in Nat
  BY DEF Row
<1>4. CASE row = Unused \/ t - row.start >= length
  <2>1. Counted(key) = [counter |-> 1, start |-> t]
    BY <1>1, <1>4 DEF Counted, Resets
  <2>2. WindowSound([counter |-> 1, start |-> t], S \cup {q}, H, limit, length)
    BY <1>1, <1>2, <1>4, WindowBegins
  <2>3. PICK new \in Row : new = [counter |-> 1, start |-> t]
    BY DEF Row
  <2> QED BY <1>1, <2>1, <2>2, <2>3
<1>5. CASE row # Unused /\ ~(t - row.start >= length)
  <2>1. PICK n \in Nat : n = Least(row.counter + 1, limit + 2)
    BY <1>3 DEF Least
  <2>2. Counted(key) = [row EXCEPT !.counter = n]
    BY <1>1, <1>5, <2>1 DEF Counted, Resets
  <2>3. PICK new \in Row : new = [row EXCEPT !.counter = n]
    BY DEF Row
  <2>4. new.start = row.start /\ new.counter = n
    BY <2>3 DEF Row
  <2>5. t - row.start < length
    BY <1>3, <1>5
  <2>6. H = G \/ (H = G \cup {q} /\ n <= limit)
    BY <1>1, <2>2, <2>3, <2>4 DEF Within
  <2>7. WindowSound([row EXCEPT !.counter = n], S \cup {q}, H, limit, length)
    BY <1>1, <1>2, <1>5, <2>1, <2>5, <2>6, WindowGoesOn
  <2> QED BY <1>1, <1>2, <1>3, <2>2, <2>3, <2>4, <2>5, <2>7
<1> QED BY <1>4, <1>5

\* What becomes of a request, by the requests in the times that its budgets look at
Exactly(r, minute, burst) ==
    LET recent == {q \in minute : q.by = r.by}
    IN  /\ Cardinality({q \in recent : q.admitted}) <= 2 * DeviceLimit
        /\ Cardinality({q \in recent : q.audited}) <= 2
        /\ ~r.admitted =>
             \/ Cardinality({q \in minute : q.by \in Kiosks}) > TerminalLimit
             \/ Cardinality(recent) > DeviceLimit
             \/ Cardinality({q \in burst : q.by = r.by}) > BurstLimit

LEMMA ExactForEach ==
    DeviceBudgetsExact <=>
        \A r \in asked : r.by \in Kiosks =>
            Exactly(r, Lately(r, WindowLength), Lately(r, BurstLength))
BY DEF DeviceBudgetsExact, Exactly

\* What a request looks back at does not change when others follow.
LEMMA LatelyKept ==
    ASSUME AdmissionTypes, NEW q \in Asked, q.nr = Cardinality(asked), asked' = asked \cup {q},
           NEW length, NEW r \in asked
    PROVE  Lately(r, length)' = Lately(r, length)
<1>1. Cardinality(asked) \in Nat /\ r.nr < q.nr /\ r.nr \in Nat
  BY FS_CardinalityType DEF AdmissionTypes, Asked
<1> QED BY <1>1 DEF Lately

LEMMA LatelyNow ==
    ASSUME AdmissionTypes, NEW q \in Asked, q.nr = Cardinality(asked), q.at = tick,
           asked' = asked \cup {q}, NEW length
    PROVE  Lately(q, length)' = {r \in asked \cup {q} : r.at > tick - length}
<1>1. \A r \in asked \cup {q} : r.nr <= q.nr
  BY FS_CardinalityType DEF AdmissionTypes, Asked
<1> QED BY <1>1 DEF Lately

\* A request is one more, and the last.
LEMMA Noted ==
    ASSUME AdmissionTypes, NEW q \in Asked, q.nr = Cardinality(asked), q.at = tick,
           asked' = asked \cup {q}, tick' = tick
    PROVE  /\ q \notin asked /\ asked' \in SUBSET Asked /\ IsFiniteSet(asked')
           /\ Cardinality(asked') = Cardinality(asked) + 1
           /\ Cardinality(asked) \in Nat
           /\ \A r \in asked' : r.at <= tick' /\ r.nr < Cardinality(asked')
<1>1. Cardinality(asked) \in Nat /\ \A r \in asked \cup {q} : r.nr \in Nat
  BY FS_CardinalityType DEF AdmissionTypes, Asked
<1>2. q \notin asked
  BY <1>1 DEF AdmissionTypes
<1>3. IsFiniteSet(asked') /\ Cardinality(asked') = Cardinality(asked) + 1
  BY <1>2, OneMore DEF AdmissionTypes
<1>4. tick \in Nat
  BY DEF AdmissionTypes
<1>5. \A r \in asked : r.at <= tick /\ r.nr < Cardinality(asked) + 1
  BY <1>1 DEF AdmissionTypes
<1>6. q.at <= tick /\ q.nr < Cardinality(asked) + 1
  BY <1>1, <1>4
<1>7. asked' \in SUBSET Asked
  BY DEF AdmissionTypes
<1> QED BY <1>1, <1>2, <1>3, <1>5, <1>6, <1>7

\* What a request is told and charged
Charged(d, a) ==
    {DeviceKey(d), BurstKey(d), TerminalKey} \cup (IF a THEN {} ELSE {AuditKey(d)})

LEMMA Reserved ==
    ASSUME AdmissionTypes, NEW d \in Kiosks, Reserve(d)
    PROVE  \E a \in BOOLEAN, u \in BOOLEAN, q \in Asked :
              /\ q.by = d /\ q.at = tick /\ q.nr = Cardinality(asked)
              /\ q.admitted = a /\ q.audited = u
              /\ a <=> Within(DeviceKey(d)) /\ Within(BurstKey(d)) /\ Within(TerminalKey)
              /\ u => ~a /\ Within(AuditKey(d))
              /\ asked' = asked \cup {q}
              /\ counters' = [key \in Key |-> IF key \in Charged(d, a) THEN Counted(key)
                                              ELSE counters[key]]
              /\ UNCHANGED <<tick, buckets, cleaned>>
<1>1. OnDevice(d) = {DeviceKey(d), BurstKey(d), TerminalKey} /\ OnAudit(d) = {AuditKey(d)}
  BY DEF OnDevice, OnAudit, DeviceKey, BurstKey, TerminalKey, AuditKey
<1>2. PICK a \in BOOLEAN : a = (\A key \in OnDevice(d) : Within(key))
  OBVIOUS
<1>3. PICK u \in BOOLEAN : u = (~a /\ \A key \in OnAudit(d) : Within(key))
  OBVIOUS
<1>4. tick \in Nat /\ Cardinality(asked) \in Nat
  BY FS_CardinalityType DEF AdmissionTypes
<1>5. PICK q \in Asked : q = [by |-> d, at |-> tick, nr |-> Cardinality(asked),
                             admitted |-> a, audited |-> u]
  BY <1>4 DEF Asked
<1>6. PICK charged : charged = OnDevice(d) \cup (IF a THEN {} ELSE OnAudit(d))
  OBVIOUS
<1>7. /\ asked' = asked \cup {q}
      /\ counters' = [key \in Key |-> IF key \in charged THEN Counted(key) ELSE counters[key]]
      /\ UNCHANGED <<tick, buckets, cleaned>>
  BY <1>2, <1>3, <1>5, <1>6 DEF Reserve, Note
<1>8. charged = Charged(d, a)
  BY <1>1, <1>6 DEF Charged
<1>9. a <=> Within(DeviceKey(d)) /\ Within(BurstKey(d)) /\ Within(TerminalKey)
  BY <1>1, <1>2
<1>10. u => ~a /\ Within(AuditKey(d))
  BY <1>1, <1>3
<1>11. q.by = d /\ q.at = tick /\ q.nr = Cardinality(asked) /\ q.admitted = a /\ q.audited = u
  BY <1>5
<1> QED BY <1>7, <1>8, <1>9, <1>10, <1>11

\* A budget is as it was if it is not charged and the same requests count.
LEMMA KeyKept ==
    ASSUME NEW key, NEW S, NEW G, KeySound(key, S, G), counters'[key] = counters[key],
           tick' = tick
    PROVE  /\ WindowSound(counters'[key], S, G, LimitOf(key), LengthOf(key))
           /\ counters'[key].start <= tick'
BY DEF KeySound

LEMMA KeysDiffer ==
    ASSUME NEW d \in Kiosks, NEW e \in Kiosks \ {d}, NEW a \in BOOLEAN
    PROVE  /\ DeviceKey(e) \notin Charged(d, a) /\ BurstKey(e) \notin Charged(d, a)
           /\ AuditKey(e) \notin Charged(d, a)
           /\ a => AuditKey(d) \notin Charged(d, a)
           /\ ~a => AuditKey(d) \in Charged(d, a)
BY DEF Charged, DeviceKey, BurstKey, AuditKey, TerminalKey

LEMMA Sorted ==
    ASSUME NEW q, NEW S
    PROVE  /\ q.admitted => /\ Admitted(S \cup {q}) = Admitted(S) \cup {q}
                           /\ Denied(S \cup {q}) = Denied(S)
                           /\ Audited(S \cup {q}) = Audited(S)
           /\ ~q.admitted => /\ Admitted(S \cup {q}) = Admitted(S)
                            /\ Denied(S \cup {q}) = Denied(S) \cup {q}
           /\ ~q.admitted /\ ~q.audited => Audited(S \cup {q}) = Audited(S)
           /\ ~q.admitted /\ q.audited => Audited(S \cup {q}) = Audited(S) \cup {q}
BY DEF Admitted, Denied, Audited

LEMMA ReserveSound ==
    ASSUME AdmissionTypes, BudgetsInv, DeviceBudgetsExact, NEW d \in Kiosks, Reserve(d)
    PROVE  AdmissionTypes' /\ BudgetsInv' /\ DeviceBudgetsExact'
<1>1. PICK a \in BOOLEAN, u \in BOOLEAN, q \in Asked :
         /\ q.by = d /\ q.at = tick /\ q.nr = Cardinality(asked)
         /\ q.admitted = a /\ q.audited = u
         /\ a <=> Within(DeviceKey(d)) /\ Within(BurstKey(d)) /\ Within(TerminalKey)
         /\ u => ~a /\ Within(AuditKey(d))
         /\ asked' = asked \cup {q}
         /\ counters' = [key \in Key |-> IF key \in Charged(d, a) THEN Counted(key)
                                         ELSE counters[key]]
         /\ UNCHANGED <<tick, buckets, cleaned>>
  BY Reserved
<1>2. /\ q \notin asked /\ asked' \in SUBSET Asked /\ IsFiniteSet(asked')
      /\ \A r \in asked' : r.at <= tick' /\ r.nr < Cardinality(asked')
  BY <1>1, Noted
<1>3. /\ MadeBy(d)' = MadeBy(d) \cup {q} /\ MadeByAny' = MadeByAny \cup {q}
      /\ \A e \in Kiosks \ {d} : MadeBy(e)' = MadeBy(e)
      /\ MadeBy(d) \in SUBSET asked /\ MadeByAny \in SUBSET asked
      /\ Denied(MadeBy(d)) \in SUBSET asked
  BY <1>1 DEF MadeBy, MadeByAny, Denied
<1>4. ASSUME NEW key \in Key, key \in Charged(d, a), NEW S \in SUBSET asked, NEW G,
             KeySound(key, S, G), NEW H, H = G \/ (H = G \cup {q} /\ Within(key))
      PROVE  /\ WindowSound(counters'[key], S \cup {q}, H, LimitOf(key), LengthOf(key))
             /\ counters'[key].start <= tick'
             /\ counters'[key].start > tick' - LengthOf(key)
  <2>1. q \notin S
    BY <1>2
  <2>2. /\ WindowSound(Counted(key), S \cup {q}, H, LimitOf(key), LengthOf(key))
        /\ Counted(key).start <= tick /\ Counted(key).start > tick - LengthOf(key)
    BY <1>1, <1>4, <2>1, KeyCharged
  <2>3. counters'[key] = Counted(key)
    BY <1>1, <1>4
  <2> QED BY <1>1, <2>2, <2>3
<1>5. AdmissionTypes'
  <2>1. ASSUME NEW key \in Key, key \in Charged(d, a) PROVE Counted(key) \in Row
    <3>1. key \in {DeviceKey(d), BurstKey(d), TerminalKey, AuditKey(d)}
      BY <2>1 DEF Charged
    <3>2. CASE key \in {DeviceKey(d), BurstKey(d)}
      BY <1>1, <1>2, <1>3, <3>2, KeyCharged DEF BudgetsInv
    <3>3. CASE key = TerminalKey
      BY <1>1, <1>2, <1>3, <3>3, KeyCharged DEF BudgetsInv
    <3>4. CASE key = AuditKey(d)
      BY <1>1, <1>2, <1>3, <3>4, KeyCharged DEF BudgetsInv
    <3> QED BY <3>1, <3>2, <3>3, <3>4
  <2>2. counters' \in [Key -> Row]
    BY <1>1, <2>1 DEF AdmissionTypes
  <2> QED BY <1>1, <1>2, <2>2 DEF AdmissionTypes
<1>6. /\ KeySound(DeviceKey(d), MadeBy(d), Admitted(MadeBy(d)))'
      /\ KeySound(BurstKey(d), MadeBy(d), Admitted(MadeBy(d)))'
      /\ counters'[DeviceKey(d)].start > tick' - WindowLength
      /\ counters'[BurstKey(d)].start > tick' - BurstLength
  <2>1. PICK S, G, H : S = MadeBy(d) /\ G = Admitted(MadeBy(d)) /\ H = Admitted(MadeBy(d))'
    OBVIOUS
  <2>2. H = G \/ (H = G \cup {q} /\ Within(DeviceKey(d)) /\ Within(BurstKey(d)))
    BY <1>1, <1>3, <2>1, Sorted
  <2>3. /\ KeySound(DeviceKey(d), S, G) /\ KeySound(BurstKey(d), S, G) /\ S \in SUBSET asked
        /\ DeviceKey(d) \in Key /\ BurstKey(d) \in Key
        /\ DeviceKey(d) \in Charged(d, a) /\ BurstKey(d) \in Charged(d, a)
    BY <1>3, <2>1, Limits DEF BudgetsInv, Charged
  <2>4. MadeBy(d)' = S \cup {q} /\ Admitted(MadeBy(d))' = H
    BY <1>3, <2>1
  <2>5. /\ WindowSound(counters'[DeviceKey(d)], S \cup {q}, H,
                       LimitOf(DeviceKey(d)), LengthOf(DeviceKey(d)))
        /\ counters'[DeviceKey(d)].start <= tick'
        /\ counters'[DeviceKey(d)].start > tick' - LengthOf(DeviceKey(d))
    BY <1>4, <2>2, <2>3
  <2>6. /\ WindowSound(counters'[BurstKey(d)], S \cup {q}, H,
                       LimitOf(BurstKey(d)), LengthOf(BurstKey(d)))
        /\ counters'[BurstKey(d)].start <= tick'
        /\ counters'[BurstKey(d)].start > tick' - LengthOf(BurstKey(d))
    BY <1>4, <2>2, <2>3
  <2> QED BY <2>4, <2>5, <2>6, Limits DEF KeySound
<1>7. /\ KeySound(TerminalKey, MadeByAny, Admitted(MadeByAny))'
      /\ counters'[TerminalKey].start > tick' - WindowLength
  <2>1. PICK S, G, H : S = MadeByAny /\ G = Admitted(MadeByAny) /\ H = Admitted(MadeByAny)'
    OBVIOUS
  <2>2. H = G \/ (H = G \cup {q} /\ Within(TerminalKey))
    BY <1>1, <1>3, <2>1, Sorted
  <2>3. /\ KeySound(TerminalKey, S, G) /\ S \in SUBSET asked
        /\ TerminalKey \in Key /\ TerminalKey \in Charged(d, a)
    BY <1>3, <2>1, Limits DEF BudgetsInv, Charged
  <2>4. MadeByAny' = S \cup {q} /\ Admitted(MadeByAny)' = H
    BY <1>3, <2>1
  <2>5. /\ WindowSound(counters'[TerminalKey], S \cup {q}, H,
                       LimitOf(TerminalKey), LengthOf(TerminalKey))
        /\ counters'[TerminalKey].start <= tick'
        /\ counters'[TerminalKey].start > tick' - LengthOf(TerminalKey)
    BY <1>4, <2>2, <2>3
  <2> QED BY <2>4, <2>5, Limits DEF KeySound
<1>8. KeySound(AuditKey(d), Denied(MadeBy(d)), Audited(MadeBy(d)))'
  <2>1. PICK S, G, T, H :
           /\ S = Denied(MadeBy(d)) /\ G = Audited(MadeBy(d))
           /\ T = Denied(MadeBy(d))' /\ H = Audited(MadeBy(d))'
    OBVIOUS
  <2>0. PICK C : C = MadeBy(d)
    OBVIOUS
  <2>5. S = Denied(C) /\ G = Audited(C) /\ T = Denied(C \cup {q}) /\ H = Audited(C \cup {q})
    BY <1>3, <2>0, <2>1
  <2>2. /\ KeySound(AuditKey(d), S, G) /\ S \in SUBSET asked /\ AuditKey(d) \in Key
    BY <1>3, <2>1, Limits DEF BudgetsInv
  <2>3. CASE a
    <3>1. T = S /\ H = G
      BY <1>1, <2>3, <2>5, Sorted
    <3>2. counters'[AuditKey(d)] = counters[AuditKey(d)]
      BY <1>1, <2>2, <2>3, KeysDiffer DEF Charged, AuditKey, DeviceKey, BurstKey, TerminalKey
    <3>3. /\ WindowSound(counters'[AuditKey(d)], S, G, LimitOf(AuditKey(d)), LengthOf(AuditKey(d)))
          /\ counters'[AuditKey(d)].start <= tick'
      BY <1>1, <2>2, <3>2, KeyKept
    <3> QED BY <2>1, <3>1, <3>3 DEF KeySound
  <2>4. CASE ~a
    <3>1. T = S \cup {q} /\ (H = G \/ (H = G \cup {q} /\ Within(AuditKey(d))))
      BY <1>1, <2>4, <2>5, Sorted
    <3>2. AuditKey(d) \in Charged(d, a)
      BY <2>4 DEF Charged
    <3>3. /\ WindowSound(counters'[AuditKey(d)], S \cup {q}, H,
                         LimitOf(AuditKey(d)), LengthOf(AuditKey(d)))
          /\ counters'[AuditKey(d)].start <= tick'
      BY <1>4, <2>2, <3>1, <3>2
    <3> QED BY <2>1, <3>1, <3>3 DEF KeySound
  <2> QED BY <2>3, <2>4
<1>9. ASSUME NEW e \in Kiosks \ {d}
      PROVE  /\ KeySound(DeviceKey(e), MadeBy(e), Admitted(MadeBy(e)))'
             /\ KeySound(BurstKey(e), MadeBy(e), Admitted(MadeBy(e)))'
             /\ KeySound(AuditKey(e), Denied(MadeBy(e)), Audited(MadeBy(e)))'
  <2>1. PICK S : S = MadeBy(e)
    OBVIOUS
  <2>2. /\ KeySound(DeviceKey(e), S, Admitted(S)) /\ KeySound(BurstKey(e), S, Admitted(S))
        /\ KeySound(AuditKey(e), Denied(S), Audited(S))
    BY <2>1 DEF BudgetsInv
  <2>3. /\ counters'[DeviceKey(e)] = counters[DeviceKey(e)]
        /\ counters'[BurstKey(e)] = counters[BurstKey(e)]
        /\ counters'[AuditKey(e)] = counters[AuditKey(e)]
    BY <1>1, Limits, KeysDiffer
  <2>4. MadeBy(e)' = S
    BY <1>3, <2>1
  <2>5. ASSUME NEW key, NEW T, NEW G, KeySound(key, T, G), counters'[key] = counters[key]
        PROVE  KeySound(key, T, G)'
    BY <1>1, <2>5, KeyKept DEF KeySound
  <2>6. /\ KeySound(DeviceKey(e), S, Admitted(S))' /\ KeySound(BurstKey(e), S, Admitted(S))'
        /\ KeySound(AuditKey(e), Denied(S), Audited(S))'
    BY <2>2, <2>3, <2>5
  <2> QED BY <2>4, <2>6 DEF KeySound
<1>10. \A r \in MadeByAny' : r.audited => ~r.admitted
  BY <1>1, <1>3 DEF BudgetsInv
<1>11. BudgetsInv'
  BY <1>6, <1>7, <1>8, <1>9, <1>10 DEF BudgetsInv
<1>12. PICK S, A, t, n : S = MadeBy(d)' /\ A = MadeByAny' /\ t = tick' /\ n = asked'
  OBVIOUS
<1>13. /\ t \in Nat /\ t = tick /\ IsFiniteSet(S) /\ IsFiniteSet(A) /\ n = asked \cup {q}
       /\ S \in SUBSET Asked /\ A \in SUBSET Asked /\ n \in SUBSET Asked
       /\ S = {r \in n : r.by = d} /\ A = {r \in n : r.by \in Kiosks}
  BY <1>1, <1>2, <1>12, Subsets DEF AdmissionTypes, MadeBy, MadeByAny
<1>14. ASSUME NEW key \in Key, NEW V \in SUBSET Asked, NEW G, IsFiniteSet(V),
              KeySound(key, V, G)'
       PROVE  /\ Cardinality({r \in G : r.at > t - LengthOf(key)}) <= 2 * LimitOf(key)
              /\ counters'[key].start > t - LengthOf(key) /\ counters'[key].counter > LimitOf(key)
                 => Cardinality({r \in V : r.at > t - LengthOf(key)}) > LimitOf(key)
  <2>1. PICK row \in Row, limit \in Nat \ {0}, length \in Nat \ {0} :
           row = counters'[key] /\ limit = LimitOf(key) /\ length = LengthOf(key)
    BY <1>5, Limits DEF AdmissionTypes
  <2>2. WindowSound(row, V, G, limit, length) /\ row.start <= t
    BY <1>12, <1>14, <2>1 DEF KeySound
  <2>3. Cardinality({r \in G : r.at > t - length}) <= 2 * limit
    BY <1>13, <1>14, <2>2, TwoWindows
  <2>4. row.start > t - length /\ row.counter > limit
        => Cardinality({r \in V : r.at > t - length}) > limit
    BY <1>13, <1>14, <2>2, Exhausted
  <2> QED BY <2>1, <2>3, <2>4
<1>15. PICK M, B : M = {r \in n : r.at > t - WindowLength} /\ B = {r \in n : r.at > t - BurstLength}
  OBVIOUS
<1>16. Lately(q, WindowLength)' = M /\ Lately(q, BurstLength)' = B
  BY <1>1, <1>13, <1>15, LatelyNow
<1>17. /\ {x \in M : x.by = q.by} = {r \in S : r.at > t - WindowLength}
       /\ {x \in B : x.by = q.by} = {r \in S : r.at > t - BurstLength}
       /\ {x \in M : x.by \in Kiosks} = {r \in A : r.at > t - WindowLength}
  BY <1>1, <1>13, <1>15
<1>18. PICK R : R = {x \in M : x.by = q.by}
  OBVIOUS
<1>19. /\ {x \in R : x.admitted} = {r \in Admitted(S) : r.at > t - WindowLength}
       /\ {x \in R : x.audited} = {r \in Audited(S) : r.at > t - WindowLength}
  <2>1. \A r \in S : r.audited => ~r.admitted
    BY <1>10, <1>12, <1>13
  <2> QED BY <1>17, <1>18, <2>1 DEF Admitted, Audited
<1>20. /\ Cardinality({x \in R : x.admitted}) <= 2 * DeviceLimit
       /\ Cardinality({x \in R : x.audited}) <= 2
  <2>1. Cardinality({r \in Admitted(S) : r.at > t - WindowLength}) <= 2 * DeviceLimit
    <3>1. KeySound(DeviceKey(d), S, Admitted(S))'
      BY <1>6, <1>12 DEF KeySound
    <3> QED BY <1>13, <1>14, <3>1, Limits
  <2>2. Cardinality({r \in Audited(S) : r.at > t - WindowLength}) <= 2
    <3>1. KeySound(AuditKey(d), Denied(S), Audited(S))'
      BY <1>8, <1>12 DEF KeySound
    <3>2. Denied(S) \in SUBSET Asked /\ IsFiniteSet(Denied(S))
      BY <1>13, Subsets DEF Denied
    <3>3. Cardinality({r \in Audited(S) : r.at > t - WindowLength}) <= 2 * 1
      BY <1>14, <3>1, <3>2, Limits
    <3> QED BY <3>3
  <2> QED BY <1>19, <2>1, <2>2
<1>21. ~q.admitted => \/ Cardinality({x \in M : x.by \in Kiosks}) > TerminalLimit
                      \/ Cardinality(R) > DeviceLimit
                      \/ Cardinality({x \in B : x.by = q.by}) > BurstLimit
  <2>1. /\ counters'[DeviceKey(d)] = Counted(DeviceKey(d))
        /\ counters'[BurstKey(d)] = Counted(BurstKey(d))
        /\ counters'[TerminalKey] = Counted(TerminalKey)
    BY <1>1, Limits DEF Charged
  <2>2. /\ KeySound(DeviceKey(d), S, Admitted(S))' /\ KeySound(BurstKey(d), S, Admitted(S))'
        /\ KeySound(TerminalKey, A, Admitted(A))'
    BY <1>6, <1>7, <1>12 DEF KeySound
  <2>3. CASE ~Within(DeviceKey(d))
    <3>1. counters'[DeviceKey(d)].counter > DeviceLimit
      <4>1. counters'[DeviceKey(d)].counter \in Nat
        BY <1>5, Limits DEF AdmissionTypes, Row
      <4> QED BY <2>1, <2>3, <4>1, Limits, AdmissionAssumption DEF Within
    <3>2. /\ counters'[DeviceKey(d)].start > t - LengthOf(DeviceKey(d))
          /\ counters'[DeviceKey(d)].counter > LimitOf(DeviceKey(d))
      BY <1>6, <1>12, <3>1, Limits
    <3>3. Cardinality({r \in S : r.at > t - LengthOf(DeviceKey(d))}) > LimitOf(DeviceKey(d))
      BY <1>13, <1>14, <2>2, <3>2, Limits
    <3> QED BY <1>17, <1>18, <3>3, Limits
  <2>4. CASE ~Within(BurstKey(d))
    <3>1. counters'[BurstKey(d)].counter > BurstLimit
      <4>1. counters'[BurstKey(d)].counter \in Nat
        BY <1>5, Limits DEF AdmissionTypes, Row
      <4> QED BY <2>1, <2>4, <4>1, Limits, AdmissionAssumption DEF Within
    <3>2. /\ counters'[BurstKey(d)].start > t - LengthOf(BurstKey(d))
          /\ counters'[BurstKey(d)].counter > LimitOf(BurstKey(d))
      BY <1>6, <1>12, <3>1, Limits
    <3>3. Cardinality({r \in S : r.at > t - LengthOf(BurstKey(d))}) > LimitOf(BurstKey(d))
      BY <1>13, <1>14, <2>2, <3>2, Limits
    <3> QED BY <1>17, <3>3, Limits
  <2>5. CASE ~Within(TerminalKey)
    <3>1. counters'[TerminalKey].counter > TerminalLimit
      <4>1. counters'[TerminalKey].counter \in Nat
        BY <1>5, Limits DEF AdmissionTypes, Row
      <4> QED BY <2>1, <2>5, <4>1, Limits, AdmissionAssumption DEF Within
    <3>2. /\ counters'[TerminalKey].start > t - LengthOf(TerminalKey)
          /\ counters'[TerminalKey].counter > LimitOf(TerminalKey)
      BY <1>7, <1>12, <3>1, Limits
    <3>3. Cardinality({r \in A : r.at > t - LengthOf(TerminalKey)}) > LimitOf(TerminalKey)
      BY <1>13, <1>14, <2>2, <3>2, Limits
    <3> QED BY <1>17, <3>3, Limits
  <2> QED BY <1>1, <2>3, <2>4, <2>5
<1>22. Exactly(q, M, B)
  BY <1>18, <1>20, <1>21 DEF Exactly
<1>23. ASSUME NEW r \in asked', r.by \in Kiosks
       PROVE  Exactly(r, Lately(r, WindowLength)', Lately(r, BurstLength)')
  <2>1. CASE r = q
    BY <1>16, <1>22, <2>1
  <2>2. CASE r \in asked
    <3>1. Exactly(r, Lately(r, WindowLength), Lately(r, BurstLength))
      BY <1>23, <2>2, ExactForEach
    <3>2. /\ Lately(r, WindowLength)' = Lately(r, WindowLength)
          /\ Lately(r, BurstLength)' = Lately(r, BurstLength)
      BY <1>1, <2>2, LatelyKept
    <3> QED BY <3>1, <3>2
  <2> QED BY <1>1, <1>23, <2>1, <2>2
<1>24. DeviceBudgetsExact'
  BY <1>23 DEF DeviceBudgetsExact, Exactly
<1> QED BY <1>5, <1>11, <1>24

-----------------------------------------------------------------------------
(* The limiter *)

\* An entry counts no more than what was asked since it began, and there is one of
\* each peer; entries have an order.
LimiterInv ==
    /\ \A b \in buckets :
         /\ b.start <= tick /\ b.since < Cardinality(asked)
         /\ b.count <= Cardinality(Since(MadeBy(b.peer), b.start))
    /\ \A a, b \in buckets : a.peer = b.peer \/ a.since = b.since => a = b
    /\ Cardinality(buckets) <= MaxBuckets

\* Who was refused had made more requests than allowed in the minute.
FairTo(r, minute) == ~r.admitted => Cardinality({q \in minute : q.by = r.by}) > PeerLimit

FairlyRefused ==
    \A r \in asked : r.by \in Peers => FairTo(r, Lately(r, WindowLength))

LEMMA FirstOf ==
    ASSUME NEW S \in SUBSET Nat, S # {}
    PROVE  \E m \in S : \A i \in S : m <= i
<1>1. PICK m \in S : \A i \in S : ~(<<i, m>> \in OpToRel(<, Nat))
  BY WFMin, NatLessThanWellFounded
<1>2. \A i \in S : ~(i < m)
  BY <1>1 DEF OpToRel
<1> QED BY <1>2

\* Of ordered entries, those with fewer than m later ones are at most m.
LEMMA LatestFew ==
    ASSUME NEW L \in SUBSET Bucket, IsFiniteSet(L),
           \A a, b \in L : a.since = b.since => a = b, NEW m \in Nat,
           NEW K, K = {b \in L : Cardinality({o \in L : o.since > b.since}) < m}
    PROVE  IsFiniteSet(K) /\ Cardinality(K) \in Nat /\ Cardinality(K) <= m
<1>1. IsFiniteSet(K) /\ Cardinality(K) \in Nat
  BY Subsets
<1>2. CASE K = {}
  <2>1. Cardinality(K) = 0
    BY <1>2, Nobody
  <2> QED BY <1>1, <2>1
<1>3. CASE K # {}
  <2>1. \A b \in K : b.since \in Nat
    BY DEF Bucket
  <2>2. PICK k \in K : \A b \in K : k.since <= b.since
    <3>1. PICK S : S = {b.since : b \in K}
      OBVIOUS
    <3>2. S \in SUBSET Nat /\ S # {}
      <4>1. PICK b \in K : TRUE
        BY <1>3
      <4>2. b.since \in S
        BY <3>1, <4>1, Zenon
      <4>3. \A n \in S : n \in Nat
        BY <2>1, <3>1, Zenon
      <4> QED BY <4>2, <4>3
    <3>3. PICK n \in S : \A i \in S : n <= i
      BY <3>2, FirstOf
    <3> QED BY <3>1, <3>3
  <2>3. PICK T : T = {o \in L : o.since > k.since}
    OBVIOUS
  <2>4. K \ {k} \in SUBSET T
    <3>1. ASSUME NEW b \in K \ {k} PROVE b.since > k.since
      <4>1. b.since # k.since /\ k.since <= b.since /\ b.since \in Nat /\ k.since \in Nat
        BY <2>1, <2>2
      <4> QED BY <4>1
    <3> QED BY <2>3, <3>1
  <2>5. IsFiniteSet(T) /\ Cardinality(T) \in Nat /\ Cardinality(T) < m
    BY <2>3, Subsets
  <2>6. Cardinality(K \ {k}) <= Cardinality(T) /\ Cardinality(K \ {k}) = Cardinality(K) - 1
    BY <1>1, <2>4, <2>5, Subsets, FS_RemoveElement
  <2> QED BY <1>1, <2>5, <2>6
<1> QED BY <1>2, <1>3

LEMMA SweptSmall ==
    ASSUME AdmissionTypes, LimiterInv
    PROVE  /\ Swept \in SUBSET buckets /\ IsFiniteSet(Swept)
           /\ Cardinality(Swept) \in Nat /\ Cardinality(Swept) < MaxBuckets
<1>1. MaxBuckets \in Nat \ {0} /\ Cardinality(buckets) \in Nat
  BY AdmissionAssumption, FS_CardinalityType DEF AdmissionTypes
<1>2. CASE ~Sweeps
  <2>1. Swept = buckets
    BY <1>2 DEF Swept
  <2>2. Cardinality(buckets) < MaxBuckets
    BY <1>1, <1>2 DEF Sweeps
  <2> QED BY <1>1, <2>1, <2>2 DEF AdmissionTypes
<1>3. CASE Sweeps
  <2>0. PICK m \in Nat : m = MaxBuckets - 1
    BY <1>1
  <2>1. PICK L : L = {b \in buckets : ~Ended(b)}
    OBVIOUS
  <2>2. Swept = {b \in L : Cardinality({o \in L : o.since > b.since}) < m}
    BY <1>3, <2>0, <2>1 DEF Swept
  <2>3. /\ L \in SUBSET Bucket /\ IsFiniteSet(L) /\ L \in SUBSET buckets
        /\ \A a, b \in L : a.since = b.since => a = b
    BY <2>1, Subsets DEF AdmissionTypes, LimiterInv
  <2>4. IsFiniteSet(Swept) /\ Cardinality(Swept) \in Nat /\ Cardinality(Swept) <= m
    BY <2>2, <2>3, LatestFew
  <2> QED BY <1>1, <2>0, <2>2, <2>3, <2>4
<1> QED BY <1>2, <1>3

\* Of a renewed entry the count is no more than what was asked.
LEMMA RenewedSound ==
    ASSUME AdmissionTypes, LimiterInv, NEW q \in Asked, q \notin asked, q.at = tick,
           NEW h \in buckets, h.peer = q.by
    PROVE  /\ Renewed(h) \in Bucket /\ Renewed(h).peer = q.by /\ Renewed(h).since = h.since
           /\ Renewed(h).start <= tick /\ Renewed(h).start > tick - WindowLength
           /\ Renewed(h).count <= Cardinality(Since(MadeBy(q.by) \cup {q}, Renewed(h).start))
<1>1. /\ h \in Bucket /\ tick \in Nat /\ h.start \in Nat /\ h.count \in Nat /\ h.start <= tick
      /\ WindowLength \in Nat \ {0}
      /\ h.count <= Cardinality(Since(MadeBy(q.by), h.start))
  BY AdmissionAssumption DEF AdmissionTypes, LimiterInv, Bucket
<1>2. PICK C : C = MadeBy(q.by)
  OBVIOUS
<1>3. C \in SUBSET asked /\ q \notin C
  BY <1>2 DEF MadeBy
<1>4. CASE Ended(h)
  <2>1. PICK t \in Nat : t = tick
    BY <1>1
  <2>2. PICK e \in Bucket : e = [h EXCEPT !.count = 1, !.start = t]
    BY <1>1 DEF Bucket
  <2>3. Renewed(h) = e
    BY <1>4, <2>1, <2>2 DEF Renewed
  <2>4. e.peer = h.peer /\ e.since = h.since /\ e.start = t /\ e.count = 1
    BY <1>1, <2>2 DEF Bucket
  <2>5. 1 <= Cardinality(Since(C \cup {q}, t))
    <3>0. IsFiniteSet({q}) /\ Cardinality({q}) = 1
      BY FS_Singleton
    <3>1. {q} \in SUBSET Since(C \cup {q}, t)
      BY <2>1 DEF Since
    <3>2. IsFiniteSet(Since(C \cup {q}, t))
      <4>1. IsFiniteSet(asked \cup {q})
        BY OneMore DEF AdmissionTypes
      <4>2. Since(C \cup {q}, t) \in SUBSET (asked \cup {q})
        BY <1>3 DEF Since
      <4> QED BY <4>1, <4>2, Subsets
    <3> QED BY <3>0, <3>1, <3>2, Subsets
  <2> QED BY <1>1, <1>2, <1>3, <2>1, <2>3, <2>4, <2>5
<1>5. CASE ~Ended(h)
  <2>1. PICK n \in Nat : n = h.count + 1
    BY <1>1
  <2>2. PICK e \in Bucket : e = [h EXCEPT !.count = n]
    BY <1>1 DEF Bucket
  <2>3. Renewed(h) = e
    BY <1>1, <1>5, <2>1, <2>2 DEF Renewed
  <2>4. e.peer = h.peer /\ e.since = h.since /\ e.start = h.start /\ e.count = n
    BY <1>1, <2>2 DEF Bucket
  <2>5. tick - h.start < WindowLength
    BY <1>1, <1>5 DEF Ended
  <2>6. n <= Cardinality(Since(C \cup {q}, h.start))
    <3>1. Since(C \cup {q}, h.start) = Since(C, h.start) \cup {q} /\ q \notin Since(C, h.start)
      BY <1>1, <1>3 DEF Since
    <3>2. IsFiniteSet(Since(C, h.start))
      BY <1>3, Subsets DEF Since, AdmissionTypes
    <3>3. /\ Cardinality(Since(C \cup {q}, h.start)) = Cardinality(Since(C, h.start)) + 1
          /\ Cardinality(Since(C, h.start)) \in Nat
      BY <3>1, <3>2, OneMore
    <3> QED BY <1>1, <1>2, <2>1, <3>3
  <2> QED BY <1>1, <1>2, <1>3, <2>3, <2>4, <2>5, <2>6
<1> QED BY <1>4, <1>5

\* A charge replaces the entry of the peer, or adds one.
LEMMA ChargeSound ==
    ASSUME AdmissionTypes, LimiterInv, NEW p \in Peers, NEW q \in Asked, q \notin asked,
           q.by = p, q.at = tick
    PROVE  \E e \in Bucket :
              /\ e.peer = p /\ e.start <= tick /\ e.start > tick - WindowLength
              /\ e.count <= Cardinality(Since(MadeBy(p) \cup {q}, e.start))
              /\ e.since <= Cardinality(asked)
              /\ Charge(Swept, p) = {b \in Swept : b.peer # p} \cup {e}
              /\ \A b \in Swept : b.peer # p => b.since # e.since
<1>1. PICK here : here = {b \in Swept : b.peer = p}
  OBVIOUS
<1>2. /\ tick \in Nat /\ Cardinality(asked) \in Nat /\ WindowLength \in Nat \ {0}
      /\ Swept \in SUBSET buckets /\ \A b \in buckets : b \in Bucket /\ b.since \in Nat
      /\ \A b \in buckets : b.since < Cardinality(asked)
  BY AdmissionAssumption, SweptSmall, FS_CardinalityType DEF AdmissionTypes, LimiterInv, Bucket
<1>3. CASE here = {}
  <2>1. PICK t \in Nat, k \in Nat : t = tick /\ k = Cardinality(asked)
    BY <1>2
  <2>2. PICK e \in Bucket : e = [peer |-> p, count |-> 1, start |-> t, since |-> k]
    BY DEF Bucket
  <2>3. Charge(Swept, p) = Swept \cup {e} /\ Swept = {b \in Swept : b.peer # p}
    BY <1>1, <1>3, <2>1, <2>2 DEF Charge
  <2>4. 1 <= Cardinality(Since(MadeBy(p) \cup {q}, t))
    <3>0. IsFiniteSet({q}) /\ Cardinality({q}) = 1
      BY FS_Singleton
    <3>1. {q} \in SUBSET Since(MadeBy(p) \cup {q}, t)
      BY <2>1 DEF Since, MadeBy
    <3>2. IsFiniteSet(Since(MadeBy(p) \cup {q}, t))
      <4>1. IsFiniteSet(asked \cup {q})
        BY OneMore DEF AdmissionTypes
      <4>2. Since(MadeBy(p) \cup {q}, t) \in SUBSET (asked \cup {q})
        BY DEF Since, MadeBy
      <4> QED BY <4>1, <4>2, Subsets
    <3> QED BY <3>0, <3>1, <3>2, Subsets
  <2>5. \A b \in Swept : b.since # e.since
    BY <1>2, <2>1, <2>2
  <2> QED BY <1>2, <2>1, <2>2, <2>3, <2>4, <2>5
<1>4. CASE here # {}
  <2>1. PICK h \in here : TRUE
    BY <1>4
  <2>2. h \in buckets /\ h.peer = p /\ here = {h}
    BY <1>1, <1>2, <2>1 DEF LimiterInv
  <2>3. PICK e \in Bucket : e = Renewed(h)
    BY <2>2, RenewedSound
  <2>4. /\ e.peer = p /\ e.since = h.since /\ e.start <= tick /\ e.start > tick - WindowLength
        /\ e.count <= Cardinality(Since(MadeBy(p) \cup {q}, e.start))
    BY <2>2, <2>3, RenewedSound
  <2>5. Charge(Swept, p) = (Swept \ here) \cup {Renewed(b) : b \in here}
    BY <1>1, <1>4 DEF Charge
  <2>6. Charge(Swept, p) = {b \in Swept : b.peer # p} \cup {e}
    BY <1>1, <2>2, <2>3, <2>5
  <2>7. \A b \in Swept : b.peer # p => b.since # e.since
    BY <1>2, <2>2, <2>4 DEF LimiterInv
  <2> QED BY <1>2, <2>2, <2>4, <2>6, <2>7
<1> QED BY <1>3, <1>4

LEMMA LimitSound ==
    ASSUME AdmissionTypes, LimiterInv, FairlyRefused, NEW p \in Peers, Limit(p)
    PROVE  /\ AdmissionTypes' /\ LimiterInv' /\ FairlyRefused'
           /\ UNCHANGED <<tick, counters>>
           /\ \E q \in Asked : q.by = p /\ q.nr = Cardinality(asked) /\ asked' = asked \cup {q}
<1>1. tick \in Nat /\ Cardinality(asked) \in Nat /\ PeerLimit \in Nat /\ WindowLength \in Nat
  BY AdmissionAssumption, FS_CardinalityType DEF AdmissionTypes
<1>2. PICK n : n = CountOf(Charge(Swept, p), p)
  OBVIOUS
<1>3. ASSUME NEW q \in Asked, q.by = p, q.at = tick, q.nr = Cardinality(asked)
       PROVE  \E e \in Bucket :
         /\ e.peer = p /\ e.start <= tick /\ e.start > tick - WindowLength /\ n = e.count
         /\ e.count <= Cardinality(Since(MadeBy(p) \cup {q}, e.start))
         /\ e.since <= Cardinality(asked)
         /\ Charge(Swept, p) = {b \in Swept : b.peer # p} \cup {e}
         /\ \A b \in Swept : b.peer # p => b.since # e.since
  <2>1. q \notin asked
    BY <1>1, <1>3 DEF AdmissionTypes
  <2>2. PICK e \in Bucket :
           /\ e.peer = p /\ e.start <= tick /\ e.start > tick - WindowLength
           /\ e.count <= Cardinality(Since(MadeBy(p) \cup {q}, e.start))
           /\ e.since <= Cardinality(asked)
           /\ Charge(Swept, p) = {b \in Swept : b.peer # p} \cup {e}
           /\ \A b \in Swept : b.peer # p => b.since # e.since
    BY <1>3, <2>1, ChargeSound
  <2>3. PICK map : map = Charge(Swept, p)
    OBVIOUS
  <2>4. e \in map /\ \A b \in map : b.peer = p => b = e
    BY <2>2, <2>3
  <2>5. (CHOOSE b \in map : b.peer = p) = e
    BY <2>2, <2>4
  <2>6. n = e.count
    BY <1>2, <2>3, <2>5 DEF CountOf
  <2> QED BY <2>2, <2>6
<1>4. n \in Nat
  <2>1. PICK q \in Asked : q = [by |-> p, at |-> tick, nr |-> Cardinality(asked),
                               admitted |-> TRUE, audited |-> FALSE]
    BY <1>1 DEF Asked
  <2>2. q.by = p /\ q.at = tick /\ q.nr = Cardinality(asked)
    BY <2>1
  <2>3. PICK e \in Bucket : n = e.count
    BY <1>3, <2>2
  <2> QED BY <2>3 DEF Bucket
<1>5. PICK a \in BOOLEAN : a = (n <= PeerLimit)
  <2>1. CASE n <= PeerLimit
    <3>1. (n <= PeerLimit) = TRUE
      BY <2>1
    <3> QED BY <3>1
  <2>2. CASE ~(n <= PeerLimit)
    <3>1. (n <= PeerLimit) = FALSE
      BY <1>1, <1>4, <2>2
    <3> QED BY <3>1
  <2> QED BY <2>1, <2>2
<1>6. PICK u \in BOOLEAN : u = (n = PeerLimit + 1)
  BY <1>1, <1>4
<1>7. PICK q \in Asked : q = [by |-> p, at |-> tick, nr |-> Cardinality(asked),
                             admitted |-> a, audited |-> u]
  BY <1>1 DEF Asked
<1>8. /\ asked' = asked \cup {q} /\ buckets' = Charge(Swept, p) /\ UNCHANGED <<tick, counters>>
      /\ cleaned' = IF Sweeps THEN tick ELSE cleaned
  BY <1>6, <1>2, <1>5, <1>7 DEF Limit, Note
<1>9. q.by = p /\ q.at = tick /\ q.nr = Cardinality(asked) /\ q.admitted = a
  BY <1>7
<1>10. /\ q \notin asked /\ asked' \in SUBSET Asked /\ IsFiniteSet(asked')
      /\ Cardinality(asked') = Cardinality(asked) + 1
      /\ \A r \in asked' : r.at <= tick' /\ r.nr < Cardinality(asked')
  BY <1>8, <1>9, Noted
<1>11. PICK e \in Bucket :
         /\ e.peer = p /\ e.start <= tick /\ e.start > tick - WindowLength /\ n = e.count
         /\ e.count <= Cardinality(Since(MadeBy(p)', e.start))
         /\ e.since <= Cardinality(asked)
         /\ Charge(Swept, p) = {b \in Swept : b.peer # p} \cup {e}
         /\ \A b \in Swept : b.peer # p => b.since # e.since
  <2>1. MadeBy(p)' = MadeBy(p) \cup {q}
    BY <1>8, <1>9 DEF MadeBy
  <2> QED BY <1>9, <1>3, <2>1
<1>12. PICK rest : rest = {b \in Swept : b.peer # p}
  OBVIOUS
<1>13. /\ buckets' = rest \cup {e} /\ rest \in SUBSET Swept /\ e \notin rest
       /\ rest \in SUBSET buckets
  BY <1>8, <1>11, <1>12, SweptSmall
<1>14. e.count \in Nat /\ e.start \in Nat /\ e.since \in Nat
  BY DEF Bucket
<1>15. AdmissionTypes'
  <2>1. cleaned' \in Nat
    BY <1>1, <1>8 DEF AdmissionTypes
  <2>2. IsFiniteSet(rest)
    BY <1>13, SweptSmall, Subsets
  <2>3. IsFiniteSet(buckets') /\ buckets' \in SUBSET Bucket
    BY <1>13, <2>2, OneMore DEF AdmissionTypes
  <2> QED BY <1>8, <1>10, <2>1, <2>3 DEF AdmissionTypes
<1>16. Cardinality(buckets') <= MaxBuckets
  <2>1. /\ IsFiniteSet(rest) /\ Cardinality(rest) \in Nat
        /\ Cardinality(rest) <= Cardinality(Swept)
    BY <1>13, SweptSmall, Subsets
  <2>2. Cardinality(buckets') = Cardinality(rest) + 1
    BY <1>13, <2>1, OneMore
  <2>3. Cardinality(Swept) < MaxBuckets /\ Cardinality(Swept) \in Nat /\ MaxBuckets \in Nat
    BY SweptSmall, AdmissionAssumption
  <2> QED BY <2>1, <2>2, <2>3
<1>17. ASSUME NEW b \in rest
       PROVE  /\ b.start <= tick' /\ b.since < Cardinality(asked')
              /\ b.count <= Cardinality(Since(MadeBy(b.peer)', b.start))
  <2>1. MadeBy(b.peer)' = MadeBy(b.peer)
    BY <1>8, <1>9, <1>12 DEF MadeBy
  <2>2. b \in buckets /\ b.since \in Nat
    BY <1>13 DEF AdmissionTypes, Bucket
  <2>3. /\ b.start <= tick /\ b.since < Cardinality(asked)
        /\ b.count <= Cardinality(Since(MadeBy(b.peer), b.start))
    BY <2>2 DEF LimiterInv
  <2> QED BY <1>1, <1>8, <1>10, <2>1, <2>2, <2>3
<1>18. /\ e.start <= tick' /\ e.since < Cardinality(asked')
       /\ e.count <= Cardinality(Since(MadeBy(e.peer)', e.start))
  BY <1>1, <1>8, <1>10, <1>11, <1>14
<1>19. \A b, c \in buckets' : b.peer = c.peer \/ b.since = c.since => b = c
  <2>1. \A b, c \in rest : b.peer = c.peer \/ b.since = c.since => b = c
    BY <1>13 DEF LimiterInv
  <2>2. \A b \in rest : b.peer # e.peer /\ b.since # e.since
    BY <1>11, <1>12
  <2> QED BY <1>13, <2>1, <2>2
<1>20. LimiterInv'
  <2>1. \A b \in buckets' :
           /\ b.start <= tick' /\ b.since < Cardinality(asked')
           /\ b.count <= Cardinality(Since(MadeBy(b.peer)', b.start))
    BY <1>13, <1>17, <1>18
  <2> QED BY <1>16, <1>19, <2>1 DEF LimiterInv, MadeBy
<1>21. FairTo(q, Lately(q, WindowLength)')
  <2>1. PICK M, C : M = Lately(q, WindowLength)' /\ C = MadeBy(p)'
    OBVIOUS
  <2>2. /\ M = {r \in asked \cup {q} : r.at > tick - WindowLength}
        /\ C = {r \in asked \cup {q} : r.by = p}
    BY <1>8, <1>9, <2>1, LatelyNow DEF MadeBy
  <2>3. \A r \in asked \cup {q} : r.at \in Nat
    BY <1>8, <1>10 DEF Asked
  <2>4. PICK A, T : A = Since(C, e.start) /\ T = {r \in M : r.by = p}
    OBVIOUS
  <2>5. A \in SUBSET T
    BY <1>1, <1>11, <1>14, <2>2, <2>3, <2>4 DEF Since
  <2>6. T \in SUBSET asked'
    BY <1>8, <2>2, <2>4
  <2>7. IsFiniteSet(T)
    BY <1>10, <2>6, Subsets
  <2>8. Cardinality(A) <= Cardinality(T) /\ Cardinality(A) \in Nat /\ Cardinality(T) \in Nat
    BY <2>5, <2>7, Subsets
  <2>9. e.count <= Cardinality(A)
    BY <1>11, <2>1, <2>4
  <2>10. ~q.admitted => e.count > PeerLimit
    <3>1. ~q.admitted => ~(n <= PeerLimit)
      BY <1>5, <1>9, Zenon
    <3> QED BY <1>1, <1>11, <1>14, <3>1
  <2>11. ~q.admitted => Cardinality(T) > PeerLimit
    BY <1>1, <1>14, <2>8, <2>9, <2>10
  <2> QED BY <1>9, <2>1, <2>4, <2>11 DEF FairTo
<1>22. ASSUME NEW r \in asked', r.by \in Peers PROVE FairTo(r, Lately(r, WindowLength)')
  <2>1. CASE r \in asked
    <3>1. Lately(r, WindowLength)' = Lately(r, WindowLength)
      BY <1>8, <1>9, <2>1, LatelyKept
    <3> QED BY <1>22, <2>1, <3>1 DEF FairlyRefused
  <2> QED BY <1>8, <1>21, <2>1
<1>23. FairlyRefused'
  BY <1>22 DEF FairlyRefused
<1> QED BY <1>8, <1>9, <1>15, <1>20, <1>23

-----------------------------------------------------------------------------
(* Both together *)

AdmissionInv ==
    AdmissionTypes /\ BudgetsInv /\ DeviceBudgetsExact /\ LimiterInv /\ FairlyRefused

\* The limiter charges no budget.
LEMMA BudgetsKept ==
    ASSUME AdmissionTypes, BudgetsInv, DeviceBudgetsExact, UNCHANGED <<tick, counters>>,
           NEW q \in Asked, q.by \in Peers, q.nr = Cardinality(asked), asked' = asked \cup {q}
    PROVE  BudgetsInv' /\ DeviceBudgetsExact'
<1>1. q.by \notin Kiosks
  BY AdmissionAssumption
<1>2. MadeByAny' = MadeByAny /\ \A d \in Kiosks : MadeBy(d)' = MadeBy(d)
  BY <1>1 DEF MadeByAny, MadeBy
<1>3. ASSUME NEW key, NEW S, NEW G, KeySound(key, S, G) PROVE KeySound(key, S, G)'
  BY <1>3 DEF KeySound
<1>4. ASSUME NEW d \in Kiosks
      PROVE  /\ KeySound(DeviceKey(d), MadeBy(d), Admitted(MadeBy(d)))'
             /\ KeySound(BurstKey(d), MadeBy(d), Admitted(MadeBy(d)))'
             /\ KeySound(AuditKey(d), Denied(MadeBy(d)), Audited(MadeBy(d)))'
  <2>1. PICK S : S = MadeBy(d)
    OBVIOUS
  <2>2. /\ KeySound(DeviceKey(d), S, Admitted(S)) /\ KeySound(BurstKey(d), S, Admitted(S))
        /\ KeySound(AuditKey(d), Denied(S), Audited(S))
    BY <2>1 DEF BudgetsInv
  <2>3. /\ KeySound(DeviceKey(d), S, Admitted(S))' /\ KeySound(BurstKey(d), S, Admitted(S))'
        /\ KeySound(AuditKey(d), Denied(S), Audited(S))'
    BY <1>3, <2>2
  <2>4. MadeBy(d)' = S
    BY <1>2, <2>1
  <2> QED BY <2>3, <2>4 DEF KeySound
<1>5. KeySound(TerminalKey, MadeByAny, Admitted(MadeByAny))'
  <2>1. PICK S : S = MadeByAny
    OBVIOUS
  <2>2. KeySound(TerminalKey, S, Admitted(S))'
    BY <1>3, <2>1 DEF BudgetsInv
  <2> QED BY <1>2, <2>1, <2>2 DEF KeySound
<1>6. \A r \in MadeByAny' : r.audited => ~r.admitted
  BY <1>2 DEF BudgetsInv
<1>7. ASSUME NEW r \in asked', r.by \in Kiosks
      PROVE  Exactly(r, Lately(r, WindowLength)', Lately(r, BurstLength)')
  <2>1. r \in asked
    BY <1>1, <1>7
  <2>2. /\ Lately(r, WindowLength)' = Lately(r, WindowLength)
        /\ Lately(r, BurstLength)' = Lately(r, BurstLength)
    BY <2>1, LatelyKept
  <2> QED BY <1>7, <2>1, <2>2, ExactForEach
<1>8. DeviceBudgetsExact'
  BY <1>7 DEF DeviceBudgetsExact, Exactly
<1> QED BY <1>4, <1>5, <1>6, <1>8 DEF BudgetsInv

\* A kiosk's budget is no business of the limiter.
LEMMA LimiterKept ==
    ASSUME AdmissionTypes, LimiterInv, FairlyRefused, UNCHANGED <<tick, buckets>>,
           NEW q \in Asked, q.by \in Kiosks, q.nr = Cardinality(asked), q.at = tick,
           asked' = asked \cup {q}
    PROVE  LimiterInv' /\ FairlyRefused'
<1>1. q.by \notin Peers
  BY AdmissionAssumption
<1>2. \A p \in Peers : MadeBy(p)' = MadeBy(p)
  BY <1>1 DEF MadeBy
<1>3. Cardinality(asked') = Cardinality(asked) + 1 /\ Cardinality(asked) \in Nat
  BY Noted
<1>4. ASSUME NEW b \in buckets
      PROVE  /\ b.start <= tick' /\ b.since < Cardinality(asked')
             /\ b.count <= Cardinality(Since(MadeBy(b.peer)', b.start))
  <2>1. b.peer \in Peers /\ b.since \in Nat
    BY DEF AdmissionTypes, Bucket
  <2> QED BY <1>2, <1>3, <2>1 DEF LimiterInv
<1>5. LimiterInv'
  BY <1>4 DEF LimiterInv, MadeBy
<1>6. ASSUME NEW r \in asked', r.by \in Peers PROVE FairTo(r, Lately(r, WindowLength)')
  <2>1. r \in asked
    BY <1>1, <1>6
  <2>2. Lately(r, WindowLength)' = Lately(r, WindowLength)
    BY <2>1, LatelyKept
  <2> QED BY <1>6, <2>1, <2>2 DEF FairlyRefused
<1>7. FairlyRefused'
  BY <1>6 DEF FairlyRefused
<1> QED BY <1>5, <1>7

\* Time passes, or nothing happens.
LEMMA TickSound ==
    ASSUME AdmissionInv, UNCHANGED <<counters, buckets, cleaned, asked>>,
           tick' = tick \/ tick' = tick + 1
    PROVE  AdmissionInv'
<1>1. tick \in Nat /\ tick' \in Nat /\ tick <= tick'
  BY DEF AdmissionInv, AdmissionTypes
<1>2. AdmissionTypes'
  <2>1. \A q \in asked : q.at <= tick' /\ q.nr < Cardinality(asked)
    BY <1>1 DEF AdmissionInv, AdmissionTypes, Asked
  <2> QED BY <1>1, <2>1 DEF AdmissionInv, AdmissionTypes
<1>3. ASSUME NEW key \in Key, NEW S, NEW G, KeySound(key, S, G) PROVE KeySound(key, S, G)'
  <2>1. counters[key].start \in Nat
    BY DEF AdmissionInv, AdmissionTypes, Row
  <2> QED BY <1>1, <1>3, <2>1 DEF KeySound
<1>4. BudgetsInv'
  <2>1. ASSUME NEW d \in Kiosks
        PROVE  /\ KeySound(DeviceKey(d), MadeBy(d), Admitted(MadeBy(d)))'
               /\ KeySound(BurstKey(d), MadeBy(d), Admitted(MadeBy(d)))'
               /\ KeySound(AuditKey(d), Denied(MadeBy(d)), Audited(MadeBy(d)))'
    <3>1. PICK S : S = MadeBy(d)
      OBVIOUS
    <3>2. /\ KeySound(DeviceKey(d), S, Admitted(S))' /\ KeySound(BurstKey(d), S, Admitted(S))'
          /\ KeySound(AuditKey(d), Denied(S), Audited(S))'
      BY <1>3, <3>1, Limits DEF AdmissionInv, BudgetsInv
    <3>3. MadeBy(d)' = S
      BY <3>1 DEF MadeBy
    <3> QED BY <3>2, <3>3 DEF KeySound
  <2>2. KeySound(TerminalKey, MadeByAny, Admitted(MadeByAny))'
    <3>1. PICK S : S = MadeByAny
      OBVIOUS
    <3>2. KeySound(TerminalKey, S, Admitted(S))'
      BY <1>3, <3>1, Limits DEF AdmissionInv, BudgetsInv
    <3>3. MadeByAny' = S
      BY <3>1 DEF MadeByAny
    <3> QED BY <3>2, <3>3 DEF KeySound
  <2>3. \A r \in MadeByAny' : r.audited => ~r.admitted
    BY DEF AdmissionInv, BudgetsInv, MadeByAny
  <2> QED BY <2>1, <2>2, <2>3 DEF BudgetsInv
<1>5. DeviceBudgetsExact' /\ FairlyRefused'
  BY DEF AdmissionInv, DeviceBudgetsExact, FairlyRefused, Lately
<1>6. LimiterInv'
  <2>1. \A b \in buckets : b.start <= tick'
    BY <1>1 DEF AdmissionInv, AdmissionTypes, LimiterInv, Bucket
  <2> QED BY <2>1 DEF AdmissionInv, LimiterInv, MadeBy
<1> QED BY <1>2, <1>4, <1>5, <1>6 DEF AdmissionInv

LEMMA AdmissionStep ==
    AdmissionInv /\ [BudgetsNext \/ LimiterNext]_admission => AdmissionInv'
<1> SUFFICES ASSUME AdmissionInv, [BudgetsNext \/ LimiterNext]_admission PROVE AdmissionInv'
  OBVIOUS
<1>1. ASSUME NEW d \in Kiosks, Reserve(d) PROVE AdmissionInv'
  <2>1. AdmissionTypes' /\ BudgetsInv' /\ DeviceBudgetsExact'
    BY <1>1, ReserveSound DEF AdmissionInv
  <2>2. PICK q \in Asked : /\ q.by = d /\ q.at = tick /\ q.nr = Cardinality(asked)
                          /\ asked' = asked \cup {q} /\ UNCHANGED <<tick, buckets>>
    BY <1>1, Reserved DEF AdmissionInv
  <2>3. LimiterInv' /\ FairlyRefused'
    BY <2>2, LimiterKept DEF AdmissionInv
  <2> QED BY <2>1, <2>3 DEF AdmissionInv
<1>2. ASSUME NEW p \in Peers, Limit(p) PROVE AdmissionInv'
  <2>1. /\ AdmissionTypes' /\ LimiterInv' /\ FairlyRefused' /\ UNCHANGED <<tick, counters>>
        /\ \E q \in Asked : q.by = p /\ q.nr = Cardinality(asked) /\ asked' = asked \cup {q}
    BY <1>2, LimitSound DEF AdmissionInv
  <2>2. BudgetsInv' /\ DeviceBudgetsExact'
    BY <2>1, BudgetsKept DEF AdmissionInv
  <2> QED BY <2>1, <2>2 DEF AdmissionInv
<1>3. CASE Tick
  BY <1>3, TickSound DEF Tick
<1>4. CASE UNCHANGED admission
  BY <1>4, TickSound DEF admission
<1> QED BY <1>1, <1>2, <1>3, <1>4 DEF BudgetsNext, LimiterNext

\* What the rows of the budgets and the entries of the limiter tell of the requests
\* made (terminal-auth.service.ts, `budget`; terminal-rate-limit.guard.ts).
THEOREM AdmissionInvariant == AdmissionSpec => []AdmissionInv
<1>1. AdmissionInit => AdmissionInv
  <2> SUFFICES ASSUME AdmissionInit PROVE AdmissionInv
    OBVIOUS
  <2>1. PICK row \in Row : row = Unused
    BY DEF Row, Unused
  <2>2. row.counter = 0 /\ row.start = 0
    BY <2>1 DEF Unused
  <2>3. /\ tick = 0 /\ counters = [key \in Key |-> row] /\ buckets = {} /\ cleaned = 0
        /\ asked = {}
    BY <2>1 DEF AdmissionInit
  <2>4. AdmissionTypes
    BY <2>3, Nobody DEF AdmissionTypes
  <2>5. ASSUME NEW key \in Key PROVE KeySound(key, {}, {})
    <3>1. PICK limit \in Nat \ {0}, length \in Nat \ {0} :
             limit = LimitOf(key) /\ length = LengthOf(key)
      BY Limits
    <3>2. Since({}, row.start) = {} /\ Between({}, row.start - length, row.start) = {}
      BY DEF Since, Between
    <3>3. WindowSound(row, {}, {}, limit, length)
      BY <2>2, <3>2, Nobody DEF WindowSound
    <3>4. counters[key] = row /\ row.start <= tick
      BY <2>2, <2>3
    <3> QED BY <3>1, <3>3, <3>4 DEF KeySound
  <2>6. BudgetsInv
    <3>1. MadeByAny = {} /\ \A d \in Kiosks : MadeBy(d) = {}
      BY <2>3 DEF MadeByAny, MadeBy
    <3>2. Admitted({}) = {} /\ Denied({}) = {} /\ Audited({}) = {}
      BY DEF Admitted, Denied, Audited
    <3> QED BY <2>5, <3>1, <3>2, Limits DEF BudgetsInv
  <2>7. LimiterInv
    BY <2>3, Nobody, AdmissionAssumption DEF LimiterInv
  <2>8. DeviceBudgetsExact /\ FairlyRefused
    BY <2>3 DEF DeviceBudgetsExact, FairlyRefused
  <2> QED BY <2>4, <2>6, <2>7, <2>8 DEF AdmissionInv
<1> QED BY <1>1, AdmissionStep, PTL DEF AdmissionSpec

\* Neither kind of budget denies too little or too much, for any number of kiosks
\* and peers, all limits and lengths, whatever the limiter evicts (BudgetsExact).
THEOREM BudgetsAreExact == AdmissionSpec => []BudgetsExact
<1>1. AdmissionInv => BudgetsExact
  BY DEF AdmissionInv, BudgetsExact, LimiterFair, LimiterInv, FairlyRefused, FairTo
<1> QED BY <1>1, AdmissionInvariant, PTL
=============================================================================
