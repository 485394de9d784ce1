---------------------------- MODULE TerminalAuth ----------------------------
(***************************************************************************)
(* Kiosk terminals, a Team feature: identification by PIN and the booking  *)
(* it permits (apps/api/src/app/terminals/terminal-auth.service.ts), with  *)
(* the writers of what a permission depends on: PIN credentials, terminals *)
(* and their devices, and accounts.  Codes displayed for phones are left   *)
(* out: they share neither challenges nor permissions with PINs.           *)
(*                                                                         *)
(* An identification reads the credential in a first transaction, verifies *)
(* the PIN against it outside of any, and decides in a second one.  Every  *)
(* transaction holds the advisory lock 7261500, so it is one step.         *)
(*                                                                         *)
(* Time is a small clock; the assumption relates its intervals as 45 s,    *)
(* 30 s and 15 minutes are.  Rate limits, locations, a changed personal    *)
(* number and a block booked for the day only refuse, and are left out.    *)
(*                                                                         *)
(* A definition whose name ends in _Fault is a plausible mistake in the    *)
(* definition below it; nothing else uses it.                              *)
(***************************************************************************)
EXTENDS Integers, Sequences, FiniteSets

CONSTANTS
    Employees,      \* accounts
    Terminals,      \* terminals
    Devices,        \* kiosk devices, each for one terminal
    TerminalOf,     \* the terminal of each device
    None,           \* NULL
    Clients,        \* identifications in flight together (hashesInFlight < 4)
    Operations,     \* the administrative operations that take place
    MaxFailures,    \* failures that lock a PIN
    ChallengeTtl,   \* life of a challenge
    GrantTtl,       \* life of a booking permission, at most that of its challenge
    Window,         \* interval in which failures add up, and of a lockout
    Horizon,        \* bound: the last instant
    MaxTickets,     \* bound: challenges, and permissions, that are issued
    MaxChanges      \* bound: changes of a credential, and of a terminal

Operation == {"Reset", "Unlock", "Revoke", "SetActive", "Configure", "RevokeDevice",
              "Pair"}

ASSUME TerminalAssumption ==
    /\ TerminalOf \in [Devices -> Terminals]
    /\ Operations \subseteq Operation
    /\ MaxFailures \in Nat \ {0}
    /\ ChallengeTtl \in Nat \ {0} /\ GrantTtl \in Nat \ {0} /\ Window \in Nat
    /\ GrantTtl <= Window
    /\ Horizon \in Nat /\ MaxTickets \in Nat /\ MaxChanges \in Nat

VARIABLES
    now,            \* the server's clock
    terminals,      \* Terminal: active, PINs allowed, authConfigVersion
    devices,        \* TerminalDevice: unpaired, paired or revoked
    active,         \* employees with isActive
    credentials,    \* TerminalCredential of each employee, or None
    attempts,       \* TerminalAuthAttemptState of each employee's PIN, or None
    challenges,     \* TerminalChallenge; an id is an index
    grants,         \* TerminalBookingGrant; an id is an index
    redemptions,    \* TerminalChallengeRedemption, with the permission it used
    working,        \* employees whose timer runs
    call,           \* identifications whose PIN is being verified
    withdrawn       \* history: permissions that were withdrawn before their use

kiosks == <<terminals, devices>>
accounts == <<active, credentials, attempts>>
bookings == <<redemptions, working>>
vars == <<now, kiosks, accounts, challenges, grants, bookings, call, withdrawn>>

Action == {"clock-in", "clock-out"}
Time == Nat

Terminal == [active: BOOLEAN, pin: BOOLEAN, version: Nat]
Device == {"Unpaired", "Paired", "Revoked"}
Credential == [version: Nat \ {0}, revoked: BOOLEAN]

\* Failures are counted from `start`; the last of them was at `last`.
Attempts == [counter: 1 .. MaxFailures, start: Time, last: Time]

ASSUME NullAssumption == None \notin Credential /\ None \notin Attempts

Challenge == [device: Devices, config: Nat, expires: Time]
Grant == [emp: Employees, version: Nat, challenge: Nat, config: Nat, expires: Time,
          used: BOOLEAN, action: Action \cup {None}]

-----------------------------------------------------------------------------
(* Devices, challenges and credentials *)

\* The terminal of device d, as it is now.
Kiosk(d) == terminals[TerminalOf[d]]

\* TerminalAuthService.device.
Present(d) == devices[d] = "Paired" /\ Kiosk(d).active

\* TerminalAuthService.method.
Allowed(d) == Kiosk(d).pin

\* validChallenge.
Valid(k, d) ==
    /\ challenges[k].device = d
    /\ challenges[k].config = Kiosk(d).version
    /\ now < challenges[k].expires

\* lockedUntil is Window after the failure that reached MaxFailures.
Locked(e) ==
    /\ attempts[e] # None
    /\ attempts[e].counter >= MaxFailures /\ now < attempts[e].last + Window

Configured(e) == credentials[e] # None /\ ~credentials[e].revoked

Eligible(e) == e \in active /\ Configured(e) /\ ~Locked(e)

-----------------------------------------------------------------------------
(* What withdraws a permission *)

Unused(S) == {g \in S : ~grants[g].used}
GrantsOf(e) == {g \in DOMAIN grants : grants[g].emp = e}
DeviceOf(g) == challenges[grants[g].challenge].device
GrantsOn(D) == {g \in DOMAIN grants : DeviceOf(g) \in D}
DevicesOf(t) == {d \in Devices : TerminalOf[d] = t}

Withdraw(S) == withdrawn' = withdrawn \cup Unused(S)

-----------------------------------------------------------------------------
(* Challenges *)

\* With each new challenge, records of failures are dropped two windows after the
\* last of them (expiresAt; a minute more is not told apart).
Stale(e) == attempts[e] # None /\ attempts[e].last + 2 * Window < now

\* challenge.  It also deletes challenges and permissions that have expired for
\* three minutes, which no handler would accept any more.  Midnight may end a
\* challenge before ChallengeTtl does.
IssueChallenge(d) ==
    /\ Len(challenges) < MaxTickets
    /\ Present(d) /\ Allowed(d)
    /\ \E expires \in now + 1 .. now + ChallengeTtl :
         challenges' = Append(challenges, [device |-> d, config |-> Kiosk(d).version,
                                           expires |-> expires])
    /\ attempts' = [e \in Employees |-> IF Stale(e) THEN None ELSE attempts[e]]
    /\ UNCHANGED <<now, kiosks, active, credentials, grants, bookings, call, withdrawn>>

-----------------------------------------------------------------------------
(* Identification *)

Idle == [emp |-> None]

\* `seen` is the version of the credential that the PIN is verified against, or 0.
Call == [device: Devices, challenge: Nat, emp: Employees, seen: Nat, matches: BOOLEAN]

\* The first transaction of identify, and the verification that follows it.
BeginIdentify(c) ==
    /\ call[c] = Idle
    /\ \E d \in Devices, k \in DOMAIN challenges, e \in Employees, matches \in BOOLEAN :
         /\ Present(d) /\ Allowed(d) /\ Valid(k, d)
         /\ matches => Eligible(e)
         /\ call' = [call EXCEPT ![c] =
              [device |-> d, challenge |-> k, emp |-> e, matches |-> matches,
               seen |-> IF Eligible(e) THEN credentials[e].version ELSE 0]]
    /\ UNCHANGED <<now, kiosks, accounts, challenges, grants, bookings, withdrawn>>

\* The credential is the one that the PIN was verified against.
SameCredential(k) == Configured(k.emp) /\ credentials[k.emp].version = k.seen

\* What the first transaction found is relied on.
Accepted_Fault(k) == k.matches /\ k.emp \in active /\ SameCredential(k)

Accepted(k) == k.matches /\ k.emp \in active /\ ~Locked(k.emp) /\ SameCredential(k)

\* Every failure counts.
Counts_Fault(k) == k.emp \in active /\ ~Locked(k.emp) /\ Configured(k.emp)

\* A failed verification of a replaced PIN must not penalise its replacement.
Counts(k) == k.emp \in active /\ ~Locked(k.emp) /\ SameCredential(k)

InTransaction(c) ==
    /\ call[c] # Idle
    /\ Present(call[c].device) /\ Allowed(call[c].device)
    /\ Valid(call[c].challenge, call[c].device)
    /\ call' = [call EXCEPT ![c] = Idle]

Earliest(s, t) == IF s <= t THEN s ELSE t

\* The second transaction of identify grants a booking,
Accept(c) ==
    LET k == call[c]
    IN /\ InTransaction(c)
       /\ Accepted(k)
       /\ Len(grants) < MaxTickets
       /\ attempts' = [attempts EXCEPT ![k.emp] = None]
       /\ grants' = Append(grants,
            [emp |-> k.emp, version |-> credentials[k.emp].version,
             challenge |-> k.challenge, config |-> Kiosk(k.device).version,
             expires |-> Earliest(now + GrantTtl, challenges[k.challenge].expires),
             used |-> FALSE, action |-> None])
       /\ UNCHANGED <<now, kiosks, active, credentials, challenges, bookings, withdrawn>>

\* The window of e's failures has passed.
Fresh(e) == attempts[e] = None \/ attempts[e].start + Window <= now

\* The record of one more failure of e.
Failure(e) ==
    [counter |-> IF Fresh(e) THEN 1 ELSE attempts[e].counter + 1,
     start |-> IF Fresh(e) THEN now ELSE attempts[e].start,
     last |-> now]

\* or refuses, and may lock the PIN.
Refuse(c) ==
    LET k == call[c]
        locks == Counts(k) /\ Failure(k.emp).counter = MaxFailures
    IN /\ InTransaction(c)
       /\ ~Accepted(k)
       /\ attempts' = IF Counts(k) THEN [attempts EXCEPT ![k.emp] = Failure(k.emp)] ELSE attempts
       /\ Withdraw(IF locks THEN GrantsOf(k.emp) ELSE {})
       /\ UNCHANGED <<now, kiosks, active, credentials, challenges, grants, bookings>>

\* The request fails: its device, challenge or method is no longer valid, or the
\* transaction fails, or the API process ends.
Abort(c) ==
    /\ call[c] # Idle
    /\ call' = [call EXCEPT ![c] = Idle]
    /\ UNCHANGED <<now, kiosks, accounts, challenges, grants, bookings, withdrawn>>

-----------------------------------------------------------------------------
(* Bookings *)

ActionFor(e) == IF e \in working THEN "clock-out" ELSE "clock-in"

Toggle(e) == working' = IF e \in working THEN working \ {e} ELSE working \cup {e}

\* An employee uses a challenge once (the check, and the table's unique key).
Redeemed(k, e) == \E r \in redemptions : r.challenge = k /\ r.emp = e

Redeem(k, e, g) ==
    redemptions' = redemptions \cup
        {[challenge |-> k, emp |-> e, grant |-> g, action |-> ActionFor(e)]}

\* The permission is still what it was when it was given.
Current_Fault(g) ==
    LET grant == grants[g]
    IN Configured(grant.emp) /\ ~Locked(grant.emp) /\ now < grant.expires

Current(g) ==
    LET grant == grants[g]
        d == DeviceOf(g)
    IN /\ ~Locked(grant.emp)
       /\ Configured(grant.emp) /\ credentials[grant.emp].version = grant.version
       /\ grant.config = Kiosk(d).version
       /\ now < grant.expires /\ now < challenges[grant.challenge].expires

\* The kiosk sends what the employee has confirmed.
Confirmed_Fault(e, action) == TRUE

Confirmed(e, action) == action = ActionFor(e)

\* book, the first time.  A repeated request for a permission that has been used
\* gets the stored receipt, and changes nothing.
Book(g, action) ==
    LET e == grants[g].emp
        d == DeviceOf(g)
    IN /\ Present(d) /\ e \in active
       /\ ~grants[g].used
       /\ Allowed(d)
       /\ Current(g)
       /\ ~Redeemed(grants[g].challenge, e)
       /\ Confirmed(e, action)
       /\ Toggle(e)
       /\ Redeem(grants[g].challenge, e, g)
       /\ grants' = [grants EXCEPT ![g] = [@ EXCEPT !.used = TRUE, !.action = action]]
       /\ UNCHANGED <<now, kiosks, accounts, challenges, call, withdrawn>>

-----------------------------------------------------------------------------
(* Administration *)

Version(e) == IF credentials[e] = None THEN 0 ELSE credentials[e].version

Renew(e, revoked) ==
    /\ Version(e) <= MaxChanges
    /\ credentials' = [credentials EXCEPT ![e] =
         [version |-> Version(e) + 1, revoked |-> revoked]]

\* A credential changes: earlier failures are forgotten, permissions withdrawn.
ChangeCredential(e, revoked) ==
    /\ Renew(e, revoked)
    /\ attempts' = [attempts EXCEPT ![e] = None]
    /\ Withdraw(GrantsOf(e))
    /\ UNCHANGED <<now, kiosks, active, challenges, grants, bookings, call>>

\* TerminalCredentialsService.reset.
ResetPin(e) == "Reset" \in Operations /\ ChangeCredential(e, FALSE)

\* TerminalCredentialsService.change.
UnlockPin(e) == "Unlock" \in Operations /\ Configured(e) /\ ChangeCredential(e, FALSE)
RevokePin(e) == "Revoke" \in Operations /\ credentials[e] # None /\ ChangeCredential(e, TRUE)

\* EmployeesService.update: the version makes sure that an account that comes
\* back does not bring its permissions back.
SetActive(e) ==
    /\ "SetActive" \in Operations
    /\ active' = IF e \in active THEN active \ {e} ELSE active \cup {e}
    /\ IF credentials[e] = None THEN UNCHANGED credentials
       ELSE Renew(e, credentials[e].revoked)
    /\ Withdraw(GrantsOf(e))
    /\ UNCHANGED <<now, kiosks, attempts, challenges, grants, bookings, call>>

Unpair(t) == [d \in Devices |-> IF TerminalOf[d] = t /\ devices[d] = "Paired"
                                THEN "Revoked" ELSE devices[d]]

\* TerminalsService.update, of what authentication depends on.
Configure(t) ==
    /\ "Configure" \in Operations
    /\ terminals[t].version < MaxChanges
    /\ \E on, pin \in BOOLEAN :
         /\ terminals' = [terminals EXCEPT ![t] =
              [active |-> on, pin |-> pin, version |-> @.version + 1]]
         /\ devices' = IF on THEN devices ELSE Unpair(t)
    /\ Withdraw(GrantsOn(DevicesOf(t)))
    /\ UNCHANGED <<now, accounts, challenges, grants, bookings, call>>

\* TerminalsService.revokeDevice.
RevokeDevice(d) ==
    /\ "RevokeDevice" \in Operations
    /\ devices[d] = "Paired"
    /\ devices' = [devices EXCEPT ![d] = "Revoked"]
    /\ Withdraw(GrantsOn({d}))
    /\ UNCHANGED <<now, terminals, accounts, challenges, grants, bookings, call>>

\* TerminalsService.pair: a new device takes the place of the old one.
Pair(d) ==
    /\ "Pair" \in Operations
    /\ devices[d] = "Unpaired" /\ Kiosk(d).active
    /\ devices' = [Unpair(TerminalOf[d]) EXCEPT ![d] = "Paired"]
    /\ Withdraw(GrantsOn(DevicesOf(TerminalOf[d]) \ {d}))
    /\ UNCHANGED <<now, terminals, accounts, challenges, grants, bookings, call>>

-----------------------------------------------------------------------------

\* Terminals are in use, one device each; every employee has a PIN.
Init ==
    /\ now = 0
    /\ terminals = [t \in Terminals |-> [active |-> TRUE, pin |-> TRUE, version |-> 0]]
    /\ devices \in [Devices -> {"Unpaired", "Paired"}]
    /\ \A t \in Terminals : Cardinality({d \in DevicesOf(t) : devices[d] = "Paired"}) <= 1
    /\ active = Employees
    /\ credentials = [e \in Employees |-> [version |-> 1, revoked |-> FALSE]]
    /\ attempts = [e \in Employees |-> None]
    /\ challenges = <<>> /\ grants = <<>>
    /\ redemptions = {} /\ working = {}
    /\ call = [c \in Clients |-> Idle]
    /\ withdrawn = {}

Tick ==
    /\ now < Horizon
    /\ now' = now + 1
    /\ UNCHANGED <<kiosks, accounts, challenges, grants, bookings, call, withdrawn>>

Identification(c) == BeginIdentify(c) \/ Accept(c) \/ Refuse(c) \/ Abort(c)
AccountStep(e) == ResetPin(e) \/ UnlockPin(e) \/ RevokePin(e) \/ SetActive(e)
DeviceStep(d) == IssueChallenge(d) \/ RevokeDevice(d) \/ Pair(d)

Next ==
    \/ \E c \in Clients : Identification(c)
    \/ \E g \in DOMAIN grants, action \in Action : Book(g, action)
    \/ \E e \in Employees : AccountStep(e)
    \/ \E d \in Devices : DeviceStep(d)
    \/ \E t \in Terminals : Configure(t)
    \/ Tick

Spec == Init /\ [][Next]_vars

-----------------------------------------------------------------------------
(* Properties *)

\* Every variable has its type.
TypeOK ==
    /\ now \in Time
    /\ terminals \in [Terminals -> Terminal] /\ devices \in [Devices -> Device]
    /\ active \subseteq Employees /\ working \subseteq Employees
    /\ credentials \in [Employees -> Credential \cup {None}]
    /\ attempts \in [Employees -> Attempts \cup {None}]
    /\ challenges \in Seq(Challenge) /\ grants \in Seq(Grant)
    /\ \A g \in DOMAIN grants : grants[g].challenge \in DOMAIN challenges
    /\ redemptions \subseteq [challenge: Nat, emp: Employees, grant: Nat, action: Action]
    /\ DOMAIN call = Clients
    /\ \A c \in Clients :
            \/ call[c] = Idle
            \/ call[c] \in Call /\ call[c].challenge \in DOMAIN challenges
    /\ withdrawn \subseteq DOMAIN grants

\* What docs/TERMINAL_AUTH_OPERATIONS.de.md promises of permissions that are not
\* used yet: a new PIN, its revocation or unlocking, a lockout, the deactivation
\* of the account, the revocation of the device and a change of the terminal
\* withdraw them for good, even if everything is as before again.
WithdrawnNeverBooks == \A g \in withdrawn : ~grants[g].used

\* A repeated request is answered from the stored receipt of the permission: it
\* has one if and only if it booked, once, and the receipt says what was booked,
\* whatever other permissions there were for the challenge.
ReceiptsTruthful ==
    /\ \A g \in DOMAIN grants :
         LET made == {r \in redemptions : r.grant = g}
         IN IF grants[g].used THEN made = {[challenge |-> grants[g].challenge, emp |-> grants[g].emp,
                                            grant |-> g, action |-> grants[g].action]}
            ELSE made = {}
    /\ \A r, s \in redemptions : r.challenge = s.challenge /\ r.emp = s.emp => r = s

\* Failures count for the PIN that was tried and for no other: until a lockout
\* ends nobody is identified by that PIN, not even by a verification that began
\* before it, and nothing shortens or extends it except an administrator who
\* changes the credential; and the verification of an old PIN, or of one that was
\* locked, costs its replacement nothing.
FailuresFair ==
    [][\A e \in Employees :
         /\ Locked(e) => \/ credentials'[e] # credentials[e]
                         \/ /\ attempts'[e] = attempts[e]
                            /\ \A g \in DOMAIN grants' \ DOMAIN grants : grants'[g].emp # e
         /\ attempts'[e] # attempts[e] /\ attempts'[e] # None
            => \E c \in Clients : /\ call[c] # Idle /\ call'[c] = Idle
                                  /\ call[c].emp = e /\ call[c].seen = Version(e)]_vars
=============================================================================
