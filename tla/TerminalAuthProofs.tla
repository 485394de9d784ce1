------------------------- MODULE TerminalAuthProofs -------------------------
(***************************************************************************)
(* What TerminalAuth guarantees for every number of employees, terminals,  *)
(* devices and identifications in flight, and for all intervals that are   *)
(* related as the assumption says.                                         *)
(*                                                                         *)
(* A withdrawn permission is shown to be dead: something it depends on has *)
(* moved on and cannot move back.  A version only grows, a device that was *)
(* revoked is not paired again, and a lockout lasts until the permission   *)
(* has expired by itself, because a permission lives no longer than a      *)
(* lockout.                                                                *)
(***************************************************************************)
EXTENDS TerminalAuth, TLAPS

\* Failures are recorded in the order they happened.
AttemptsOrdered ==
    \A e \in Employees : attempts[e] # None =>
        attempts[e].start <= attempts[e].last /\ attempts[e].last <= now

\* A PIN that was set is never forgotten.
CredentialsKept == \A e \in Employees : credentials[e] # None

\* A challenge was issued to a device that was paired by then.
Issued(k) ==
    /\ devices[challenges[k].device] # "Unpaired"
    /\ challenges[k].config <= Kiosk(challenges[k].device).version

ChallengesIssued == \A k \in DOMAIN challenges : Issued(k)

\* A permission rests on versions that existed when it was given.
Given(g) ==
    /\ grants[g].version <= credentials[grants[g].emp].version
    /\ grants[g].config <= Kiosk(DeviceOf(g)).version
    /\ grants[g].expires <= now + GrantTtl

GrantsGiven == \A g \in DOMAIN grants : Given(g)

Sound == TypeOK /\ AttemptsOrdered /\ CredentialsKept /\ ChallengesIssued /\ GrantsGiven

\* The lockout of e lasts until permission g has expired.
OutlivedBy(g, e) ==
    /\ attempts[e] # None /\ attempts[e].counter >= MaxFailures
    /\ grants[g].expires <= attempts[e].last + Window

\* Something permission g depends on has gone for good.
Dead(g) ==
    \/ grants[g].version < credentials[grants[g].emp].version
    \/ grants[g].config < Kiosk(DeviceOf(g)).version
    \/ devices[DeviceOf(g)] = "Revoked"
    \/ OutlivedBy(g, grants[g].emp)
    \/ grants[g].expires <= now

WithdrawnDead == \A g \in withdrawn : Dead(g) /\ ~grants[g].used

\* A receipt belongs to a permission that was used.
ReceiptsFounded ==
    \A r \in redemptions : r.grant \in DOMAIN grants /\ grants[r.grant].used

\* The invariant that every step preserves.
IInv == Sound /\ WithdrawnDead /\ ReceiptsTruthful /\ ReceiptsFounded

\* What a step leaves of what permissions rest on.
Onward ==
    /\ now <= now'
    /\ \A t \in Terminals : terminals[t].version <= terminals'[t].version
    /\ \A d \in Devices : /\ devices[d] # "Unpaired" => devices'[d] # "Unpaired"
                          /\ devices[d] = "Revoked" => devices'[d] = "Revoked"
    /\ \A e \in Employees : credentials[e].version <= credentials'[e].version
    /\ \A k \in DOMAIN challenges : k \in DOMAIN challenges' /\ challenges'[k] = challenges[k]
    /\ \A g \in DOMAIN grants :
         /\ g \in DOMAIN grants'
         /\ grants'[g].emp = grants[g].emp /\ grants'[g].version = grants[g].version
         /\ grants'[g].challenge = grants[g].challenge /\ grants'[g].config = grants[g].config
         /\ grants'[g].expires = grants[g].expires

-----------------------------------------------------------------------------
(* The types of what is read from the tables *)

LEMMA ChallengeFields ==
    ASSUME TypeOK, NEW k \in DOMAIN challenges
    PROVE  /\ k \in Nat \ {0} /\ challenges[k] \in Challenge
           /\ challenges[k].device \in Devices /\ challenges[k].config \in Nat
           /\ challenges[k].expires \in Nat
           /\ TerminalOf[challenges[k].device] \in Terminals
<1>1. challenges \in Seq(Challenge)  BY DEF TypeOK
<1>2. k \in Nat \ {0} /\ challenges[k] \in Challenge  BY <1>1
<1> QED BY <1>2, TerminalAssumption DEF Challenge, Time

LEMMA GrantFields ==
    ASSUME TypeOK, NEW g \in DOMAIN grants
    PROVE  /\ g \in Nat \ {0} /\ grants[g] \in Grant
           /\ grants[g].emp \in Employees /\ grants[g].version \in Nat
           /\ grants[g].config \in Nat /\ grants[g].expires \in Nat
           /\ grants[g].used \in BOOLEAN
           /\ grants[g].challenge \in DOMAIN challenges
           /\ DeviceOf(g) \in Devices /\ TerminalOf[DeviceOf(g)] \in Terminals
<1>1. grants \in Seq(Grant)  BY DEF TypeOK
<1>2. g \in Nat \ {0} /\ grants[g] \in Grant  BY <1>1
<1>3. grants[g].challenge \in DOMAIN challenges  BY DEF TypeOK
<1>4. DeviceOf(g) \in Devices /\ TerminalOf[DeviceOf(g)] \in Terminals
  BY <1>3, ChallengeFields DEF DeviceOf
<1> QED BY <1>2, <1>3, <1>4 DEF Grant, Time

LEMMA CredentialFields ==
    ASSUME TypeOK, CredentialsKept, NEW e \in Employees
    PROVE  /\ credentials[e] \in Credential /\ credentials[e].version \in Nat \ {0}
           /\ credentials[e].revoked \in BOOLEAN
           /\ Version(e) = credentials[e].version
BY DEF TypeOK, CredentialsKept, Credential, Version

LEMMA TerminalFields ==
    ASSUME TypeOK, NEW t \in Terminals
    PROVE  terminals[t] \in Terminal /\ terminals[t].version \in Nat
BY DEF TypeOK, Terminal

LEMMA AttemptsFields ==
    ASSUME TypeOK, NEW e \in Employees, attempts[e] # None
    PROVE  /\ attempts[e].counter \in 1 .. MaxFailures
           /\ attempts[e].start \in Nat /\ attempts[e].last \in Nat
BY DEF TypeOK, Attempts, Time

LEMMA CallFields ==
    ASSUME TypeOK, NEW c \in Clients, call[c] # Idle
    PROVE  /\ call[c] \in Call /\ call[c].challenge \in DOMAIN challenges
           /\ call[c].device \in Devices /\ call[c].emp \in Employees
           /\ call[c].seen \in Nat /\ call[c].matches \in BOOLEAN
           /\ TerminalOf[call[c].device] \in Terminals
<1>1. call[c] \in Call /\ call[c].challenge \in DOMAIN challenges
  BY DEF TypeOK
<1> QED BY <1>1, TerminalAssumption DEF Call

\* A call that is put into its slot, or taken from it.
LEMMA CallType ==
    ASSUME TypeOK, NEW c \in Clients, NEW r,
           call' = [call EXCEPT ![c] = r],
           r = Idle \/ (r \in Call /\ r.challenge \in DOMAIN challenges'),
           \A k \in DOMAIN challenges : k \in DOMAIN challenges'
    PROVE  /\ DOMAIN call' = Clients
           /\ \A b \in Clients :
                \/ call'[b] = Idle
                \/ call'[b] \in Call /\ call'[b].challenge \in DOMAIN challenges'
BY DEF TypeOK

-----------------------------------------------------------------------------
(* Versions grow, and tables are added to *)

\* A credential is written anew with the next version.
LEMMA RenewStep ==
    ASSUME TypeOK, CredentialsKept, NEW e \in Employees, NEW revoked \in BOOLEAN, Renew(e, revoked)
    PROVE  /\ credentials' \in [Employees -> Credential]
           /\ credentials'[e].version = credentials[e].version + 1
           /\ \A a \in Employees : credentials[a].version <= credentials'[a].version
           /\ \A a \in Employees : a # e => credentials'[a] = credentials[a]
<1>1. \A a \in Employees : credentials[a] \in Credential /\ credentials[a].version \in Nat \ {0}
  BY CredentialFields
<1>2. credentials' = [credentials EXCEPT ![e] =
                        [version |-> credentials[e].version + 1, revoked |-> revoked]]
  BY CredentialFields DEF Renew
<1>3. [version |-> credentials[e].version + 1, revoked |-> revoked] \in Credential
  BY <1>1 DEF Credential
<1> QED BY <1>1, <1>2, <1>3 DEF TypeOK

\* Unpairing a terminal revokes devices that were paired.
LEMMA UnpairStep ==
    ASSUME TypeOK, NEW t \in Terminals
    PROVE  /\ Unpair(t) \in [Devices -> Device]
           /\ \A d \in Devices : /\ devices[d] # "Unpaired" => Unpair(t)[d] # "Unpaired"
                                 /\ devices[d] = "Revoked" => Unpair(t)[d] = "Revoked"
                                 /\ devices[d] = "Unpaired" => Unpair(t)[d] = "Unpaired"
                                 /\ TerminalOf[d] = t => Unpair(t)[d] # "Paired"
BY DEF TypeOK, Unpair, Device

\* A sequence with one more element.
LEMMA Appended ==
    ASSUME NEW S, NEW s \in Seq(S), NEW x \in S
    PROVE  /\ Append(s, x) \in Seq(S)
           /\ DOMAIN Append(s, x) = DOMAIN s \cup {Len(s) + 1}
           /\ Len(s) + 1 \notin DOMAIN s
           /\ Append(s, x)[Len(s) + 1] = x
           /\ \A i \in DOMAIN s : Append(s, x)[i] = s[i]
OBVIOUS

\* The challenge that a device is given.
LEMMA IssueStep ==
    ASSUME Sound, NEW d \in Devices, IssueChallenge(d)
    PROVE  \E k \in Challenge :
             /\ challenges' = Append(challenges, k)
             /\ devices[k.device] = "Paired" /\ k.config = Kiosk(k.device).version
<1>1. PICK expires \in now + 1 .. now + ChallengeTtl :
        challenges' = Append(challenges, [device |-> d, config |-> Kiosk(d).version,
                                          expires |-> expires])
  BY DEF IssueChallenge
<1> DEFINE new == [device |-> d, config |-> Kiosk(d).version, expires |-> expires]
<1>2. Kiosk(d).version \in Nat
  BY TerminalFields, TerminalAssumption DEF Sound, Kiosk
<1>3. new \in Challenge
  BY <1>2, TerminalAssumption DEF Challenge, Time, Sound, TypeOK
<1>4. devices[d] = "Paired"  BY DEF IssueChallenge, Present
<1> QED BY <1>1, <1>3, <1>4

\* The permission that an identified employee is given.
LEMMA AcceptStep ==
    ASSUME Sound, NEW c \in Clients, Accept(c)
    PROVE  \E g \in Grant :
             /\ grants' = Append(grants, g)
             /\ call[c] # Idle /\ ~Locked(g.emp)
             /\ g.emp = call[c].emp /\ g.version = credentials[g.emp].version
             /\ g.challenge \in DOMAIN challenges
             /\ g.config = Kiosk(challenges[g.challenge].device).version
             /\ g.expires <= now + GrantTtl /\ ~g.used
<1> USE DEF Sound
<1> DEFINE k == call[c]
           new == [emp |-> k.emp, version |-> credentials[k.emp].version,
                   challenge |-> k.challenge, config |-> Kiosk(k.device).version,
                   expires |-> Earliest(now + GrantTtl, challenges[k.challenge].expires),
                   used |-> FALSE, action |-> None]
<1>1. grants' = Append(grants, new) /\ Accepted(k) /\ k # Idle
      /\ challenges[k.challenge].device = k.device
  BY DEF Accept, InTransaction, Valid
<1>2. /\ k.emp \in Employees /\ k.challenge \in DOMAIN challenges
      /\ TerminalOf[k.device] \in Terminals
  BY <1>1, CallFields
<1>3. /\ k.challenge \in Nat /\ challenges[k.challenge].expires \in Nat
      /\ credentials[k.emp].version \in Nat /\ Kiosk(k.device).version \in Nat
  BY <1>2, ChallengeFields, CredentialFields, TerminalFields DEF Kiosk
<1>4. /\ Earliest(now + GrantTtl, challenges[k.challenge].expires) \in Nat
      /\ Earliest(now + GrantTtl, challenges[k.challenge].expires) <= now + GrantTtl
  BY <1>3, TerminalAssumption DEF Earliest, TypeOK, Time
<1>5. new \in Grant
  BY <1>2, <1>3, <1>4 DEF Grant, Time
<1>6. ~Locked(k.emp)  BY <1>1 DEF Accepted
<1> QED BY <1>1, <1>2, <1>4, <1>5, <1>6

\* The tables that permissions rest on are only added to, and versions only grow.
LEMMA OnwardStep ==
    ASSUME Sound, [Next]_vars
    PROVE  Onward
<1> USE DEF Sound
<1>0. /\ now \in Nat /\ now <= now
      /\ \A t \in Terminals : terminals[t].version <= terminals[t].version
      /\ \A e \in Employees : credentials[e].version <= credentials[e].version
  BY TerminalFields, CredentialFields DEF TypeOK, Time
<1>1. ASSUME NEW c \in Clients, BeginIdentify(c) PROVE Onward
  BY <1>0, <1>1 DEF BeginIdentify, kiosks, accounts, bookings, Onward
<1>2. ASSUME NEW c \in Clients, Accept(c) PROVE Onward
  <2>1. PICK new \in Grant : grants' = Append(grants, new)
    BY <1>2, AcceptStep
  <2>2. \A g \in DOMAIN grants : g \in DOMAIN grants' /\ grants'[g] = grants[g]
    BY <2>1, Appended DEF TypeOK
  <2> QED BY <1>0, <1>2, <2>2 DEF Accept, InTransaction, kiosks, accounts, bookings, Onward
<1>3. ASSUME NEW c \in Clients, Refuse(c) PROVE Onward
  BY <1>0, <1>3 DEF Refuse, InTransaction, kiosks, accounts, bookings, Onward
<1>4. ASSUME NEW c \in Clients, Abort(c) PROVE Onward
  BY <1>0, <1>4 DEF Abort, kiosks, accounts, bookings, Onward
<1>5. ASSUME NEW g \in DOMAIN grants, NEW action \in Action, Book(g, action) PROVE Onward
  BY <1>0, <1>5, GrantFields DEF Book, kiosks, accounts, bookings, Onward, Grant
<1>6. ASSUME NEW e \in Employees, NEW revoked \in BOOLEAN, ChangeCredential(e, revoked)
      PROVE  Onward
  BY <1>0, <1>6, RenewStep DEF ChangeCredential, kiosks, accounts, bookings, Onward
<1>7. ASSUME NEW e \in Employees, AccountStep(e) PROVE Onward
  <2>1. CASE SetActive(e)
    <3>1. CASE UNCHANGED credentials
      BY <1>0, <2>1, <3>1 DEF SetActive, kiosks, accounts, bookings, Onward
    <3>2. CASE Renew(e, credentials[e].revoked)
      BY <1>0, <2>1, <3>2, RenewStep, CredentialFields
         DEF SetActive, kiosks, accounts, bookings, Onward
    <3> QED BY <2>1, <3>1, <3>2 DEF SetActive
  <2> QED BY <1>6, <1>7, <2>1 DEF AccountStep, ResetPin, UnlockPin, RevokePin
<1>8. ASSUME NEW d \in Devices, IssueChallenge(d) PROVE Onward
  <2>1. PICK new \in Challenge : challenges' = Append(challenges, new)
    BY <1>8, IssueStep
  <2>2. \A k \in DOMAIN challenges : k \in DOMAIN challenges' /\ challenges'[k] = challenges[k]
    BY <2>1, Appended DEF TypeOK
  <2> QED BY <1>0, <1>8, <2>2 DEF IssueChallenge, kiosks, bookings, Onward
<1>9. ASSUME NEW d \in Devices, RevokeDevice(d) PROVE Onward
  BY <1>0, <1>9 DEF RevokeDevice, kiosks, accounts, bookings, Onward, TypeOK
<1>10. ASSUME NEW d \in Devices, Pair(d) PROVE Onward
  <2>1. TerminalOf[d] \in Terminals
    BY TerminalAssumption
  <2>2. /\ devices' = [Unpair(TerminalOf[d]) EXCEPT ![d] = "Paired"]
        /\ devices[d] = "Unpaired"
        /\ UNCHANGED <<now, terminals, accounts, challenges, grants>>
    BY <1>10 DEF Pair
  <2>3. \A a \in Devices : /\ devices[a] # "Unpaired" => devices'[a] # "Unpaired"
                           /\ devices[a] = "Revoked" => devices'[a] = "Revoked"
    BY <2>1, <2>2, UnpairStep
  <2> QED BY <1>0, <2>2, <2>3 DEF accounts, Onward
<1>11. ASSUME NEW t \in Terminals, Configure(t) PROVE Onward
  <2>1. PICK on, pin \in BOOLEAN :
          /\ terminals' = [terminals EXCEPT ![t] =
               [active |-> on, pin |-> pin, version |-> @.version + 1]]
          /\ devices' = IF on THEN devices ELSE Unpair(t)
    BY <1>11 DEF Configure
  <2>2. \A a \in Terminals : terminals[a].version <= terminals'[a].version
    BY <1>0, <2>1, TerminalFields DEF TypeOK
  <2>3. \A a \in Devices : /\ devices[a] # "Unpaired" => devices'[a] # "Unpaired"
                           /\ devices[a] = "Revoked" => devices'[a] = "Revoked"
    BY <2>1, UnpairStep
  <2> QED BY <1>0, <1>11, <2>2, <2>3 DEF Configure, accounts, bookings, Onward
<1>12. CASE Tick
  BY <1>0, <1>12 DEF Tick, kiosks, accounts, bookings, Onward
<1>13. CASE UNCHANGED vars
  BY <1>0, <1>13 DEF vars, kiosks, accounts, bookings, Onward
<1> QED BY <1>1, <1>2, <1>3, <1>4, <1>5, <1>7, <1>8, <1>9, <1>10, <1>11, <1>12, <1>13
        DEF Next, Identification, DeviceStep

-----------------------------------------------------------------------------
(* The tables stay well-formed *)

\* What a failure is recorded as.
LEMMA FailureFields ==
    ASSUME TypeOK, AttemptsOrdered, NEW e \in Employees, ~Locked(e)
    PROVE  /\ Failure(e) \in Attempts /\ Failure(e).start <= now
           /\ Failure(e).last = now
<1>0. now \in Nat /\ MaxFailures \in Nat \ {0} /\ Window \in Nat
  BY TerminalAssumption DEF TypeOK, Time
<1>1. CASE Fresh(e)
  BY <1>0, <1>1 DEF Failure, Attempts, Time
<1>2. CASE ~Fresh(e)
  <2>1. /\ attempts[e] # None /\ now < attempts[e].start + Window
        /\ attempts[e].counter \in 1 .. MaxFailures
        /\ attempts[e].start \in Nat /\ attempts[e].last \in Nat
        /\ attempts[e].start <= attempts[e].last /\ attempts[e].last <= now
    BY <1>0, <1>2, AttemptsFields DEF Fresh, AttemptsOrdered
  <2>2. attempts[e].counter < MaxFailures
    BY <1>0, <2>1 DEF Locked
  <2>3. attempts[e].counter + 1 \in 1 .. MaxFailures
    BY <1>0, <2>1, <2>2
  <2> QED BY <1>0, <1>2, <2>1, <2>3 DEF Failure, Attempts, Time
<1> QED BY <1>1, <1>2

\* Records of failures stay well-formed and in order.
LEMMA AttemptsStep ==
    ASSUME Sound, [Next]_vars
    PROVE  /\ attempts' \in [Employees -> Attempts \cup {None}]
           /\ AttemptsOrdered'
<1> USE DEF Sound
<1>0. /\ attempts \in [Employees -> Attempts \cup {None}]
      /\ now \in Nat /\ now' \in Nat /\ now <= now'
  <2>1. now \in Nat  BY DEF TypeOK, Time
  <2>2. now' = now \/ now' = now + 1
    BY DEF Next, Identification, BeginIdentify, Accept, Refuse, Abort, Book, AccountStep,
           ResetPin, UnlockPin, RevokePin, ChangeCredential, SetActive, DeviceStep,
           IssueChallenge, RevokeDevice, Pair, Configure, Tick, vars
  <2> QED BY <2>1, <2>2 DEF TypeOK
<1>1. CASE attempts' = attempts
  BY <1>0, <1>1, AttemptsFields DEF AttemptsOrdered
<1>2. ASSUME NEW e \in Employees, attempts' = [attempts EXCEPT ![e] = None]
      PROVE  attempts' \in [Employees -> Attempts \cup {None}] /\ AttemptsOrdered'
  BY <1>0, <1>2, AttemptsFields DEF AttemptsOrdered
<1>3. ASSUME NEW c \in Clients, Refuse(c), Counts(call[c])
      PROVE  attempts' \in [Employees -> Attempts \cup {None}] /\ AttemptsOrdered'
  <2> DEFINE e == call[c].emp
  <2>1. e \in Employees /\ attempts' = [attempts EXCEPT ![e] = Failure(e)] /\ ~Locked(e)
        /\ now' = now
    BY <1>3, CallFields DEF Refuse, InTransaction, Counts
  <2>2. /\ Failure(e) \in Attempts /\ Failure(e).start <= now /\ Failure(e).last = now
    BY <2>1, FailureFields
  <2> QED BY <1>0, <2>1, <2>2, AttemptsFields DEF AttemptsOrdered
<1>4. ASSUME NEW d \in Devices, IssueChallenge(d)
      PROVE  attempts' \in [Employees -> Attempts \cup {None}] /\ AttemptsOrdered'
  BY <1>0, <1>4, AttemptsFields DEF IssueChallenge, AttemptsOrdered
<1>5. ASSUME NEW c \in Clients, Accept(c)
      PROVE  attempts' \in [Employees -> Attempts \cup {None}] /\ AttemptsOrdered'
  <2>1. call[c].emp \in Employees /\ attempts' = [attempts EXCEPT ![call[c].emp] = None]
    BY <1>5, CallFields DEF Accept, InTransaction
  <2> QED BY <1>2, <2>1
<1>6. ASSUME NEW e \in Employees, AccountStep(e)
      PROVE  attempts' \in [Employees -> Attempts \cup {None}] /\ AttemptsOrdered'
  BY <1>1, <1>2, <1>6 DEF AccountStep, ResetPin, UnlockPin, RevokePin, ChangeCredential, SetActive
<1> QED BY <1>1, <1>3, <1>4, <1>5, <1>6
        DEF Next, Identification, BeginIdentify, Refuse, Abort, Book, DeviceStep,
            RevokeDevice, Pair, Configure, Tick, vars, accounts

\* A challenge stays issued, and a permission given.
LEMMA IssuedStep ==
    ASSUME Sound, Onward, TypeOK', NEW k \in DOMAIN challenges
    PROVE  Issued(k)'
<1>1. /\ challenges'[k] = challenges[k] /\ challenges[k].device \in Devices
      /\ TerminalOf[challenges[k].device] \in Terminals /\ challenges[k].config \in Nat
  BY ChallengeFields DEF Sound, Onward
<1>2. /\ terminals[TerminalOf[challenges[k].device]].version \in Nat
      /\ terminals[TerminalOf[challenges[k].device]].version
           <= terminals'[TerminalOf[challenges[k].device]].version
      /\ terminals'[TerminalOf[challenges[k].device]].version \in Nat
  BY <1>1, TerminalFields DEF Sound, Onward, TypeOK, Terminal
<1> QED BY <1>1, <1>2 DEF Sound, ChallengesIssued, Issued, Kiosk, Onward

LEMMA GivenStep ==
    ASSUME Sound, Onward, TypeOK', CredentialsKept', NEW g \in DOMAIN grants
    PROVE  Given(g)'
<1>0. now \in Nat /\ now' \in Nat /\ now <= now' /\ GrantTtl \in Nat
  BY TerminalAssumption DEF Sound, Onward, TypeOK, Time
<1>1. /\ grants[g].emp \in Employees /\ grants[g].version \in Nat
      /\ grants[g].config \in Nat /\ grants[g].expires \in Nat
      /\ TerminalOf[DeviceOf(g)] \in Terminals
  BY GrantFields DEF Sound
<1>2. /\ grants'[g].emp = grants[g].emp /\ grants'[g].version = grants[g].version
      /\ grants'[g].config = grants[g].config /\ grants'[g].expires = grants[g].expires
      /\ DeviceOf(g)' = DeviceOf(g)
  BY GrantFields DEF Sound, Onward, DeviceOf
<1>3. grants[g].version <= credentials'[grants[g].emp].version
  <2>1. /\ credentials[grants[g].emp].version \in Nat
        /\ credentials'[grants[g].emp].version >= credentials[grants[g].emp].version
        /\ credentials'[grants[g].emp].version \in Nat
    BY <1>1, CredentialFields DEF Sound, Onward, TypeOK, Credential, CredentialsKept
  <2> QED BY <1>1, <2>1 DEF Sound, GrantsGiven, Given
<1>4. grants[g].config <= Kiosk(DeviceOf(g))'.version
  <2>1. /\ terminals[TerminalOf[DeviceOf(g)]].version \in Nat
        /\ terminals'[TerminalOf[DeviceOf(g)]].version \in Nat
        /\ terminals[TerminalOf[DeviceOf(g)]].version
             <= terminals'[TerminalOf[DeviceOf(g)]].version
    BY <1>1, TerminalFields DEF Sound, Onward, TypeOK, Terminal
  <2> QED BY <1>1, <1>2, <2>1 DEF Sound, GrantsGiven, Given, Kiosk
<1>5. grants[g].expires <= now' + GrantTtl
  BY <1>0, <1>1 DEF Sound, GrantsGiven, Given
<1> QED BY <1>1, <1>2, <1>3, <1>4, <1>5 DEF Given

\* Withdrawing permissions marks permissions.
LEMMA Withdrawal ==
    ASSUME TypeOK, NEW S \in SUBSET DOMAIN grants, Withdraw(S)
    PROVE  withdrawn' \subseteq DOMAIN grants
BY DEF TypeOK, Withdraw, Unused

LEMMA GrantSets ==
    /\ \A e : GrantsOf(e) \in SUBSET DOMAIN grants
    /\ \A D : GrantsOn(D) \in SUBSET DOMAIN grants
BY DEF GrantsOf, GrantsOn

\* Every variable keeps its type.
LEMMA TypesStep ==
    ASSUME Sound, [Next]_vars
    PROVE  TypeOK' /\ CredentialsKept'
<1> USE DEF Sound
<1>0. Onward /\ attempts' \in [Employees -> Attempts \cup {None}]
  BY OnwardStep, AttemptsStep
<1>1. now \in Nat /\ Horizon \in Nat /\ now' \in Nat
      /\ \A k \in DOMAIN challenges : k \in DOMAIN challenges'
  <2>1. now' = now \/ now' = now + 1
    BY DEF Next, Identification, BeginIdentify, Accept, Refuse, Abort, Book, AccountStep,
           ResetPin, UnlockPin, RevokePin, ChangeCredential, SetActive, DeviceStep,
           IssueChallenge, RevokeDevice, Pair, Configure, Tick, vars
  <2> QED BY <1>0, <2>1, TerminalAssumption DEF TypeOK, Time, Onward
<1>2. ASSUME NEW c \in Clients, BeginIdentify(c) PROVE TypeOK' /\ CredentialsKept'
  <2>1. PICK d \in Devices, k \in DOMAIN challenges, e \in Employees, matches \in BOOLEAN :
          call' = [call EXCEPT ![c] =
              [device |-> d, challenge |-> k, emp |-> e, matches |-> matches,
               seen |-> IF Eligible(e) THEN credentials[e].version ELSE 0]]
    BY <1>2 DEF BeginIdentify
  <2> DEFINE r == [device |-> d, challenge |-> k, emp |-> e, matches |-> matches,
                   seen |-> IF Eligible(e) THEN credentials[e].version ELSE 0]
  <2>2. r \in Call /\ r.challenge \in DOMAIN challenges'
    BY <1>1, ChallengeFields, CredentialFields DEF Call
  <2> HIDE DEF r
  <2>3. /\ DOMAIN call' = Clients
        /\ \A b \in Clients : \/ call'[b] = Idle
                              \/ call'[b] \in Call /\ call'[b].challenge \in DOMAIN challenges'
    BY <1>1, <2>1, <2>2, CallType DEF r
  <2> QED BY <1>0, <1>1, <1>2, <2>3
          DEF BeginIdentify, kiosks, accounts, bookings, TypeOK, CredentialsKept, Time
<1>3. ASSUME NEW c \in Clients, call' = [call EXCEPT ![c] = Idle]
      PROVE  /\ DOMAIN call' = Clients
             /\ \A b \in Clients : \/ call'[b] = Idle
                                   \/ call'[b] \in Call /\ call'[b].challenge \in DOMAIN challenges'
  BY <1>1, <1>3, CallType
<1>4. ASSUME NEW c \in Clients, Accept(c) PROVE TypeOK' /\ CredentialsKept'
  <2>1. PICK new \in Grant : grants' = Append(grants, new) /\ new.challenge \in DOMAIN challenges
    BY <1>4, AcceptStep
  <2>2. /\ grants' \in Seq(Grant) /\ DOMAIN grants' = DOMAIN grants \cup {Len(grants) + 1}
        /\ \A g \in DOMAIN grants' : grants'[g].challenge \in DOMAIN challenges
    BY <2>1, Appended DEF TypeOK
  <2>3. /\ DOMAIN call' = Clients
        /\ \A b \in Clients : \/ call'[b] = Idle
                              \/ call'[b] \in Call /\ call'[b].challenge \in DOMAIN challenges'
    BY <1>3, <1>4 DEF Accept, InTransaction
  <2> QED BY <1>0, <1>1, <1>4, <2>2, <2>3
          DEF Accept, kiosks, bookings, TypeOK, CredentialsKept, Time
<1>5. ASSUME NEW c \in Clients, Refuse(c) PROVE TypeOK' /\ CredentialsKept'
  <2>1. /\ DOMAIN call' = Clients
        /\ \A b \in Clients : \/ call'[b] = Idle
                              \/ call'[b] \in Call /\ call'[b].challenge \in DOMAIN challenges'
    BY <1>3, <1>5 DEF Refuse, InTransaction
  <2>2. withdrawn' \subseteq DOMAIN grants
    BY <1>5, Withdrawal, GrantSets DEF Refuse
  <2> QED BY <1>0, <1>1, <1>5, <2>1, <2>2
          DEF Refuse, kiosks, bookings, TypeOK, CredentialsKept, Time
<1>6. ASSUME NEW c \in Clients, Abort(c) PROVE TypeOK' /\ CredentialsKept'
  <2>1. /\ DOMAIN call' = Clients
        /\ \A b \in Clients : \/ call'[b] = Idle
                              \/ call'[b] \in Call /\ call'[b].challenge \in DOMAIN challenges'
    BY <1>3, <1>6 DEF Abort
  <2> QED BY <1>0, <1>1, <1>6, <2>1
          DEF Abort, kiosks, accounts, bookings, TypeOK, CredentialsKept, Time
<1>7. ASSUME NEW g \in DOMAIN grants, NEW action \in Action, Book(g, action)
      PROVE  TypeOK' /\ CredentialsKept'
  <2>1. /\ grants[g] \in Grant /\ grants \in Seq(Grant) /\ g \in Nat
        /\ grants[g].challenge \in Nat /\ grants[g].emp \in Employees
    BY GrantFields, ChallengeFields DEF TypeOK
  <2> DEFINE new == [grants[g] EXCEPT !.used = TRUE, !.action = action]
  <2>4. grants' = [grants EXCEPT ![g] = new]
    BY <1>7, <2>1 DEF Book
  <2>5. new \in Grant /\ new.challenge = grants[g].challenge
    BY <2>1 DEF Grant
  <2> HIDE DEF new
  <2>2. /\ grants' \in Seq(Grant) /\ DOMAIN grants' = DOMAIN grants
        /\ \A h \in DOMAIN grants : grants'[h].challenge = grants[h].challenge
    BY <2>1, <2>4, <2>5
  <2>3. /\ working' \subseteq Employees
        /\ redemptions' \subseteq [challenge: Nat, emp: Employees, grant: Nat, action: Action]
    BY <1>7, <2>1 DEF Book, Toggle, Redeem, ActionFor, Action, TypeOK
  <2> QED BY <1>0, <1>1, <1>7, <2>2, <2>3
          DEF Book, kiosks, accounts, TypeOK, CredentialsKept, Time
<1>8. ASSUME NEW e \in Employees, NEW revoked \in BOOLEAN, Renew(e, revoked)
      PROVE  /\ credentials' \in [Employees -> Credential \cup {None}]
             /\ CredentialsKept'
  BY <1>8, RenewStep, NullAssumption DEF CredentialsKept
<1>9. ASSUME NEW e \in Employees, NEW revoked \in BOOLEAN, ChangeCredential(e, revoked)
      PROVE  TypeOK' /\ CredentialsKept'
  <2>1. withdrawn' \subseteq DOMAIN grants
    BY <1>9, Withdrawal, GrantSets DEF ChangeCredential
  <2> QED BY <1>0, <1>1, <1>8, <1>9, <2>1
          DEF ChangeCredential, kiosks, bookings, TypeOK, Time
<1>10. ASSUME NEW e \in Employees, AccountStep(e) PROVE TypeOK' /\ CredentialsKept'
  <2>1. CASE SetActive(e)
    <3>1. /\ credentials' \in [Employees -> Credential \cup {None}]
          /\ CredentialsKept'
      BY <1>8, <2>1, CredentialFields DEF SetActive, TypeOK, CredentialsKept
    <3>2. withdrawn' \subseteq DOMAIN grants
      BY <2>1, Withdrawal, GrantSets DEF SetActive
    <3> QED BY <1>0, <1>1, <2>1, <3>1, <3>2 DEF SetActive, kiosks, bookings, TypeOK, Time
  <2> QED BY <1>9, <1>10, <2>1 DEF AccountStep, ResetPin, UnlockPin, RevokePin
<1>11. ASSUME NEW d \in Devices, IssueChallenge(d) PROVE TypeOK' /\ CredentialsKept'
  <2>1. PICK new \in Challenge : challenges' = Append(challenges, new)
    BY <1>11, IssueStep
  <2>2. challenges' \in Seq(Challenge)
    BY <2>1, Appended DEF TypeOK
  <2> QED BY <1>0, <1>1, <1>11, <2>2
          DEF IssueChallenge, kiosks, bookings, TypeOK, CredentialsKept, Time
<1>12. ASSUME NEW d \in Devices, RevokeDevice(d) PROVE TypeOK' /\ CredentialsKept'
  <2>1. withdrawn' \subseteq DOMAIN grants
    BY <1>12, Withdrawal, GrantSets DEF RevokeDevice
  <2> QED BY <1>0, <1>1, <1>12, <2>1
          DEF RevokeDevice, accounts, bookings, TypeOK, Device, CredentialsKept, Time
<1>13. ASSUME NEW d \in Devices, Pair(d) PROVE TypeOK' /\ CredentialsKept'
  <2>1. withdrawn' \subseteq DOMAIN grants
    BY <1>13, Withdrawal, GrantSets DEF Pair
  <2>2. devices' \in [Devices -> Device]
    BY <1>13, UnpairStep, TerminalAssumption DEF Pair, Device
  <2> QED BY <1>0, <1>1, <1>13, <2>1, <2>2
          DEF Pair, accounts, bookings, TypeOK, CredentialsKept, Time
<1>14. ASSUME NEW t \in Terminals, Configure(t) PROVE TypeOK' /\ CredentialsKept'
  <2>1. withdrawn' \subseteq DOMAIN grants
    BY <1>14, Withdrawal, GrantSets DEF Configure
  <2>2. devices' \in [Devices -> Device] /\ terminals' \in [Terminals -> Terminal]
    BY <1>14, UnpairStep, TerminalFields DEF Configure, Terminal, TypeOK
  <2> QED BY <1>0, <1>1, <1>14, <2>1, <2>2
          DEF Configure, accounts, bookings, TypeOK, CredentialsKept, Time
<1>15. CASE Tick
  BY <1>0, <1>1, <1>15 DEF Tick, kiosks, accounts, bookings, TypeOK, CredentialsKept, Time
<1>16. CASE UNCHANGED vars
  BY <1>0, <1>1, <1>16 DEF vars, kiosks, accounts, bookings, TypeOK, CredentialsKept
<1> QED BY <1>2, <1>4, <1>5, <1>6, <1>7, <1>10, <1>11, <1>12, <1>13, <1>14, <1>15, <1>16
        DEF Next, Identification, DeviceStep

\* The tables that permissions rest on stay sound.
LEMMA SoundStep ==
    ASSUME Sound, [Next]_vars
    PROVE  Sound'
<1>1. Onward /\ TypeOK' /\ CredentialsKept' /\ AttemptsOrdered'
  BY OnwardStep, TypesStep, AttemptsStep
<1>2. ChallengesIssued'
  <2>1. ASSUME NEW d \in Devices, IssueChallenge(d) PROVE ChallengesIssued'
    <3>1. PICK new \in Challenge :
            /\ challenges' = Append(challenges, new)
            /\ devices[new.device] = "Paired" /\ new.config = Kiosk(new.device).version
      BY <2>1, IssueStep
    <3> PICK n \in Nat : n = Len(challenges) + 1
      BY DEF Sound, TypeOK
    <3>2. Issued(n)'
      <4>1. challenges'[n] = new
        BY <3>1, Appended DEF Sound, TypeOK
      <4>2. new.device \in Devices /\ TerminalOf[new.device] \in Terminals
        BY <3>1, TerminalAssumption DEF Challenge
      <4>3. terminals' = terminals /\ devices' = devices
            /\ terminals[TerminalOf[new.device]].version \in Nat
        BY <2>1, <4>2, TerminalFields DEF IssueChallenge, kiosks, Sound
      <4> QED BY <3>1, <4>1, <4>2, <4>3 DEF Issued, Kiosk
    <3>3. DOMAIN challenges' = DOMAIN challenges \cup {n}
      BY <3>1, Appended DEF Sound, TypeOK
    <3> QED BY <1>1, <3>2, <3>3, IssuedStep DEF ChallengesIssued
  <2>2. CASE challenges' = challenges
    BY <1>1, <2>2, IssuedStep DEF ChallengesIssued
  <2> QED BY <2>1, <2>2
      DEF Next, Identification, BeginIdentify, Accept, Refuse, Abort, Book, AccountStep,
          ResetPin, UnlockPin, RevokePin, ChangeCredential, SetActive, DeviceStep,
          RevokeDevice, Pair, Configure, Tick, vars
<1>3. GrantsGiven'
  <2>1. ASSUME NEW c \in Clients, Accept(c) PROVE GrantsGiven'
    <3>1. PICK new \in Grant :
             /\ grants' = Append(grants, new)
             /\ call[c] # Idle
             /\ new.emp = call[c].emp /\ new.version = credentials[new.emp].version
             /\ new.challenge \in DOMAIN challenges
             /\ new.config = Kiosk(challenges[new.challenge].device).version
             /\ new.expires <= now + GrantTtl
      BY <2>1, AcceptStep
    <3> PICK n \in Nat : n = Len(grants) + 1
      BY DEF Sound, TypeOK
    <3>2. Given(n)'
      <4>1. grants'[n] = new
        BY <3>1, Appended DEF Sound, TypeOK
      <4>2. /\ TerminalOf[challenges[new.challenge].device] \in Terminals
            /\ new.emp \in Employees
        BY <3>1, ChallengeFields DEF Sound, Grant
      <4>3. /\ terminals' = terminals /\ credentials' = credentials /\ now' = now
            /\ challenges' = challenges
        BY <2>1 DEF Accept, kiosks, accounts
      <4>4. /\ credentials[new.emp].version \in Nat
            /\ terminals[TerminalOf[challenges[new.challenge].device]].version \in Nat
        BY <4>2, TerminalFields, CredentialFields DEF Sound
      <4> QED BY <3>1, <4>1, <4>2, <4>3, <4>4 DEF Given, DeviceOf, Kiosk
    <3>3. DOMAIN grants' = DOMAIN grants \cup {n}
      BY <3>1, Appended DEF Sound, TypeOK
    <3> QED BY <1>1, <3>2, <3>3, GivenStep DEF GrantsGiven
  <2>2. CASE DOMAIN grants' = DOMAIN grants
    BY <1>1, <2>2, GivenStep DEF GrantsGiven
  <2>3. ASSUME NEW g \in DOMAIN grants, NEW action \in Action, Book(g, action)
        PROVE  DOMAIN grants' = DOMAIN grants
    BY <2>3 DEF Book
  <2> QED BY <2>1, <2>2, <2>3
      DEF Next, Identification, BeginIdentify, Refuse, Abort, AccountStep,
          ResetPin, UnlockPin, RevokePin, ChangeCredential, SetActive, DeviceStep,
          IssueChallenge, RevokeDevice, Pair, Configure, Tick, vars
<1> QED BY <1>1, <1>2, <1>3 DEF Sound

-----------------------------------------------------------------------------
(* Failures count for the PIN that was tried *)

\* A credential changes with its version.
LEMMA CredentialGrows ==
    ASSUME Sound, [Next]_vars, NEW e \in Employees
    PROVE  credentials'[e] = credentials[e] \/ credentials[e].version < credentials'[e].version
<1> USE DEF Sound
<1>1. credentials[e].version \in Nat
  BY CredentialFields
<1>2. ASSUME NEW a \in Employees, NEW revoked \in BOOLEAN, Renew(a, revoked)
      PROVE  credentials'[e] = credentials[e] \/ credentials[e].version < credentials'[e].version
  BY <1>1, <1>2, RenewStep
<1>3. ASSUME NEW a \in Employees, AccountStep(a)
      PROVE  credentials'[e] = credentials[e] \/ credentials[e].version < credentials'[e].version
  BY <1>2, <1>3, CredentialFields
     DEF AccountStep, ResetPin, UnlockPin, RevokePin, ChangeCredential, SetActive
<1> QED BY <1>3
    DEF Next, Identification, BeginIdentify, Accept, Refuse, Abort, Book, DeviceStep,
        IssueChallenge, RevokeDevice, Pair, Configure, Tick, vars, accounts

\* Until a lockout ends only a change of the credential ends it, and the PIN
\* identifies nobody.
LEMMA LockoutKept ==
    ASSUME Sound, [Next]_vars, NEW e \in Employees, Locked(e)
    PROVE  \/ credentials'[e] # credentials[e]
           \/ /\ attempts'[e] = attempts[e]
              /\ \A g \in DOMAIN grants' \ DOMAIN grants : grants'[g].emp # e
<1> USE DEF Sound
<1> DEFINE Kept == /\ attempts'[e] = attempts[e]
                   /\ \A g \in DOMAIN grants' \ DOMAIN grants : grants'[g].emp # e
<1>0. attempts \in [Employees -> Attempts \cup {None}]
  BY DEF TypeOK
<1>1. ASSUME NEW c \in Clients, Accept(c) PROVE Kept
  <2>1. PICK new \in Grant : /\ grants' = Append(grants, new)
                             /\ call[c] # Idle /\ ~Locked(new.emp) /\ new.emp = call[c].emp
    BY <1>1, AcceptStep
  <2>2. new.emp # e
    BY <2>1
  <2>3. attempts'[e] = attempts[e]
    BY <1>0, <1>1, <2>1, <2>2 DEF Accept
  <2> QED BY <2>1, <2>2, <2>3, Appended DEF TypeOK
<1>2. ASSUME NEW c \in Clients, Refuse(c) PROVE Kept
  <2>1. call[c].emp \in Employees
    BY <1>2, CallFields DEF Refuse, InTransaction
  <2>2. Counts(call[c]) => call[c].emp # e
    BY DEF Counts
  <2> QED BY <1>0, <1>2, <2>1, <2>2 DEF Refuse
<1>3. ASSUME NEW d \in Devices, IssueChallenge(d) PROVE Kept
  <2>1. /\ now \in Nat /\ Window \in Nat /\ attempts[e].last \in Nat
        /\ now < attempts[e].last + Window
    BY AttemptsFields, TerminalAssumption DEF Locked, TypeOK, Time
  <2>2. ~Stale(e)
    BY <2>1 DEF Stale
  <2> QED BY <1>3, <2>2 DEF IssueChallenge
<1>4. ASSUME NEW a \in Employees, AccountStep(a) PROVE Kept \/ credentials'[e] # credentials[e]
  <2>1. CASE SetActive(a)
    BY <2>1 DEF SetActive
  <2>2. ASSUME NEW revoked \in BOOLEAN, ChangeCredential(a, revoked)
        PROVE  Kept \/ credentials'[e] # credentials[e]
    <3>1. CASE a = e
      <4>1. credentials[e].version \in Nat
            /\ credentials'[e].version = credentials[e].version + 1
        BY <2>2, <3>1, RenewStep, CredentialFields DEF ChangeCredential
      <4> QED BY <4>1
    <3>2. CASE a # e
      BY <1>0, <2>2, <3>2 DEF ChangeCredential
    <3> QED BY <3>1, <3>2
  <2> QED BY <1>4, <2>1, <2>2 DEF AccountStep, ResetPin, UnlockPin, RevokePin
<1>5. ASSUME NEW g \in DOMAIN grants, NEW action \in Action, Book(g, action) PROVE Kept
  BY <1>5 DEF Book, accounts
<1> QED BY <1>1, <1>2, <1>3, <1>4, <1>5
    DEF Next, Identification, BeginIdentify, Abort, DeviceStep, RevokeDevice, Pair,
        Configure, Tick, vars, accounts

\* A failure is recorded by the identification that tried the current PIN.
LEMMA FailureFounded ==
    ASSUME Sound, [Next]_vars, NEW e \in Employees,
           attempts'[e] # attempts[e], attempts'[e] # None
    PROVE  \E c \in Clients : /\ call[c] # Idle /\ call'[c] = Idle
                              /\ call[c].emp = e /\ call[c].seen = Version(e)
<1> USE DEF Sound
<1>0. attempts \in [Employees -> Attempts \cup {None}] /\ DOMAIN call = Clients
  BY DEF TypeOK
<1>1. PICK c \in Clients : Refuse(c) /\ Counts(call[c])
  <2>1. ASSUME NEW c \in Clients, Accept(c) PROVE FALSE
    BY <1>0, <2>1 DEF Accept
  <2>2. ASSUME NEW d \in Devices, IssueChallenge(d) PROVE FALSE
    BY <2>2 DEF IssueChallenge
  <2>3. ASSUME NEW a \in Employees, AccountStep(a) PROVE FALSE
    BY <1>0, <2>3 DEF AccountStep, ResetPin, UnlockPin, RevokePin, ChangeCredential, SetActive
  <2> QED BY <2>1, <2>2, <2>3
      DEF Next, Identification, BeginIdentify, Refuse, Abort, Book, DeviceStep, RevokeDevice,
          Pair, Configure, Tick, vars, accounts
<1>2. call[c] # Idle /\ call'[c] = Idle
  BY <1>0, <1>1, CallFields DEF Refuse, InTransaction
<1>3. call[c].emp = e
  BY <1>0, <1>1 DEF Refuse
<1>4. call[c].seen = Version(e)
  BY <1>1, <1>3 DEF Counts, SameCredential, Configured, Version
<1> QED BY <1>2, <1>3, <1>4

-----------------------------------------------------------------------------
(* What was withdrawn is dead *)

\* A dead permission stays dead.
LEMMA DeadStep ==
    ASSUME Sound, [Next]_vars, NEW g \in DOMAIN grants, Dead(g)
    PROVE  Dead(g)'
<1> USE DEF Sound
<1>1. Onward /\ TypeOK' /\ CredentialsKept'
  BY OnwardStep, SoundStep
<1> DEFINE e == grants[g].emp
           t == TerminalOf[DeviceOf(g)]
<1>2. /\ e \in Employees /\ DeviceOf(g) \in Devices /\ t \in Terminals
      /\ grants[g].version \in Nat /\ grants[g].config \in Nat /\ grants[g].expires \in Nat
  BY GrantFields
<1>3. /\ grants'[g].emp = grants[g].emp /\ grants'[g].version = grants[g].version
      /\ grants'[g].config = grants[g].config /\ grants'[g].expires = grants[g].expires
      /\ DeviceOf(g)' = DeviceOf(g)
  BY <1>1, GrantFields DEF Onward, DeviceOf
<1>4. /\ credentials[e].version \in Nat /\ credentials'[e].version \in Nat
      /\ credentials[e].version <= credentials'[e].version
  BY <1>1, <1>2, CredentialFields DEF Onward, TypeOK, CredentialsKept, Credential
<1>5. /\ terminals[t].version \in Nat /\ terminals'[t].version \in Nat
      /\ terminals[t].version <= terminals'[t].version
  BY <1>1, <1>2, TerminalFields DEF Onward, TypeOK, Terminal
<1>6. now \in Nat /\ now' \in Nat /\ now <= now' /\ Window \in Nat
  BY <1>1, TerminalAssumption DEF Onward, TypeOK, Time
<1>7. CASE grants[g].version < credentials[e].version
  BY <1>2, <1>3, <1>4, <1>7 DEF Dead
<1>8. CASE grants[g].config < Kiosk(DeviceOf(g)).version
  <2>1. grants'[g].config < terminals'[TerminalOf[DeviceOf(g)']].version
    BY <1>2, <1>3, <1>5, <1>8 DEF Kiosk
  <2> QED BY <2>1 DEF Dead, Kiosk
<1>9. CASE devices[DeviceOf(g)] = "Revoked"
  BY <1>1, <1>2, <1>3, <1>9 DEF Dead, Onward
<1>10. CASE grants[g].expires <= now
  BY <1>2, <1>3, <1>6, <1>10 DEF Dead
<1>11. CASE OutlivedBy(g, e)
  <2>1. /\ attempts[e].last \in Nat
        /\ grants[g].expires <= attempts[e].last + Window
    BY <1>2, <1>11, AttemptsFields DEF OutlivedBy
  <2>2. CASE ~Locked(e)
    BY <1>2, <1>6, <1>10, <1>11, <2>1, <2>2 DEF Locked, OutlivedBy
  <2>3. CASE attempts'[e] = attempts[e]
    BY <1>3, <1>11, <2>3 DEF Dead, OutlivedBy
  <2>4. CASE credentials'[e] # credentials[e]
    <3>1. credentials[e].version < credentials'[e].version
      BY <1>2, <2>4, CredentialGrows
    <3>2. grants[g].version <= credentials[e].version
      BY DEF GrantsGiven, Given
    <3> QED BY <1>2, <1>3, <1>4, <3>1, <3>2 DEF Dead
  <2> QED BY <1>2, <2>2, <2>3, <2>4, LockoutKept
<1> QED BY <1>7, <1>8, <1>9, <1>10, <1>11 DEF Dead

\* A dead permission does not book.
LEMMA DeadNeverBooks ==
    ASSUME Sound, NEW g \in DOMAIN grants, Dead(g), NEW action \in Action, Book(g, action)
    PROVE  FALSE
<1> USE DEF Sound
<1> DEFINE e == grants[g].emp
<1>1. /\ e \in Employees /\ DeviceOf(g) \in Devices /\ TerminalOf[DeviceOf(g)] \in Terminals
      /\ grants[g].expires \in Nat
  BY GrantFields
<1>2. /\ ~Locked(e) /\ credentials[e].version = grants[g].version
      /\ grants[g].config = Kiosk(DeviceOf(g)).version /\ now < grants[g].expires
      /\ devices[DeviceOf(g)] = "Paired"
  BY DEF Book, Current, Present
<1>3. credentials[e].version \in Nat /\ Kiosk(DeviceOf(g)).version \in Nat
      /\ now \in Nat /\ Window \in Nat
  BY <1>1, CredentialFields, TerminalFields, TerminalAssumption DEF Kiosk, TypeOK, Time
<1>4. ~OutlivedBy(g, e)
  BY <1>1, <1>2, <1>3, AttemptsFields DEF OutlivedBy, Locked
<1> QED BY <1>1, <1>2, <1>3, <1>4 DEF Dead

\* Every change that withdraws a permission kills it.
LEMMA WithdrawnStep ==
    ASSUME Sound, WithdrawnDead, [Next]_vars
    PROVE  WithdrawnDead'
<1> USE DEF Sound
<1>0. TypeOK' /\ Onward /\ now \in Nat /\ Window \in Nat /\ GrantTtl \in Nat /\ GrantTtl <= Window
  BY SoundStep, OnwardStep, TerminalAssumption DEF TypeOK, Time
<1>1. \A g \in withdrawn : g \in DOMAIN grants
  BY DEF TypeOK
<1>2. CASE withdrawn' = withdrawn
  <2>1. ASSUME NEW g \in withdrawn PROVE Dead(g)'
    BY <1>1, DeadStep DEF WithdrawnDead
  <2>2. ASSUME NEW g \in withdrawn PROVE ~grants'[g].used
    <3>1. CASE grants' = grants
      BY <3>1 DEF WithdrawnDead
    <3>2. ASSUME NEW h \in DOMAIN grants, NEW action \in Action, Book(h, action)
          PROVE  ~grants'[g].used
      <4>1. h # g
        BY <1>1, <3>2, DeadNeverBooks DEF WithdrawnDead
      <4>2. grants'[g] = grants[g]
        BY <1>1, <3>2, <4>1 DEF Book, TypeOK
      <4> QED BY <4>2 DEF WithdrawnDead
    <3>3. ASSUME NEW c \in Clients, Accept(c) PROVE ~grants'[g].used
      <4>1. PICK new \in Grant : grants' = Append(grants, new)
        BY <3>3, AcceptStep
      <4>2. grants'[g] = grants[g]
        BY <1>1, <4>1, Appended DEF TypeOK
      <4> QED BY <4>2 DEF WithdrawnDead
    <3> QED BY <3>1, <3>2, <3>3
        DEF Next, Identification, BeginIdentify, Refuse, Abort, AccountStep, ResetPin,
            UnlockPin, RevokePin, ChangeCredential, SetActive, DeviceStep, IssueChallenge,
            RevokeDevice, Pair, Configure, Tick, vars
  <2> QED BY <1>2, <2>1, <2>2 DEF WithdrawnDead
<1>3. ASSUME NEW S \in SUBSET DOMAIN grants, Withdraw(S), grants' = grants,
             \A g \in S : Dead(g)'
      PROVE  WithdrawnDead'
  <2>1. ASSUME NEW g \in withdrawn PROVE Dead(g)' /\ ~grants'[g].used
    BY <1>1, <1>3, DeadStep DEF WithdrawnDead
  <2> QED BY <1>3, <2>1 DEF Withdraw, Unused, WithdrawnDead
<1>4. ASSUME NEW e \in Employees, grants' = grants, challenges' = challenges,
             credentials[e].version < credentials'[e].version, NEW g \in GrantsOf(e)
      PROVE  Dead(g)'
  <2>1. g \in DOMAIN grants /\ grants[g].emp = e
    BY <1>4 DEF GrantsOf
  <2>2. /\ grants[g].version \in Nat /\ grants[g].version <= credentials[e].version
        /\ credentials[e].version \in Nat /\ credentials'[e].version \in Nat
    <3>1. credentials'[e].version \in Nat
      BY SoundStep DEF TypeOK, Credential, CredentialsKept
    <3> QED BY <2>1, <3>1, GrantFields, CredentialFields DEF GrantsGiven, Given
  <2> QED BY <1>4, <2>1, <2>2 DEF Dead
<1>5. ASSUME NEW c \in Clients, Refuse(c) PROVE WithdrawnDead'
  <2> DEFINE e == call[c].emp
             locks == Counts(call[c]) /\ Failure(e).counter = MaxFailures
             S == IF locks THEN GrantsOf(e) ELSE {}
  <2>1. Withdraw(S) /\ grants' = grants /\ now' = now /\ challenges' = challenges
    BY <1>5 DEF Refuse
  <2>2. e \in Employees
    BY <1>5, CallFields DEF Refuse, InTransaction
  <2>3. ASSUME NEW g \in S PROVE Dead(g)'
    <3>1. locks /\ g \in DOMAIN grants /\ grants[g].emp = e
      BY <2>3 DEF GrantsOf
    <3>2. attempts'[e] = Failure(e) /\ ~Locked(e)
      BY <1>5, <2>2, <3>1 DEF Refuse, Counts, TypeOK
    <3>3. /\ Failure(e) \in Attempts /\ Failure(e).last = now
          /\ Failure(e).counter = MaxFailures
      BY <2>2, <3>1, <3>2, FailureFields
    <3>4. Failure(e) # None /\ Failure(e).counter >= MaxFailures
      BY <3>3, TerminalAssumption, NullAssumption
    <3>5. grants[g].expires <= Failure(e).last + Window
      BY <1>0, <3>1, <3>3, GrantFields DEF GrantsGiven, Given
    <3> QED BY <2>1, <3>1, <3>2, <3>4, <3>5 DEF Dead, OutlivedBy
  <2>4. S \in SUBSET DOMAIN grants
    BY GrantSets
  <2> QED BY <1>3, <2>1, <2>3, <2>4
<1>6. ASSUME NEW e \in Employees, NEW revoked \in BOOLEAN, Renew(e, revoked),
             grants' = grants, challenges' = challenges, Withdraw(GrantsOf(e))
      PROVE  WithdrawnDead'
  <2>1. credentials[e].version < credentials'[e].version
    BY <1>6, RenewStep, CredentialFields
  <2>2. \A g \in GrantsOf(e) : Dead(g)'
    BY <1>4, <1>6, <2>1
  <2> QED BY <1>3, <1>6, <2>2, GrantSets
<1>7. ASSUME NEW e \in Employees, AccountStep(e) PROVE WithdrawnDead'
  BY <1>6, <1>7, CredentialFields
     DEF AccountStep, ResetPin, UnlockPin, RevokePin, ChangeCredential, SetActive,
         CredentialsKept
<1>8. ASSUME NEW t \in Terminals, Configure(t) PROVE WithdrawnDead'
  <2>1. /\ Withdraw(GrantsOn(DevicesOf(t))) /\ grants' = grants /\ challenges' = challenges
        /\ terminals'[t].version = terminals[t].version + 1 /\ terminals[t].version \in Nat
    BY <1>8, TerminalFields DEF Configure, TypeOK
  <2>2. ASSUME NEW g \in GrantsOn(DevicesOf(t)) PROVE Dead(g)'
    <3>1. g \in DOMAIN grants /\ TerminalOf[DeviceOf(g)] = t
      BY <2>2 DEF GrantsOn, DevicesOf
    <3>2. grants[g].config \in Nat /\ grants[g].config <= terminals[t].version
      BY <3>1, GrantFields DEF GrantsGiven, Given, Kiosk
    <3>3. grants[g].config < terminals'[t].version
      BY <2>1, <3>2
    <3>4. DeviceOf(g)' = DeviceOf(g)
      BY <2>1 DEF DeviceOf
    <3>5. grants'[g].config < Kiosk(DeviceOf(g))'.version
      BY <2>1, <3>1, <3>3, <3>4 DEF Kiosk
    <3> QED BY <3>5 DEF Dead
  <2> QED BY <1>3, <2>1, <2>2, GrantSets
<1>9. ASSUME NEW d \in Devices, RevokeDevice(d) PROVE WithdrawnDead'
  <2>1. /\ Withdraw(GrantsOn({d})) /\ grants' = grants /\ challenges' = challenges
        /\ devices'[d] = "Revoked"
    BY <1>9 DEF RevokeDevice, TypeOK
  <2>2. ASSUME NEW g \in GrantsOn({d}) PROVE Dead(g)'
    BY <2>1, <2>2 DEF GrantsOn, DeviceOf, Dead
  <2> QED BY <1>3, <2>1, <2>2, GrantSets
<1>10. ASSUME NEW d \in Devices, Pair(d) PROVE WithdrawnDead'
  <2> DEFINE t == TerminalOf[d]
             D == DevicesOf(t) \ {d}
  <2>0. t \in Terminals
    BY TerminalAssumption
  <2>1. /\ Withdraw(GrantsOn(D)) /\ grants' = grants /\ challenges' = challenges
        /\ devices' = [Unpair(t) EXCEPT ![d] = "Paired"]
    BY <1>10 DEF Pair
  <2>2. ASSUME NEW g \in GrantsOn(D) PROVE Dead(g)'
    <3>1. g \in DOMAIN grants /\ DeviceOf(g) \in Devices /\ TerminalOf[DeviceOf(g)] = t
          /\ DeviceOf(g) # d /\ grants[g].challenge \in DOMAIN challenges
      BY <2>2, GrantFields DEF GrantsOn, DevicesOf
    <3>2. devices[DeviceOf(g)] # "Unpaired"
      BY <3>1 DEF ChallengesIssued, Issued, DeviceOf
    <3>3. devices'[DeviceOf(g)] = "Revoked"
      BY <2>0, <2>1, <3>1, <3>2, UnpairStep DEF Device
    <3> QED BY <2>1, <3>3 DEF Dead, DeviceOf
  <2> QED BY <1>3, <2>1, <2>2, GrantSets
<1>11. CASE \/ \E c \in Clients : BeginIdentify(c) \/ Accept(c) \/ Abort(c)
            \/ \E g \in DOMAIN grants, action \in Action : Book(g, action)
            \/ \E d \in Devices : IssueChallenge(d)
            \/ Tick \/ UNCHANGED vars
  BY <1>2, <1>11 DEF BeginIdentify, Accept, Abort, Book, IssueChallenge, Tick, vars
<1> QED BY <1>5, <1>7, <1>8, <1>9, <1>10, <1>11 DEF Next, Identification, DeviceStep

-----------------------------------------------------------------------------
(* Receipts *)

\* A permission books with its receipt; no other step touches either.
LEMMA ReceiptsStep ==
    ASSUME Sound, ReceiptsTruthful, ReceiptsFounded, [Next]_vars
    PROVE  ReceiptsTruthful' /\ ReceiptsFounded'
<1> USE DEF Sound
<1>1. CASE redemptions' = redemptions /\ grants' = grants
  BY <1>1 DEF ReceiptsTruthful, ReceiptsFounded
<1>2. ASSUME NEW c \in Clients, Accept(c)
      PROVE  ReceiptsTruthful' /\ ReceiptsFounded'
  <2>1. PICK new \in Grant : grants' = Append(grants, new) /\ ~new.used
    BY <1>2, AcceptStep
  <2> PICK n \in Nat : n = Len(grants) + 1
    BY DEF TypeOK
  <2>2. /\ DOMAIN grants' = DOMAIN grants \cup {n} /\ n \notin DOMAIN grants
        /\ grants'[n] = new /\ \A g \in DOMAIN grants : grants'[g] = grants[g]
    BY <2>1, Appended DEF TypeOK
  <2>3. redemptions' = redemptions
    BY <1>2 DEF Accept, bookings
  <2>4. {r \in redemptions : r.grant = n} = {}
    BY <2>2 DEF ReceiptsFounded
  <2> QED BY <2>1, <2>2, <2>3, <2>4 DEF ReceiptsTruthful, ReceiptsFounded
<1>3. ASSUME NEW g \in DOMAIN grants, NEW action \in Action, Book(g, action)
      PROVE  ReceiptsTruthful' /\ ReceiptsFounded'
  <2> DEFINE e == grants[g].emp
             receipt == [challenge |-> grants[g].challenge, emp |-> e, grant |-> g,
                         action |-> action]
             used == [grants[g] EXCEPT !.used = TRUE, !.action = action]
  <2>1. /\ redemptions' = redemptions \cup {receipt}
        /\ grants' = [grants EXCEPT ![g] = used]
        /\ ~grants[g].used /\ ~Redeemed(grants[g].challenge, e)
    BY <1>3 DEF Book, Redeem, Confirmed
  <2>2. grants[g] \in Grant /\ grants \in Seq(Grant)
    BY GrantFields DEF TypeOK
  <2>3. /\ used.used = TRUE /\ used.action = action
        /\ used.challenge = grants[g].challenge /\ used.emp = e
    BY <2>2 DEF Grant
  <2> HIDE DEF used
  <2>4. /\ DOMAIN grants' = DOMAIN grants /\ grants'[g] = used
        /\ \A h \in DOMAIN grants : h # g => grants'[h] = grants[h]
    BY <2>1, <2>2
  <2>5. {r \in redemptions : r.grant = g} = {}
    BY <2>1 DEF ReceiptsTruthful
  <2>6. {r \in redemptions' : r.grant = g} = {receipt}
    BY <2>1, <2>5
  <2>7. \A h \in DOMAIN grants : h # g =>
          {r \in redemptions' : r.grant = h} = {r \in redemptions : r.grant = h}
    BY <2>1
  <2>8. \A h \in DOMAIN grants' :
          LET made == {r \in redemptions' : r.grant = h}
          IN IF grants'[h].used
             THEN made = {[challenge |-> grants'[h].challenge, emp |-> grants'[h].emp,
                           grant |-> h, action |-> grants'[h].action]}
             ELSE made = {}
    BY <2>3, <2>4, <2>6, <2>7 DEF ReceiptsTruthful
  <2>9. \A r, s \in redemptions' : r.challenge = s.challenge /\ r.emp = s.emp => r = s
    BY <2>1 DEF ReceiptsTruthful, Redeemed
  <2>10. ReceiptsFounded'
    BY <2>1, <2>3, <2>4 DEF ReceiptsFounded
  <2> QED BY <2>8, <2>9, <2>10 DEF ReceiptsTruthful
<1> QED BY <1>1, <1>2, <1>3
    DEF Next, Identification, BeginIdentify, Refuse, Abort, AccountStep, ResetPin,
        UnlockPin, RevokePin, ChangeCredential, SetActive, DeviceStep, IssueChallenge,
        RevokeDevice, Pair, Configure, Tick, vars, bookings

-----------------------------------------------------------------------------
(* Theorems *)

\* Nothing was issued in the beginning.
LEMMA InitIInv ==
    ASSUME Init
    PROVE  IInv
<1>1. TypeOK
  BY TerminalAssumption DEF Init, TypeOK, Time, Terminal, Device, Credential
<1>2. AttemptsOrdered
  BY DEF Init, AttemptsOrdered
<1>3. CredentialsKept
  <2>1. [version |-> 1, revoked |-> FALSE] \in Credential
    BY DEF Credential
  <2> QED BY <2>1, NullAssumption DEF Init, CredentialsKept
<1>4. ChallengesIssued /\ GrantsGiven
  BY DEF Init, ChallengesIssued, GrantsGiven
<1>5. WithdrawnDead /\ ReceiptsTruthful /\ ReceiptsFounded
  BY DEF Init, WithdrawnDead, ReceiptsTruthful, ReceiptsFounded
<1> QED BY <1>1, <1>2, <1>3, <1>4, <1>5 DEF IInv, Sound

\* The invariant holds in every behaviour of the terminals.
THEOREM TerminalInvariant == Spec => []IInv
<1>1. ASSUME IInv, [Next]_vars PROVE IInv'
  BY <1>1, SoundStep, WithdrawnStep, ReceiptsStep DEF IInv
<1> QED BY <1>1, InitIInv, PTL DEF Spec

\* Every variable has its type.
THEOREM TerminalTypes == Spec => []TypeOK
<1>1. IInv => TypeOK
  BY DEF IInv, Sound
<1> QED BY <1>1, TerminalInvariant, PTL

\* A permission that was withdrawn never books, whatever comes back afterwards.
THEOREM WithdrawnNeverBook == Spec => []WithdrawnNeverBooks
<1>1. IInv => WithdrawnNeverBooks
  BY DEF IInv, WithdrawnDead, WithdrawnNeverBooks
<1> QED BY <1>1, TerminalInvariant, PTL

\* Every booking has its receipt, and one only.
THEOREM ReceiptsAreTruthful == Spec => []ReceiptsTruthful
<1>1. IInv => ReceiptsTruthful
  BY DEF IInv
<1> QED BY <1>1, TerminalInvariant, PTL

\* Failures count for the PIN that was tried, and a lockout is kept.
THEOREM FailuresAreFair == Spec => FailuresFair
<1> DEFINE Fair ==
      \A e \in Employees :
         /\ Locked(e) => \/ credentials'[e] # credentials[e]
                         \/ /\ attempts'[e] = attempts[e]
                            /\ \A g \in DOMAIN grants' \ DOMAIN grants : grants'[g].emp # e
         /\ attempts'[e] # attempts[e] /\ attempts'[e] # None
            => \E c \in Clients : /\ call[c] # Idle /\ call'[c] = Idle
                                  /\ call[c].emp = e /\ call[c].seen = Version(e)
<1>1. IInv /\ [Next]_vars => [Fair]_vars
  BY LockoutKept, FailureFounded DEF IInv
<1>2. Spec => [][Fair]_vars
  BY <1>1, TerminalInvariant, PTL DEF Spec
<1> QED BY <1>2 DEF FailuresFair

=============================================================================
