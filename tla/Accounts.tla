------------------------------ MODULE Accounts ------------------------------
(***************************************************************************)
(* Who may act: the Employee table with passwords, roles and session       *)
(* versions, the installation's mode and owner, and the tokens that are    *)
(* out (apps/api/src/app/auth, employees, installation; the operator's     *)
(* scripts in prisma/).                                                    *)
(*                                                                         *)
(* A call reads (BeginXxx) and later writes (Xxx).  In between lie a bcrypt *)
(* comparison or hash and, for most, the wait for the advisory lock        *)
(* 7261500.  The two Serializable transactions, bootstrap and change of    *)
(* mode, see what was committed when they began to wait for that lock.     *)
(*                                                                         *)
(* A definition whose name ends in _Fault is a plausible mistake in the    *)
(* definition below it; nothing uses it.                                   *)
(***************************************************************************)
EXTENDS Integers, FiniteSets

CONSTANTS
    Employees,   \* accounts that may come to exist
    Nobody,      \* ownerEmployeeId = NULL
    Clients,     \* calls that can be in flight together
    Operations,  \* the operations that are used (a run may restrict them)
    MaxHashes,   \* bound: password hashes ever made
    MaxChanges   \* bound: revisions of the settings, the one of bootstrap included

AllOperations == {"Bootstrap", "Login", "Refresh", "ChangePassword", "SetPassword",
                  "Update", "Create", "ChangeMode", "Save", "Recover"}

ASSUME AccountsAssumption ==
    /\ Nobody \notin Employees
    /\ Operations \subseteq AllOperations
    /\ MaxHashes \in Nat /\ MaxChanges \in Nat \ {0}

VARIABLES
    emp,       \* the Employee table
    settings,  \* InstallationSettings: mode, owner, revision
    tokens,    \* the tokens that were signed; an expired one is not used again
    hashes,    \* how many password hashes have been made: each is different
    call       \* the calls in flight and what each has read

accounts == <<emp, settings, tokens, hashes, call>>

-----------------------------------------------------------------------------
(* State *)

Role == {"Employee", "HRAdmin"}
Mode == {"Team", "Solo"}

Absent == [exists |-> FALSE]
Account == [exists: {TRUE}, role: Role, active: BOOLEAN, pw: Nat, ver: Nat]

\* `pw` is no claim of a token: it is the password that was proved for it.
Token == [emp: Employees, ver: Nat, typ: {"access", "refresh"}, pw: Nat]

Exists(e) == emp[e].exists
Active(e) == Exists(e) /\ emp[e].active
Admin(e) == Active(e) /\ emp[e].role = "HRAdmin"
Solo == settings.mode = "Solo"

OtherAdmins(e) == {a \in Employees \ {e} : Admin(a)}

-----------------------------------------------------------------------------
(* Guards of a request *)

\* JwtStrategy.validate
Authentic(t) == t.typ = "access" /\ Active(t.emp) /\ emp[t.emp].ver = t.ver

\* requireOwner
IsOwner(e) == Solo /\ settings.owner = e /\ Admin(e)

\* assertActorAccess
ActorAccess(e) == Active(e) /\ (Solo => settings.owner = e)

\* SoloAccessGuard and JwtAuthGuard: Solo leaves its owner a part of the API.
Admitted(t, area) ==
    Authentic(t) /\ (Solo => IsOwner(t.emp) /\ area \in {"auth", "installation"})

\* RolesGuard on top, for the administration of employees.
AdmittedAdmin(t) == Admitted(t, "employees") /\ Admin(t.emp)

-----------------------------------------------------------------------------
(* Calls in flight *)

Idle == [op |-> "Idle"]

Begin(c, record) ==
    /\ call[c] = Idle
    /\ record.op \in Operations
    /\ call' = [call EXCEPT ![c] = record]
    /\ UNCHANGED <<emp, settings, tokens, hashes>>

Commits(c, op) == call[c].op = op /\ call' = [call EXCEPT ![c] = Idle]

\* Refused, disconnected or crashed before the commit.
Abort(c) ==
    /\ call[c] # Idle
    /\ call' = [call EXCEPT ![c] = Idle]
    /\ UNCHANGED <<emp, settings, tokens, hashes>>

\* The new password ends no session.
NewPassword_Fault(row) == [row EXCEPT !.pw = hashes + 1]

\* Every writer of passwordHash increments authVersion with it.
NewPassword(row) == [row EXCEPT !.pw = hashes + 1, !.ver = @ + 1]

WritePassword(e) ==
    /\ hashes < MaxHashes
    /\ emp' = [emp EXCEPT ![e] = NewPassword(@)]
    /\ hashes' = hashes + 1
    /\ UNCHANGED <<settings, tokens>>

-----------------------------------------------------------------------------
(* Sessions *)

\* login: the account is active and its password proved right.
BeginLogin(c, e) == Active(e) /\ Begin(c, [op |-> "Login", emp |-> e, row |-> emp[e]])

\* refresh: the token is genuine and of the current version.
BeginRefresh(c, t) ==
    /\ t.typ = "refresh" /\ Active(t.emp) /\ emp[t.emp].ver = t.ver
    /\ Begin(c, [op |-> "Refresh", emp |-> t.emp, row |-> [emp[t.emp] EXCEPT !.pw = t.pw]])

\* The version is looked up when the tokens are signed.
Pair_Fault(e, row) == [emp: {e}, ver: {emp[e].ver}, typ: {"access", "refresh"}, pw: {row.pw}]

\* issueTokenPair for the row that was read
Pair(e, row) == [emp: {e}, ver: {row.ver}, typ: {"access", "refresh"}, pw: {row.pw}]

\* The end of login and of refresh; a refresh leaves its token valid.
Issue(c) ==
    /\ Commits(c, "Login") \/ Commits(c, "Refresh")
    /\ ActorAccess(call[c].emp)
    /\ tokens' = tokens \cup Pair(call[c].emp, call[c].row)
    /\ UNCHANGED <<emp, settings, hashes>>

-----------------------------------------------------------------------------
(* Passwords *)

BeginChangePassword(c, t) ==
    /\ Admitted(t, "auth")
    /\ Begin(c, [op |-> "ChangePassword", emp |-> t.emp, row |-> emp[t.emp]])

\* The account is updated by its id alone.
StillProved_Fault(c) == Exists(call[c].emp)

\* updateMany({ id, passwordHash })
StillProved(c) == emp[call[c].emp].pw = call[c].row.pw

ChangePassword(c) ==
    /\ Commits(c, "ChangePassword")
    /\ StillProved(c)
    /\ WritePassword(call[c].emp)

\* setPassword, by an administrator for anybody; nothing is checked again.
BeginSetPassword(c, t, e) ==
    AdmittedAdmin(t) /\ Exists(e) /\ Begin(c, [op |-> "SetPassword", emp |-> e])

SetPassword(c) == Commits(c, "SetPassword") /\ WritePassword(call[c].emp)

\* resetOwnerPassword, by the operator of the database.
BeginRecover(c, e) ==
    /\ IsOwner(e)
    /\ Begin(c, [op |-> "Recover", emp |-> e, row |-> emp[e], settings |-> settings])

Recover(c) ==
    /\ Commits(c, "Recover")
    /\ settings = call[c].settings
    /\ emp[call[c].emp] = call[c].row
    /\ WritePassword(call[c].emp)

-----------------------------------------------------------------------------
(* Accounts *)

NewAccount(e, role) ==
    /\ hashes < MaxHashes
    /\ emp' = [emp EXCEPT ![e] = [exists |-> TRUE, role |-> role, active |-> TRUE,
                                  pw |-> hashes + 1, ver |-> 0]]
    /\ hashes' = hashes + 1

\* createInitialAdmin finds the table empty.
BeginBootstrap(c, e, mode) ==
    /\ \A a \in Employees : ~Exists(a)
    /\ Begin(c, [op |-> "Bootstrap", emp |-> e, mode |-> mode])

\* Of two bootstraps PostgreSQL aborts one; its retry finds an employee.
Bootstrap(c) ==
    /\ Commits(c, "Bootstrap")
    /\ \A a \in Employees : ~Exists(a)
    /\ NewAccount(call[c].emp, "HRAdmin")
    /\ settings' = [settings EXCEPT !.mode = call[c].mode,
                       !.owner = IF call[c].mode = "Solo" THEN call[c].emp ELSE Nobody,
                       !.rev = @ + 1]
    /\ UNCHANGED tokens

BeginCreate(c, t, e, role) ==
    AdmittedAdmin(t) /\ ~Exists(e) /\ Begin(c, [op |-> "Create", emp |-> e, role |-> role])

Create(c) ==
    /\ Commits(c, "Create")
    /\ ~Solo /\ ~Exists(call[c].emp)
    /\ NewAccount(call[c].emp, call[c].role)
    /\ UNCHANGED <<settings, tokens>>

\* What an UpdateEmployeeDto may ask for that others depend on: deactivate,
\* reactivate, and a role.
Change == {"Deactivate", "Reactivate"} \cup Role

\* Every field of the dto is written, whether it was given or not.
Changed_Fault(row, ch) == [row EXCEPT !.role = ch, !.active = (ch # "Deactivate")]

Changed(row, ch) ==
    IF ch \in Role THEN [row EXCEPT !.role = ch] ELSE [row EXCEPT !.active = (ch = "Reactivate")]

\* The check before the transaction looks at deactivations only.
BeginUpdate(c, t, e, ch) ==
    /\ AdmittedAdmin(t) /\ Exists(e)
    /\ ch = "Deactivate" /\ emp[e].role = "HRAdmin" => OtherAdmins(e) # {}
    /\ Begin(c, [op |-> "Update", emp |-> e, change |-> ch])

\* The check before the transaction is taken to be enough.
KeepsAdmin_Fault(e, ch) == TRUE

\* The last active administrator is neither deactivated nor demoted.
KeepsAdmin(e, ch) ==
    Admin(e) /\ ch \in {"Deactivate", "Employee"} => OtherAdmins(e) # {}

Update(c) ==
    LET e == call[c].emp
        ch == call[c].change
    IN /\ Commits(c, "Update")
       /\ ~Solo
       /\ KeepsAdmin(e, ch)
       /\ emp' = [emp EXCEPT ![e] = Changed(@, ch)]
       /\ UNCHANGED <<settings, tokens, hashes>>

-----------------------------------------------------------------------------
(* Installation *)

\* changeMode up to its snapshot: an administrator, in Solo the owner, and for
\* Solo nobody else active.  The other blockers lie outside this module.
BeginChangeMode(c, t, mode) ==
    /\ Admitted(t, "installation") /\ Admin(t.emp)
    /\ mode # settings.mode
    /\ mode = "Solo" => {e \in Employees : Active(e)} = {t.emp}
    /\ Begin(c, [op |-> "ChangeMode", emp |-> t.emp, mode |-> mode, settings |-> settings])

\* PostgreSQL fails the write if the settings row has changed since.
ChangeMode(c) ==
    /\ Commits(c, "ChangeMode")
    /\ settings = call[c].settings /\ settings.rev < MaxChanges
    /\ settings' = [mode |-> call[c].mode, owner |-> call[c].emp, rev |-> settings.rev + 1]
    /\ UNCHANGED <<emp, tokens, hashes>>

\* saveSettings names the revision it changes, completeSetup does not.
BeginSave(c, t) ==
    /\ Admitted(t, "installation")
    /\ \E rev \in {settings.rev, -1} : Begin(c, [op |-> "Save", emp |-> t.emp, rev |-> rev])

Save(c) ==
    /\ Commits(c, "Save")
    /\ IsOwner(call[c].emp)
    /\ call[c].rev \in {settings.rev, -1} /\ settings.rev < MaxChanges
    /\ settings' = [settings EXCEPT !.rev = @ + 1]
    /\ UNCHANGED <<emp, tokens, hashes>>

-----------------------------------------------------------------------------
(* The system *)

AccountsInit ==
    /\ emp = [e \in Employees |-> Absent]
    /\ settings = [mode |-> "Team", owner |-> Nobody, rev |-> 0]
    /\ tokens = {}
    /\ hashes = 0
    /\ call = [c \in Clients |-> Idle]

Read(c) ==
    \/ \E e \in Employees, m \in Mode : BeginBootstrap(c, e, m)
    \/ \E e \in Employees : BeginLogin(c, e) \/ BeginRecover(c, e)
    \/ \E t \in tokens :
         \/ BeginRefresh(c, t) \/ BeginChangePassword(c, t) \/ BeginSave(c, t)
         \/ \E e \in Employees : BeginSetPassword(c, t, e)
         \/ \E e \in Employees, r \in Role : BeginCreate(c, t, e, r)
         \/ \E e \in Employees, ch \in Change : BeginUpdate(c, t, e, ch)
         \/ \E m \in Mode : BeginChangeMode(c, t, m)

Write(c) ==
    \/ Issue(c) \/ ChangePassword(c) \/ SetPassword(c) \/ Recover(c)
    \/ Bootstrap(c) \/ Create(c) \/ Update(c) \/ ChangeMode(c) \/ Save(c)

AccountsNext == \E c \in Clients : Read(c) \/ Write(c) \/ Abort(c)

AccountsSpec == AccountsInit /\ [][AccountsNext]_accounts

-----------------------------------------------------------------------------
(* Properties *)

(* The type invariant. *)
AccountsTypeOK ==
    /\ emp \in [Employees -> {Absent} \cup Account]
    /\ settings \in [mode: Mode, owner: Employees \cup {Nobody}, rev: 0 .. MaxChanges]
    /\ tokens \subseteq Token
    /\ hashes \in 0 .. MaxHashes
    /\ \A c \in Clients : call[c].op \in AllOperations \cup {"Idle"}

(* Whatever two administrators do to each other at the same time, one who is *)
(* active remains (employees.service.ts:204): the check is repeated under    *)
(* the lock because the one before it decides on rows that may have changed. *)
AdminRemains ==
    (\E e \in Employees : Exists(e)) => \E e \in Employees : Admin(e)

(* A token that is still good was obtained with the password of today: a     *)
(* password change ends every session, also the one whose login is between   *)
(* its check of the old password and its tokens (README.md:491).             *)
SessionsKnowPassword ==
    \A t \in tokens : Exists(t.emp) /\ t.ver = emp[t.emp].ver => t.pw = emp[t.emp].pw

(* A password that was replaced while somebody hashed is not overwritten by  *)
(* them (reset-owner-password-lib.ts:61, auth.service.ts:78): only an        *)
(* administrator sets a password without knowing the old one.                *)
NoPasswordOverwritten ==
    [][\A e \in Employees : Exists(e) /\ emp'[e].pw # emp[e].pw =>
         \E c \in Clients :
             /\ call[c] # Idle /\ call'[c] = Idle /\ call[c].emp = e
             /\ call[c].op # "SetPassword" => call[c].row.pw = emp[e].pw]_accounts
=============================================================================
