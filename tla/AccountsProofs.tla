--------------------------- MODULE AccountsProofs ---------------------------
(***************************************************************************)
(* What Accounts and Realtime guarantee for every number of accounts, calls *)
(* in flight and sockets.                                                  *)
(*                                                                         *)
(* The accounts: versions only grow and a password never changes without   *)
(* its version, so that what a call or a token knows of an account is      *)
(* either today's or recognisably old.  The sockets: whoever an event will *)
(* be sent to has been noted as entitled, whichever of the two queries of  *)
(* a broadcast is answered first.                                          *)
(***************************************************************************)
EXTENDS Realtime, TLAPS

Settings == [mode: Mode, owner: Employees \cup {Nobody}, rev: 0 .. MaxChanges]

NobodyExists == \A e \in Employees : ~Exists(e)

\* A proof of password pw at version ver is today's, or recognisably old.
Proof(e, ver, pw) == ver <= emp[e].ver /\ (ver = emp[e].ver => pw = emp[e].pw)

\* What a call in flight relies on.
CallOK(k) ==
    \/ k = Idle
    \/ /\ k.op \in AllOperations /\ k.emp \in Employees
       /\ k.op \notin {"Bootstrap", "Create"} => Exists(k.emp)
       /\ k.op \in {"Login", "Refresh"} => k.row \in Account /\ Proof(k.emp, k.row.ver, k.row.pw)
       /\ k.op = "Bootstrap" => k.mode \in Mode
       /\ k.op = "Create" => k.role \in Role /\ ~NobodyExists
       /\ k.op = "Update" => k.change \in Change
       /\ k.op = "ChangeMode" =>
            k.mode \in Mode /\ k.settings \in Settings /\ k.mode # k.settings.mode

CallsSound == DOMAIN call = Clients /\ \A c \in Clients : CallOK(call[c])

TokensSound == \A t \in tokens : Exists(t.emp) /\ Proof(t.emp, t.ver, t.pw)

\* Before the bootstrap the settings are those of the migration.
Untouched == NobodyExists => settings.rev = 0

AInv == AccountsTypeOK /\ CallsSound /\ TokensSound /\ Untouched /\ AdminRemains

\* What a step leaves of an account.
Onward ==
    /\ emp' \in [Employees -> {Absent} \cup Account]
    /\ \A e \in Employees : Exists(e) =>
         /\ Exists(e)'
         /\ emp[e].ver <= emp'[e].ver
         /\ emp'[e].ver = emp[e].ver => emp'[e].pw = emp[e].pw

\* The accounts change only in Team and only with a new version in Solo.
Frozen ==
    /\ \A e \in Employees : Exists(e) /\ emp'[e] # emp[e] => emp[e].ver < emp'[e].ver \/ ~Solo'
    /\ ~NobodyExists /\ Solo /\ Solo' => settings'.owner = settings.owner

-----------------------------------------------------------------------------
(* The types of what is read *)

LEMMA AccountFields ==
    ASSUME AccountsTypeOK, NEW e \in Employees
    PROVE  /\ emp[e] \in {Absent} \cup Account
           /\ Exists(e) => /\ emp[e] \in Account
                           /\ emp[e].role \in Role /\ emp[e].active \in BOOLEAN
                           /\ emp[e].pw \in Nat /\ emp[e].ver \in Nat
           /\ emp[e] \in Account => Exists(e)
<1>1. emp[e] \in {Absent} \cup Account
  BY DEF AccountsTypeOK
<1>2. ASSUME Exists(e) PROVE emp[e] \in Account
  <2>1. ~Absent.exists
    BY DEF Absent
  <2> QED BY <1>1, <1>2, <2>1 DEF Exists
<1> QED BY <1>1, <1>2 DEF Account, Exists

LEMMA TokenFields ==
    ASSUME AccountsTypeOK, NEW t \in tokens
    PROVE  t \in Token /\ t.emp \in Employees /\ t.ver \in Nat /\ t.pw \in Nat
BY DEF AccountsTypeOK, Token

-----------------------------------------------------------------------------
(* Accounts only move on *)

\* A new password comes with a new version.
LEMMA WriteStep ==
    ASSUME AccountsTypeOK, NEW e \in Employees, Exists(e), WritePassword(e)
    PROVE  /\ Onward /\ hashes' \in 0 .. MaxHashes
           /\ emp[e].ver < emp'[e].ver
           /\ emp'[e].role = emp[e].role /\ emp'[e].active = emp[e].active
           /\ \A a \in Employees : a # e => emp'[a] = emp[a]
<1> DEFINE row == emp[e]
           new == [row EXCEPT !.pw = hashes + 1, !.ver = @ + 1]
<1>1. emp' = [emp EXCEPT ![e] = new] /\ hashes < MaxHashes /\ hashes' = hashes + 1
  BY DEF WritePassword, NewPassword
<1>2. row \in Account /\ row.ver \in Nat /\ hashes \in Nat /\ MaxHashes \in Nat
  BY AccountFields, AccountsAssumption DEF AccountsTypeOK
<1>3. /\ new \in Account /\ new.ver = row.ver + 1 /\ new.pw = hashes + 1
      /\ new.role = row.role /\ new.active = row.active /\ new.exists
  <2>1. row.ver + 1 \in Nat /\ hashes + 1 \in Nat
    BY <1>2
  <2>2. /\ new.ver = row.ver + 1 /\ new.pw = hashes + 1
        /\ new.role = row.role /\ new.active = row.active /\ new.exists = row.exists
    BY <1>2 DEF Account
  <2>3. new \in Account
    BY <1>2, <2>1 DEF Account
  <2>4. new.exists
    BY <2>3 DEF Account
  <2> QED BY <2>2, <2>3, <2>4
<1> HIDE DEF new
<1>4. emp \in [Employees -> {Absent} \cup Account]
  BY DEF AccountsTypeOK
<1>5. \A a \in Employees : emp'[a] = IF a = e THEN new ELSE emp[a]
  BY <1>1, <1>4
<1>6. emp' \in [Employees -> {Absent} \cup Account]
  BY <1>1, <1>3, <1>4
<1>7. ASSUME NEW a \in Employees, Exists(a)
      PROVE  /\ Exists(a)' /\ emp[a].ver <= emp'[a].ver
             /\ emp'[a].ver = emp[a].ver => emp'[a].pw = emp[a].pw
  <2>1. emp[a].ver \in Nat
    BY <1>7, AccountFields
  <2> QED BY <1>2, <1>3, <1>5, <1>7, <2>1 DEF Exists
<1>8. hashes' \in 0 .. MaxHashes
  BY <1>1, <1>2
<1> QED BY <1>2, <1>3, <1>5, <1>6, <1>7, <1>8 DEF Onward

\* A new account leaves the others alone.
LEMMA NewAccountStep ==
    ASSUME AccountsTypeOK, NEW e \in Employees, ~Exists(e), NEW role \in Role, NewAccount(e, role)
    PROVE  /\ Onward /\ hashes' \in 0 .. MaxHashes
           /\ emp'[e].role = role /\ emp'[e].active /\ Exists(e)'
           /\ \A a \in Employees : a # e => emp'[a] = emp[a]
<1> DEFINE new == [exists |-> TRUE, role |-> role, active |-> TRUE, pw |-> hashes + 1, ver |-> 0]
<1>1. emp' = [emp EXCEPT ![e] = new] /\ hashes < MaxHashes /\ hashes' = hashes + 1
  BY DEF NewAccount
<1>2. hashes \in Nat /\ MaxHashes \in Nat
  BY AccountsAssumption DEF AccountsTypeOK
<1>3. new \in Account /\ new.exists /\ new.active /\ new.role = role
  BY <1>2 DEF Account
<1> HIDE DEF new
<1>4. emp \in [Employees -> {Absent} \cup Account]
  BY DEF AccountsTypeOK
<1>5. \A a \in Employees : emp'[a] = IF a = e THEN new ELSE emp[a]
  BY <1>1, <1>4
<1>6. emp' \in [Employees -> {Absent} \cup Account]
  BY <1>1, <1>3, <1>4
<1>7. ASSUME NEW a \in Employees, Exists(a)
      PROVE  /\ Exists(a)' /\ emp[a].ver <= emp'[a].ver
             /\ emp'[a].ver = emp[a].ver => emp'[a].pw = emp[a].pw
  <2>1. emp[a].ver \in Nat /\ a # e
    BY <1>7, AccountFields
  <2> QED BY <1>5, <1>7, <2>1 DEF Exists
<1>8. hashes' \in 0 .. MaxHashes
  BY <1>1, <1>2
<1> QED BY <1>3, <1>5, <1>6, <1>7, <1>8 DEF Onward, Exists

\* A changed role or a deactivation touches neither password nor version.
LEMMA ChangedStep ==
    ASSUME AccountsTypeOK, NEW e \in Employees, Exists(e), NEW ch \in Change,
           emp' = [emp EXCEPT ![e] = Changed(@, ch)]
    PROVE  /\ Onward
           /\ emp'[e].role = (IF ch \in Role THEN ch ELSE emp[e].role)
           /\ emp'[e].active = (IF ch \in Role THEN emp[e].active ELSE ch = "Reactivate")
           /\ \A a \in Employees : a # e => emp'[a] = emp[a]
<1> DEFINE row == emp[e]
           new == Changed(row, ch)
<1>1. emp' = [emp EXCEPT ![e] = new]
  OBVIOUS
<1>2. row \in Account
  BY AccountFields
<1>3. /\ new \in Account /\ new.ver = row.ver /\ new.pw = row.pw /\ new.exists
      /\ new.role = (IF ch \in Role THEN ch ELSE row.role)
      /\ new.active = (IF ch \in Role THEN row.active ELSE ch = "Reactivate")
  <2>1. CASE ch \in Role
    BY <1>2, <2>1 DEF Changed, Account
  <2>2. CASE ch \notin Role
    BY <1>2, <2>2 DEF Changed, Account
  <2> QED BY <2>1, <2>2
<1> HIDE DEF new
<1>4. emp \in [Employees -> {Absent} \cup Account]
  BY DEF AccountsTypeOK
<1>5. \A a \in Employees : emp'[a] = IF a = e THEN new ELSE emp[a]
  BY <1>1, <1>4
<1>6. emp' \in [Employees -> {Absent} \cup Account]
  BY <1>1, <1>3, <1>4
<1>7. ASSUME NEW a \in Employees, Exists(a)
      PROVE  /\ Exists(a)' /\ emp[a].ver <= emp'[a].ver
             /\ emp'[a].ver = emp[a].ver => emp'[a].pw = emp[a].pw
  <2>1. emp[a].ver \in Nat
    BY <1>7, AccountFields
  <2> QED BY <1>2, <1>3, <1>5, <1>7, <2>1 DEF Exists
<1> QED BY <1>3, <1>5, <1>6, <1>7 DEF Onward

-----------------------------------------------------------------------------
(* What calls and tokens know stays today's or recognisably old *)

LEMMA ProofKept ==
    ASSUME AccountsTypeOK, Onward, NEW e \in Employees, Exists(e),
           NEW ver \in Nat, NEW pw, Proof(e, ver, pw)
    PROVE  Exists(e)' /\ Proof(e, ver, pw)'
<1>1. /\ Exists(e)' /\ emp[e].ver <= emp'[e].ver
      /\ emp'[e].ver = emp[e].ver => emp'[e].pw = emp[e].pw
  BY DEF Onward
<1>2. emp[e].ver \in Nat /\ emp'[e].ver \in Nat
  <2>1. emp'[e] \in {Absent} \cup Account /\ ~Absent.exists
    BY DEF Onward, Absent
  <2>2. emp'[e] \in Account
    BY <1>1, <2>1 DEF Exists
  <2> QED BY <2>2, AccountFields DEF Account
<1>3. ver <= emp'[e].ver
  BY <1>1, <1>2 DEF Proof
<1>4. ver = emp'[e].ver => pw = emp'[e].pw
  BY <1>1, <1>2 DEF Proof
<1> QED BY <1>1, <1>3, <1>4 DEF Proof

LEMMA CallKept ==
    ASSUME AccountsTypeOK, Onward, NEW k, CallOK(k)
    PROVE  CallOK(k)'
<1>1. CASE k = Idle
  BY <1>1 DEF CallOK
<1>2. CASE k # Idle
  <2>1. k.op \in AllOperations /\ k.emp \in Employees
    BY <1>2 DEF CallOK
  <2>2. k.op \notin {"Bootstrap", "Create"} => Exists(k.emp)'
    BY <1>2, <2>1 DEF CallOK, Onward
  <2>3. ASSUME k.op \in {"Login", "Refresh"}
        PROVE  k.row \in Account /\ Proof(k.emp, k.row.ver, k.row.pw)'
    <3>1. k.row \in Account /\ Proof(k.emp, k.row.ver, k.row.pw) /\ Exists(k.emp)
      BY <1>2, <2>3 DEF CallOK
    <3>2. k.row.ver \in Nat
      BY <3>1 DEF Account
    <3> QED BY <2>1, <3>1, <3>2, ProofKept
  <2>4. ~NobodyExists => ~NobodyExists'
    BY DEF NobodyExists, Onward
  <2> QED BY <1>2, <2>1, <2>2, <2>3, <2>4 DEF CallOK, Settings
<1> QED BY <1>1, <1>2

LEMMA CallsStep ==
    ASSUME AccountsTypeOK, CallsSound, Onward, NEW c \in Clients, NEW k, CallOK(k)',
           call' = [call EXCEPT ![c] = k]
    PROVE  CallsSound'
<1>1. DOMAIN call' = Clients /\ \A b \in Clients : call'[b] = IF b = c THEN k ELSE call[b]
  BY DEF CallsSound
<1>2. ASSUME NEW b \in Clients PROVE CallOK(call[b])'
  <2>1. CASE b = c
    BY <1>1, <2>1
  <2>2. CASE b # c
    <3>1. PICK j : j = call[b]
      OBVIOUS
    <3>2. CallOK(j)'
      BY <3>1, CallKept DEF CallsSound
    <3> QED BY <1>1, <2>2, <3>1, <3>2
  <2> QED BY <2>1, <2>2
<1> QED BY <1>1, <1>2 DEF CallsSound

\* A step that ends call c.
LEMMA EndStep ==
    ASSUME AccountsTypeOK, CallsSound, Onward, NEW c \in Clients,
           call' = [call EXCEPT ![c] = Idle]
    PROVE  CallsSound' /\ \A b \in Clients : call'[b].op \in AllOperations \cup {"Idle"}
<1>1. PICK k : k = Idle
  OBVIOUS
<1>2. CallOK(k)'
  BY <1>1 DEF CallOK
<1>3. CallsSound'
  BY <1>1, <1>2, CallsStep
<1> QED BY <1>3 DEF CallsSound, CallOK, Idle

LEMMA TokensKept ==
    ASSUME AccountsTypeOK, TokensSound, Onward, NEW t \in tokens
    PROVE  Exists(t.emp)' /\ Proof(t.emp, t.ver, t.pw)'
BY ProofKept, TokenFields DEF TokensSound

\* What does not change the accounts leaves all of them alone.
LEMMA OnwardSame ==
    ASSUME AccountsTypeOK, emp' = emp
    PROVE  Onward
<1>1. \A e \in Employees : Exists(e) => emp[e].ver \in Nat
  BY AccountFields
<1> QED BY <1>1 DEF Onward, AccountsTypeOK, Exists

-----------------------------------------------------------------------------
(* Calls begin *)

\* A call begins with what it has just read.
LEMMA ReadStep ==
    ASSUME AInv, NEW c \in Clients, Read(c)
    PROVE  /\ UNCHANGED <<emp, settings, tokens, hashes>>
           /\ CallsSound' /\ \A b \in Clients : call'[b].op \in AllOperations \cup {"Idle"}
<1> USE DEF AInv
<1> DEFINE Sound == /\ UNCHANGED <<emp, settings, tokens, hashes>>
                    /\ CallsSound'
<1>1. ASSUME NEW k, CallOK(k), k # Idle, Begin(c, k) PROVE Sound
  <2>1. UNCHANGED <<emp, settings, tokens, hashes>> /\ call' = [call EXCEPT ![c] = k]
    BY <1>1 DEF Begin
  <2>2. Onward
    BY <2>1, OnwardSame
  <2>3. CallOK(k)'
    BY <1>1, <2>2, CallKept
  <2> QED BY <2>1, <2>2, <2>3, CallsStep
<1>2. \A e \in Employees : Exists(e) => emp[e] \in Account /\ emp[e].ver \in Nat
  BY AccountFields
<1>3. settings \in Settings
  BY DEF AccountsTypeOK, Settings
<1>4. ASSUME NEW e \in Employees, NEW m \in Mode, BeginBootstrap(c, e, m) PROVE Sound
  <2>1. PICK k : k = [op |-> "Bootstrap", emp |-> e, mode |-> m]
    OBVIOUS
  <2>2. CallOK(k) /\ k # Idle
    BY <2>1 DEF CallOK, AllOperations, Idle
  <2> QED BY <1>1, <1>4, <2>1, <2>2 DEF BeginBootstrap
<1>5. ASSUME NEW e \in Employees, BeginLogin(c, e) PROVE Sound
  <2>1. PICK k : k = [op |-> "Login", emp |-> e, row |-> emp[e]]
    OBVIOUS
  <2>2. Exists(e)
    BY <1>5 DEF BeginLogin, Active
  <2>3. CallOK(k) /\ k # Idle
    BY <1>2, <2>1, <2>2 DEF CallOK, AllOperations, Idle, Proof
  <2> QED BY <1>1, <1>5, <2>1, <2>3 DEF BeginLogin
<1>6. ASSUME NEW e \in Employees, BeginRecover(c, e) PROVE Sound
  <2>1. PICK k : k = [op |-> "Recover", emp |-> e, row |-> emp[e], settings |-> settings]
    OBVIOUS
  <2>2. CallOK(k) /\ k # Idle
    BY <1>6, <2>1 DEF BeginRecover, IsOwner, Admin, Active, CallOK, AllOperations, Idle
  <2> QED BY <1>1, <1>6, <2>1, <2>2 DEF BeginRecover
<1>7. ASSUME NEW t \in tokens, BeginRefresh(c, t) PROVE Sound
  <2>0. t.emp \in Employees /\ t.pw \in Nat /\ Exists(t.emp) /\ Proof(t.emp, t.ver, t.pw)
        /\ t.ver = emp[t.emp].ver
    BY <1>7, TokenFields DEF BeginRefresh, TokensSound
  <2> DEFINE row == [emp[t.emp] EXCEPT !.pw = t.pw]
  <2>1. row \in Account /\ row.ver = emp[t.emp].ver /\ row.pw = t.pw
    BY <1>2, <2>0 DEF Account
  <2> HIDE DEF row
  <2>2. PICK k : k = [op |-> "Refresh", emp |-> t.emp, row |-> row]
    OBVIOUS
  <2>3. CallOK(k) /\ k # Idle
    BY <1>2, <2>0, <2>1, <2>2 DEF CallOK, AllOperations, Idle, Proof
  <2> QED BY <1>1, <1>7, <2>2, <2>3 DEF BeginRefresh, row
<1>8. ASSUME NEW t \in tokens, BeginChangePassword(c, t) PROVE Sound
  <2>1. PICK k : k = [op |-> "ChangePassword", emp |-> t.emp, row |-> emp[t.emp]]
    OBVIOUS
  <2>2. CallOK(k) /\ k # Idle
    BY <2>1, TokenFields DEF TokensSound, CallOK, AllOperations, Idle
  <2> QED BY <1>1, <1>8, <2>1, <2>2 DEF BeginChangePassword
<1>9. ASSUME NEW t \in tokens, BeginSave(c, t) PROVE Sound
  <2>0. PICK rev \in {settings.rev, -1} : Begin(c, [op |-> "Save", emp |-> t.emp, rev |-> rev])
    BY <1>9 DEF BeginSave
  <2>1. PICK k : k = [op |-> "Save", emp |-> t.emp, rev |-> rev]
    OBVIOUS
  <2>2. CallOK(k) /\ k # Idle
    BY <2>1, TokenFields DEF TokensSound, CallOK, AllOperations, Idle
  <2> QED BY <1>1, <2>0, <2>1, <2>2
<1>10. ASSUME NEW t \in tokens, NEW e \in Employees, BeginSetPassword(c, t, e) PROVE Sound
  <2>1. PICK k : k = [op |-> "SetPassword", emp |-> e]
    OBVIOUS
  <2>2. CallOK(k) /\ k # Idle
    BY <1>10, <2>1 DEF BeginSetPassword, CallOK, AllOperations, Idle
  <2> QED BY <1>1, <1>10, <2>1, <2>2 DEF BeginSetPassword
<1>11. ASSUME NEW t \in tokens, NEW e \in Employees, NEW r \in Role, BeginCreate(c, t, e, r)
       PROVE  Sound
  <2>1. PICK k : k = [op |-> "Create", emp |-> e, role |-> r]
    OBVIOUS
  <2>2. ~NobodyExists
    BY TokenFields DEF TokensSound, NobodyExists
  <2>3. CallOK(k) /\ k # Idle
    BY <2>1, <2>2 DEF CallOK, AllOperations, Idle
  <2> QED BY <1>1, <1>11, <2>1, <2>3 DEF BeginCreate
<1>12. ASSUME NEW t \in tokens, NEW e \in Employees, NEW ch \in Change, BeginUpdate(c, t, e, ch)
       PROVE  Sound
  <2>1. PICK k : k = [op |-> "Update", emp |-> e, change |-> ch]
    OBVIOUS
  <2>2. CallOK(k) /\ k # Idle
    BY <1>12, <2>1 DEF BeginUpdate, CallOK, AllOperations, Idle
  <2> QED BY <1>1, <1>12, <2>1, <2>2 DEF BeginUpdate
<1>13. ASSUME NEW t \in tokens, NEW m \in Mode, BeginChangeMode(c, t, m) PROVE Sound
  <2>1. PICK k : k = [op |-> "ChangeMode", emp |-> t.emp, mode |-> m, settings |-> settings]
    OBVIOUS
  <2>2. CallOK(k) /\ k # Idle
    BY <1>3, <1>13, <2>1, TokenFields
       DEF BeginChangeMode, TokensSound, CallOK, AllOperations, Idle
  <2> QED BY <1>1, <1>13, <2>1, <2>2 DEF BeginChangeMode
<1>14. Sound
  BY <1>4, <1>5, <1>6, <1>7, <1>8, <1>9, <1>10, <1>11, <1>12, <1>13 DEF Read
<1> QED BY <1>14 DEF CallsSound, CallOK, Idle

-----------------------------------------------------------------------------
(* Calls end *)

\* What is known of a call when it ends.
LEMMA Committed ==
    ASSUME CallsSound, NEW c \in Clients, NEW op \in AllOperations, Commits(c, op)
    PROVE  /\ call[c] # Idle /\ call[c].op = op /\ CallOK(call[c])
           /\ call[c].emp \in Employees
           /\ call' = [call EXCEPT ![c] = Idle] /\ call'[c] = Idle
<1>1. CallOK(call[c]) /\ DOMAIN call = Clients
  BY DEF CallsSound
<1>2. call[c].op = op /\ call' = [call EXCEPT ![c] = Idle]
  BY DEF Commits
<1>3. call[c] # Idle
  BY <1>2 DEF Idle, AllOperations
<1> QED BY <1>1, <1>2, <1>3 DEF CallOK

\* The effect of a call on the accounts and the settings.
Effect ==
    /\ Onward /\ Frozen /\ AdminRemains' /\ Untouched'
    /\ hashes' \in 0 .. MaxHashes /\ settings' \in Settings

LEMMA SameEffect ==
    ASSUME AInv, UNCHANGED <<emp, settings, hashes>>
    PROVE  Effect
<1> USE DEF AInv
<1>1. Onward
  BY OnwardSame
<1>2. AdminRemains'
  BY DEF AdminRemains, Exists, Admin, Active
<1>3. Untouched'
  BY DEF Untouched, NobodyExists, Exists
<1> QED BY <1>1, <1>2, <1>3 DEF Effect, Frozen, AccountsTypeOK, Settings, Solo

LEMMA PasswordEffect ==
    ASSUME AInv, NEW e \in Employees, Exists(e), WritePassword(e)
    PROVE  Effect
<1> USE DEF AInv
<1>1. /\ Onward /\ hashes' \in 0 .. MaxHashes /\ emp[e].ver < emp'[e].ver
      /\ emp'[e].role = emp[e].role /\ emp'[e].active = emp[e].active
      /\ \A a \in Employees : a # e => emp'[a] = emp[a]
  BY WriteStep
<1>2. settings' = settings
  BY DEF WritePassword
<1>3. PICK a \in Employees : Admin(a)
  BY DEF AdminRemains
<1>4. Admin(a)'
  <2>1. Exists(a)'
    BY <1>1, <1>3 DEF Onward, Admin, Active
  <2> QED BY <1>1, <1>3, <2>1 DEF Admin, Active
<1>5. ~NobodyExists'
  BY <1>4 DEF NobodyExists, Admin, Active
<1> QED BY <1>1, <1>2, <1>4, <1>5
        DEF Effect, Frozen, AdminRemains, Untouched, Settings, AccountsTypeOK, Solo

LEMMA BootstrapEffect ==
    ASSUME AInv, NEW c \in Clients, Bootstrap(c)
    PROVE  Effect
<1> USE DEF AInv
<1>0. /\ call[c].emp \in Employees /\ CallOK(call[c]) /\ call[c].op = "Bootstrap"
      /\ call[c] # Idle
  BY Committed DEF Bootstrap, AllOperations
<1>1. PICK e \in Employees : e = call[c].emp
  BY <1>0
<1>2. NobodyExists /\ ~Exists(e) /\ NewAccount(e, "HRAdmin")
  BY <1>1 DEF Bootstrap, NobodyExists
<1>3. /\ Onward /\ hashes' \in 0 .. MaxHashes
      /\ emp'[e].role = "HRAdmin" /\ emp'[e].active /\ Exists(e)'
  BY <1>1, <1>2, NewAccountStep DEF Role
<1>4. Admin(e)'
  BY <1>3 DEF Admin, Active
<1>5. call[c].mode \in Mode
  BY <1>0 DEF CallOK
<1>6. settings \in Settings /\ settings.rev = 0 /\ settings.rev + 1 \in 0 .. MaxChanges
  BY <1>2, AccountsAssumption DEF Untouched, AccountsTypeOK, Settings
<1>7. settings' \in Settings
  <2> DEFINE owner == IF call[c].mode = "Solo" THEN e ELSE Nobody
  <2>1. settings' = [settings EXCEPT !.mode = call[c].mode, !.owner = owner, !.rev = @ + 1]
    BY <1>1 DEF Bootstrap
  <2>2. owner \in Employees \cup {Nobody}
    BY <1>1
  <2> HIDE DEF owner
  <2> QED BY <1>5, <1>6, <2>1, <2>2 DEF Settings
<1> QED BY <1>1, <1>2, <1>3, <1>4, <1>7
        DEF Effect, Frozen, AdminRemains, Untouched, NobodyExists

LEMMA CreateEffect ==
    ASSUME AInv, NEW c \in Clients, Create(c)
    PROVE  Effect
<1> USE DEF AInv
<1>0. /\ call[c].emp \in Employees /\ CallOK(call[c]) /\ call[c].op = "Create"
      /\ call[c] # Idle
  BY Committed DEF Create, AllOperations
<1>1. PICK e \in Employees : e = call[c].emp
  BY <1>0
<1>2. ~Exists(e) /\ NewAccount(e, call[c].role) /\ settings' = settings
      /\ call[c].role \in Role /\ ~NobodyExists
  BY <1>0, <1>1 DEF Create, CallOK
<1>3. /\ Onward /\ hashes' \in 0 .. MaxHashes /\ Exists(e)'
      /\ \A a \in Employees : a # e => emp'[a] = emp[a]
  BY <1>1, <1>2, NewAccountStep
<1>4. PICK a \in Employees : Admin(a)
  BY <1>2 DEF AdminRemains, NobodyExists
<1>5. Admin(a)'
  BY <1>2, <1>3, <1>4 DEF Admin, Active, Exists
<1> QED BY <1>1, <1>2, <1>3, <1>5
        DEF Effect, Frozen, AdminRemains, Untouched, NobodyExists, Settings, AccountsTypeOK

LEMMA UpdateEffect ==
    ASSUME AInv, NEW c \in Clients, Update(c)
    PROVE  Effect
<1> USE DEF AInv
<1> DEFINE e == call[c].emp
           ch == call[c].change
<1>1. e \in Employees /\ CallOK(call[c]) /\ call[c].op = "Update" /\ call[c] # Idle
  BY Committed DEF Update, AllOperations
<1>2. Exists(e) /\ ch \in Change
  BY <1>1 DEF CallOK
<1>3. /\ ~Solo /\ KeepsAdmin(e, ch) /\ emp' = [emp EXCEPT ![e] = Changed(@, ch)]
      /\ settings' = settings /\ hashes' = hashes
  BY DEF Update
<1>4. /\ Onward
      /\ emp'[e].role = (IF ch \in Role THEN ch ELSE emp[e].role)
      /\ emp'[e].active = (IF ch \in Role THEN emp[e].active ELSE ch = "Reactivate")
      /\ \A a \in Employees : a # e => emp'[a] = emp[a]
  BY <1>1, <1>2, <1>3, ChangedStep
<1>5. \E a \in Employees : Admin(a)'
  <2>1. PICK a \in Employees : Admin(a)
    BY <1>1, <1>2 DEF AdminRemains
  <2>2. CASE a # e
    BY <1>4, <2>1, <2>2 DEF Admin, Active, Exists
  <2>3. CASE a = e /\ ch \in {"Deactivate", "Employee"}
    <3>1. PICK b \in Employees \ {e} : Admin(b)
      BY <1>3, <2>1, <2>3 DEF KeepsAdmin, OtherAdmins
    <3> QED BY <1>4, <3>1 DEF Admin, Active, Exists
  <2>4. CASE a = e /\ ch = "Reactivate"
    <3>1. emp'[e].active = TRUE /\ emp'[e].role = emp[e].role
      BY <1>4, <2>4 DEF Role
    <3> QED BY <1>1, <1>2, <1>4, <2>1, <2>4, <3>1 DEF Admin, Active, Onward
  <2>5. CASE a = e /\ ch = "HRAdmin"
    <3>1. emp'[e].active = emp[e].active /\ emp'[e].role = "HRAdmin"
      BY <1>4, <2>5 DEF Role
    <3> QED BY <1>1, <1>2, <1>4, <2>1, <2>5, <3>1 DEF Admin, Active, Onward
  <2> QED BY <1>2, <2>2, <2>3, <2>4, <2>5 DEF Change, Role
<1>6. ~NobodyExists'
  BY <1>1, <1>2, <1>4 DEF NobodyExists, Onward
<1> QED BY <1>3, <1>4, <1>5, <1>6
        DEF Effect, Frozen, AdminRemains, Untouched, Settings, AccountsTypeOK, Solo

LEMMA SettingsEffect ==
    ASSUME AInv, UNCHANGED <<emp, hashes>>, settings' \in Settings, ~NobodyExists,
           Solo /\ Solo' => settings'.owner = settings.owner
    PROVE  Effect
<1> USE DEF AInv
<1>1. Onward
  BY OnwardSame
<1>2. AdminRemains'
  BY DEF AdminRemains, Exists, Admin, Active
<1>3. ~NobodyExists'
  BY DEF NobodyExists, Exists
<1> QED BY <1>1, <1>2, <1>3 DEF Effect, Frozen, AccountsTypeOK, Untouched

LEMMA ChangeModeEffect ==
    ASSUME AInv, NEW c \in Clients, ChangeMode(c)
    PROVE  Effect
<1> USE DEF AInv
<1>1. /\ call[c].emp \in Employees /\ CallOK(call[c]) /\ call[c].op = "ChangeMode"
      /\ call[c] # Idle
  BY Committed DEF ChangeMode, AllOperations
<1>2. /\ Exists(call[c].emp) /\ call[c].mode \in Mode /\ call[c].mode # call[c].settings.mode
  BY <1>1 DEF CallOK
<1>3. /\ settings = call[c].settings /\ settings.rev < MaxChanges
      /\ settings' = [mode |-> call[c].mode, owner |-> call[c].emp, rev |-> settings.rev + 1]
      /\ UNCHANGED <<emp, hashes>>
  BY DEF ChangeMode
<1>4. settings.rev \in Nat /\ settings.rev + 1 \in 0 .. MaxChanges
  BY <1>3, AccountsAssumption DEF AccountsTypeOK
<1>5. settings' \in Settings
  BY <1>1, <1>2, <1>3, <1>4 DEF Settings
<1>6. ~(Solo /\ Solo')
  BY <1>2, <1>3 DEF Solo
<1> QED BY <1>1, <1>2, <1>3, <1>5, <1>6, SettingsEffect DEF NobodyExists

LEMMA SaveEffect ==
    ASSUME AInv, NEW c \in Clients, Save(c)
    PROVE  Effect
<1> USE DEF AInv
<1>1. call[c].emp \in Employees
  BY Committed DEF Save, AllOperations
<1>2. /\ Exists(call[c].emp) /\ settings.rev < MaxChanges
      /\ settings' = [settings EXCEPT !.rev = @ + 1]
      /\ UNCHANGED <<emp, hashes>>
  BY DEF Save, IsOwner, Admin, Active
<1>3. settings \in Settings /\ settings.rev + 1 \in 0 .. MaxChanges
  BY <1>2, AccountsAssumption DEF AccountsTypeOK, Settings
<1>4. settings' \in Settings /\ settings'.owner = settings.owner
  BY <1>2, <1>3 DEF Settings
<1> QED BY <1>1, <1>2, <1>4, SettingsEffect DEF NobodyExists

\* Every step of the accounts has such an effect, and ends with sound calls and tokens.
LEMMA AccountsStep ==
    ASSUME AInv, [AccountsNext]_accounts
    PROVE  AInv' /\ Onward /\ Frozen
<1> USE DEF AInv
<1>1. ASSUME Effect, tokens' = tokens,
             CallsSound' /\ \A b \in Clients : call'[b].op \in AllOperations \cup {"Idle"}
      PROVE  AInv' /\ Onward /\ Frozen
  <2>1. TokensSound'
    BY <1>1, TokensKept DEF Effect, TokensSound
  <2>2. AccountsTypeOK'
    BY <1>1 DEF Effect, AccountsTypeOK, Onward, Settings
  <2> QED BY <1>1, <2>1, <2>2 DEF Effect
<1>2. ASSUME NEW c \in Clients, Effect, call' = [call EXCEPT ![c] = Idle]
      PROVE  CallsSound' /\ \A b \in Clients : call'[b].op \in AllOperations \cup {"Idle"}
  BY <1>2, EndStep DEF Effect
<1>3. ASSUME NEW c \in Clients, Read(c) PROVE AInv' /\ Onward /\ Frozen
  BY <1>1, <1>3, ReadStep, SameEffect
<1>4. ASSUME NEW c \in Clients, Abort(c) PROVE AInv' /\ Onward /\ Frozen
  BY <1>1, <1>2, <1>4, SameEffect DEF Abort
<1>5. ASSUME NEW c \in Clients, NEW op \in {"ChangePassword", "SetPassword", "Recover"},
             Commits(c, op), WritePassword(call[c].emp)
      PROVE  AInv' /\ Onward /\ Frozen
  <2>1. /\ call' = [call EXCEPT ![c] = Idle] /\ call[c].emp \in Employees
        /\ CallOK(call[c]) /\ call[c].op = op /\ call[c] # Idle
    BY <1>5, Committed DEF AllOperations
  <2>2. Exists(call[c].emp)
    BY <2>1 DEF CallOK
  <2>3. Effect
    BY <1>5, <2>1, <2>2, PasswordEffect
  <2> QED BY <1>1, <1>2, <1>5, <2>1, <2>3 DEF WritePassword
<1>6. ASSUME NEW c \in Clients, Bootstrap(c) \/ Create(c) \/ Update(c) \/ ChangeMode(c) \/ Save(c)
      PROVE  AInv' /\ Onward /\ Frozen
  <2>1. Effect
    BY <1>6, BootstrapEffect, CreateEffect, UpdateEffect, ChangeModeEffect, SaveEffect
  <2>2. call' = [call EXCEPT ![c] = Idle] /\ tokens' = tokens
    BY <1>6 DEF Bootstrap, Create, Update, ChangeMode, Save, Commits
  <2> QED BY <1>1, <1>2, <2>1, <2>2
<1>7. ASSUME NEW c \in Clients, Issue(c) PROVE AInv' /\ Onward /\ Frozen
  <2> DEFINE e == call[c].emp
             row == call[c].row
  <2>1. /\ call' = [call EXCEPT ![c] = Idle] /\ e \in Employees /\ CallOK(call[c])
        /\ call[c].op \in {"Login", "Refresh"} /\ call[c] # Idle
        /\ tokens' = tokens \cup Pair(e, row) /\ UNCHANGED <<emp, settings, hashes>>
    BY <1>7, Committed DEF Issue, AllOperations
  <2>2. row \in Account /\ Proof(e, row.ver, row.pw) /\ Exists(e)
    BY <2>1 DEF CallOK
  <2>3. row.ver \in Nat /\ row.pw \in Nat
    BY <2>2 DEF Account
  <2>4. Effect
    BY <2>1, SameEffect
  <2>5. ASSUME NEW t \in Pair(e, row)
        PROVE  t \in Token /\ t.emp = e /\ t.ver = row.ver /\ t.pw = row.pw
    BY <2>1, <2>3 DEF Pair, Token
  <2>6. TokensSound'
    <3>1. ASSUME NEW t \in tokens PROVE Exists(t.emp)' /\ Proof(t.emp, t.ver, t.pw)'
      BY <2>4, TokensKept DEF Effect
    <3>2. ASSUME NEW t \in Pair(e, row) PROVE Exists(t.emp)' /\ Proof(t.emp, t.ver, t.pw)'
      <4>1. Exists(t.emp) /\ Proof(t.emp, t.ver, t.pw) /\ t.emp \in Employees /\ t.ver \in Nat
        BY <2>1, <2>2, <2>3, <2>5
      <4> QED BY <2>4, <4>1, ProofKept DEF Effect
    <3> HIDE DEF row, e
    <3> QED BY <2>1, <3>1, <3>2 DEF TokensSound
  <2>7. tokens' \subseteq Token
    BY <2>1, <2>5 DEF AccountsTypeOK
  <2>8. CallsSound' /\ \A b \in Clients : call'[b].op \in AllOperations \cup {"Idle"}
    BY <1>2, <2>1, <2>4
  <2>9. AccountsTypeOK'
    BY <2>4, <2>7, <2>8 DEF Effect, AccountsTypeOK, Onward, Settings
  <2> QED BY <2>4, <2>6, <2>8, <2>9 DEF Effect
<1>8. CASE UNCHANGED accounts
  <2>1. Effect
    BY <1>8, SameEffect DEF accounts
  <2>2. CallsSound'
    <3>1. ASSUME NEW b \in Clients PROVE CallOK(call[b])'
      <4>1. PICK k : k = call[b]
        OBVIOUS
      <4>2. CallOK(k)'
        BY <2>1, <4>1, CallKept DEF CallsSound, Effect
      <4> QED BY <1>8, <4>1, <4>2 DEF accounts
    <3> QED BY <1>8, <3>1 DEF accounts, CallsSound
  <2>3. \A b \in Clients : call'[b].op \in AllOperations \cup {"Idle"}
    BY <1>8 DEF accounts, AccountsTypeOK
  <2> QED BY <1>1, <1>8, <2>1, <2>2, <2>3 DEF accounts
<1>9. ASSUME NEW c \in Clients, Write(c) PROVE AInv' /\ Onward /\ Frozen
  BY <1>5, <1>6, <1>7, <1>9 DEF Write, ChangePassword, SetPassword, Recover
<1> QED BY <1>3, <1>4, <1>8, <1>9 DEF AccountsNext

\* In the beginning there is nobody.
LEMMA AccountsStart ==
    ASSUME AccountsInit
    PROVE  AInv
<1>1. NobodyExists /\ settings.rev = 0
  BY DEF AccountsInit, NobodyExists, Exists, Absent
<1>2. AccountsTypeOK
  BY AccountsAssumption DEF AccountsInit, AccountsTypeOK, Mode, AllOperations, Idle
<1>3. CallsSound /\ TokensSound
  BY DEF AccountsInit, CallsSound, TokensSound, CallOK
<1> QED BY <1>1, <1>2, <1>3 DEF AInv, Untouched, AdminRemains, NobodyExists

\* Only an administrator replaces a password without having proved it.
LEMMA PasswordStep ==
    ASSUME AInv, [AccountsNext]_accounts, NEW e \in Employees, Exists(e),
           emp'[e].pw # emp[e].pw
    PROVE  \E c \in Clients :
             /\ call[c] # Idle /\ call'[c] = Idle /\ call[c].emp = e
             /\ call[c].op # "SetPassword" => call[c].row.pw = emp[e].pw
<1> USE DEF AInv
<1>1. PICK c \in Clients : Write(c)
  BY ReadStep DEF AccountsNext, Abort, accounts
<1>2. emp \in [Employees -> {Absent} \cup Account]
  BY DEF AccountsTypeOK
<1>3. ASSUME NEW op \in {"ChangePassword", "SetPassword", "Recover"},
             Commits(c, op), WritePassword(call[c].emp),
             op # "SetPassword" => call[c].row.pw = emp[call[c].emp].pw
      PROVE  /\ call[c] # Idle /\ call'[c] = Idle /\ call[c].emp = e
             /\ call[c].op # "SetPassword" => call[c].row.pw = emp[e].pw
  <2>1. call[c] # Idle /\ call'[c] = Idle /\ call[c].op = op /\ call[c].emp \in Employees
    BY <1>3, Committed DEF AllOperations
  <2>2. call[c].emp = e
    BY <1>2, <1>3, <2>1 DEF WritePassword
  <2> QED BY <1>3, <2>1, <2>2
<1>4. ASSUME Bootstrap(c) \/ Create(c) PROVE FALSE
  <2>1. PICK a \in Employees, role \in Role : ~Exists(a) /\ NewAccount(a, role)
    <3>1. CASE Bootstrap(c)
      BY <3>1, Committed DEF Bootstrap, AllOperations, Role
    <3>2. CASE Create(c)
      <4>1. /\ call[c].emp \in Employees /\ CallOK(call[c]) /\ call[c].op = "Create"
            /\ call[c] # Idle
        BY <3>2, Committed DEF Create, AllOperations
      <4>2. call[c].role \in Role
        BY <4>1 DEF CallOK
      <4> QED BY <3>2, <4>1, <4>2 DEF Create
    <3> QED BY <1>4, <3>1, <3>2
  <2> QED BY <1>2, <2>1 DEF NewAccount
<1>5. ASSUME Update(c) PROVE FALSE
  <2>1. /\ call[c].emp \in Employees /\ CallOK(call[c]) /\ call[c].op = "Update"
        /\ call[c] # Idle
    BY <1>5, Committed DEF Update, AllOperations
  <2>2. call[c].change \in Change /\ Exists(call[c].emp)
    BY <2>1 DEF CallOK
  <2>3. emp[call[c].emp] \in Account
    BY <2>1, <2>2, AccountFields
  <2>4. Changed(emp[call[c].emp], call[c].change).pw = emp[call[c].emp].pw
    BY <2>3 DEF Changed, Account
  <2> QED BY <1>2, <1>5, <2>1, <2>4 DEF Update
<1>6. ASSUME emp' = emp PROVE FALSE
  BY <1>6
<1>7. Issue(c) \/ ChangeMode(c) \/ Save(c) => emp' = emp
  BY DEF Issue, ChangeMode, Save
<1>8. ChangePassword(c) => call[c].row.pw = emp[call[c].emp].pw
  BY DEF ChangePassword, StillProved
<1>9. Recover(c) => call[c].row.pw = emp[call[c].emp].pw
  BY DEF Recover
<1> QED BY <1>1, <1>3, <1>4, <1>5, <1>6, <1>7, <1>8, <1>9
        DEF Write, ChangePassword, SetPassword, Recover

\* Tokens are never taken back.
LEMMA TokensGrow ==
    ASSUME AInv, [AccountsNext]_accounts
    PROVE  tokens \subseteq tokens'
<1>1. ASSUME NEW c \in Clients, Read(c) PROVE tokens' = tokens
  BY <1>1, ReadStep
<1>2. ASSUME NEW c \in Clients, Write(c) PROVE tokens \subseteq tokens'
  BY <1>2 DEF Write, Issue, ChangePassword, SetPassword, Recover, WritePassword, Bootstrap,
             Create, Update, ChangeMode, Save
<1> QED BY <1>1, <1>2 DEF AccountsNext, Abort, accounts

-----------------------------------------------------------------------------
(* Theorems about the accounts *)

\* The invariant holds in every behaviour of the accounts.
THEOREM AccountsInvariant == AccountsSpec => []AInv
<1>1. AccountsInit => AInv
  BY AccountsStart
<1>2. AInv /\ [AccountsNext]_accounts => AInv'
  BY AccountsStep
<1> QED BY <1>1, <1>2, PTL DEF AccountsSpec

\* Every variable has its type.
THEOREM AccountsTypes == AccountsSpec => []AccountsTypeOK
<1>1. AInv => AccountsTypeOK
  BY DEF AInv
<1> QED BY <1>1, AccountsInvariant, PTL

\* Whatever administrators do to each other, an active one remains.
THEOREM AnAdminRemains == AccountsSpec => []AdminRemains
<1>1. AInv => AdminRemains
  BY DEF AInv
<1> QED BY <1>1, AccountsInvariant, PTL

\* A token that is still good was obtained with the password of today.
THEOREM SessionsKnowThePassword == AccountsSpec => []SessionsKnowPassword
<1>1. AInv => SessionsKnowPassword
  BY DEF AInv, TokensSound, Proof, SessionsKnowPassword
<1> QED BY <1>1, AccountsInvariant, PTL

\* A password that was replaced while somebody hashed is not overwritten by them.
THEOREM PasswordsNotOverwritten == AccountsSpec => NoPasswordOverwritten
<1> DEFINE Proved == \A e \in Employees : Exists(e) /\ emp'[e].pw # emp[e].pw =>
      \E c \in Clients :
          /\ call[c] # Idle /\ call'[c] = Idle /\ call[c].emp = e
          /\ call[c].op # "SetPassword" => call[c].row.pw = emp[e].pw
<1>1. AInv /\ [AccountsNext]_accounts => [Proved]_accounts
  BY PasswordStep
<1>2. AccountsSpec => [][Proved]_accounts
  BY <1>1, AccountsInvariant, PTL DEF AccountsSpec
<1> QED BY <1>2 DEF NoPasswordOverwritten

-----------------------------------------------------------------------------
(* Sockets and broadcasts *)

Connection == [phase: {"verified", "known", "allowed", "admitted", "live"}, tok: tokens,
               up: BOOLEAN, expired: BOOLEAN, timer: BOOLEAN]

\* A connection has a token for access, and its timer once it is registered.
SocketsSound ==
    /\ sockets \in [Sockets -> {Closed} \cup Connection]
    /\ \A s \in Sockets : sockets[s] # Closed =>
         sockets[s].tok.typ = "access" /\ (sockets[s].timer <=> Live(s))

Broadcast == [phase: {"reading"}, subject: Employees \cup {Nobody}, to: SUBSET Sockets,
              settings: SUBSET Settings,
              rows: SUBSET [Employees -> {Absent} \cup Account]]

\* A broadcast is to sockets that were registered, and have read each at most once.
FanSound ==
    /\ fan = Quiet => met = {} /\ fit = {}
    /\ fan # Quiet =>
         /\ fan \in Broadcast
         /\ \A s \in fan.to : sockets[s] = Closed \/ Live(s)
         /\ \A f, g \in fan.settings : f = g
         /\ \A f, g \in fan.rows : f = g
    /\ met \subseteq Sockets /\ fit \subseteq met

\* In an account table the session of s is good.
Good(s, rows) ==
    LET t == sockets[s].tok
    IN  Live(s) /\ ~sockets[s].expired /\ rows[t.emp].active /\ rows[t.emp].ver = t.ver

\* Whoever the event will be sent to is known to be entitled, whichever query
\* is answered first.
EntitledNoted ==
    fan # Quiet =>
        /\ \A conf \in fan.settings : fan.rows = {} => Recipients(conf, emp) \subseteq fit
        /\ \A rows \in fan.rows : fan.settings = {} =>
             \A s \in fan.to : Good(s, rows) =>
               /\ s \in met
               /\ s \in fit \/ (Solo /\ s \notin Recipients(settings, rows))
        /\ \A conf \in fan.settings, rows \in fan.rows : Recipients(conf, rows) \subseteq fit

RInv == AInv /\ SocketsSound /\ FanSound /\ EntitledNoted /\ NoLeakedConnection

LEMMA SocketFields ==
    ASSUME SocketsSound, NEW s \in Sockets
    PROVE  /\ sockets[s] = Closed \/ sockets[s] \in Connection
           /\ Live(s) => /\ sockets[s] # Closed /\ sockets[s] \in Connection
                         /\ sockets[s].tok \in tokens /\ sockets[s].tok.typ = "access"
                         /\ sockets[s].expired \in BOOLEAN
           /\ sockets[s] # Closed => sockets[s].phase # "closed"
BY DEF SocketsSound, Connection, Live, Closed

\* A socket of a broadcast in progress only ages: it is never registered anew.
Aged ==
    \A s \in Sockets : fan # Quiet /\ s \in fan.to =>
        /\ sockets'[s] = Closed \/ Live(s)'
        /\ Live(s)' => /\ Live(s) /\ sockets'[s].tok = sockets[s].tok
                       /\ ~sockets'[s].expired => ~sockets[s].expired

\* What a step makes of the sockets.
Tended == SocketsSound' /\ NoLeakedConnection' /\ Aged

LEMMA ClosingStep ==
    ASSUME SocketsSound, FanSound, NoLeakedConnection, tokens' = tokens,
           NEW S, sockets' = Closing(S)
    PROVE  Tended
<1>1. \A s \in Sockets : sockets'[s] = IF s \in S THEN Closed ELSE sockets[s]
  BY DEF Closing
<1>2. SocketsSound'
  <2>1. sockets' \in [Sockets -> {Closed} \cup Connection]
    BY <1>1 DEF Closing, SocketsSound
  <2>2. Connection' = Connection
    BY DEF Connection
  <2> QED BY <1>1, <2>1, <2>2 DEF SocketsSound, Live
<1>3. NoLeakedConnection'
  BY <1>1 DEF NoLeakedConnection, Live, Closed
<1>4. Aged
  BY <1>1 DEF Aged, Live, Closed, FanSound
<1> QED BY <1>2, <1>3, <1>4 DEF Tended

LEMMA ChangeStep ==
    ASSUME SocketsSound, FanSound, NoLeakedConnection, tokens' = tokens,
           NEW s \in Sockets, NEW r \in Connection, sockets' = [sockets EXCEPT ![s] = r],
           r.tok.typ = "access", r.timer <=> r.phase = "live", r.phase = "live" => r.up,
           fan # Quiet /\ s \in fan.to =>
             /\ r.phase = "live" /\ Live(s) /\ r.tok = sockets[s].tok
             /\ ~r.expired => ~sockets[s].expired
    PROVE  Tended
<1>1. \A a \in Sockets : sockets'[a] = IF a = s THEN r ELSE sockets[a]
  BY DEF SocketsSound
<1>2. SocketsSound'
  <2>1. sockets' \in [Sockets -> {Closed} \cup Connection]
    BY DEF SocketsSound
  <2>2. Connection' = Connection
    BY DEF Connection
  <2> QED BY <1>1, <2>1, <2>2 DEF SocketsSound, Live
<1>3. NoLeakedConnection'
  BY <1>1 DEF NoLeakedConnection, Live
<1>4. Aged
  BY <1>1 DEF Aged, Live, FanSound
<1> QED BY <1>2, <1>3, <1>4 DEF Tended

LEMMA SameSockets ==
    ASSUME SocketsSound, FanSound, NoLeakedConnection, tokens \subseteq tokens', sockets' = sockets
    PROVE  Tended
<1>1. SocketsSound'
  BY DEF SocketsSound, Connection, Live
<1>2. NoLeakedConnection'
  BY DEF NoLeakedConnection, Live
<1>3. Aged
  BY DEF Aged, Live, FanSound
<1> QED BY <1>1, <1>2, <1>3 DEF Tended

\* Every step of the gateway tends its sockets.
LEMMA TendedStep ==
    ASSUME AInv, SocketsSound, FanSound, NoLeakedConnection, RealtimeSteps, UNCHANGED accounts
    PROVE  Tended
<1>0. tokens' = tokens
  BY DEF accounts
<1>1. ASSUME NEW S, sockets' = Closing(S) PROVE Tended
  BY <1>0, <1>1, ClosingStep
<1>2. ASSUME NEW s \in Sockets, InHandshake(s)
      PROVE  /\ sockets[s] \in Connection /\ ~(fan # Quiet /\ s \in fan.to)
             /\ sockets[s].tok.typ = "access" /\ ~sockets[s].timer
  <2>1. sockets[s] # Closed /\ ~Live(s)
    BY <1>2 DEF InHandshake, Closed, Live
  <2> QED BY <2>1 DEF SocketsSound, FanSound, Connection
<1>3. ASSUME NEW s \in Sockets, InHandshake(s), NEW p \in {"known", "allowed", "admitted"},
             Advance(s, p)
      PROVE  Tended
  <2> DEFINE r == [sockets[s] EXCEPT !.phase = p]
  <2>1. r \in Connection /\ r.tok = sockets[s].tok /\ r.timer = sockets[s].timer /\ r.phase = p
    BY <1>2, <1>3 DEF Connection
  <2>2. sockets' = [sockets EXCEPT ![s] = r]
    BY <1>3 DEF Advance
  <2> HIDE DEF r
  <2> QED BY <1>0, <1>2, <1>3, <2>1, <2>2, ChangeStep
<1>4. ASSUME NEW s \in Sockets, NEW t \in tokens, Connect(s, t) PROVE Tended
  <2> DEFINE r == [phase |-> "verified", tok |-> t, up |-> TRUE, expired |-> FALSE,
                   timer |-> FALSE]
  <2>1. /\ r \in Connection /\ r.tok.typ = "access" /\ ~r.timer /\ r.phase = "verified"
        /\ sockets' = [sockets EXCEPT ![s] = r]
        /\ fan # Quiet => s \notin fan.to
    BY <1>4 DEF Connect, Connection
  <2> HIDE DEF r
  <2>2. /\ r.timer <=> r.phase = "live"
        /\ r.phase = "live" => r.up
    BY <2>1
  <2> QED BY <1>0, <2>1, <2>2, ChangeStep
<1>5. ASSUME NEW s \in Sockets, ReadSession(s) \/ ReadAccess(s) \/ ReadOwner(s) PROVE Tended
  <2>1. InHandshake(s)
    BY <1>5 DEF ReadSession, ReadAccess, ReadOwner, InHandshake
  <2>2. sockets' = Closing({s}) \/ \E p \in {"known", "allowed", "admitted"} : Advance(s, p)
    BY <1>5 DEF ReadSession, ReadAccess, ReadOwner
  <2> QED BY <1>1, <1>3, <2>1, <2>2
<1>6. ASSUME NEW s \in Sockets, Register(s) PROVE Tended
  <2>0. InHandshake(s)
    BY <1>6 DEF Register, InHandshake
  <2>1. CASE StillThere(s)
    <3> DEFINE r == [sockets[s] EXCEPT !.phase = "live", !.timer = TRUE]
    <3>1. /\ r \in Connection /\ r.tok = sockets[s].tok /\ r.timer /\ r.phase = "live"
          /\ r.up = sockets[s].up
      BY <1>2, <2>0 DEF Connection
    <3>2. sockets' = [sockets EXCEPT ![s] = r] /\ sockets[s].up
      BY <1>6, <2>1 DEF Register, Registered, StillThere
    <3> HIDE DEF r
    <3> QED BY <1>0, <1>2, <2>0, <3>1, <3>2, ChangeStep
  <2>2. CASE ~StillThere(s)
    <3>1. sockets' = Closing({s})
      <4>1. sockets' = [sockets EXCEPT ![s] = Closed]
        BY <1>6, <2>2 DEF Register
      <4> QED BY <4>1 DEF Closing, SocketsSound
    <3> QED BY <1>1, <3>1
  <2> QED BY <2>1, <2>2
<1>7. ASSUME NEW s \in Sockets, HandshakeFails(s) \/ ExpiryTimer(s) PROVE Tended
  BY <1>1, <1>7 DEF HandshakeFails, ExpiryTimer
<1>8. ASSUME NEW s \in Sockets, HangUp(s) PROVE Tended
  <2>1. CASE Live(s)
    BY <1>1, <1>8, <2>1 DEF HangUp
  <2>2. CASE ~Live(s)
    <3> DEFINE r == [sockets[s] EXCEPT !.up = FALSE]
    <3>1. sockets[s] \in Connection /\ sockets[s] # Closed
      BY <1>8, SocketFields DEF HangUp
    <3>2. /\ r \in Connection /\ r.tok = sockets[s].tok /\ r.timer = sockets[s].timer
          /\ r.phase = sockets[s].phase
      BY <3>1 DEF Connection
    <3>3. sockets' = [sockets EXCEPT ![s] = r]
      BY <1>8, <2>2 DEF HangUp
    <3>4. /\ r.tok.typ = "access" /\ ~r.timer /\ r.phase # "live"
          /\ ~(fan # Quiet /\ s \in fan.to)
      BY <2>2, <3>1, <3>2 DEF SocketsSound, FanSound, Live
    <3> HIDE DEF r
    <3> QED BY <1>0, <3>2, <3>3, <3>4, ChangeStep
  <2> QED BY <2>1, <2>2
<1>9. ASSUME NEW s \in Sockets, TokenExpires(s) PROVE Tended
  <2> DEFINE r == [sockets[s] EXCEPT !.expired = TRUE]
  <2>1. sockets[s] \in Connection /\ sockets[s] # Closed
    BY <1>9, SocketFields DEF TokenExpires
  <2>2. /\ r \in Connection /\ r.tok = sockets[s].tok /\ r.timer = sockets[s].timer
        /\ r.phase = sockets[s].phase /\ r.up = sockets[s].up /\ r.expired
    BY <2>1 DEF Connection
  <2>3. sockets' = [sockets EXCEPT ![s] = r]
    BY <1>9 DEF TokenExpires
  <2>4. /\ r.tok.typ = "access"
        /\ r.timer <=> r.phase = "live"
        /\ r.phase = "live" => r.up
        /\ fan # Quiet /\ s \in fan.to => Live(s)
    BY <2>1, <2>2 DEF SocketsSound, FanSound, NoLeakedConnection, Live
  <2> HIDE DEF r
  <2>5. fan # Quiet /\ s \in fan.to =>
          /\ r.phase = "live" /\ Live(s) /\ r.tok = sockets[s].tok
          /\ ~r.expired => ~sockets[s].expired
    BY <2>2, <2>4 DEF Live
  <2> QED BY <1>0, <2>2, <2>3, <2>4, <2>5, ChangeStep
<1>10. ASSUME sockets' = sockets PROVE Tended
  BY <1>0, <1>10, SameSockets
<1>11. ASSUME FetchFails \/ Deliver PROVE Tended
  BY <1>1, <1>11 DEF FetchFails, Deliver
<1>12. ASSUME NEW e, BeginBroadcast(e) PROVE Tended
  BY <1>10, <1>12 DEF BeginBroadcast
<1>13. ASSUME FetchSettings \/ FetchRows PROVE Tended
  BY <1>10, <1>13 DEF FetchSettings, FetchRows
<1> QED BY <1>4, <1>5, <1>6, <1>7, <1>8, <1>9, <1>11, <1>12, <1>13 DEF RealtimeSteps, Handshake

-----------------------------------------------------------------------------
(* Recipients *)

\* Whoever the two tables admit now is noted in the step that looks at them.
LEMMA NotedStep ==
    ASSUME Noted, fan' # Quiet, NEW s \in fan'.to, Genuine(s)' \/ s \in met
    PROVE  s \in met' /\ (Permitted(s)' => s \in fit')
BY DEF Noted

LEMMA FitGrows ==
    ASSUME Noted, fan' # Quiet
    PROVE  met \subseteq met' /\ fit \subseteq fit'
BY DEF Noted

\* A good session in today's table is genuine.
LEMMA GoodIsGenuine ==
    ASSUME AInv, SocketsSound, NEW s \in Sockets, Good(s, emp)
    PROVE  Genuine(s)
<1>1. /\ Live(s) /\ sockets[s].tok \in tokens /\ sockets[s].tok.typ = "access"
  BY SocketFields DEF Good
<1>2. Exists(sockets[s].tok.emp)
  BY <1>1 DEF AInv, TokensSound
<1> QED BY <1>1, <1>2 DEF Good, Genuine, Authentic, Active

\* Whom the tables of today admit is genuine, and permitted.
LEMMA RecipientEntitled ==
    ASSUME AInv, SocketsSound, FanSound, fan # Quiet, NEW s \in Recipients(settings, emp)
    PROVE  s \in fan.to /\ s \in Sockets /\ Genuine(s) /\ Permitted(s)
<1>1. /\ s \in fan.to /\ s \in Sockets /\ Live(s) /\ Good(s, emp)
      /\ Solo => /\ settings.owner = sockets[s].tok.emp
                 /\ emp[sockets[s].tok.emp].role = "HRAdmin"
                 /\ fan.subject \in {Nobody, settings.owner}
  BY DEF Recipients, Kept, StillValid, Good, Solo, FanSound, Broadcast
<1>2. Genuine(s)
  BY <1>1, GoodIsGenuine
<1> QED BY <1>1, <1>2 DEF Permitted, IsOwner, Admin, Genuine, Authentic

\* A socket that has only aged is no new recipient.
LEMMA RecipientsAge ==
    ASSUME FanSound, Aged, fan # Quiet, fan' # Quiet,
           fan'.to = fan.to, fan'.subject = fan.subject,
           NEW conf, NEW rows, NEW s \in Recipients(conf, rows)'
    PROVE  s \in Recipients(conf, rows)
<1>1. s \in fan.to /\ s \in Sockets
  BY DEF Recipients, Kept, FanSound, Broadcast
<1>2. /\ Live(s)' => /\ Live(s) /\ sockets'[s].tok = sockets[s].tok
                     /\ ~sockets'[s].expired => ~sockets[s].expired
  BY <1>1 DEF Aged
<1> QED BY <1>1, <1>2 DEF Recipients, Kept, StillValid

LEMMA GoodAges ==
    ASSUME FanSound, Aged, fan # Quiet, NEW rows, NEW s \in fan.to, Good(s, rows)'
    PROVE  Good(s, rows)
<1>1. s \in Sockets
  BY DEF FanSound, Broadcast
<1>2. /\ Live(s)' => /\ Live(s) /\ sockets'[s].tok = sockets[s].tok
                     /\ ~sockets'[s].expired => ~sockets[s].expired
  BY <1>1 DEF Aged
<1> QED BY <1>2 DEF Good

\* A recipient by the tables that were read was good in the accounts read.
LEMMA RecipientGood ==
    ASSUME NEW conf, NEW rows, NEW s \in Recipients(conf, rows)
    PROVE  s \in fan.to /\ Good(s, rows)
BY DEF Recipients, Kept, StillValid, Good

\* In a step of the gateway that keeps its sockets they are noted.
LEMMA EntitledIsNoted ==
    ASSUME AInv, SocketsSound, FanSound, fan # Quiet, NEW s \in Recipients(settings, emp),
           UNCHANGED accounts, sockets' = sockets, Noted, fan' # Quiet,
           fan'.to = fan.to, fan'.subject = fan.subject
    PROVE  s \in fit'
<1>1. s \in fan.to /\ s \in Sockets /\ Genuine(s) /\ Permitted(s)
  BY RecipientEntitled
<1>2. Genuine(s)' /\ Permitted(s)'
  BY <1>1 DEF Genuine, Permitted, Live, Authentic, Active, Exists, IsOwner, Admin, Solo, accounts
<1> QED BY <1>1, <1>2, NotedStep

\* Whoever is noted stays noted while the accounts and sockets do not change
\* what was read.
LEMMA GatewayKeeps ==
    ASSUME RInv, Aged, Noted, UNCHANGED <<accounts, fan>>, fan # Quiet
    PROVE  EntitledNoted'
<1> USE DEF RInv
<1>0. fan' = fan /\ emp' = emp /\ settings' = settings /\ met \subseteq met' /\ fit \subseteq fit'
  BY FitGrows DEF accounts
<1>1. ASSUME NEW conf \in fan.settings, fan.rows = {}
      PROVE  Recipients(conf, emp)' \subseteq fit'
  <2>1. ASSUME NEW s \in Recipients(conf, emp)' PROVE s \in Recipients(conf, emp)
    <3>1. PICK rows : rows = emp
      OBVIOUS
    <3>2. PICK k : k = conf
      OBVIOUS
    <3>3. s \in Recipients(k, rows)'
      BY <1>0, <2>1, <3>1, <3>2 DEF Recipients, Kept, StillValid, Live
    <3>4. s \in Recipients(k, rows)
      BY <1>0, <3>3, RecipientsAge
    <3> QED BY <3>1, <3>2, <3>4
  <2> QED BY <1>0, <1>1, <2>1 DEF EntitledNoted
<1>2. ASSUME NEW rows \in fan.rows, fan.settings = {}, NEW s \in fan.to, Good(s, rows)'
      PROVE  /\ s \in met'
             /\ s \in fit' \/ (Solo' /\ s \notin Recipients(settings, rows)')
  <2>1. Good(s, rows)
    BY <1>0, <1>2, GoodAges
  <2>2. s \in met /\ (s \in fit \/ (Solo /\ s \notin Recipients(settings, rows)))
    BY <1>2, <2>1 DEF EntitledNoted
  <2>3. ASSUME s \in Recipients(settings, rows)' PROVE s \in Recipients(settings, rows)
    <3>1. PICK k : k = settings
      OBVIOUS
    <3>2. s \in Recipients(k, rows)'
      BY <1>0, <2>3, <3>1 DEF Recipients, Kept, StillValid, Live
    <3>3. s \in Recipients(k, rows)
      BY <1>0, <3>2, RecipientsAge
    <3> QED BY <3>1, <3>3
  <2> QED BY <1>0, <2>2, <2>3 DEF Solo
<1>3. ASSUME NEW conf \in fan.settings, NEW rows \in fan.rows
      PROVE  Recipients(conf, rows)' \subseteq fit'
  <2>1. ASSUME NEW s \in Recipients(conf, rows)' PROVE s \in Recipients(conf, rows)
    BY <1>0, <2>1, RecipientsAge
  <2> QED BY <1>0, <1>3, <2>1 DEF EntitledNoted
<1> QED BY <1>0, <1>1, <1>2, <1>3 DEF EntitledNoted

\* The query of the settings is answered.
LEMMA SettingsAnswered ==
    ASSUME RInv, FetchSettings, UNCHANGED accounts, Noted
    PROVE  EntitledNoted'
<1> USE DEF RInv
<1>1. /\ fan # Quiet /\ fan.settings = {} /\ fan \in Broadcast
      /\ fan' = [fan EXCEPT !.settings = {settings}] /\ sockets' = sockets
      /\ emp' = emp /\ settings' = settings /\ tokens' = tokens
  BY DEF FetchSettings, FanSound, accounts
<1>2. /\ fan' # Quiet /\ fan'.settings = {settings} /\ fan'.rows = fan.rows
      /\ fan'.to = fan.to /\ fan'.subject = fan.subject
  BY <1>1 DEF Broadcast, Quiet
<1>3. met \subseteq met' /\ fit \subseteq fit'
  BY <1>2, FitGrows
<1>4. ASSUME fan.rows = {} PROVE Recipients(settings, emp)' \subseteq fit'
  <2>1. ASSUME NEW s \in Recipients(settings, emp)' PROVE s \in fit'
    <3>1. s \in Recipients(settings, emp)
      BY <1>1, <1>2, <2>1 DEF Recipients, Kept, StillValid, Live
    <3> QED BY <1>1, <1>2, <3>1, EntitledIsNoted
  <2> QED BY <2>1
<1>5. ASSUME NEW rows \in fan.rows PROVE Recipients(settings, rows)' \subseteq fit'
  <2>1. ASSUME NEW s \in Recipients(settings, rows)' PROVE s \in fit'
    <3>1. s \in Recipients(settings, rows) /\ s \in fan.to
      BY <1>1, <1>2, <2>1 DEF Recipients, Kept, StillValid, Live
    <3>2. Good(s, rows)
      BY <3>1, RecipientGood
    <3>3. s \in met /\ s \in fit
      BY <1>1, <3>1, <3>2 DEF EntitledNoted
    <3> QED BY <1>3, <3>3
  <2> QED BY <2>1
<1> QED BY <1>1, <1>2, <1>4, <1>5 DEF EntitledNoted

\* The query of the accounts is answered.
LEMMA RowsAnswered ==
    ASSUME RInv, FetchRows, UNCHANGED accounts, Noted
    PROVE  EntitledNoted'
<1> USE DEF RInv
<1>1. /\ fan # Quiet /\ fan.rows = {} /\ fan \in Broadcast
      /\ fan' = [fan EXCEPT !.rows = {emp}] /\ sockets' = sockets
      /\ emp' = emp /\ settings' = settings /\ tokens' = tokens
  BY DEF FetchRows, FanSound, accounts
<1>2. /\ fan' # Quiet /\ fan'.rows = {emp} /\ fan'.settings = fan.settings
      /\ fan'.to = fan.to /\ fan'.subject = fan.subject
  BY <1>1 DEF Broadcast, Quiet
<1>3. met \subseteq met' /\ fit \subseteq fit'
  BY <1>2, FitGrows
<1>4. ASSUME NEW s \in fan.to, Good(s, emp)'
      PROVE  /\ s \in met'
             /\ s \in fit' \/ (Solo' /\ s \notin Recipients(settings, emp)')
  <2>1. Good(s, emp) /\ s \in Sockets
    BY <1>1, <1>4 DEF Good, Live, Broadcast
  <2>2. Genuine(s)' /\ Live(s)'
    <3>1. Genuine(s)
      BY <2>1, GoodIsGenuine
    <3> QED BY <1>1, <3>1 DEF Genuine, Live, Authentic, Active, Exists
  <2>3. s \in met'
    BY <1>2, <2>2, NotedStep
  <2>4. CASE ~Solo
    <3>1. Permitted(s)'
      BY <1>1, <2>2, <2>4 DEF Permitted, Solo
    <3> QED BY <1>2, <2>2, <2>3, <3>1, NotedStep
  <2>5. CASE Solo /\ s \in Recipients(settings, emp)'
    <3>1. s \in Recipients(settings, emp)
      BY <1>1, <1>2, <2>5 DEF Recipients, Kept, StillValid, Live
    <3>2. s \in fit'
      BY <1>1, <1>2, <3>1, EntitledIsNoted
    <3> QED BY <2>3, <3>2
  <2> QED BY <1>1, <2>3, <2>4, <2>5 DEF Solo
<1>5. ASSUME NEW conf \in fan.settings PROVE Recipients(conf, emp)' \subseteq fit'
  <2>1. ASSUME NEW s \in Recipients(conf, emp)' PROVE s \in Recipients(conf, emp)
    BY <1>1, <1>2, <2>1 DEF Recipients, Kept, StillValid, Live
  <2> QED BY <1>1, <1>3, <2>1 DEF EntitledNoted
<1> QED BY <1>1, <1>2, <1>4, <1>5 DEF EntitledNoted

\* The accounts or the settings change while a broadcast is in progress.
LEMMA ChangeSeen ==
    ASSUME RInv, AccountsSeen, fan # Quiet
    PROVE  EntitledNoted'
<1> USE DEF RInv
<1>1. /\ fan' = fan /\ sockets' = sockets /\ fan \in Broadcast /\ Noted
      /\ [AccountsNext]_accounts
  BY DEF AccountsSeen, FanSound
<1>2. Onward /\ Frozen /\ met \subseteq met' /\ fit \subseteq fit'
  BY <1>1, AccountsStep, FitGrows
<1>3. ASSUME NEW s \in fan.to, Live(s)
      PROVE  /\ s \in Sockets /\ sockets[s].tok.emp \in Employees /\ sockets[s].tok.ver \in Nat
             /\ sockets[s].tok.typ = "access" /\ Exists(sockets[s].tok.emp)
             /\ sockets[s].tok.ver <= emp[sockets[s].tok.emp].ver
             /\ emp[sockets[s].tok.emp].ver \in Nat
  <2>1. s \in Sockets
    BY <1>1, <1>3 DEF Broadcast
  <2>2. sockets[s].tok \in tokens /\ sockets[s].tok.typ = "access"
    BY <1>3, <2>1, SocketFields
  <2>3. sockets[s].tok.emp \in Employees /\ sockets[s].tok.ver \in Nat
    BY <2>2, TokenFields DEF AInv
  <2> QED BY <2>1, <2>2, <2>3, AccountFields DEF AInv, TokensSound, Proof
<1>4. ASSUME NEW s \in fan.to, Live(s), ~Solo', s \in met' PROVE s \in fit'
  <2>1. Permitted(s)'
    BY <1>1, <1>4 DEF Permitted, Live
  <2> QED BY <1>1, <1>4, <2>1 DEF Noted
<1>5. ASSUME NEW conf \in fan.settings, fan.rows = {}, NEW s \in Recipients(conf, emp)'
      PROVE  s \in fit'
  <2> DEFINE t == sockets[s].tok
             e == t.emp
  <2>1. /\ s \in fan.to /\ Live(s) /\ ~sockets[s].expired
        /\ emp'[e].active /\ emp'[e].ver = t.ver
    BY <1>1, <1>5 DEF Recipients, Kept, StillValid, Live
  <2>2. /\ e \in Employees /\ Exists(e) /\ t.ver <= emp[e].ver /\ t.ver \in Nat
        /\ emp[e].ver \in Nat /\ t.typ = "access"
    BY <1>3, <2>1
  <2>3. CASE emp'[e] = emp[e]
    <3>1. s \in Recipients(conf, emp)
      BY <1>1, <1>5, <2>3 DEF Recipients, Kept, StillValid, Live
    <3> QED BY <1>2, <1>5, <3>1 DEF EntitledNoted
  <2>4. CASE emp'[e] # emp[e]
    <3>1. emp[e].ver <= emp'[e].ver
      BY <1>2, <2>2 DEF Onward
    <3>2. ~Solo'
      BY <1>2, <2>1, <2>2, <2>4, <3>1 DEF Frozen
    <3>3. Genuine(s)'
      <4>1. emp'[e].exists
        BY <1>2, <2>2 DEF Onward, Exists
      <4> QED BY <1>1, <2>1, <2>2, <4>1 DEF Genuine, Live, Authentic, Active, Exists
    <3> QED BY <1>1, <1>4, <2>1, <3>2, <3>3, NotedStep
  <2> QED BY <2>3, <2>4
<1>6. ASSUME NEW rows \in fan.rows, fan.settings = {}, NEW s \in fan.to, Good(s, rows)'
      PROVE  /\ s \in met'
             /\ s \in fit' \/ (Solo' /\ s \notin Recipients(settings, rows)')
  <2>1. Good(s, rows) /\ Live(s)
    BY <1>1, <1>6 DEF Good, Live
  <2>2. s \in met /\ (s \in fit \/ (Solo /\ s \notin Recipients(settings, rows)))
    BY <1>6, <2>1 DEF EntitledNoted
  <2>3. CASE ~Solo'
    BY <1>2, <1>4, <2>1, <2>2, <2>3
  <2>4. CASE Solo' /\ s \notin fit
    <3>1. ~NobodyExists
      BY <1>3, <2>1 DEF NobodyExists
    <3>2. settings'.owner = settings.owner /\ settings'.mode = settings.mode
      BY <1>2, <2>2, <2>4, <3>1 DEF Frozen, Solo
    <3>3. s \notin Recipients(settings, rows)'
      BY <1>1, <2>2, <2>4, <3>2 DEF Recipients, Kept, StillValid, Live
    <3> QED BY <1>2, <2>2, <2>4, <3>3
  <2> QED BY <1>2, <2>2, <2>3, <2>4
<1>7. ASSUME NEW conf \in fan.settings, NEW rows \in fan.rows
      PROVE  Recipients(conf, rows)' \subseteq fit'
  BY <1>1, <1>2, <1>7 DEF EntitledNoted, Recipients, Kept, StillValid, Live
<1> QED BY <1>1, <1>5, <1>6, <1>7 DEF EntitledNoted

\* A broadcast that is in progress stays well-formed.
LEMMA FanStep ==
    ASSUME RInv, AInv', RealtimeSteps, UNCHANGED accounts, Noted, Tended
    PROVE  FanSound'
<1> USE DEF RInv
<1>0. /\ settings \in Settings /\ emp \in [Employees -> {Absent} \cup Account]
  BY DEF AInv, AccountsTypeOK, Settings
<1>1. CASE fan' = Quiet
  BY <1>1 DEF Noted, FanSound
<1>2. ASSUME fan' # Quiet, fan' \in Broadcast,
             \A s \in fan'.to : sockets'[s] = Closed \/ Live(s)',
             \A f, g \in fan'.settings : f = g, \A f, g \in fan'.rows : f = g
      PROVE  FanSound'
  <2>1. met' \subseteq Sockets /\ fit' \subseteq met'
    <3>1. met' = met \cup {s \in fan'.to : Genuine(s)'} /\ met \subseteq Sockets /\ fit \subseteq met
      BY <1>2 DEF Noted, FanSound
    <3>2. fan'.to \subseteq Sockets
      BY <1>2 DEF Broadcast
    <3> QED BY <1>2, <3>1, <3>2 DEF Noted
  <2> QED BY <1>2, <2>1 DEF FanSound
<1>3. CASE fan' = fan /\ fan # Quiet
  <2>1. fan \in Broadcast
    BY <1>3 DEF FanSound
  <2>2. \A s \in fan.to : sockets'[s] = Closed \/ Live(s)'
    BY <1>3, <2>1 DEF Tended, Aged, Broadcast
  <2> QED BY <1>2, <1>3, <2>1, <2>2 DEF FanSound
<1>4. ASSUME NEW e \in Employees \cup {Nobody}, BeginBroadcast(e) PROVE FanSound'
  <2>1. /\ fan' = [phase |-> "reading", subject |-> e, to |-> LiveSockets,
                   settings |-> {}, rows |-> {}]
        /\ sockets' = sockets
    BY <1>4 DEF BeginBroadcast
  <2>2. fan' \in Broadcast /\ fan' # Quiet /\ fan'.to = LiveSockets
    BY <2>1 DEF Broadcast, LiveSockets, Quiet
  <2>3. \A s \in LiveSockets : Live(s)'
    BY <2>1 DEF LiveSockets, Live
  <2> QED BY <1>2, <2>1, <2>2, <2>3
<1>5. CASE FetchSettings
  <2>1. /\ fan # Quiet /\ fan \in Broadcast /\ fan' = [fan EXCEPT !.settings = {settings}]
        /\ sockets' = sockets
    BY <1>5 DEF FetchSettings, FanSound
  <2>2. /\ fan' \in Broadcast /\ fan' # Quiet /\ fan'.settings = {settings}
        /\ fan'.rows = fan.rows /\ fan'.to = fan.to
    BY <1>0, <2>1 DEF Broadcast, Quiet
  <2>3. \A s \in fan.to : sockets'[s] = Closed \/ Live(s)'
    BY <2>1 DEF FanSound, Live
  <2> QED BY <1>2, <2>1, <2>2, <2>3 DEF FanSound
<1>6. CASE FetchRows
  <2>1. /\ fan # Quiet /\ fan \in Broadcast /\ fan' = [fan EXCEPT !.rows = {emp}]
        /\ sockets' = sockets
    BY <1>6 DEF FetchRows, FanSound
  <2>2. /\ fan' \in Broadcast /\ fan' # Quiet /\ fan'.rows = {emp}
        /\ fan'.settings = fan.settings /\ fan'.to = fan.to
    BY <1>0, <2>1 DEF Broadcast, Quiet
  <2>3. \A s \in fan.to : sockets'[s] = Closed \/ Live(s)'
    BY <2>1 DEF FanSound, Live
  <2> QED BY <1>2, <2>1, <2>2, <2>3 DEF FanSound
<1> QED BY <1>1, <1>3, <1>4, <1>5, <1>6
        DEF RealtimeSteps, Handshake, Connect, ReadSession, ReadAccess, ReadOwner, Register,
            HandshakeFails, HangUp, TokenExpires, ExpiryTimer, FetchFails, Deliver

\* Every step of the gateway keeps the invariant,
LEMMA GatewayStep ==
    ASSUME RInv, RealtimeNext
    PROVE  RInv'
<1> USE DEF RInv
<1>1. RealtimeSteps /\ UNCHANGED accounts /\ Noted
  BY DEF RealtimeNext
<1>2. AInv'
  BY <1>1, AccountsStep
<1>3. Tended
  BY <1>1, TendedStep
<1>4. FanSound'
  BY <1>1, <1>2, <1>3, FanStep
<1>5. EntitledNoted'
  <2>1. CASE fan' = Quiet
    BY <2>1 DEF EntitledNoted
  <2>2. CASE fan' = fan /\ fan # Quiet
    BY <1>1, <1>3, <2>2, GatewayKeeps DEF Tended
  <2>3. CASE FetchSettings
    BY <1>1, <2>3, SettingsAnswered
  <2>4. CASE FetchRows
    BY <1>1, <2>4, RowsAnswered
  <2>5. ASSUME NEW e \in Employees \cup {Nobody}, BeginBroadcast(e) PROVE EntitledNoted'
    <3>1. fan'.settings = {} /\ fan'.rows = {}
      BY <2>5 DEF BeginBroadcast
    <3> QED BY <3>1 DEF EntitledNoted
  <2> QED BY <1>1, <2>1, <2>2, <2>3, <2>4, <2>5
          DEF RealtimeSteps, Handshake, Connect, ReadSession, ReadAccess, ReadOwner, Register,
              HandshakeFails, HangUp, TokenExpires, ExpiryTimer, FetchFails, Deliver
<1> QED BY <1>2, <1>3, <1>4, <1>5 DEF Tended

\* and so does every step of the accounts.
LEMMA SeenStep ==
    ASSUME RInv, AccountsSeen
    PROVE  RInv'
<1> USE DEF RInv
<1>1. /\ [AccountsNext]_accounts /\ fan' = fan /\ sockets' = sockets /\ Noted
  BY DEF AccountsSeen
<1>2. AInv' /\ tokens \subseteq tokens'
  BY <1>1, AccountsStep, TokensGrow
<1>3. SocketsSound' /\ NoLeakedConnection'
  BY <1>1, <1>2, SameSockets DEF Tended
<1>4. FanSound'
  <2>1. CASE fan = Quiet
    BY <1>1, <2>1 DEF FanSound, Noted
  <2>2. CASE fan # Quiet
    <3>1. fan.to \subseteq Sockets
      BY <2>2 DEF FanSound, Broadcast
    <3>2. met' \subseteq Sockets /\ fit' \subseteq met'
      BY <1>1, <2>2, <3>1 DEF Noted, FanSound
    <3> QED BY <1>1, <2>2, <3>2 DEF FanSound, Live
  <2> QED BY <2>1, <2>2
<1>5. EntitledNoted'
  <2>1. CASE fan = Quiet
    BY <1>1, <2>1 DEF EntitledNoted
  <2>2. CASE fan # Quiet
    BY <2>2, ChangeSeen
  <2> QED BY <2>1, <2>2
<1> QED BY <1>2, <1>3, <1>4, <1>5

\* Nothing at all has happened.
LEMMA StandsStill ==
    ASSUME RInv, UNCHANGED <<accounts, realtime>>
    PROVE  RInv'
<1> USE DEF RInv, accounts, realtime
<1>1. AInv' /\ tokens \subseteq tokens'
  BY AccountsStep
<1>2. SocketsSound' /\ NoLeakedConnection'
  BY <1>1, SameSockets DEF Tended
<1>3. FanSound'
  BY DEF FanSound, Live
<1>4. EntitledNoted'
  BY DEF EntitledNoted, Recipients, Kept, StillValid, Good, Live, Solo
<1> QED BY <1>1, <1>2, <1>3, <1>4

-----------------------------------------------------------------------------
(* Theorems about the sockets *)

\* The invariant holds in every behaviour of the gateway over the accounts.
THEOREM RealtimeInvariant == RealtimeSpec => []RInv
<1>1. AccountsInit /\ RealtimeInit => RInv
  <2> SUFFICES ASSUME AccountsInit, RealtimeInit PROVE RInv
    OBVIOUS
  <2>1. AInv
    BY AccountsStart
  <2>2. SocketsSound /\ NoLeakedConnection
    BY DEF RealtimeInit, SocketsSound, NoLeakedConnection, Live, Closed
  <2>3. FanSound /\ EntitledNoted
    BY DEF RealtimeInit, FanSound, EntitledNoted
  <2> QED BY <2>1, <2>2, <2>3 DEF RInv
<1>2. RInv /\ [RealtimeNext \/ AccountsSeen]_<<accounts, realtime>> => RInv'
  BY GatewayStep, SeenStep, StandsStill
<1> QED BY <1>1, <1>2, PTL DEF RealtimeSpec

\* Every variable of the gateway has its type.
THEOREM RealtimeTypes == RealtimeSpec => []RealtimeTypeOK
<1>1. RInv => RealtimeTypeOK
  <2> SUFFICES ASSUME RInv PROVE RealtimeTypeOK
    OBVIOUS
  <2>1. ASSUME NEW s \in Sockets, sockets[s] # Closed
        PROVE  /\ InHandshake(s) \/ Live(s)
               /\ sockets[s].tok \in Token /\ sockets[s].up \in BOOLEAN
               /\ sockets[s].timer = Live(s)
    <3>1. sockets[s] \in Connection /\ (sockets[s].timer <=> Live(s)) /\ tokens \subseteq Token
      BY <2>1 DEF RInv, SocketsSound, AInv, AccountsTypeOK
    <3>2. Live(s) \in BOOLEAN
      BY DEF Live
    <3>3. sockets[s].timer \in BOOLEAN
      BY <3>1 DEF Connection
    <3>4. sockets[s].timer = Live(s)
      BY <3>1, <3>2, <3>3
    <3> QED BY <3>1, <3>4 DEF Connection, InHandshake, Live
  <2> QED BY <2>1 DEF RInv, FanSound, Broadcast, RealtimeTypeOK
<1> QED BY <1>1, RealtimeInvariant, PTL

\* No connection that is gone stays registered.
THEOREM NoConnectionLeaks == RealtimeSpec => []NoLeakedConnection
<1>1. RInv => NoLeakedConnection
  BY DEF RInv
<1> QED BY <1>1, RealtimeInvariant, PTL

\* An event reaches only sessions that were good since it was raised, of accounts
\* that the mode let hear of it then or later.
THEOREM OnlyEntitledAreTold == RealtimeSpec => ToldOnlyEntitled
<1> DEFINE Told == Deliver => \A conf \in fan.settings, rows \in fan.rows :
                                 Recipients(conf, rows) \subseteq fit
<1>1. RInv => [Told]_<<accounts, realtime>>
  BY DEF RInv, EntitledNoted, Deliver
<1>2. RealtimeSpec => [][Told]_<<accounts, realtime>>
  BY <1>1, RealtimeInvariant, PTL
<1> QED BY <1>2 DEF ToldOnlyEntitled
=============================================================================
