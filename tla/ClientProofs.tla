---------------------------- MODULE ClientProofs ----------------------------
(***************************************************************************)
(* What the web client guarantees for any number of tabs, sockets and      *)
(* calls: its session, shared through localStorage, and a query of its     *)
(* cache, whichever it is and whatever pages are opened around it.         *)
(***************************************************************************)
EXTENDS WebSession, Pages, TLAPS

Profile == Users \cup {Nothing}
Token == Tokens \cup {Nothing}
StorageKeys == {"access", "refresh", "user"}
Stored == [access: Token, refresh: Token, user: Profile]
Event == [key: StorageKeys, gone: BOOLEAN]
TabState == [shown: Profile, effect: BOOLEAN, login: Profile, refreshing: Profile]
Phases == {"unsent", "sent", "refused", "resent", "answered", "reanswered", "ended"}
RequestState == [phase: Phases, tab: Tabs \cup {Nothing}, executed: Nat]

WebTypes ==
    /\ store \in Stored /\ minted \in Nat
    /\ inbox \in [Tabs -> Seq(Event)]
    /\ tab \in [Tabs -> TabState]
    /\ request \in [Requests -> RequestState]
    /\ \A r \in Requests : request[r].phase # "unsent" => request[r].tab \in Tabs

-----------------------------------------------------------------------------
(* Storage events *)

LoggedOut == store.access = Nothing /\ store.refresh = Nothing

Ends(t) == \E i \in DOMAIN inbox[t] : EndsSession(inbox[t][i])
Concerned(t) == \E i \in DOMAIN inbox[t] : EndsSession(inbox[t][i]) \/ inbox[t][i].key = "user"

\* A tab shows nobody, or whoever is stored, or has yet to hear or to say who it is.
TabSound(t) ==
    /\ LoggedOut => tab[t].shown = Nothing \/ Ends(t)
    /\ tab[t].shown \in {StoredUser, Nothing} \/ tab[t].effect \/ Concerned(t)

LEMMA ChangedType ==
    ASSUME NEW new \in Stored, NEW key \in StorageKeys, store \in Stored
    PROVE  /\ Changed(new, key) \in Seq(Event)
           /\ new[key] # store[key]
                => \E i \in DOMAIN Changed(new, key) :
                      Changed(new, key)[i] = [key |-> key, gone |-> new[key] = Nothing]
<1> DEFINE e == [key |-> key, gone |-> new[key] = Nothing]
<1>1. e \in Event
  BY DEF Event
<1> QED BY <1>1 DEF Changed

LEMMA HeardType ==
    ASSUME NEW new \in Stored, store \in Stored
    PROVE  Heard(new) \in Seq(Event)
BY ChangedType DEF Heard, StorageKeys

\* What stands in one of two sequences stands in both together.
LEMMA JoinedLeft ==
    ASSUME NEW s \in Seq(Event), NEW u \in Seq(Event), NEW i \in DOMAIN s
    PROVE  i \in DOMAIN (s \o u) /\ (s \o u)[i] = s[i]
OBVIOUS

LEMMA JoinedRight ==
    ASSUME NEW s \in Seq(Event), NEW u \in Seq(Event), NEW i \in DOMAIN u
    PROVE  Len(s) + i \in DOMAIN (s \o u) /\ (s \o u)[Len(s) + i] = u[i]
OBVIOUS

LEMMA EveryChangeHeard ==
    ASSUME NEW new \in Stored, store \in Stored, NEW key \in StorageKeys, new[key] # store[key]
    PROVE  \E i \in DOMAIN Heard(new) : Heard(new)[i] = [key |-> key, gone |-> new[key] = Nothing]
<1> DEFINE e == [key |-> key, gone |-> new[key] = Nothing]
           A == Changed(new, "access")
           R == Changed(new, "refresh")
           U == Changed(new, "user")
<1>1. A \in Seq(Event) /\ R \in Seq(Event) /\ U \in Seq(Event) /\ A \o R \in Seq(Event)
  BY ChangedType DEF StorageKeys
<1>2. PICK i \in DOMAIN Changed(new, key) : Changed(new, key)[i] = e
  BY ChangedType
<1> HIDE DEF A, R, U, e
<1>3. Heard(new) = (A \o R) \o U
  BY DEF Heard, A, R, U
<1>4. CASE key = "user"
  <2>1. i \in DOMAIN U /\ U[i] = e
    BY <1>2, <1>4 DEF U
  <2>2. \E j \in DOMAIN ((A \o R) \o U) : ((A \o R) \o U)[j] = e
    <3>1. A \o R \in Seq(Event)
      BY <1>1
    <3>2. Len(A \o R) + i \in DOMAIN ((A \o R) \o U) /\ ((A \o R) \o U)[Len(A \o R) + i] = U[i]
      BY <1>1, <2>1, <3>1, JoinedRight
    <3> QED BY <2>1, <3>2
  <2> QED BY <1>3, <2>2 DEF e
<1>5. CASE key = "access"
  <2>1. i \in DOMAIN (A \o R) /\ (A \o R)[i] = e
    BY <1>1, <1>2, <1>5, JoinedLeft DEF A
  <2> QED BY <1>1, <1>3, <2>1, JoinedLeft DEF e
<1>6. CASE key = "refresh"
  <2>1. PICK j \in DOMAIN (A \o R) : (A \o R)[j] = e
    <3>1. i \in DOMAIN R /\ R[i] = e
      BY <1>2, <1>6 DEF R
    <3>2. Len(A) + i \in DOMAIN (A \o R) /\ (A \o R)[Len(A) + i] = R[i]
      BY <1>1, <3>1, JoinedRight
    <3> QED BY <3>1, <3>2
  <2> QED BY <1>1, <1>3, <2>1, JoinedLeft DEF e
<1> QED BY <1>4, <1>5, <1>6 DEF StorageKeys

\* Whatever a tab stores, another tab that was sound stays sound, for it hears of it.
LEMMA OthersHear ==
    ASSUME WebTypes, NEW t \in Tabs, NEW new \in Stored, NEW rest \in Seq(Event),
           Store(t, new, rest), NEW x \in Tabs, x # t, tab'[x].shown = tab[x].shown,
           tab'[x].effect = tab[x].effect, TabSound(x)
    PROVE  TabSound(x)'
<1>0. store \in Stored /\ inbox[x] \in Seq(Event) /\ Heard(new) \in Seq(Event)
  BY HeardType DEF WebTypes
<1>1. store' = new /\ inbox'[x] = inbox[x] \o Heard(new)
  BY DEF Store
<1>2. \A i \in DOMAIN inbox[x] : i \in DOMAIN inbox'[x] /\ inbox'[x][i] = inbox[x][i]
  BY <1>0, <1>1, JoinedLeft
<1>3. \A i \in DOMAIN Heard(new) : \E j \in DOMAIN inbox'[x] : inbox'[x][j] = Heard(new)[i]
  <2> TAKE i \in DOMAIN Heard(new)
  <2>1. \E j \in DOMAIN (inbox[x] \o Heard(new)) : (inbox[x] \o Heard(new))[j] = Heard(new)[i]
    <3>1. /\ Len(inbox[x]) + i \in DOMAIN (inbox[x] \o Heard(new))
          /\ (inbox[x] \o Heard(new))[Len(inbox[x]) + i] = Heard(new)[i]
      BY <1>0, JoinedRight
    <3> QED BY <3>1
  <2> QED BY <1>1, <2>1
<1>4. \A key \in StorageKeys : new[key] # store[key] =>
          \E j \in DOMAIN inbox'[x] : inbox'[x][j] = [key |-> key, gone |-> new[key] = Nothing]
  BY <1>0, <1>3, EveryChangeHeard
<1>5. (Ends(x) => Ends(x)') /\ (Concerned(x) => Concerned(x)')
  BY <1>2 DEF Ends, Concerned, EndsSession
<1>6. new.user # store.user => Concerned(x)'
  BY <1>4 DEF Concerned, EndsSession, StorageKeys
<1>7. ~LoggedOut /\ LoggedOut' => Ends(x)' /\ Concerned(x)'
  <2> SUFFICES ASSUME ~LoggedOut, LoggedOut' PROVE Ends(x)' /\ Concerned(x)'
    OBVIOUS
  <2>1. PICK key \in {"access", "refresh"} : store[key] # Nothing /\ new[key] = Nothing
    BY <1>1 DEF LoggedOut
  <2>2. PICK j \in DOMAIN inbox'[x] : inbox'[x][j] = [key |-> key, gone |-> new[key] = Nothing]
    BY <1>4, <2>1 DEF StorageKeys
  <2>3. inbox'[x][j] = [key |-> key, gone |-> TRUE]
    BY <2>1, <2>2
  <2>4. EndsSession(inbox'[x][j])
    BY <2>3 DEF EndsSession
  <2> QED BY <2>4 DEF Ends, Concerned
<1>8. LoggedOut' => tab'[x].shown = Nothing \/ Ends(x)'
  BY <1>5, <1>7 DEF TabSound
<1>9. tab'[x].shown \in {StoredUser', Nothing} \/ tab'[x].effect \/ Concerned(x)'
  BY <1>1, <1>5, <1>6, <1>7 DEF TabSound, StoredUser, LoggedOut
<1> QED BY <1>8, <1>9 DEF TabSound

Sessions == \A x \in Tabs : TabSound(x)

LEMMA StoreTypes ==
    ASSUME WebTypes, NEW t \in Tabs, NEW new \in Stored, NEW rest \in Seq(Event),
           Store(t, new, rest)
    PROVE  /\ store' = new /\ store' \in Stored /\ inbox'[t] = rest
           /\ inbox' \in [Tabs -> Seq(Event)]
<1>1. Heard(new) \in Seq(Event) /\ inbox \in [Tabs -> Seq(Event)]
  BY HeardType DEF WebTypes
<1>2. \A x \in Tabs : inbox[x] \o Heard(new) \in Seq(Event)
  BY <1>1
<1> QED BY <1>1, <1>2 DEF Store

\* One tab stores something; it is enough to look at that tab.
LEMMA StoreSound ==
    ASSUME WebTypes, Sessions, NEW t \in Tabs, NEW new \in Stored, NEW rest \in Seq(Event),
           Store(t, new, rest), \A x \in Tabs \ {t} : tab'[x] = tab[x], TabSound(t)'
    PROVE  Sessions'
<1>1. ASSUME NEW x \in Tabs, x # t PROVE TabSound(x)'
  BY <1>1, OthersHear DEF Sessions
<1> QED BY <1>1 DEF Sessions

LEMMA ClearSound ==
    ASSUME WebTypes, Sessions, NEW t \in Tabs, NEW T \in TabState, NEW rest \in Seq(Event),
           ClearSession(t, T, rest)
    PROVE  /\ Sessions' /\ store' \in Stored /\ inbox' \in [Tabs -> Seq(Event)]
           /\ tab' \in [Tabs -> TabState]
<1>1. Cleared \in Stored
  BY DEF Cleared, Stored, Token, Profile
<1>2. Store(t, Cleared, rest)
  BY DEF ClearSession
<1>3. SetUser(T, Nothing) \in TabState /\ SetUser(T, Nothing).shown = Nothing
  BY DEF SetUser, TabState, Profile
<1>4. tab' = [tab EXCEPT ![t] = SetUser(T, Nothing)] /\ tab \in [Tabs -> TabState]
  BY DEF ClearSession, WebTypes
<1>5. tab' \in [Tabs -> TabState] /\ tab'[t].shown = Nothing
      /\ \A x \in Tabs \ {t} : tab'[x] = tab[x]
  BY <1>3, <1>4
<1>6. TabSound(t)'
  BY <1>5 DEF TabSound
<1> QED BY <1>1, <1>2, <1>5, <1>6, StoreSound, StoreTypes

\* Nothing of this tab is touched.
LEMMA StaysSound ==
    ASSUME NEW x \in Tabs, TabSound(x), UNCHANGED store, inbox'[x] = inbox[x],
           tab'[x].shown = tab[x].shown, tab'[x].effect = tab[x].effect
    PROVE  TabSound(x)'
BY DEF TabSound, StoredUser, LoggedOut, Ends, Concerned

LEMMA SetUserType ==
    ASSUME NEW T \in TabState, NEW u \in Profile
    PROVE  SetUser(T, u) \in TabState /\ SetUser(T, u).shown = u
BY DEF SetUser, TabState

LEMMA StoredUserType ==
    ASSUME WebTypes
    PROVE  StoredUser \in Profile /\ (LoggedOut => StoredUser = Nothing)
BY DEF WebTypes, StoredUser, Stored, Profile, LoggedOut

\* What every step below has to show
TabsKept ==
    /\ Sessions' /\ store' \in Stored /\ minted' \in Nat
    /\ inbox' \in [Tabs -> Seq(Event)] /\ tab' \in [Tabs -> TabState]

LEMMA LoadKept == ASSUME WebTypes, Sessions, NEW t \in Tabs, Load(t) PROVE TabsKept
<1> DEFINE T == [Blank EXCEPT !.shown = StoredUser, !.effect = TRUE]
<1>1. T \in TabState /\ T.shown = StoredUser
  BY StoredUserType DEF Blank, TabState, Profile
<1>2. tab' = [tab EXCEPT ![t] = T] /\ tab \in [Tabs -> TabState]
  BY DEF Load, WebTypes
<1> HIDE DEF T
<1>3. tab' \in [Tabs -> TabState] /\ tab'[t].shown = StoredUser
      /\ \A x \in Tabs \ {t} : tab'[x] = tab[x]
  BY <1>1, <1>2
<1>4. inbox' \in [Tabs -> Seq(Event)] /\ \A x \in Tabs \ {t} : inbox'[x] = inbox[x]
  BY DEF Load, WebTypes
<1>5. UNCHANGED <<store, minted>>
  BY DEF Load
<1>6. StoredUser' = StoredUser /\ (LoggedOut' <=> LoggedOut)
  BY <1>5 DEF StoredUser, LoggedOut
<1>7. TabSound(t)'
  BY <1>3, <1>6, StoredUserType DEF TabSound
<1>8. ASSUME NEW x \in Tabs, x # t PROVE TabSound(x)'
  BY <1>3, <1>4, <1>5, <1>8, StaysSound DEF Sessions
<1> QED BY <1>3, <1>4, <1>5, <1>7, <1>8 DEF TabsKept, Sessions, WebTypes

\* What the storing of a pair of tokens leaves to be looked at
LEMMA PairStored ==
    ASSUME WebTypes, NEW t \in Tabs, NEW u \in Users, NEW staying, StoreTokens(t, u, staying)
    PROVE  /\ minted' \in Nat
           /\ \E new \in Stored :
                 /\ Store(t, new, inbox[t]) /\ inbox[t] \in Seq(Event)
                 /\ new.user = store.user /\ new.access = new.refresh
                 /\ new.refresh # Nothing /\ new.refresh.of = u
<1>1. PICK pair : pair = [no |-> minted + 1, of |-> u]
  OBVIOUS
<1>2. minted' = minted + 1 /\ minted \in Nat /\ minted' \in Nat
  BY DEF StoreTokens, WebTypes
<1>3. pair \in Tokens /\ pair.of = u /\ pair # Nothing
  BY <1>1, <1>2, WebSessionAssumption DEF Tokens
<1>4. PICK new : new = [store EXCEPT !.access = pair, !.refresh = pair]
  OBVIOUS
<1>5. /\ new \in Stored /\ new.user = store.user
      /\ new.access = pair /\ new.refresh = pair
  BY <1>3, <1>4 DEF WebTypes, Stored, Token
<1>6. Store(t, new, inbox[t]) /\ inbox[t] \in Seq(Event)
  BY <1>1, <1>4 DEF StoreTokens, WebTypes
<1> QED BY <1>2, <1>3, <1>5, <1>6

LEMMA LoginKept == ASSUME WebTypes, Sessions, NEW t \in Tabs, Login(t) PROVE TabsKept
<1>1. PICK u : u = tab[t].login
  OBVIOUS
<1>2. PICK T : T = SetUser([tab[t] EXCEPT !.login = Nothing], u)
  OBVIOUS
<1>3. tab[t] \in TabState /\ u \in Users /\ tab \in [Tabs -> TabState]
  BY <1>1 DEF WebTypes, Login, TabState, Profile
<1>4. T \in TabState /\ T.effect
  BY <1>2, <1>3, WebSessionAssumption DEF SetUser, TabState, Profile
<1>5. StoreTokens(t, u, Tabs \ {t}) /\ tab' = [tab EXCEPT ![t] = T]
  BY <1>1, <1>2 DEF Login
<1>6. minted' \in Nat
  BY <1>3, <1>5, PairStored
<1>7. PICK new \in Stored : /\ Store(t, new, inbox[t]) /\ inbox[t] \in Seq(Event)
                           /\ new.refresh # Nothing
  BY <1>3, <1>5, PairStored
<1>8. PICK rest : rest = inbox[t]
  OBVIOUS
<1>9. rest \in Seq(Event) /\ Store(t, new, rest)
  BY <1>7, <1>8
<1>10. store' = new /\ store' \in Stored /\ inbox' \in [Tabs -> Seq(Event)]
  BY <1>9, StoreTypes
<1>11. tab' \in [Tabs -> TabState] /\ tab'[t].effect /\ \A x \in Tabs \ {t} : tab'[x] = tab[x]
  BY <1>3, <1>4, <1>5
<1>12. TabSound(t)'
  BY <1>7, <1>10, <1>11 DEF TabSound, LoggedOut
<1> QED BY <1>6, <1>9, <1>10, <1>11, <1>12, StoreSound DEF TabsKept

LEMMA LogoutKept == ASSUME WebTypes, Sessions, NEW t \in Tabs, Logout(t) PROVE TabsKept
<1>1. ClearSession(t, tab[t], inbox[t]) /\ tab[t] \in TabState /\ inbox[t] \in Seq(Event)
  BY DEF Logout, WebTypes
<1>2. PICK T : T = tab[t]
  OBVIOUS
<1>3. PICK rest : rest = inbox[t]
  OBVIOUS
<1>4. ClearSession(t, T, rest) /\ T \in TabState /\ rest \in Seq(Event)
  BY <1>1, <1>2, <1>3
<1> QED BY <1>4, ClearSound DEF Logout, TabsKept, WebTypes

LEMMA EffectsKept == ASSUME WebTypes, Sessions, NEW t \in Tabs, Effects(t) PROVE TabsKept
<1>1. PICK new : new = [store EXCEPT !.user = tab[t].shown]
  OBVIOUS
<1>2. PICK rest : rest = inbox[t]
  OBVIOUS
<1>3. tab[t].shown \in Profile /\ tab \in [Tabs -> TabState]
  BY DEF WebTypes, TabState
<1>4. /\ new \in Stored /\ new.user = tab[t].shown
      /\ new.access = store.access /\ new.refresh = store.refresh
  BY <1>1, <1>3 DEF WebTypes, Stored
<1>5. Store(t, new, rest) /\ rest \in Seq(Event)
  BY <1>1, <1>2 DEF Effects, WebTypes
<1>6. store' = new /\ store' \in Stored /\ inbox' \in [Tabs -> Seq(Event)] /\ inbox'[t] = inbox[t]
  BY <1>2, <1>4, <1>5, StoreTypes
<1>7. tab' = [tab EXCEPT ![t].effect = FALSE]
  BY DEF Effects
<1>8. tab' \in [Tabs -> TabState] /\ tab'[t].shown = tab[t].shown
      /\ \A x \in Tabs \ {t} : tab'[x] = tab[x]
  BY <1>3, <1>7 DEF TabState
<1>9. /\ LoggedOut' <=> LoggedOut
      /\ Ends(t)' <=> Ends(t)
      /\ Ends(t)' => Concerned(t)'
  BY <1>4, <1>6 DEF LoggedOut, Ends, Concerned
<1>10. ~LoggedOut' => StoredUser' = tab'[t].shown
  BY <1>4, <1>6, <1>8 DEF LoggedOut, StoredUser
<1>11. TabSound(t)'
  BY <1>8, <1>9, <1>10 DEF TabSound, Sessions
<1> QED BY <1>4, <1>5, <1>6, <1>8, <1>11, StoreSound DEF TabsKept, Effects, WebTypes

LEMMA HandleStorageKept ==
    ASSUME WebTypes, Sessions, NEW t \in Tabs, HandleStorage(t)
    PROVE  TabsKept
<1>1. PICK e : e = Head(inbox[t])
  OBVIOUS
<1>2. PICK rest : rest = Tail(inbox[t])
  OBVIOUS
<1>3. /\ inbox[t] \in Seq(Event) /\ inbox[t] # <<>>
      /\ tab[t] \in TabState /\ tab \in [Tabs -> TabState]
  BY DEF HandleStorage, WebTypes
<1>4. e = inbox[t][1] /\ e \in Event /\ rest \in Seq(Event)
      /\ \A i \in DOMAIN inbox[t] : i = 1 \/ \E k \in DOMAIN rest : rest[k] = inbox[t][i]
  <2>1. PICK box : box = inbox[t]
    OBVIOUS
  <2>2. box \in Seq(Event) /\ box # <<>> /\ e = Head(box) /\ rest = Tail(box)
    BY <1>1, <1>2, <1>3, <2>1
  <2>3. e = box[1] /\ e \in Event /\ rest \in Seq(Event) /\ Len(rest) = Len(box) - 1
    BY <2>2
  <2>4. ASSUME NEW i \in DOMAIN box, i # 1 PROVE \E k \in DOMAIN rest : rest[k] = box[i]
    <3>1. \A k \in 1..(Len(box) - 1) : k \in DOMAIN rest /\ rest[k] = box[k + 1]
      BY <2>2
    <3>2. PICK k \in 1..(Len(box) - 1) : k + 1 = i
      <4>1. i \in 1..Len(box) /\ Len(box) \in Nat
        BY <2>2
      <4>2. PICK n \in Nat : n = Len(box)
        BY <4>1
      <4>3. i - 1 \in 1..(n - 1) /\ (i - 1) + 1 = i
        BY <2>4, <4>1, <4>2
      <4> QED BY <4>2, <4>3
    <3> QED BY <3>1, <3>2, Zenon
  <2> QED BY <2>1, <2>3, <2>4
<1>5. minted' \in Nat
  BY DEF HandleStorage, WebTypes
<1>6. CASE EndsSession(e)
  <2>1. PICK T : T = tab[t]
    OBVIOUS
  <2>2. ClearSession(t, T, rest) /\ T \in TabState
    BY <1>1, <1>2, <1>3, <1>6, <2>1 DEF HandleStorage
  <2> QED BY <1>4, <1>5, <2>2, ClearSound DEF TabsKept
<1>7. CASE ~EndsSession(e)
  <2>1. Store(t, store, rest) /\ tab' = IF e.key = "user"
                                       THEN [tab EXCEPT ![t] = SetUser(tab[t], StoredUser)] ELSE tab
    BY <1>1, <1>2, <1>7 DEF HandleStorage
  <2>2. PICK new : new = store
    OBVIOUS
  <2>3. new \in Stored /\ Store(t, new, rest)
    BY <2>1, <2>2 DEF WebTypes
  <2>4. /\ store' = store /\ store' \in Stored /\ inbox' \in [Tabs -> Seq(Event)]
        /\ inbox'[t] = rest
    BY <1>4, <2>2, <2>3, StoreTypes
  <2>5. StoredUser' = StoredUser /\ (LoggedOut' <=> LoggedOut)
    BY <2>4 DEF StoredUser, LoggedOut
  <2>6. CASE e.key = "user"
    <3>1. tab' = [tab EXCEPT ![t] = SetUser(tab[t], StoredUser)]
      BY <2>1, <2>6
    <3>2. SetUser(tab[t], StoredUser) \in TabState /\ SetUser(tab[t], StoredUser).shown = StoredUser
      BY <1>3, StoredUserType, SetUserType
    <3>3. tab' \in [Tabs -> TabState] /\ tab'[t].shown = StoredUser
          /\ \A x \in Tabs \ {t} : tab'[x] = tab[x]
      BY <1>3, <3>1, <3>2
    <3>4. TabSound(t)'
      BY <2>5, <3>3, StoredUserType DEF TabSound
    <3> QED BY <1>4, <1>5, <2>3, <2>4, <3>3, <3>4, StoreSound DEF TabsKept
  <2>7. CASE e.key # "user"
    <3>1. tab' = tab
      BY <2>1, <2>7
    <3>2. Ends(t) => Ends(t)'
      BY <1>4, <1>7, <2>4 DEF Ends
    <3>3. Concerned(t) => Concerned(t)'
      BY <1>4, <1>7, <2>4, <2>7 DEF Concerned
    <3>4. TabSound(t)'
      BY <2>5, <3>1, <3>2, <3>3 DEF TabSound, Sessions
    <3> QED BY <1>3, <1>4, <1>5, <2>3, <2>4, <3>1, <3>4, StoreSound DEF TabsKept
  <2> QED BY <2>6, <2>7
<1> QED BY <1>6, <1>7

LEMMA ReconcileKept == ASSUME WebTypes, Sessions, NEW t \in Tabs, Reconcile(t) PROVE TabsKept
<1>1. /\ tab[t] \in TabState /\ inbox[t] \in Seq(Event)
      /\ tab \in [Tabs -> TabState] /\ minted' \in Nat
  BY DEF WebTypes, Reconcile
<1>2. CASE StoredUser # Nothing
  <2>1. tab' = [tab EXCEPT ![t] = SetUser(tab[t], StoredUser)] /\ UNCHANGED <<store, inbox>>
    BY <1>2 DEF Reconcile
  <2>2. SetUser(tab[t], StoredUser) \in TabState /\ SetUser(tab[t], StoredUser).shown = StoredUser
    BY <1>1, StoredUserType, SetUserType
  <2>3. tab' \in [Tabs -> TabState] /\ tab'[t].shown = StoredUser
        /\ \A x \in Tabs \ {t} : tab'[x] = tab[x]
    BY <1>1, <2>1, <2>2
  <2>4. StoredUser' = StoredUser /\ (LoggedOut' <=> LoggedOut)
    BY <2>1 DEF StoredUser, LoggedOut
  <2>5. TabSound(t)'
    BY <2>3, <2>4, StoredUserType DEF TabSound
  <2>6. ASSUME NEW x \in Tabs, x # t PROVE TabSound(x)'
    BY <2>1, <2>3, <2>6, StaysSound DEF Sessions
  <2> QED BY <1>1, <2>1, <2>3, <2>5, <2>6 DEF TabsKept, Sessions, WebTypes
<1>3. CASE StoredUser = Nothing
  <2>1. PICK T : T = tab[t]
    OBVIOUS
  <2>2. PICK rest : rest = inbox[t]
    OBVIOUS
  <2>3. ClearSession(t, T, rest) /\ T \in TabState /\ rest \in Seq(Event)
    BY <1>1, <1>3, <2>1, <2>2 DEF Reconcile
  <2> QED BY <1>1, <2>3, ClearSound DEF TabsKept
<1> QED BY <1>2, <1>3

\* A step that stores nothing and changes neither what is shown nor what is due
LEMMA QuietKept ==
    ASSUME WebTypes, Sessions, UNCHANGED <<store, inbox, minted>>,
           tab' \in [Tabs -> TabState],
           \A x \in Tabs : tab'[x].shown = tab[x].shown /\ tab'[x].effect = tab[x].effect
    PROVE  TabsKept
<1>1. ASSUME NEW x \in Tabs PROVE TabSound(x)'
  BY StaysSound DEF Sessions
<1> QED BY <1>1 DEF TabsKept, Sessions, WebTypes

LEMMA RefreshSucceedsKept ==
    ASSUME WebTypes, Sessions, NEW t \in Tabs, RefreshSucceeds(t)
    PROVE  TabsKept
<1>1. PICK u : u = tab[t].refreshing
  OBVIOUS
<1>2. PICK rest : rest = inbox[t]
  OBVIOUS
<1>3. /\ u \in Users /\ tab \in [Tabs -> TabState]
      /\ tab' = [tab EXCEPT ![t].refreshing = Nothing]
  BY <1>1 DEF RefreshSucceeds, WebTypes, TabState, Profile
<1>4. StoreTokens(t, u, Tabs)
  BY <1>1 DEF RefreshSucceeds
<1>5. minted' \in Nat
  BY <1>3, <1>4, PairStored
<1>6. PICK new \in Stored : /\ Store(t, new, rest) /\ rest \in Seq(Event)
                           /\ new.user = store.user /\ new.refresh # Nothing
  BY <1>2, <1>3, <1>4, PairStored
<1>7. store' = new /\ store' \in Stored /\ inbox' \in [Tabs -> Seq(Event)] /\ inbox'[t] = inbox[t]
  BY <1>2, <1>6, StoreTypes
<1>8. tab' \in [Tabs -> TabState] /\ tab'[t].shown = tab[t].shown /\ tab'[t].effect = tab[t].effect
      /\ \A x \in Tabs \ {t} : tab'[x] = tab[x]
  BY <1>3 DEF TabState, Profile
<1>9. ~LoggedOut' /\ StoredUser' = store.user /\ StoredUser \in {store.user, Nothing}
      /\ (Concerned(t)' <=> Concerned(t))
  BY <1>6, <1>7 DEF LoggedOut, StoredUser, Concerned
<1>10. TabSound(t)'
  BY <1>8, <1>9 DEF TabSound, Sessions
<1> QED BY <1>5, <1>6, <1>7, <1>8, <1>10, StoreSound DEF TabsKept

LEMMA RefreshFailsKept ==
    ASSUME WebTypes, Sessions, NEW t \in Tabs, RefreshFails(t)
    PROVE  TabsKept
<1>1. PICK T : T = [tab[t] EXCEPT !.refreshing = Nothing]
  OBVIOUS
<1>2. PICK rest : rest = inbox[t]
  OBVIOUS
<1>3. T \in TabState /\ rest \in Seq(Event)
  BY <1>1, <1>2 DEF WebTypes, TabState, Profile
<1>4. ClearSession(t, T, rest) /\ minted' \in Nat
  BY <1>1, <1>2 DEF RefreshFails, WebTypes
<1> QED BY <1>3, <1>4, ClearSound DEF TabsKept

LEMMA RefusedKept ==
    ASSUME WebTypes, Sessions, NEW r \in Requests, Refused(r)
    PROVE  TabsKept
<1>1. PICK t : t = request[r].tab
  OBVIOUS
<1>2. request[r].phase = "sent" /\ minted' = minted
  BY DEF Refused, Retried
<1>3. t \in Tabs /\ minted' \in Nat /\ tab \in [Tabs -> TabState]
  BY <1>1, <1>2 DEF WebTypes
<1>4. CASE tab[t].refreshing # Nothing \/ store.refresh # Nothing
  <2>1. PICK u : u = IF tab[t].refreshing # Nothing THEN tab[t].refreshing ELSE store.refresh.of
    OBVIOUS
  <2>2. UNCHANGED <<store, inbox, minted>> /\ tab' = [tab EXCEPT ![t].refreshing = u]
    BY <1>1, <1>4, <2>1 DEF Refused
  <2>3. u \in Profile
    BY <1>3, <1>4, <2>1 DEF WebTypes, TabState, Stored, Token, Tokens, Profile
  <2>4. /\ tab' \in [Tabs -> TabState]
        /\ \A x \in Tabs : tab'[x].shown = tab[x].shown /\ tab'[x].effect = tab[x].effect
    BY <1>3, <2>2, <2>3 DEF TabState
  <2> QED BY <2>2, <2>4, QuietKept
<1>5. CASE ~(tab[t].refreshing # Nothing \/ store.refresh # Nothing)
  <2>1. PICK T : T = tab[t]
    OBVIOUS
  <2>2. PICK rest : rest = inbox[t]
    OBVIOUS
  <2>3. ClearSession(t, T, rest) /\ T \in TabState /\ rest \in Seq(Event)
    BY <1>1, <1>3, <1>5, <2>1, <2>2 DEF Refused, WebTypes
  <2> QED BY <1>3, <2>3, ClearSound DEF TabsKept
<1> QED BY <1>4, <1>5

LEMMA TabsStep == WebTypes /\ Sessions /\ TabsNext => TabsKept
<1> SUFFICES ASSUME WebTypes, Sessions, TabsNext PROVE TabsKept
  OBVIOUS
<1>1. ASSUME NEW t \in Tabs, NEW u \in Users, AskLogin(t, u) PROVE TabsKept
  <2>1. tab' = [tab EXCEPT ![t].login = u] /\ UNCHANGED <<store, inbox, minted>>
    BY <1>1 DEF AskLogin
  <2>2. /\ tab' \in [Tabs -> TabState]
        /\ \A x \in Tabs : tab'[x].shown = tab[x].shown /\ tab'[x].effect = tab[x].effect
    BY <2>1 DEF TabState, WebTypes, Profile
  <2> QED BY <2>1, <2>2, QuietKept
<1>2. ASSUME UNCHANGED <<store, inbox, tab, minted>> PROVE TabsKept
  BY <1>2, QuietKept DEF WebTypes
<1>3. ASSUME NEW t \in Tabs, NEW r \in Requests, Send(t, r) PROVE TabsKept
  BY <1>2, <1>3 DEF Send
<1>4. ASSUME NEW r \in Requests, Execute(r) \/ Ended(r) PROVE TabsKept
  BY <1>2, <1>4 DEF Execute, Ended
<1>5. ASSUME Network PROVE TabsKept
  BY <1>4, <1>5, LoginKept, RefreshSucceedsKept, RefreshFailsKept, RefusedKept DEF Network
<1>6. ASSUME NEW t \in Tabs, Person(t) PROVE TabsKept
  BY <1>1, <1>3, <1>6, LogoutKept, ReconcileKept DEF Person
<1> QED BY <1>5, <1>6, HandleStorageKept, EffectsKept, LoadKept DEF TabsNext, TabsElse

-----------------------------------------------------------------------------
(* Whose tokens are stored *)

\* Unless tokens were stored beside a stranger, no profile but their user's is anywhere.
OneUser ==
    /\ store.access = store.refresh
    /\ store.refresh # Nothing /\ ~mixed =>
          /\ store.user \in {store.refresh.of, Nothing}
          /\ \A t \in Tabs : tab[t].shown \in {store.refresh.of, Nothing}

LEMMA StayedOne ==
    ASSUME OneUser, UNCHANGED <<store, mixed>>,
           \A x \in Tabs : tab'[x].shown \in {tab[x].shown, store.user, Nothing}
    PROVE  OneUser'
BY DEF OneUser

LEMMA ClearedOne ==
    ASSUME NEW t \in Tabs, NEW T, NEW rest, ClearSession(t, T, rest)
    PROVE  OneUser'
<1>1. store' = Cleared
  BY DEF ClearSession, Store
<1> QED BY <1>1 DEF OneUser, Cleared

LEMMA PairOfOne ==
    ASSUME WebTypes, NEW t \in Tabs, NEW u \in Users, NEW staying \in SUBSET Tabs,
           StoreTokens(t, u, staying), \A x \in staying : tab'[x].shown = tab[x].shown,
           \A x \in Tabs \ staying : tab'[x].shown = u
    PROVE  OneUser'
<1>1. PICK new \in Stored : /\ Store(t, new, inbox[t]) /\ new.user = store.user
                           /\ new.access = new.refresh /\ new.refresh.of = u
  BY PairStored
<1>2. store' = new
  BY <1>1 DEF Store
<1>3. ~mixed' => store.user \in {u, Nothing} /\ \A x \in staying : tab[x].shown \in {u, Nothing}
  BY DEF StoreTokens
<1> QED BY <1>1, <1>2, <1>3 DEF OneUser

LEMMA OneUserStep == WebTypes /\ OneUser /\ TabsNext => OneUser'
<1> SUFFICES ASSUME WebTypes, OneUser, TabsNext PROVE OneUser'
  OBVIOUS
<1>1. tab \in [Tabs -> TabState] /\ StoredUser \in {store.user, Nothing}
  BY DEF WebTypes, StoredUser
<1>2. ASSUME UNCHANGED <<store, tab, mixed>> PROVE OneUser'
  BY <1>2, StayedOne
<1>3. ASSUME NEW t \in Tabs, Load(t) PROVE OneUser'
  <2>1. PICK T : T = [Blank EXCEPT !.shown = StoredUser, !.effect = TRUE]
    OBVIOUS
  <2>2. T.shown = StoredUser
    BY <2>1 DEF Blank
  <2>3. UNCHANGED <<store, mixed>> /\ tab' = [tab EXCEPT ![t] = T]
    BY <1>3, <2>1 DEF Load
  <2> QED BY <1>1, <2>2, <2>3, StayedOne
<1>4. ASSUME NEW t \in Tabs, NEW u \in Users, AskLogin(t, u) PROVE OneUser'
  <2>1. UNCHANGED <<store, mixed>> /\ tab' = [tab EXCEPT ![t].login = u]
    BY <1>4 DEF AskLogin
  <2>2. \A x \in Tabs : tab'[x].shown = tab[x].shown
    BY <1>1, <2>1 DEF TabState
  <2> QED BY <2>1, <2>2, StayedOne
<1>5. ASSUME NEW t \in Tabs, Login(t) PROVE OneUser'
  <2>1. PICK u : u = tab[t].login
    OBVIOUS
  <2>2. PICK T : T = SetUser([tab[t] EXCEPT !.login = Nothing], u)
    OBVIOUS
  <2>3. u \in Users /\ StoreTokens(t, u, Tabs \ {t}) /\ tab' = [tab EXCEPT ![t] = T]
    BY <1>1, <1>5, <2>1, <2>2 DEF Login, TabState, Profile
  <2>4. T.shown = u
    BY <1>1, <2>2 DEF SetUser, TabState
  <2>5. PICK staying \in SUBSET Tabs : staying = Tabs \ {t}
    OBVIOUS
  <2>6. /\ \A x \in staying : tab'[x].shown = tab[x].shown
        /\ \A x \in Tabs \ staying : tab'[x].shown = u
    BY <1>1, <2>3, <2>4, <2>5
  <2> QED BY <2>3, <2>5, <2>6, PairOfOne
<1>6. ASSUME NEW t \in Tabs, Effects(t) PROVE OneUser'
  <2>1. store' = [store EXCEPT !.user = tab[t].shown] /\ UNCHANGED mixed
    BY <1>6 DEF Effects, Store
  <2>2. /\ store'.user = tab[t].shown
        /\ store'.access = store.access /\ store'.refresh = store.refresh
    BY <2>1 DEF WebTypes, Stored
  <2>3. \A x \in Tabs : tab'[x].shown = tab[x].shown
    BY <1>1, <1>6 DEF Effects, TabState
  <2> QED BY <2>1, <2>2, <2>3 DEF OneUser
<1>7. ASSUME NEW t \in Tabs, UNCHANGED <<store, mixed>>,
             tab' = [tab EXCEPT ![t] = SetUser(tab[t], StoredUser)]
      PROVE  OneUser'
  <2>1. SetUser(tab[t], StoredUser).shown = StoredUser
    BY <1>1, StoredUserType, SetUserType
  <2>2. \A x \in Tabs : tab'[x].shown \in {tab[x].shown, store.user, Nothing}
    BY <1>1, <1>7, <2>1
  <2> QED BY <1>7, <2>2, StayedOne
<1>8. ASSUME NEW t \in Tabs, HandleStorage(t) PROVE OneUser'
  <2>1. PICK e : e = Head(inbox[t])
    OBVIOUS
  <2>2. CASE EndsSession(e)
    BY <1>8, <2>1, <2>2, ClearedOne DEF HandleStorage
  <2>3. CASE ~EndsSession(e)
    <3>1. /\ UNCHANGED <<store, mixed>>
          /\ \/ tab' = [tab EXCEPT ![t] = SetUser(tab[t], StoredUser)]
             \/ UNCHANGED tab
      BY <1>8, <2>1, <2>3 DEF HandleStorage, Store
    <3> QED BY <1>2, <1>7, <3>1
  <2> QED BY <2>2, <2>3
<1>9. ASSUME NEW t \in Tabs, Reconcile(t) PROVE OneUser'
  <2>1. CASE StoredUser # Nothing
    <3>1. tab' = [tab EXCEPT ![t] = SetUser(tab[t], StoredUser)] /\ UNCHANGED <<store, mixed>>
      BY <1>9, <2>1 DEF Reconcile
    <3> QED BY <1>7, <3>1
  <2>2. CASE StoredUser = Nothing
    BY <1>9, <2>2, ClearedOne DEF Reconcile
  <2> QED BY <2>1, <2>2
<1>10. ASSUME NEW r \in Requests, Refused(r) PROVE OneUser'
  <2>1. PICK t : t = request[r].tab
    OBVIOUS
  <2>2. request[r].phase = "sent"
    BY <1>10 DEF Refused, Retried
  <2>3. t \in Tabs
    BY <2>1, <2>2 DEF WebTypes
  <2>4. CASE tab[t].refreshing # Nothing \/ store.refresh # Nothing
    <3>1. PICK u : u = IF tab[t].refreshing # Nothing THEN tab[t].refreshing ELSE store.refresh.of
      OBVIOUS
    <3>2. UNCHANGED <<store, mixed>> /\ tab' = [tab EXCEPT ![t].refreshing = u]
      BY <1>10, <2>1, <2>4, <3>1 DEF Refused
    <3>3. \A x \in Tabs : tab'[x].shown = tab[x].shown
      BY <1>1, <3>2 DEF TabState
    <3> QED BY <3>2, <3>3, StayedOne
  <2>5. CASE ~(tab[t].refreshing # Nothing \/ store.refresh # Nothing)
    BY <1>10, <2>1, <2>3, <2>5, ClearedOne DEF Refused
  <2> QED BY <2>4, <2>5
<1>11. ASSUME NEW t \in Tabs, RefreshSucceeds(t) PROVE OneUser'
  <2>1. PICK u : u = tab[t].refreshing
    OBVIOUS
  <2>2. u \in Users /\ StoreTokens(t, u, Tabs) /\ tab' = [tab EXCEPT ![t].refreshing = Nothing]
    BY <1>1, <1>11, <2>1 DEF RefreshSucceeds, TabState, Profile
  <2>3. PICK staying \in SUBSET Tabs : staying = Tabs
    OBVIOUS
  <2>4. /\ \A x \in staying : tab'[x].shown = tab[x].shown
        /\ \A x \in Tabs \ staying : tab'[x].shown = u
    BY <1>1, <2>2, <2>3 DEF TabState
  <2> QED BY <2>2, <2>3, <2>4, PairOfOne
<1>12. ASSUME NEW t \in Tabs, RefreshFails(t) \/ Logout(t) PROVE OneUser'
  BY <1>12, ClearedOne DEF RefreshFails, Logout
<1>13. ASSUME NEW t \in Tabs, NEW r \in Requests, Send(t, r) PROVE OneUser'
  BY <1>2, <1>13 DEF Send
<1>14. ASSUME NEW r \in Requests, Execute(r) \/ Ended(r) PROVE OneUser'
  BY <1>2, <1>14 DEF Execute, Ended
<1>15. ASSUME Network PROVE OneUser'
  BY <1>5, <1>10, <1>11, <1>12, <1>14, <1>15 DEF Network
<1>16. ASSUME NEW t \in Tabs, Person(t) PROVE OneUser'
  BY <1>4, <1>9, <1>12, <1>13, <1>16 DEF Person
<1> QED BY <1>3, <1>6, <1>8, <1>15, <1>16 DEF TabsNext, TabsElse

-----------------------------------------------------------------------------
(* Calls *)

\* What has not been answered has not been carried out.
CallsSound ==
    /\ request \in [Requests -> RequestState]
    /\ \A r \in Requests :
          /\ request[r].phase # "unsent" => request[r].tab \in Tabs
          /\ request[r].executed <= 1
          /\ request[r].phase \in {"unsent", "sent", "refused", "resent"} => request[r].executed = 0

LEMMA PhaseSound ==
    ASSUME CallsSound, NEW rs \in SUBSET Requests, NEW phase \in {"ended", "refused", "resent"},
           Phase(rs, phase),
           \A r \in rs : /\ request[r].phase # "unsent"
                         /\ phase # "ended" => request[r].executed = 0
    PROVE  CallsSound'
<1>1. \A r \in Requests : request'[r] = IF r \in rs THEN [request[r] EXCEPT !.phase = phase]
                                                   ELSE request[r]
  BY DEF Phase
<1>2. request' \in [Requests -> RequestState]
  BY DEF Phase, CallsSound, RequestState, Phases
<1>3. ASSUME NEW r \in rs
      PROVE  /\ request'[r].phase = phase /\ request'[r].tab = request[r].tab
             /\ request'[r].executed = request[r].executed
  BY <1>1 DEF CallsSound, RequestState
<1> QED BY <1>1, <1>2, <1>3 DEF CallsSound

LEMMA CallsStep == WebTypes /\ CallsSound /\ TabsNext => CallsSound'
<1> SUFFICES ASSUME WebTypes, CallsSound, TabsNext PROVE CallsSound'
  OBVIOUS
<1>1. ASSUME UNCHANGED request PROVE CallsSound'
  BY <1>1 DEF CallsSound
<1>2. ASSUME NEW t \in Tabs, NEW r \in Requests, Send(t, r) PROVE CallsSound'
  <2>1. request[r].executed = 0 /\ request' = [request EXCEPT ![r].phase = "sent", ![r].tab = t]
    BY <1>2 DEF Send, Unsent
  <2>2. request' = [request EXCEPT ![r] = [request[r] EXCEPT !.phase = "sent", !.tab = t]]
    BY <2>1 DEF CallsSound
  <2> QED BY <2>1, <2>2 DEF CallsSound, RequestState, Phases
<1>3. ASSUME NEW r \in Requests, Execute(r) PROVE CallsSound'
  <2>1. request[r].executed = 0 /\ request[r].phase \in {"sent", "resent"}
    BY <1>3 DEF Execute, UnderWay, CallsSound
  <2>2. PICK n \in Nat : n = request[r].executed + 1
    BY <2>1
  <2>3. PICK p \in {"answered", "reanswered"} :
            p = IF request[r].phase = "sent" THEN "answered" ELSE "reanswered"
    OBVIOUS
  <2>4. request' = [request EXCEPT ![r].executed = n, ![r].phase = p]
    BY <1>3, <2>2, <2>3 DEF Execute
  <2>5. request' = [request EXCEPT ![r] = [request[r] EXCEPT !.executed = n, !.phase = p]]
    BY <2>4 DEF CallsSound
  <2>6. n = 1 /\ p \notin {"unsent", "sent", "refused", "resent"} /\ p \in Phases
    BY <2>1, <2>2 DEF Phases
  <2>7. /\ request' \in [Requests -> RequestState]
        /\ request'[r].phase = p /\ request'[r].executed = 1 /\ request'[r].tab = request[r].tab
        /\ \A q \in Requests \ {r} : request'[q] = request[q]
    BY <2>5, <2>6 DEF CallsSound, RequestState
  <2>8. request[r].tab \in Tabs
    BY <2>1 DEF CallsSound
  <2> QED BY <2>6, <2>7, <2>8 DEF CallsSound
<1>4. ASSUME NEW r \in Requests, Refused(r) PROVE CallsSound'
  <2>1. request[r].phase = "sent" /\ request[r].executed = 0
    BY <1>4 DEF Refused, Retried, CallsSound
  <2>2. Phase({r}, "refused") \/ Phase({r}, "ended")
    BY <1>4 DEF Refused
  <2> QED BY <2>1, <2>2, PhaseSound
<1>5. ASSUME NEW r \in Requests, Ended(r) PROVE CallsSound'
  <2>1. Phase({r}, "ended") /\ request[r].phase # "unsent"
    BY <1>5 DEF Ended, UnderWay
  <2> QED BY <2>1, PhaseSound
<1>6. ASSUME NEW t \in Tabs, RefreshSucceeds(t) \/ RefreshFails(t) PROVE CallsSound'
  <2>1. Phase(Waiting(t), "resent") \/ Phase(Waiting(t), "ended")
    BY <1>6 DEF RefreshSucceeds, RefreshFails
  <2>2. PICK rs : rs = Waiting(t)
    OBVIOUS
  <2>3. rs \in SUBSET Requests
        /\ \A r \in rs : request[r].phase # "unsent" /\ request[r].executed = 0
    BY <2>2 DEF Waiting, CallsSound
  <2> QED BY <2>1, <2>2, <2>3, PhaseSound
<1>7. ASSUME NEW t \in Tabs, Load(t) PROVE CallsSound'
  <2>1. PICK rs : rs = {r \in Requests : request[r].tab = t /\ request[r].phase # "unsent"}
    OBVIOUS
  <2>2. \A r \in Requests : request'[r] = IF request[r].tab = t
                                          THEN [request[r] EXCEPT !.phase = "ended"] ELSE request[r]
    BY <1>7 DEF Load
  <2>3. request' \in [Requests -> RequestState]
    BY <1>7 DEF Load, CallsSound, RequestState, Phases
  <2>4. ASSUME NEW r \in Requests, request[r].tab = t
        PROVE  /\ request'[r].phase = "ended" /\ request'[r].tab = t
               /\ request'[r].executed = request[r].executed
    BY <2>2, <2>4 DEF CallsSound, RequestState
  <2> QED BY <2>2, <2>3, <2>4 DEF CallsSound
<1>8. ASSUME Network PROVE CallsSound'
  BY <1>1, <1>3, <1>4, <1>5, <1>6, <1>8 DEF Network, Login
<1>9. ASSUME NEW t \in Tabs, Person(t) PROVE CallsSound'
  BY <1>1, <1>2, <1>9 DEF Person, AskLogin, Logout, Reconcile
<1> QED BY <1>1, <1>7, <1>8, <1>9 DEF TabsNext, TabsElse, HandleStorage, Effects

-----------------------------------------------------------------------------
(* Sockets *)

Opening == [token: Token, live: BOOLEAN]
Socket == [shared: Token, opening: Seq(Opening), heard: Nat, mine: BOOLEAN]

\* At most one listener is attached or will be when the library is loaded.
ListensOnce(c) ==
    /\ c \in Socket
    /\ c.heard = IF c.mine THEN 1 ELSE 0
    /\ \A i \in DOMAIN c.opening : c.opening[i].live => ~c.mine
    /\ \A i, j \in DOMAIN c.opening : c.opening[i].live /\ c.opening[j].live => i = j

LEMMA DetachedListens ==
    ASSUME NEW c, ListensOnce(c)
    PROVE  LET d == Detached(c)
           IN  /\ ListensOnce(d) /\ ~d.mine /\ d.heard = 0
               /\ \A i \in DOMAIN d.opening : ~d.opening[i].live
<1> DEFINE op == [i \in DOMAIN c.opening |-> [c.opening[i] EXCEPT !.live = FALSE]]
           h == IF c.mine THEN c.heard - 1 ELSE c.heard
           d == Detached(c)
<1>1. c \in Socket /\ c.opening \in Seq(Opening)
  BY DEF ListensOnce, Socket
<1>2. \A i \in DOMAIN c.opening : [c.opening[i] EXCEPT !.live = FALSE] \in Opening
  <2> TAKE i \in DOMAIN c.opening
  <2>1. PICK o \in Opening : o = c.opening[i]
    BY <1>1
  <2>2. [o EXCEPT !.live = FALSE] \in Opening
    BY DEF Opening
  <2> QED BY <2>1, <2>2
<1>3. op \in Seq(Opening) /\ \A i \in DOMAIN op : ~op[i].live
  <2>1. ASSUME NEW i \in DOMAIN op PROVE op[i] \in Opening /\ op[i].live = FALSE
    <3>1. PICK o \in Opening : o = c.opening[i]
      BY <1>1, <2>1
    <3>2. op[i] = [o EXCEPT !.live = FALSE]
      BY <2>1, <3>1
    <3> QED BY <3>2 DEF Opening
  <2>2. PICK n \in Nat : n = Len(c.opening)
    BY <1>1
  <2>3. DOMAIN op = 1..n
    BY <1>1, <2>2
  <2> HIDE DEF op
  <2>4. op \in [1..n -> Opening]
    <3>1. op = [i \in 1..n |-> op[i]]
      BY <2>3 DEF op
    <3> QED BY <2>1, <2>3, <3>1
  <2>5. op \in Seq(Opening)
    BY <2>2, <2>4
  <2> QED BY <2>1, <2>5
<1>4. h = 0
  BY DEF ListensOnce
<1> HIDE DEF op, h
<1>5. d = [c EXCEPT !.opening = op, !.heard = h, !.mine = FALSE]
  BY DEF Detached, op, h
<1> HIDE DEF d
<1>6. d.opening = op /\ d.heard = 0 /\ d.mine = FALSE /\ d \in Socket
  BY <1>1, <1>3, <1>4, <1>5 DEF Socket
<1>7. ListensOnce(d)
  BY <1>3, <1>6 DEF ListensOnce
<1> QED BY <1>3, <1>6, <1>7 DEF d

LEMMA AttachedListens ==
    ASSUME NEW c, ListensOnce(c), ~c.mine, \A i \in DOMAIN c.opening : ~c.opening[i].live
    PROVE  ListensOnce(Attached(c))
<1>1. c \in Socket /\ c.heard = 0
  BY DEF ListensOnce
<1>2. PICK n \in Nat : n = c.heard + 1
  BY <1>1
<1>3. Attached(c) = [c EXCEPT !.heard = n, !.mine = TRUE] /\ n = 1
  BY <1>1, <1>2 DEF Attached
<1>4. /\ Attached(c) \in Socket /\ Attached(c).heard = 1 /\ Attached(c).mine
      /\ Attached(c).opening = c.opening
  BY <1>1, <1>3 DEF Socket
<1> QED BY <1>4 DEF ListensOnce

LEMMA EnsureSocketListens ==
    ASSUME NEW c, ListensOnce(c), ~c.mine, \A i \in DOMAIN c.opening : ~c.opening[i].live,
           NEW token \in Token
    PROVE  ListensOnce(EnsureSocket(c, token))
<1>1. CASE c.shared = token
  BY <1>1, AttachedListens DEF EnsureSocket
<1>2. CASE c.shared # token
  <2> DEFINE e == EnsureSocket(c, token)
  <2>1. c \in Socket /\ c.opening \in Seq(Opening)
    BY DEF ListensOnce, Socket
  <2>2. PICK op : op = Append(c.opening, [token |-> token, live |-> TRUE])
    OBVIOUS
  <2>3. /\ op \in Seq(Opening)
        /\ \A i \in DOMAIN op : op[i].live => i = Len(op)
    BY <2>1, <2>2 DEF Opening
  <2>4. e = [c EXCEPT !.shared = Nothing, !.opening = op]
    BY <1>2, <2>2 DEF EnsureSocket
  <2>5. e \in Socket /\ e.opening = op /\ e.mine = c.mine /\ e.heard = c.heard
    BY <2>1, <2>3, <2>4 DEF Socket, Token
  <2> HIDE DEF e
  <2>6. ListensOnce(e)
    BY <2>3, <2>5 DEF ListensOnce
  <2> QED BY <2>6 DEF e
<1> QED BY <1>1, <1>2

LEMMA OpenedListens ==
    ASSUME NEW c, ListensOnce(c), c.opening # <<>>, NEW asked, asked = Head(c.opening)
    PROVE  ListensOnce(Opened(c))
<1>1. c \in Socket /\ c.opening \in Seq(Opening)
  BY DEF ListensOnce, Socket
<1>2. PICK op \in Seq(Opening) : op = c.opening
  BY <1>1
<1>3. op # <<>> /\ asked = op[1] /\ asked \in Opening
  BY <1>2
<1>4. PICK rest : rest = Tail(op)
  OBVIOUS
<1>5. rest \in Seq(Opening) /\ DOMAIN rest = 1..(Len(op) - 1) /\ Len(op) \in Nat
      /\ DOMAIN op = 1..Len(op) /\ \A i \in DOMAIN rest : rest[i] = op[i + 1]
  BY <1>3, <1>4
<1>6. \A i \in DOMAIN rest : i + 1 \in DOMAIN op /\ i + 1 # 1 /\ i \in Nat
  BY <1>5
<1>7. PICK d : d = [c EXCEPT !.shared = asked.token, !.opening = rest]
  OBVIOUS
<1>8. d \in Socket /\ d.opening = rest /\ d.heard = c.heard /\ d.mine = c.mine
  BY <1>1, <1>3, <1>5, <1>7 DEF Socket, Opening
<1>9. /\ \A i \in DOMAIN rest : rest[i].live => ~c.mine
      /\ \A i, j \in DOMAIN rest : rest[i].live /\ rest[j].live => i = j
      /\ asked.live => ~c.mine /\ \A i \in DOMAIN rest : ~rest[i].live
  <2>1. /\ \A i \in DOMAIN op : op[i].live => ~c.mine
        /\ \A i, j \in DOMAIN op : op[i].live /\ op[j].live => i = j
    BY <1>2 DEF ListensOnce
  <2>2. 1 \in DOMAIN op
    BY <1>3
  <2>3. ASSUME NEW i \in DOMAIN rest, rest[i].live PROVE ~c.mine /\ ~asked.live
    BY <1>3, <1>5, <1>6, <2>1, <2>2, <2>3
  <2>4. ASSUME NEW i \in DOMAIN rest, NEW j \in DOMAIN rest, rest[i].live, rest[j].live
        PROVE  i = j
    <3>1. i + 1 = j + 1
      BY <1>5, <1>6, <2>1, <2>4
    <3> QED BY <1>6, <3>1
  <2> QED BY <1>3, <2>1, <2>2, <2>3, <2>4
<1>10. ListensOnce(d)
  BY <1>8, <1>9 DEF ListensOnce
<1>11. ListensOnce(WhenOpen(d, asked))
  <2>1. CASE asked.live
    BY <1>8, <1>9, <1>10, <2>1, AttachedListens DEF WhenOpen
  <2>2. CASE ~asked.live
    BY <1>10, <2>2 DEF WhenOpen
  <2> QED BY <2>1, <2>2
<1> QED BY <1>2, <1>4, <1>7, <1>11 DEF Opened

Listeners == conn \in [Tabs -> Socket] /\ \A t \in Tabs : ListensOnce(conn[t])

LEMMA OneListens ==
    ASSUME Listeners, NEW t \in Tabs, NEW c, ListensOnce(c), conn' = [conn EXCEPT ![t] = c]
    PROVE  Listeners'
BY DEF Listeners, ListensOnce

LEMMA FreshListens == NoSocket \in Socket /\ ListensOnce(NoSocket)
BY DEF NoSocket, Socket, ListensOnce, Token

LEMMA ListenersStep == WebTypes /\ Listeners /\ WebNext => Listeners'
<1> SUFFICES ASSUME WebTypes, Listeners, WebNext PROVE Listeners'
  OBVIOUS
<1>1. ASSUME UNCHANGED conn PROVE Listeners'
  BY <1>1 DEF Listeners
<1>2. ASSUME NEW t \in Tabs, EffectsWithSocket(t) PROVE Listeners'
  <2>1. PICK d : d = Detached(conn[t])
    OBVIOUS
  <2>2. ListensOnce(d) /\ ~d.mine /\ \A i \in DOMAIN d.opening : ~d.opening[i].live
    BY <2>1, DetachedListens DEF Listeners
  <2>3. PICK token \in Token : token = store.access
    BY DEF WebTypes, Stored
  <2>4. ListensOnce(EnsureSocket(d, token))
    BY <2>2, EnsureSocketListens
  <2>5. ListensOnce([d EXCEPT !.shared = Nothing])
    BY <2>2 DEF ListensOnce, Socket, Token
  <2>6. PICK c : c = Ensured(d, tab[t].shown, token)
    OBVIOUS
  <2>7. ListensOnce(c)
    BY <2>2, <2>4, <2>5, <2>6 DEF Ensured
  <2>8. conn' = [conn EXCEPT ![t] = c]
    BY <1>2, <2>1, <2>3, <2>6 DEF EffectsWithSocket
  <2> QED BY <2>7, <2>8, OneListens
<1>3. ASSUME NEW t \in Tabs, SocketOpens(t) PROVE Listeners'
  <2>1. PICK c : c = conn[t]
    OBVIOUS
  <2>2. PICK asked : asked = Head(c.opening)
    OBVIOUS
  <2>3. ListensOnce(c) /\ c.opening # <<>>
    BY <1>3, <2>1 DEF SocketOpens, Listeners
  <2>4. PICK d : d = Opened(c)
    OBVIOUS
  <2>5. ListensOnce(d)
    BY <2>2, <2>3, <2>4, OpenedListens
  <2>6. conn' = [conn EXCEPT ![t] = d]
    BY <1>3, <2>1, <2>4 DEF SocketOpens
  <2> QED BY <2>5, <2>6, OneListens
<1>4. ASSUME NEW t \in Tabs, Load(t), conn' = [conn EXCEPT ![t] = NoSocket] PROVE Listeners'
  BY <1>4, FreshListens, OneListens
<1> QED BY <1>1, <1>2, <1>3, <1>4 DEF WebNext

-----------------------------------------------------------------------------
(* Theorems about the session *)

WebInv == WebTypes /\ Sessions /\ OneUser /\ CallsSound /\ Listeners

\* The invariant behind the next two (auth.tsx, client.ts, realtime.ts).
THEOREM WebInvariant == WebSpec => []WebInv
<1>1. ASSUME WebInit PROVE WebInv
  <2>1. store \in Stored /\ minted \in Nat
    BY <1>1 DEF WebInit, Cleared, Stored, Token, Profile
  <2>2. Blank \in TabState /\ Blank.shown = Nothing
    BY DEF Blank, TabState, Profile
  <2>3. inbox \in [Tabs -> Seq(Event)] /\ tab \in [Tabs -> TabState]
    BY <1>1, <2>2 DEF WebInit
  <2>4. Unsent \in RequestState /\ Unsent.phase = "unsent" /\ Unsent.executed = 0
    BY DEF Unsent, RequestState, Phases
  <2>5. request \in [Requests -> RequestState]
        /\ \A r \in Requests : request[r].phase = "unsent" /\ request[r].executed = 0
    BY <1>1, <2>4 DEF WebInit
  <2>6. WebTypes /\ CallsSound
    BY <2>1, <2>3, <2>5 DEF WebTypes, CallsSound
  <2>7. Sessions
    BY <1>1, <2>2 DEF WebInit, Sessions, TabSound
  <2>9. OneUser
    BY <1>1 DEF WebInit, OneUser, Cleared
  <2>8. Listeners
    BY <1>1, FreshListens DEF WebInit, Listeners
  <2> QED BY <2>6, <2>7, <2>8, <2>9 DEF WebInv
<1>2. ASSUME WebInv, UNCHANGED <<web, conn>> PROVE WebInv'
  BY <1>2 DEF WebInv, WebTypes, Sessions, OneUser, CallsSound, Listeners, web, TabSound,
              StoredUser, LoggedOut, Ends, Concerned
<1>4. ASSUME WebInv, WebNext PROVE WebInv'
  <2>1. TabsNext \/ UNCHANGED web
    BY <1>4 DEF WebNext, TabsNext, EffectsWithSocket, SocketOpens
  <2>2. Listeners'
    BY <1>4, ListenersStep DEF WebInv
  <2>3. CASE TabsNext
    <3>1. TabsKept /\ OneUser' /\ CallsSound'
      BY <1>4, <2>3, TabsStep, OneUserStep, CallsStep DEF WebInv
    <3> QED BY <2>2, <3>1 DEF WebInv, TabsKept, WebTypes, CallsSound
  <2>4. CASE UNCHANGED web
    <3>1. WebTypes' /\ Sessions' /\ OneUser' /\ CallsSound'
      BY <1>4, <2>4 DEF WebInv, WebTypes, Sessions, OneUser, CallsSound, web, TabSound,
                        StoredUser, LoggedOut, Ends, Concerned
    <3> QED BY <2>2, <3>1 DEF WebInv
  <2> QED BY <2>1, <2>3, <2>4
<1> QED BY <1>1, <1>2, <1>4, PTL DEF WebSpec

\* However often a call is sent again and an effect runs again, a call is carried
\* out at most once and a tab hears an event at most once (client.ts:817,
\* realtime.ts:62).
THEOREM EverythingOnce == WebSpec => []OnceOnly
<1>1. WebInv => OnceOnly
  BY DEF WebInv, CallsSound, Listeners, ListensOnce, OnceOnly
<1> QED BY <1>1, WebInvariant, PTL

\* Any number of tabs agree on whose session it is when they have heard of each
\* other's writes and said who they show (auth.tsx:116); and nobody is shown beside
\* the tokens of another user, unless such tokens were stored beside that profile: by
\* a refresh answered late (client.ts:769) or a login that overtakes another tab
\* (auth.tsx:92).
THEOREM TabsAgreeInTheEnd == WebSpec => []TabsAgree
<1>1. ASSUME WebInv PROVE TabsAgree
  <2>1. ASSUME NEW t \in Tabs, inbox[t] = <<>>, ~tab[t].effect
        PROVE  tab[t].shown \in {StoredUser, Nothing}
    BY <1>1, <2>1 DEF WebInv, Sessions, TabSound, Concerned
  <2>2. ASSUME ~mixed, NEW t \in Tabs, NEW pair \in {store.access, store.refresh} \ {Nothing}
        PROVE  tab[t].shown \in {pair.of, Nothing}
    BY <1>1, <2>2 DEF WebInv, OneUser
  <2> QED BY <2>1, <2>2 DEF TabsAgree
<1> QED BY <1>1, WebInvariant, PTL

-----------------------------------------------------------------------------
(* What the pages offer *)

\* What is shown before it is answered is marked whatever the answer is.
Careful(d) == d.shows # "nothing" => d.settled /\ d.shows \in d.marks

Asks(q) == q.key # "nothing"

CarefulScreen(c) == (\A q \in c.asks : Asks(q)) /\ (\A d \in c.does : Careful(d))

LEMMA ScreenFields ==
    ASSUME NEW asks, NEW does
    PROVE  Screen(asks, does).asks = asks /\ Screen(asks, does).does = does
BY DEF Screen

LEMMA AskNames ==
    ASSUME NEW key, NEW call, NEW roles
    PROVE  Ask(key, call, roles).key = key
BY DEF Ask

LEMMA DoCareful ==
    ASSUME NEW call, NEW roles, NEW marks
    PROVE  Careful(Do(call, roles, marks))
BY DEF Careful, Do

LEMMA EachCareful ==
    ASSUME NEW calls_, NEW roles, NEW marks
    PROVE  \A d \in Each(calls_, roles, marks) : Careful(d)
BY DoCareful DEF Each

LEMMA ShownCareful ==
    ASSUME NEW call, NEW roles, NEW key, NEW marks, key \in marks
    PROVE  Careful(Shown(call, roles, key, marks))
BY DEF Careful, Shown, Do

LEMMA AskOf ==
    ASSUME NEW key, key # "nothing", NEW call, NEW roles
    PROVE  Asks(Ask(key, call, roles))
BY DEF Asks, Ask

LEMMA ScreenCareful ==
    ASSUME NEW asks, NEW does, \A q \in asks : Asks(q), \A d \in does : Careful(d)
    PROVE  CarefulScreen(Screen(asks, does))
BY DEF CarefulScreen, Screen

\* The pages of everybody in a team
LEMMA EverybodyCareful ==
    \A c \in {Dashboard, Timer, DailyBlockDialog, EntryEditDialog, SplitEntryDialog,
              BookProjectDialog, TerminalScan, CalendarOfRequests, OwnRequests, NewRequestForm,
              AttachmentsList, SubstituteRow, AbsencesList, NewAbsenceForm} :
        CarefulScreen(c)
BY AskOf, ScreenCareful, DoCareful, EachCareful, ShownCareful
DEF Dashboard, Timer, DailyBlockDialog, EntryEditDialog, SplitEntryDialog, BookProjectDialog,
    TerminalScan, CalendarOfRequests, OwnRequests, NewRequestForm, AttachmentsList,
    SubstituteRow, AbsencesList, NewAbsenceForm

\* The pages of managers and administrators
LEMMA LeadersCareful ==
    \A c \in {AdminRequests, RequestRow, BulkConfirmDialog, AuditTrail, AdminProjects,
              ProjectCard, ServiceOrderList, ServiceOrderRow, ProjectEditor, AssignmentMatrix,
              ProjectReportDialog, AdminWorkingTimes, AdminSchedules, ScheduleCard,
              ScheduleEditor, AdminEmployees, EmployeeEditor, PasswordDialog, PinManagement,
              AdminTerminals, TerminalEditor, AuditView} :
        CarefulScreen(c)
BY AskOf, ScreenCareful, DoCareful, EachCareful, ShownCareful
DEF AdminRequests, RequestRow, BulkConfirmDialog, AuditTrail, AdminProjects, ProjectCard,
    ServiceOrderList, ServiceOrderRow, ProjectEditor, AssignmentMatrix, ProjectReportDialog,
    AdminWorkingTimes, AdminSchedules, ScheduleCard, ScheduleEditor, AdminEmployees,
    EmployeeEditor, PasswordDialog, PinManagement, AdminTerminals, TerminalEditor, AuditView

\* The pages of Solo mode, the settings and what frames every page
LEMMA SoloCareful ==
    \A c \in {SoloDashboard, SoloTimer, PersonalHints, SoloTimes, EntryDialog,
              SoloDailyBlockDialog, SoloCalendar, DayEditor, SoloMonthCalendar, SoloCustomers,
              CustomerEditor, SoloProjects, SoloProjectEditor, OrderEditor, SoloReports,
              ProfileEditor, PolicyEditor, PasswordEditor, ModeEditor, Shell} :
        CarefulScreen(c)
BY AskOf, ScreenCareful, DoCareful, EachCareful, ShownCareful
DEF SoloDashboard, SoloTimer, PersonalHints, SoloTimes, EntryDialog, SoloDailyBlockDialog,
    SoloCalendar, DayEditor, SoloMonthCalendar, SoloCustomers, CustomerEditor, SoloProjects,
    SoloProjectEditor, OrderEditor, SoloReports, ProfileEditor, PolicyEditor, PasswordEditor,
    ModeEditor, Shell, SoloAction

LEMMA AuditCareful ==
    ASSUME NEW call
    PROVE  CarefulScreen(AuditDialog(call))
BY AskOf, ScreenCareful DEF AuditDialog

LEMMA PagesCareful ==
    ASSUME NEW user \in Viewers, NEW p \in PagesOf(user), NEW c \in Components(user, p)
    PROVE  CarefulScreen(c)
<1>1. CASE c = Shell
  BY <1>1, SoloCareful
<1>2. CASE c \in TeamRoutes[p] /\ p \in DOMAIN TeamRoutes
  BY <1>2, EverybodyCareful, LeadersCareful, SoloCareful DEF TeamRoutes, Settings
<1>3. CASE c \in SoloRoutes[p] /\ p \in DOMAIN SoloRoutes
  BY <1>3, SoloCareful, AuditCareful DEF SoloRoutes, Settings
<1> QED BY <1>1, <1>2, <1>3 DEF Components, Routes, PagesOf
-----------------------------------------------------------------------------
(* The query and the calls around it *)

Deeds == UNION {offered[p] : p \in Reachable}

CallPhases == {"free", "asked", "booked", "done", "failed"}

CallState ==
    [phase: CallPhases, does: Deeds \cup {Unknown}, before: (SUBSET Slots) \cup {Unknown}]

ChosenTypes ==
    /\ page \in Reachable
    /\ watched.key # "nothing"
    /\ \A d \in Deeds : Careful(d)

QueryTypes ==
    /\ cache \in [data: (SUBSET Slots) \cup {Unknown}, stale: BOOLEAN, outrun: BOOLEAN]
    /\ fetch \in {Idle, Begun} \cup [phase: {"read"}, found: SUBSET booked]
    /\ calls \in [Slots -> CallState]
    /\ \A s \in Slots : calls[s].phase # "free" => calls[s].does \in Deeds
    /\ booked \in SUBSET Slots
    /\ \A s \in booked : calls[s].phase \in {"booked", "done", "failed"}

\* Shown at once, and not answered yet
Tentative(s) == calls[s].phase \in {"asked", "booked"} /\ calls[s].does.shows = watched.key

SomeTentative == \E s \in Slots : Tentative(s)

\* The query has been told of a call, be it by the component or by the event.
Known(s) ==
    /\ s \in booked
    /\ \/ calls[s].phase = "done" /\ Marks(calls[s].does.marks, watched.key)
       \/ /\ connected /\ watched.key \in Told(Server[calls[s].does.call].event)
          /\ Server[calls[s].does.call].event \notin news

\* What is shown and was not booked is tentative, or will be fetched again.
NothingMadeUp ==
    cache.data # Unknown => cache.data \subseteq booked \/ cache.stale \/ SomeTentative

\* What is known is shown, or will be fetched again.
NothingForgotten ==
    \A s \in Slots :
        Known(s) /\ cache.data # Unknown =>
            s \in cache.data \/ cache.stale \/ cache.outrun \/ fetch # Idle \/ SomeTentative

\* An answer from before a call that is known by now is recognised as such.
AnswersCurrent ==
    fetch.phase = "read" => \A s \in Slots : Known(s) => s \in fetch.found \/ cache.outrun

PagesInv == ChosenTypes /\ QueryTypes /\ NothingMadeUp /\ NothingForgotten /\ AnswersCurrent

LEMMA FetchKinds ==
    ASSUME QueryTypes
    PROVE  /\ fetch.phase = "asked" => fetch = Begun
           /\ fetch.phase = "read" => fetch.found \subseteq booked /\ fetch # Idle
           /\ Idle.phase # "read" /\ Begun.phase # "read" /\ Begun # Idle
BY DEF QueryTypes, Idle, Begun

\* A mark settles everything: the query will be fetched, from now on.
LEMMA InvalidateSound ==
    ASSUME QueryTypes, Invalidate
    PROVE  /\ fetch' \in {fetch, Begun} /\ cache'.stale /\ cache'.data = cache.data
           /\ cache' \in [data: (SUBSET Slots) \cup {Unknown}, stale: BOOLEAN, outrun: BOOLEAN]
           /\ fetch'.phase = "read" => cache'.outrun
<1>1. PICK restart \in BOOLEAN : restart = (Mounted /\ (fetch = Idle \/ cache.data # Unknown))
  OBVIOUS
<1>2. PICK late \in BOOLEAN : late = (~restart /\ fetch # Idle)
  OBVIOUS
<1>3. fetch' = IF restart THEN Begun ELSE fetch
  BY <1>1 DEF Invalidate
<1>4. cache' = [cache EXCEPT !.stale = TRUE, !.outrun = late]
  BY <1>1, <1>2 DEF Invalidate
<1>5. /\ cache'.stale /\ cache'.data = cache.data /\ cache'.outrun = late
      /\ cache' \in [data: (SUBSET Slots) \cup {Unknown}, stale: BOOLEAN, outrun: BOOLEAN]
  BY <1>4 DEF QueryTypes
<1>6. fetch'.phase = "read" => late
  BY <1>2, <1>3, FetchKinds
<1> QED BY <1>3, <1>5, <1>6

\* Once the query is marked, whatever was known is accounted for.
LEMMA MarkedSound ==
    ASSUME cache'.stale, fetch'.phase = "read" => cache'.outrun
    PROVE  NothingMadeUp' /\ NothingForgotten' /\ AnswersCurrent'
BY DEF NothingMadeUp, NothingForgotten, AnswersCurrent

LEMMA ChosenStays ==
    ASSUME ChosenTypes, UNCHANGED chosen, page' \in Reachable
    PROVE  ChosenTypes' /\ Deeds' = Deeds /\ CallState' = CallState
BY DEF ChosenTypes, chosen, Deeds, Reachable, CallState

LEMMA BeginSound ==
    ASSUME PagesInv, fetch = Idle, Begin, UNCHANGED <<chosen, calls, booked, news>>,
           page' \in Reachable
    PROVE  PagesInv'
<1>1. fetch' = Begun /\ cache' = [cache EXCEPT !.outrun = FALSE]
  BY DEF Begin
<1>2. ChosenTypes' /\ Deeds' = Deeds /\ CallState' = CallState
  BY ChosenStays DEF PagesInv
<1>3. QueryTypes
  BY DEF PagesInv
<1>4. cache'.data = cache.data /\ cache'.stale = cache.stale
      /\ cache' \in [data: (SUBSET Slots) \cup {Unknown}, stale: BOOLEAN, outrun: BOOLEAN]
  BY <1>1, <1>3 DEF QueryTypes
<1>5. QueryTypes'
  BY <1>1, <1>2, <1>3, <1>4 DEF QueryTypes
<1>6. NothingMadeUp'
  BY <1>4 DEF PagesInv, NothingMadeUp, SomeTentative, Tentative, chosen
<1>7. NothingForgotten' /\ AnswersCurrent'
  BY <1>1, FetchKinds, <1>3 DEF NothingForgotten, AnswersCurrent
<1> QED BY <1>2, <1>5, <1>6, <1>7 DEF PagesInv

LEMMA NavigateSound ==
    ASSUME PagesInv, NEW p \in Reachable, Navigate(p)
    PROVE  PagesInv'
<1>1. page' \in Reachable /\ UNCHANGED <<chosen, calls, booked, news>>
  BY DEF Navigate
<1>2. CASE fetch = Idle /\ Begin
  BY <1>1, <1>2, BeginSound
<1>3. CASE UNCHANGED <<fetch, cache>>
  <2>1. ChosenTypes' /\ Deeds' = Deeds /\ CallState' = CallState
    BY <1>1, ChosenStays DEF PagesInv
  <2>2. QueryTypes'
    BY <1>1, <1>3, <2>1 DEF PagesInv, QueryTypes
  <2> QED BY <1>1, <1>3, <2>1, <2>2 DEF PagesInv, NothingMadeUp, NothingForgotten, AnswersCurrent,
             Known, SomeTentative, Tentative, chosen
<1> QED BY <1>2, <1>3 DEF Navigate

LEMMA FetchReadsSound == ASSUME PagesInv, FetchReads PROVE PagesInv'
<1>1. UNCHANGED <<chosen, page, cache, calls, booked, news>>
      /\ fetch' = [phase |-> "read", found |-> booked]
  BY DEF FetchReads
<1>2. ChosenTypes' /\ Deeds' = Deeds /\ CallState' = CallState
  BY <1>1, ChosenStays DEF PagesInv, ChosenTypes
<1>3. QueryTypes'
  BY <1>1, <1>2 DEF PagesInv, QueryTypes
<1>4. fetch' # Idle /\ fetch'.found = booked
  BY <1>1 DEF Idle
<1>5. NothingMadeUp'
  BY <1>1 DEF PagesInv, NothingMadeUp, SomeTentative, Tentative, chosen
<1>6. NothingForgotten' /\ AnswersCurrent'
  BY <1>1, <1>4 DEF NothingForgotten, AnswersCurrent, Known
<1> QED BY <1>2, <1>3, <1>5, <1>6 DEF PagesInv

LEMMA FetchArrivesSound == ASSUME PagesInv, FetchArrives PROVE PagesInv'
<1>1. UNCHANGED <<chosen, page, calls, booked, news>> /\ fetch' = Idle /\ fetch.phase = "read"
      /\ cache' = [cache EXCEPT !.data = fetch.found, !.stale = FALSE]
  BY DEF FetchArrives
<1>2. ChosenTypes' /\ Deeds' = Deeds /\ CallState' = CallState
  BY <1>1, ChosenStays DEF PagesInv, ChosenTypes
<1>3. QueryTypes /\ fetch.found \subseteq booked
  BY <1>1, FetchKinds DEF PagesInv
<1>4. fetch.found \in SUBSET Slots
  BY <1>3 DEF QueryTypes
<1>5. cache'.data = fetch.found /\ cache'.outrun = cache.outrun
      /\ cache' \in [data: (SUBSET Slots) \cup {Unknown}, stale: BOOLEAN, outrun: BOOLEAN]
  BY <1>1, <1>3, <1>4 DEF QueryTypes
<1>6. QueryTypes'
  BY <1>1, <1>2, <1>3, <1>5 DEF QueryTypes
<1>7. NothingMadeUp'
  BY <1>1, <1>3, <1>5 DEF NothingMadeUp
<1>8. \A s \in Slots : Known(s)' => Known(s)
  BY <1>1 DEF Known, chosen
<1>9. NothingForgotten'
  BY <1>1, <1>5, <1>8 DEF NothingForgotten, PagesInv, AnswersCurrent
<1>10. AnswersCurrent'
  BY <1>1, <1>3, FetchKinds DEF AnswersCurrent
<1> QED BY <1>2, <1>6, <1>7, <1>9, <1>10 DEF PagesInv

LEMMA FetchFailsSound == ASSUME PagesInv, FetchFails PROVE PagesInv'
<1>1. UNCHANGED <<chosen, page, calls, booked, news>> /\ fetch' = Idle
      /\ cache' = [cache EXCEPT !.stale = TRUE]
  BY DEF FetchFails
<1>2. ChosenTypes' /\ Deeds' = Deeds /\ CallState' = CallState
  BY <1>1, ChosenStays DEF PagesInv, ChosenTypes
<1>3. QueryTypes
  BY DEF PagesInv
<1>4. cache'.stale
      /\ cache' \in [data: (SUBSET Slots) \cup {Unknown}, stale: BOOLEAN, outrun: BOOLEAN]
  BY <1>1, <1>3 DEF QueryTypes
<1>5. QueryTypes'
  BY <1>1, <1>2, <1>3, <1>4 DEF QueryTypes
<1> QED BY <1>1, <1>2, <1>3, <1>4, <1>5, FetchKinds, MarkedSound DEF PagesInv
\* The query is marked, and one call may have ended.
LEMMA TouchedSound ==
    ASSUME PagesInv, NEW marks, Touched(marks), Marks(marks, watched.key),
           UNCHANGED <<chosen, page, booked>>, calls' \in [Slots -> CallState],
           \A s \in Slots : calls'[s].phase # "free" => calls'[s].does \in Deeds,
           \A s \in booked : calls'[s].phase \in {"booked", "done", "failed"}
    PROVE  PagesInv'
<1>1. Invalidate /\ QueryTypes
  BY DEF Touched, PagesInv
<1>2. /\ fetch' \in {fetch, Begun} /\ cache'.stale
      /\ cache' \in [data: (SUBSET Slots) \cup {Unknown}, stale: BOOLEAN, outrun: BOOLEAN]
      /\ fetch'.phase = "read" => cache'.outrun
  BY <1>1, InvalidateSound
<1>3. ChosenTypes' /\ Deeds' = Deeds /\ CallState' = CallState
  BY ChosenStays DEF PagesInv, ChosenTypes
<1>4. QueryTypes'
  BY <1>1, <1>2, <1>3 DEF QueryTypes
<1> QED BY <1>2, <1>3, <1>4, MarkedSound DEF PagesInv

LEMMA EventArrivesSound == ASSUME PagesInv, NEW e \in news, EventArrives(e) PROVE PagesInv'
<1>1. Touched(Told(e)) /\ UNCHANGED <<chosen, page, calls, booked>> /\ news' = news \ {e}
  BY DEF EventArrives
<1>2. CASE Marks(Told(e), watched.key)
  <2>1. /\ calls' \in [Slots -> CallState]
        /\ \A s \in Slots : calls'[s].phase # "free" => calls'[s].does \in Deeds
        /\ \A s \in booked : calls'[s].phase \in {"booked", "done", "failed"}
    BY <1>1 DEF PagesInv, QueryTypes
  <2>2. PICK marks : marks = Told(e)
    OBVIOUS
  <2> QED BY <1>1, <1>2, <2>1, <2>2, TouchedSound
<1>3. CASE ~Marks(Told(e), watched.key)
  <2>1. UNCHANGED <<fetch, cache>>
    BY <1>1, <1>3 DEF Touched
  <2>2. ChosenTypes' /\ Deeds' = Deeds /\ CallState' = CallState
    BY <1>1, ChosenStays DEF PagesInv, ChosenTypes
  <2>3. QueryTypes'
    BY <1>1, <2>1, <2>2 DEF PagesInv, QueryTypes
  <2>4. watched.key \notin Told(e)
    BY <1>3 DEF Marks
  <2>5. ASSUME NEW s \in Slots, Known(s)' PROVE Known(s)
    <3>1. watched' = watched /\ connected' = connected
      BY <1>1 DEF chosen
    <3> QED BY <1>1, <2>4, <2>5, <3>1 DEF Known
  <2>6. NothingMadeUp'
    BY <1>1, <2>1 DEF PagesInv, NothingMadeUp, SomeTentative, Tentative, chosen
  <2>7. SomeTentative => SomeTentative'
    BY <1>1 DEF SomeTentative, Tentative, chosen
  <2>8. NothingForgotten' /\ AnswersCurrent'
    BY <2>1, <2>5, <2>7 DEF PagesInv, NothingForgotten, AnswersCurrent
  <2> QED BY <2>2, <2>3, <2>6, <2>8 DEF PagesInv
<1> QED BY <1>2, <1>3

LEMMA BecomesTypes ==
    ASSUME QueryTypes, NEW s \in Slots, NEW phase \in CallPhases, Becomes(s, phase)
    PROVE  /\ calls' \in [Slots -> CallState] /\ calls'[s].phase = phase
           /\ calls'[s].does = calls[s].does
           /\ \A x \in Slots \ {s} : calls'[x] = calls[x]
BY DEF QueryTypes, Becomes, CallState

LEMMA CarriedOutSound == ASSUME PagesInv, NEW s \in Slots, CarriedOut(s) PROVE PagesInv'
<1>1. /\ UNCHANGED <<chosen, page, cache, fetch>> /\ calls[s].phase = "asked"
      /\ Becomes(s, "booked")
      /\ booked' \in {booked, booked \cup {s}}
      /\ news' = IF connected THEN (news \cup {Server[calls[s].does.call].event}) \ {"none"}
                 ELSE news
  BY DEF CarriedOut
<1>2. ChosenTypes' /\ Deeds' = Deeds /\ CallState' = CallState
  BY <1>1, ChosenStays DEF PagesInv, ChosenTypes
<1>3. QueryTypes /\ s \notin booked
  BY <1>1 DEF PagesInv, QueryTypes
<1>4. /\ calls' \in [Slots -> CallState] /\ calls'[s].phase = "booked"
      /\ calls'[s].does = calls[s].does /\ \A x \in Slots \ {s} : calls'[x] = calls[x]
  BY <1>1, <1>3, BecomesTypes DEF CallPhases
<1>5. QueryTypes'
  <2>1. booked' \in SUBSET Slots /\ booked \subseteq booked'
    BY <1>1, <1>3 DEF QueryTypes
  <2>2. fetch' \in {Idle, Begun} \cup [phase: {"read"}, found: SUBSET booked']
    BY <1>1, <1>3, <2>1 DEF QueryTypes
  <2>3. \A x \in Slots : calls'[x].phase # "free" => calls'[x].does \in Deeds
    BY <1>1, <1>3, <1>4 DEF QueryTypes
  <2>4. \A x \in booked' : calls'[x].phase \in {"booked", "done", "failed"}
    BY <1>1, <1>3, <1>4 DEF QueryTypes
  <2> QED BY <1>1, <1>2, <1>3, <1>4, <2>1, <2>2, <2>3, <2>4 DEF QueryTypes
<1>6. watched' = watched /\ connected' = connected
  BY <1>1 DEF chosen
<1>7. SomeTentative => SomeTentative'
  BY <1>1, <1>4, <1>6 DEF SomeTentative, Tentative
<1>8. NothingMadeUp'
  BY <1>1, <1>7 DEF PagesInv, NothingMadeUp
<1>9. ASSUME NEW x \in Slots, Known(x)' PROVE Known(x)
  <2>1. Told("none") = {}
    BY DEF Told
  <2>2. CASE x = s
    <3>1. /\ connected /\ watched.key \in Told(Server[calls[s].does.call].event)
          /\ Server[calls[s].does.call].event \notin news'
      BY <1>4, <1>6, <1>9, <2>2 DEF Known
    <3>2. Server[calls[s].does.call].event # "none"
      BY <2>1, <3>1
    <3> QED BY <1>1, <3>1, <3>2
  <2>3. CASE x # s
    <3>1. calls'[x] = calls[x] /\ x \in booked
      BY <1>1, <1>4, <1>9, <2>3 DEF Known
    <3>2. CASE calls[x].phase = "done" /\ Marks(calls[x].does.marks, watched.key)
      BY <3>1, <3>2 DEF Known
    <3>3. CASE ~(calls[x].phase = "done" /\ Marks(calls[x].does.marks, watched.key))
      <4>1. /\ connected /\ watched.key \in Told(Server[calls[x].does.call].event)
            /\ Server[calls[x].does.call].event \notin news'
        BY <1>6, <1>9, <3>1, <3>3 DEF Known
      <4>2. Server[calls[x].does.call].event \notin news
        BY <1>1, <2>1, <4>1
      <4> QED BY <3>1, <4>1, <4>2 DEF Known
    <3> QED BY <3>2, <3>3
  <2> QED BY <2>2, <2>3
<1>10. NothingForgotten' /\ AnswersCurrent'
  BY <1>1, <1>7, <1>9 DEF PagesInv, NothingForgotten, AnswersCurrent
<1> QED BY <1>2, <1>5, <1>8, <1>10 DEF PagesInv

LEMMA SucceedsSound == ASSUME PagesInv, NEW s \in Slots, Succeeds(s) PROVE PagesInv'
<1>1. /\ calls[s].phase = "booked" /\ Becomes(s, "done") /\ Touched(calls[s].does.marks)
      /\ UNCHANGED <<chosen, page, booked, news>>
  BY DEF Succeeds
<1>2. ChosenTypes' /\ Deeds' = Deeds /\ CallState' = CallState
  BY <1>1, ChosenStays DEF PagesInv, ChosenTypes
<1>3. QueryTypes /\ calls[s].does \in Deeds /\ Careful(calls[s].does) /\ watched.key # "nothing"
  BY <1>1 DEF PagesInv, QueryTypes, ChosenTypes
<1>4. /\ calls' \in [Slots -> CallState] /\ calls'[s].phase = "done"
      /\ calls'[s].does = calls[s].does /\ \A x \in Slots \ {s} : calls'[x] = calls[x]
  BY <1>1, <1>3, BecomesTypes DEF CallPhases
<1>5. /\ \A x \in Slots : calls'[x].phase # "free" => calls'[x].does \in Deeds
      /\ \A x \in booked : calls'[x].phase \in {"booked", "done", "failed"}
  BY <1>3, <1>4 DEF QueryTypes
<1>6. CASE Marks(calls[s].does.marks, watched.key)
  <2>1. PICK marks : marks = calls[s].does.marks
    OBVIOUS
  <2> QED BY <1>1, <1>4, <1>5, <1>6, <2>1, TouchedSound
<1>7. CASE ~Marks(calls[s].does.marks, watched.key)
  <2>1. UNCHANGED <<fetch, cache>>
    BY <1>1, <1>7 DEF Touched
  <2>2. watched' = watched /\ connected' = connected
    BY <1>1 DEF chosen
  <2>3. ~Tentative(s)
    BY <1>3, <1>7 DEF Tentative, Careful, Marks
  <2>4. SomeTentative => SomeTentative'
    BY <1>4, <2>2, <2>3 DEF SomeTentative, Tentative
  <2>5. \A x \in Slots : Known(x)' => Known(x)
    BY <1>1, <1>4, <1>7, <2>2 DEF Known
  <2>6. QueryTypes'
    BY <1>1, <1>2, <1>3, <1>4, <1>5, <2>1 DEF QueryTypes
  <2>7. NothingMadeUp' /\ NothingForgotten' /\ AnswersCurrent'
    BY <1>1, <2>1, <2>4, <2>5 DEF PagesInv, NothingMadeUp, NothingForgotten, AnswersCurrent
  <2> QED BY <1>2, <2>6, <2>7 DEF PagesInv
<1> QED BY <1>6, <1>7

LEMMA FailsSound == ASSUME PagesInv, NEW s \in Slots, Fails(s) PROVE PagesInv'
<1> DEFINE d == calls[s].does
<1>1. PICK rolledBack \in BOOLEAN :
          rolledBack = (d.shows = watched.key /\ calls[s].before # Unknown)
  OBVIOUS
<1>2. PICK marked \in BOOLEAN : marked = (d.settled /\ Marks(d.marks, watched.key))
  OBVIOUS
<1>3. PICK restart \in BOOLEAN : restart = (marked /\ Mounted)
  OBVIOUS
<1>4. /\ calls[s].phase \in {"asked", "booked"} /\ Becomes(s, "failed")
      /\ fetch' = IF restart THEN Begun ELSE fetch
      /\ cache' = [data |-> IF rolledBack THEN calls[s].before ELSE cache.data,
                   stale |-> marked \/ (cache.stale /\ ~rolledBack),
                   outrun |-> IF marked THEN ~restart /\ fetch # Idle ELSE cache.outrun]
      /\ UNCHANGED <<chosen, page, booked, news>>
  BY <1>1, <1>2, <1>3 DEF Fails
<1>5. ChosenTypes' /\ Deeds' = Deeds /\ CallState' = CallState
  BY <1>4, ChosenStays DEF PagesInv, ChosenTypes
<1>6. QueryTypes /\ d \in Deeds /\ Careful(d) /\ watched.key # "nothing"
  BY <1>4 DEF PagesInv, QueryTypes, ChosenTypes
<1>7. /\ calls' \in [Slots -> CallState] /\ calls'[s].phase = "failed"
      /\ calls'[s].does = d /\ \A x \in Slots \ {s} : calls'[x] = calls[x]
  BY <1>4, <1>6, BecomesTypes DEF CallPhases
<1>8. cache' \in [data: (SUBSET Slots) \cup {Unknown}, stale: BOOLEAN, outrun: BOOLEAN]
  <2>1. calls[s].before \in (SUBSET Slots) \cup {Unknown}
        /\ cache.data \in (SUBSET Slots) \cup {Unknown} /\ cache.stale \in BOOLEAN
        /\ cache.outrun \in BOOLEAN
    BY <1>6 DEF QueryTypes, CallState
  <2> QED BY <1>4, <2>1
<1>9. QueryTypes'
  <2>1. \A x \in Slots : calls'[x].phase # "free" => calls'[x].does \in Deeds
    BY <1>6, <1>7 DEF QueryTypes
  <2>2. \A x \in booked : calls'[x].phase \in {"booked", "done", "failed"}
    BY <1>6, <1>7 DEF QueryTypes
  <2> QED BY <1>4, <1>5, <1>6, <1>7, <1>8, <2>1, <2>2 DEF QueryTypes
<1>10. CASE marked
  <2>1. cache'.stale
    BY <1>4, <1>10
  <2>2. fetch'.phase = "read" => cache'.outrun
    BY <1>4, <1>6, <1>10, FetchKinds
  <2> QED BY <1>5, <1>9, <2>1, <2>2, MarkedSound DEF PagesInv
<1>11. CASE ~marked
  <2>1. d.shows # watched.key
    BY <1>2, <1>6, <1>11 DEF Careful, Marks
  <2>2. ~rolledBack /\ ~restart
    BY <1>1, <1>3, <1>11, <2>1
  <2>3. fetch' = fetch /\ cache'.data = cache.data /\ (cache'.stale <=> cache.stale)
        /\ (cache'.outrun <=> cache.outrun)
    BY <1>4, <1>11, <2>2
  <2>4. watched' = watched /\ connected' = connected
    BY <1>4 DEF chosen
  <2>5. SomeTentative => SomeTentative'
    BY <1>7, <2>1, <2>4 DEF SomeTentative, Tentative
  <2>6. \A x \in Slots : Known(x)' => Known(x)
    BY <1>4, <1>7, <2>4 DEF Known
  <2>7. NothingMadeUp' /\ NothingForgotten' /\ AnswersCurrent'
    BY <1>4, <2>3, <2>5, <2>6 DEF PagesInv, NothingMadeUp, NothingForgotten, AnswersCurrent
  <2> QED BY <1>5, <1>9, <2>7 DEF PagesInv
<1> QED BY <1>10, <1>11

LEMMA MutateSound ==
    ASSUME PagesInv, NEW s \in Slots, NEW d \in offered[page], Mutate(s, d)
    PROVE  PagesInv'
<1>1. /\ calls[s].phase = "free" /\ UNCHANGED <<chosen, page, booked, news>>
      /\ calls' = [calls EXCEPT ![s] = [phase |-> "asked", does |-> d, before |-> cache.data]]
  BY DEF Mutate
<1>2. ChosenTypes' /\ Deeds' = Deeds /\ CallState' = CallState
  BY <1>1, ChosenStays DEF PagesInv, ChosenTypes
<1>3. QueryTypes /\ d \in Deeds /\ s \notin booked
  BY <1>1 DEF PagesInv, QueryTypes, ChosenTypes, Deeds
<1>4. /\ calls' \in [Slots -> CallState] /\ calls'[s].phase = "asked" /\ calls'[s].does = d
      /\ \A x \in Slots \ {s} : calls'[x] = calls[x]
  <2>1. [phase |-> "asked", does |-> d, before |-> cache.data] \in CallState
    BY <1>3 DEF QueryTypes, CallState, CallPhases
  <2> QED BY <1>1, <1>3, <2>1 DEF QueryTypes
<1>5. /\ \A x \in Slots : calls'[x].phase # "free" => calls'[x].does \in Deeds
      /\ \A x \in booked : calls'[x].phase \in {"booked", "done", "failed"}
  BY <1>3, <1>4 DEF QueryTypes
<1>6. watched' = watched /\ connected' = connected
  BY <1>1 DEF chosen
<1>7. \A x \in Slots : Known(x)' => Known(x)
  BY <1>1, <1>3, <1>4, <1>6 DEF Known
<1>8. SomeTentative => SomeTentative'
  BY <1>1, <1>4, <1>6 DEF SomeTentative, Tentative
<1>9. CASE d.shows = watched.key
  <2>1. PICK data : data = (IF cache.data = Unknown THEN {} ELSE cache.data) \cup {s}
    OBVIOUS
  <2>2. data \in SUBSET Slots
    BY <1>3, <2>1 DEF QueryTypes
  <2>3. fetch' = Idle /\ cache' = [cache EXCEPT !.stale = FALSE, !.data = data]
    BY <1>9, <2>1 DEF Mutate
  <2>4. cache' \in [data: (SUBSET Slots) \cup {Unknown}, stale: BOOLEAN, outrun: BOOLEAN]
    BY <1>3, <2>2, <2>3 DEF QueryTypes
  <2>5. QueryTypes'
    BY <1>1, <1>2, <1>3, <1>4, <1>5, <2>3, <2>4 DEF QueryTypes
  <2>6. SomeTentative'
    BY <1>4, <1>6, <1>9 DEF SomeTentative, Tentative
  <2>7. NothingMadeUp' /\ NothingForgotten' /\ AnswersCurrent'
    BY <1>3, <2>3, <2>6, FetchKinds DEF NothingMadeUp, NothingForgotten, AnswersCurrent
  <2> QED BY <1>2, <2>5, <2>7 DEF PagesInv
<1>10. CASE d.shows # watched.key
  <2>1. UNCHANGED <<fetch, cache>>
    BY <1>10 DEF Mutate
  <2>2. QueryTypes'
    BY <1>1, <1>2, <1>3, <1>4, <1>5, <2>1 DEF QueryTypes
  <2>3. NothingMadeUp' /\ NothingForgotten' /\ AnswersCurrent'
    BY <1>1, <1>7, <1>8, <2>1 DEF PagesInv, NothingMadeUp, NothingForgotten, AnswersCurrent
  <2> QED BY <1>2, <2>2, <2>3 DEF PagesInv
<1> QED BY <1>9, <1>10

LEMMA RefetchSound == ASSUME PagesInv, Refetch PROVE PagesInv'
BY BeginSound DEF Refetch, PagesInv, ChosenTypes, Reachable, chosen

-----------------------------------------------------------------------------
(* Theorems about the pages *)

\* The invariant behind the next (BookingPage.tsx, realtime.ts, useSoloAction).
THEOREM PagesInvariant == PagesSpec => []PagesInv
<1>1. ASSUME PagesInit PROVE PagesInv
  <2>1. PICK p \in PagesOf(viewer) : watched \in Asked(viewer, p)
    BY <1>1 DEF PagesInit, ChosenInit
  <2>2. viewer \in Viewers /\ Reachable = PagesOf(viewer) /\ page \in Reachable
        /\ \A r \in Reachable : offered[r] \subseteq Offered(viewer, r)
    BY <1>1 DEF PagesInit, ChosenInit, Reachable
  <2>3. PICK c \in Components(viewer, p) : watched \in c.asks
    BY <2>1 DEF Asked
  <2>4. PICK user : user = viewer
    OBVIOUS
  <2>5. CarefulScreen(c)
    BY <2>2, <2>3, <2>4, PagesCareful
  <2>6. watched.key # "nothing"
    BY <2>3, <2>5 DEF CarefulScreen, Asks
  <2>7. ASSUME NEW d \in Deeds PROVE Careful(d)
    <3>1. PICK r \in Reachable : d \in Offered(viewer, r)
      BY <2>2, <2>7 DEF Deeds
    <3>2. PICK x \in Components(viewer, r) : d \in x.does
      BY <3>1 DEF Offered
    <3>3. CarefulScreen(x)
      BY <2>2, <2>4, <3>1, <3>2, PagesCareful
    <3> QED BY <3>2, <3>3 DEF CarefulScreen
  <2>8. ChosenTypes
    BY <2>2, <2>6, <2>7 DEF ChosenTypes
  <2>9. QueryTypes
    BY <1>1 DEF PagesInit, QueryInit, QueryTypes, CallState, CallPhases
  <2>10. NothingMadeUp /\ NothingForgotten /\ AnswersCurrent
    BY <1>1, FetchKinds, <2>9 DEF PagesInit, QueryInit, NothingMadeUp, NothingForgotten,
       AnswersCurrent
  <2> QED BY <2>8, <2>9, <2>10 DEF PagesInv
<1>2. ASSUME PagesInv, UNCHANGED pages PROVE PagesInv'
  <2>1. UNCHANGED <<chosen, page, cache, fetch, calls, booked, news>>
    BY <1>2 DEF pages
  <2>2. ChosenTypes' /\ Deeds' = Deeds /\ CallState' = CallState
    BY <1>2, <2>1, ChosenStays DEF PagesInv, ChosenTypes
  <2>3. QueryTypes'
    BY <1>2, <2>1, <2>2 DEF PagesInv, QueryTypes
  <2> QED BY <1>2, <2>1, <2>2, <2>3 DEF PagesInv, NothingMadeUp, NothingForgotten, AnswersCurrent,
             Known, SomeTentative, Tentative, chosen
<1>3. ASSUME PagesInv, PagesNext PROVE PagesInv'
  BY <1>3, NavigateSound, MutateSound, CarriedOutSound, SucceedsSound, FailsSound,
     EventArrivesSound, RefetchSound, FetchReadsSound, FetchArrivesSound, FetchFailsSound
  DEF PagesNext
<1> QED BY <1>1, <1>2, <1>3, PTL DEF PagesSpec

\* Whatever page is open, whatever calls, fetches and events overlap, a page that
\* has settled shows nothing that was not booked, and shows what was booked through
\* it, but for calls that nothing makes known to its query (MadeKnown: those that only
\* an event would tell while there is no socket, and the facts in Overlooked) and for
\* an answer that was outrun (BookingPage.tsx:291, realtime.ts:64).
THEOREM OwnWritesAreSeen == PagesSpec => []OwnWritesSeen
<1>1. ASSUME PagesInv, Quiet
      PROVE  /\ cache.data \subseteq booked
             /\ \A s \in booked :
                   calls[s].phase = "done" /\ MadeKnown(calls[s].does) =>
                       s \in cache.data \/ Outrun
  <2>1. QueryTypes /\ NothingMadeUp /\ NothingForgotten
    BY <1>1 DEF PagesInv
  <2>2. /\ cache.data # Unknown /\ ~cache.stale /\ fetch = Idle /\ news = {}
        /\ ~SomeTentative
    BY <1>1 DEF Quiet, SomeTentative, Tentative
  <2>3. ASSUME NEW s \in booked, calls[s].phase = "done", MadeKnown(calls[s].does)
        PROVE  Known(s) /\ s \in Slots
    BY <2>1, <2>2, <2>3 DEF Known, MadeKnown, QueryTypes
  <2> QED BY <2>1, <2>2, <2>3 DEF NothingMadeUp, NothingForgotten, Outrun
<1>2. PagesInv => OwnWritesSeen
  BY <1>1 DEF OwnWritesSeen
<1> QED BY <1>2, PagesInvariant, PTL
=============================================================================
