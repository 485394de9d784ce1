----------------------------- MODULE WebSession -----------------------------
(***************************************************************************)
(* The session of the web client (apps/web/src/app/auth.tsx, realtime.ts    *)
(* and the request helper of api/client.ts): several tabs of one browser    *)
(* share localStorage, each with its own React state, its own refresh and   *)
(* its own event socket.  A tab hears of another tab's writes by storage    *)
(* events, some time later and in the order of the writes.  Every pair of   *)
(* tokens belongs to the user it was issued to, which the client never      *)
(* looks at: it goes by the profile that it keeps beside them.              *)
(*                                                                         *)
(* The server is nondeterministic here; module Accounts has it.            *)
(***************************************************************************)
EXTENDS Naturals, FiniteSets, Sequences

CONSTANTS
    Tabs,       \* documents of one origin
    Users,
    Requests,   \* calls of the API that write
    Nothing,    \* null, and a key that is not stored
    MaxTokens,  \* bound: token pairs handed out
    MaxReloads  \* bound: documents loaded again

\* A pair of tokens, and the user it was issued to
Tokens == [no: Nat, of: Users]

ASSUME WebSessionAssumption ==
    /\ Nothing \notin Users /\ Nothing \notin Tokens
    /\ MaxTokens \in Nat /\ MaxReloads \in Nat

VARIABLES
    store,    \* localStorage: access token, refresh token, cached profile
    inbox,    \* storage events that wait in each tab
    tab,      \* the React state of each tab
    conn,     \* its event socket (module state of realtime.ts)
    request,  \* the calls of the API
    minted,   \* token pairs handed out
    reloads,
    mixed     \* history: the tokens were stored beside the profile of somebody else

web == <<store, inbox, tab, request, minted, reloads, mixed>>

-----------------------------------------------------------------------------
(* localStorage *)

Cleared == [access |-> Nothing, refresh |-> Nothing, user |-> Nothing]

\* A profile counts only beside a token.
StoredUser ==
    IF store.access = Nothing /\ store.refresh = Nothing THEN Nothing ELSE store.user

\* A write of tab t: every key whose value changes is an event for the others.
Changed(new, key) ==
    IF new[key] = store[key] THEN <<>> ELSE <<[key |-> key, gone |-> new[key] = Nothing]>>
Heard(new) == Changed(new, "access") \o Changed(new, "refresh") \o Changed(new, "user")

Store(t, new, rest) ==
    /\ store' = new
    /\ inbox' = [x \in Tabs |-> IF x = t THEN rest ELSE inbox[x] \o Heard(new)]

-----------------------------------------------------------------------------
(* The profile a tab shows *)

Blank == [shown |-> Nothing, effect |-> FALSE, login |-> Nothing, refreshing |-> Nothing]

\* setUser: another object, so the effects run again; null for null changes nothing.
SetUser(T, u) == [T EXCEPT !.shown = u, !.effect = @ \/ T.shown # Nothing \/ u # Nothing]

\* clearSession, as one task of tab t whose state is T
ClearSession(t, T, rest) ==
    /\ Store(t, Cleared, rest)
    /\ tab' = [tab EXCEPT ![t] = SetUser(T, Nothing)]

\* A tab is loaded, or loaded again: whatever it waited for is gone.
Load(t) ==
    /\ reloads < MaxReloads
    /\ reloads' = reloads + 1
    /\ tab' = [tab EXCEPT ![t] = [Blank EXCEPT !.shown = StoredUser, !.effect = TRUE]]
    /\ inbox' = [inbox EXCEPT ![t] = <<>>]
    /\ request' = [r \in Requests |->
           IF request[r].tab = t THEN [request[r] EXCEPT !.phase = "ended"] ELSE request[r]]
    /\ UNCHANGED <<store, minted, mixed>>

AskLogin(t, u) ==
    /\ tab[t].shown = Nothing /\ tab[t].login = Nothing
    /\ tab' = [tab EXCEPT ![t].login = u]
    /\ UNCHANGED <<store, inbox, request, minted, reloads, mixed>>

\* The server's answer to tab t: a pair for u, stored whatever profiles are stored and
\* stay shown
StoreTokens(t, u, staying) ==
    LET pair == [no |-> minted + 1, of |-> u]
        profiles == {store.user} \cup {tab[x].shown : x \in staying}
    IN  /\ minted < MaxTokens /\ minted' = minted + 1
        /\ Store(t, [store EXCEPT !.access = pair, !.refresh = pair], inbox[t])
        /\ mixed' = ~(profiles \subseteq {u, Nothing})

\* login: both tokens at once, the profile by the effect
Login(t) ==
    LET u == tab[t].login
    IN  /\ u # Nothing
        /\ StoreTokens(t, u, Tabs \ {t})
        /\ tab' = [tab EXCEPT ![t] = SetUser([tab[t] EXCEPT !.login = Nothing], u)]
        /\ UNCHANGED <<request, reloads>>

Logout(t) ==
    /\ tab[t].shown # Nothing
    /\ ClearSession(t, tab[t], inbox[t])
    /\ UNCHANGED <<request, minted, reloads, mixed>>

-----------------------------------------------------------------------------
(* The effect of a commit: the profile is stored *)

Effects(t) ==
    /\ tab[t].effect
    /\ tab' = [tab EXCEPT ![t].effect = FALSE]
    /\ Store(t, [store EXCEPT !.user = tab[t].shown], inbox[t])
    /\ UNCHANGED <<request, minted, reloads, mixed>>

-----------------------------------------------------------------------------
(* Storage events, and a document that becomes active again *)

\* The removal of a token is left to the document that removed it.
EndsSession_Fault(e) == FALSE

EndsSession(e) == e.key # "user" /\ e.gone

HandleStorage(t) ==
    /\ inbox[t] # <<>>
    /\ LET e == Head(inbox[t])
           rest == Tail(inbox[t])
       IN  IF EndsSession(e)
           THEN ClearSession(t, tab[t], rest)
           ELSE /\ tab' = IF e.key = "user"
                          THEN [tab EXCEPT ![t] = SetUser(@, StoredUser)] ELSE tab
                /\ Store(t, store, rest)
    /\ UNCHANGED <<request, minted, reloads, mixed>>

Reconcile(t) ==
    /\ StoredUser # tab[t].shown
    /\ IF StoredUser # Nothing
       THEN /\ tab' = [tab EXCEPT ![t] = SetUser(@, StoredUser)]
            /\ UNCHANGED <<store, inbox>>
       ELSE ClearSession(t, tab[t], inbox[t])
    /\ UNCHANGED <<request, minted, reloads, mixed>>

-----------------------------------------------------------------------------
(* request: one attempt, and one more after a 401 and a refresh *)

Unsent == [phase |-> "unsent", tab |-> Nothing, executed |-> 0]

UnderWay(r) == request[r].phase \in {"sent", "resent"}
Waiting(t) == {r \in Requests : request[r].tab = t /\ request[r].phase = "refused"}

Phase(rs, phase) ==
    request' = [r \in Requests |-> IF r \in rs THEN [request[r] EXCEPT !.phase = phase] ELSE request[r]]

Send(t, r) ==
    /\ tab[t].shown # Nothing /\ request[r] = Unsent
    /\ request' = [request EXCEPT ![r].phase = "sent", ![r].tab = t]
    /\ UNCHANGED <<store, inbox, tab, minted, reloads, mixed>>

\* The server carries the call out; its answer may still be lost.
Execute(r) ==
    /\ UnderWay(r)
    /\ request' = [request EXCEPT ![r].executed = @ + 1,
                                  ![r].phase = IF @ = "sent" THEN "answered" ELSE "reanswered"]
    /\ UNCHANGED <<store, inbox, tab, minted, reloads, mixed>>

\* A call that fails for any reason is sent again with a fresh token.
Retried_Fault(r) == request[r].phase \in {"sent", "answered"}

\* Only 401, the answer to a call that was not carried out
Retried(r) == request[r].phase = "sent"

\* tryRefreshOnce: join the refresh of this tab, begin one with the token stored now, or
\* give the session up.
Refused(r) ==
    LET t == request[r].tab
    IN  /\ Retried(r)
        /\ IF tab[t].refreshing # Nothing \/ store.refresh # Nothing
           THEN /\ Phase({r}, "refused")
                /\ tab' = [tab EXCEPT ![t].refreshing = IF @ # Nothing THEN @ ELSE store.refresh.of]
                /\ UNCHANGED <<store, inbox>>
           ELSE Phase({r}, "ended") /\ ClearSession(t, tab[t], inbox[t])
        /\ UNCHANGED <<minted, reloads, mixed>>

\* Answered, refused for another reason or for the second time, or the network failed
Ended(r) ==
    /\ UnderWay(r) \/ request[r].phase \in {"answered", "reanswered"}
    /\ Phase({r}, "ended")
    /\ UNCHANGED <<store, inbox, tab, minted, reloads, mixed>>

\* The answer is for the user whose token was sent, whoever is logged in by then.
RefreshSucceeds(t) ==
    /\ tab[t].refreshing # Nothing
    /\ StoreTokens(t, tab[t].refreshing, Tabs)
    /\ tab' = [tab EXCEPT ![t].refreshing = Nothing]
    /\ Phase(Waiting(t), "resent")
    /\ UNCHANGED reloads

\* The tokens are removed and the session of this tab is told to be over.
RefreshFails(t) ==
    /\ tab[t].refreshing # Nothing
    /\ ClearSession(t, [tab[t] EXCEPT !.refreshing = Nothing], inbox[t])
    /\ Phase(Waiting(t), "ended")
    /\ UNCHANGED <<minted, reloads, mixed>>

-----------------------------------------------------------------------------
(* useRealtimeInvalidation: the same commit runs the effect of the socket *)

NoSocket == [shared |-> Nothing, opening |-> <<>>, heard |-> 0, mine |-> FALSE]

\* Clean-up of the effect before
Detached(c) ==
    [c EXCEPT !.opening = [i \in DOMAIN @ |-> [@[i] EXCEPT !.live = FALSE]],
              !.heard = IF c.mine THEN @ - 1 ELSE @, !.mine = FALSE]

Attached(c) == [c EXCEPT !.heard = @ + 1, !.mine = TRUE]

\* ensureSocket, which loads the socket library if the token is another one
EnsureSocket(c, token) ==
    IF c.shared = token
    THEN Attached(c)
    ELSE [c EXCEPT !.shared = Nothing, !.opening = Append(@, [token |-> token, live |-> TRUE])]

\* disposeSocket if nobody is logged in; nothing if the token is missing
Ensured(c, user, token) ==
    IF user = Nothing THEN [c EXCEPT !.shared = Nothing]
    ELSE IF token = Nothing THEN c
    ELSE EnsureSocket(c, token)

EffectsWithSocket(t) ==
    /\ Effects(t)
    /\ conn' = [conn EXCEPT ![t] = Ensured(Detached(@), tab[t].shown, store.access)]

\* The clean-up only detaches what is attached already.
WhenOpen_Fault(c, asked) == Attached(c)

WhenOpen(c, asked) == IF asked.live THEN Attached(c) ELSE c

Opened(c) ==
    LET asked == Head(c.opening)
    IN  WhenOpen([c EXCEPT !.shared = asked.token, !.opening = Tail(@)], asked)

SocketOpens(t) ==
    /\ conn[t].opening # <<>>
    /\ conn' = [conn EXCEPT ![t] = Opened(@)]
    /\ UNCHANGED web

-----------------------------------------------------------------------------
(* The system *)

WebInit ==
    /\ store = Cleared
    /\ inbox = [t \in Tabs |-> <<>>]
    /\ tab = [t \in Tabs |-> Blank]
    /\ conn = [t \in Tabs |-> NoSocket]
    /\ request = [r \in Requests |-> Unsent]
    /\ minted = 0 /\ reloads = 0 /\ mixed = FALSE

Person(t) ==
    \/ \E u \in Users : AskLogin(t, u)
    \/ \E r \in Requests : Send(t, r)
    \/ Logout(t) \/ Reconcile(t)

Network ==
    \/ \E t \in Tabs : Login(t) \/ RefreshSucceeds(t) \/ RefreshFails(t)
    \/ \E r \in Requests : Execute(r) \/ Refused(r) \/ Ended(r)

TabsElse == Network \/ \E t \in Tabs : Person(t) \/ HandleStorage(t)

\* The tabs, whatever their sockets do
TabsNext == TabsElse \/ \E t \in Tabs : Effects(t) \/ Load(t)

\* The tabs with their sockets
WebNext ==
    \/ TabsElse /\ UNCHANGED conn
    \/ \E t \in Tabs :
         \/ EffectsWithSocket(t) \/ SocketOpens(t)
         \/ Load(t) /\ conn' = [conn EXCEPT ![t] = NoSocket]

WebSpec == WebInit /\ [][WebNext]_<<web, conn>>

-----------------------------------------------------------------------------
(* Properties *)

(* A call is carried out at most once although it is sent again after a 401  *)
(* (client.ts:817), whatever happens to the session meanwhile; and a tab     *)
(* hears an event at most once although the effect that listens runs again   *)
(* while the socket library loads (realtime.ts:62).                          *)
OnceOnly ==
    /\ \A r \in Requests : request[r].executed <= 1
    /\ \A t \in Tabs : conn[t].heard <= 1

(* When a tab has handled its storage events and run its effects, it shows   *)
(* nobody or the profile that is stored beside the tokens (auth.tsx:116),    *)
(* whatever the other tabs are about to hear, though it may show the login   *)
(* page beside a session until it has focus.  And that profile is of the     *)
(* user whose tokens are stored and whose name every call goes out in,       *)
(* except from when tokens of one user are stored beside the profile of      *)
(* another until tokens are stored again: by a refresh that is answered      *)
(* after its session was left for another one (client.ts:769), or by a login *)
(* while another tab still shows its predecessor (auth.tsx:92).  The client  *)
(* does both without noticing.                                               *)
TabsAgree ==
    /\ \A t \in Tabs :
          inbox[t] = <<>> /\ ~tab[t].effect => tab[t].shown \in {StoredUser, Nothing}
    /\ ~mixed => \A t \in Tabs, pair \in {store.access, store.refresh} \ {Nothing} :
                     tab[t].shown \in {pair.of, Nothing}
=============================================================================
