------------------------------ MODULE Realtime ------------------------------
(***************************************************************************)
(* The event sockets of apps/api/src/app/events/events.gateway.ts over the  *)
(* accounts of module Accounts: handshake, registration, expiry and the     *)
(* broadcast of an event.  Between two awaits of the gateway anything may   *)
(* happen: an account or the mode changes, a client hangs up, a token       *)
(* expires, another handshake goes on.                                     *)
(***************************************************************************)
EXTENDS Accounts

CONSTANT Sockets  \* connections of clients

VARIABLES
    sockets,  \* each connection and its entry in the gateway's map
    fan,      \* the broadcast in progress: subject, recipients, what was read
    met,      \* history: who had a good session at some time since it began
    fit       \* history: who of them was permitted its event then or later

realtime == <<sockets, fan, met, fit>>

-----------------------------------------------------------------------------
(* State *)

Closed == [phase |-> "closed"]
Quiet == [phase |-> "idle"]

\* Registered in `connections`
Live(s) == sockets[s].phase = "live"
LiveSockets == {s \in Sockets : Live(s)}

Closing(ss) == [s \in Sockets |-> IF s \in ss THEN Closed ELSE sockets[s]]

InHandshake(s) == sockets[s].phase \in {"verified", "known", "allowed", "admitted"}

Advance(s, phase) == sockets' = [sockets EXCEPT ![s].phase = phase]

-----------------------------------------------------------------------------
(* handleConnection *)

\* A socket that no broadcast holds is used for a new connection.
Connect(s, t) ==
    /\ sockets[s] = Closed
    /\ fan # Quiet => s \notin fan.to
    /\ t.typ = "access"
    /\ sockets' = [sockets EXCEPT ![s] =
           [phase |-> "verified", tok |-> t, up |-> TRUE, expired |-> FALSE, timer |-> FALSE]]
    /\ UNCHANGED fan

ReadSession(s) ==
    /\ sockets[s].phase = "verified"
    /\ IF Authentic(sockets[s].tok) THEN Advance(s, "known") ELSE sockets' = Closing({s})
    /\ UNCHANGED fan

ReadAccess(s) ==
    /\ sockets[s].phase = "known"
    /\ IF ActorAccess(sockets[s].tok.emp) THEN Advance(s, "allowed") ELSE sockets' = Closing({s})
    /\ UNCHANGED fan

ReadOwner(s) ==
    /\ sockets[s].phase = "allowed"
    /\ IF Solo => IsOwner(sockets[s].tok.emp) THEN Advance(s, "admitted") ELSE sockets' = Closing({s})
    /\ UNCHANGED fan

\* The connection is not looked at again after the reads.
StillThere_Fault(s) == ~sockets[s].expired

\* expiresAt > now and client.connected
StillThere(s) == sockets[s].up /\ ~sockets[s].expired

\* Only a broadcast ends a session.
Registered_Fault(s) == [sockets[s] EXCEPT !.phase = "live"]

Registered(s) == [sockets[s] EXCEPT !.phase = "live", !.timer = TRUE]

Register(s) ==
    /\ sockets[s].phase = "admitted"
    /\ sockets' = [sockets EXCEPT ![s] = IF StillThere(s) THEN Registered(s) ELSE Closed]
    /\ UNCHANGED fan

\* A failing query ends the handshake.
HandshakeFails(s) ==
    /\ sockets[s].phase \in {"verified", "known", "allowed"}
    /\ sockets' = Closing({s})
    /\ UNCHANGED fan

-----------------------------------------------------------------------------
(* The end of a connection *)

\* handleDisconnect deletes an entry, if there is one already.
HangUp(s) ==
    /\ sockets[s] # Closed /\ sockets[s].up
    /\ IF Live(s) THEN sockets' = Closing({s})
                  ELSE sockets' = [sockets EXCEPT ![s].up = FALSE]
    /\ UNCHANGED fan

TokenExpires(s) ==
    /\ sockets[s] # Closed /\ ~sockets[s].expired
    /\ sockets' = [sockets EXCEPT ![s].expired = TRUE]
    /\ UNCHANGED fan

ExpiryTimer(s) ==
    /\ Live(s) /\ sockets[s].timer /\ sockets[s].expired
    /\ sockets' = Closing({s})
    /\ UNCHANGED fan

-----------------------------------------------------------------------------
(* broadcast *)

\* An event about an employee, or (Nobody) about a project.
BeginBroadcast(subject) ==
    /\ fan = Quiet /\ LiveSockets # {}
    /\ fan' = [phase |-> "reading", subject |-> subject, to |-> LiveSockets,
               settings |-> {}, rows |-> {}]
    /\ UNCHANGED sockets

\* The two queries of Promise.all, in either order
FetchSettings ==
    /\ fan # Quiet /\ fan.settings = {}
    /\ fan' = [fan EXCEPT !.settings = {settings}]
    /\ UNCHANGED sockets

FetchRows ==
    /\ fan # Quiet /\ fan.rows = {}
    /\ fan' = [fan EXCEPT !.rows = {emp}]
    /\ UNCHANGED sockets

\* A query fails: everybody is disconnected.
FetchFails ==
    /\ fan # Quiet /\ {} \in {fan.settings, fan.rows}
    /\ sockets' = Closing(fan.to)
    /\ fan' = Quiet

\* The version of the account is compared with the one the handshake read.
StillValid_Fault(s, conf, rows) ==
    LET e == sockets[s].tok.emp
    IN  /\ rows[e].active /\ ~sockets[s].expired
        /\ conf.mode = "Solo" => conf.owner = e /\ rows[e].role = "HRAdmin"

StillValid(s, conf, rows) ==
    LET e == sockets[s].tok.emp
    IN  /\ rows[e].active /\ rows[e].ver = sockets[s].tok.ver
        /\ ~sockets[s].expired
        /\ conf.mode = "Solo" => conf.owner = e /\ rows[e].role = "HRAdmin"

\* revalidateConnections looks at all it captured, those that left included.
Kept(conf, rows) == {s \in fan.to : Live(s) /\ StillValid(s, conf, rows)}

\* The owner of a Solo installation hears of their own entries only.
Recipients(conf, rows) ==
    {s \in Kept(conf, rows) :
        conf.mode = "Solo" => fan.subject \in {Nobody, conf.owner}}

Deliver ==
    /\ fan # Quiet
    /\ \E conf \in fan.settings, rows \in fan.rows :
           sockets' = Closing(fan.to \ Kept(conf, rows))
    /\ fan' = Quiet

-----------------------------------------------------------------------------
(* The system *)

\* The session of s is good, and the mode lets its account hear of the event.
Genuine(s) == Live(s) /\ Authentic(sockets[s].tok)

Permitted(s) ==
    /\ Live(s)
    /\ Solo => IsOwner(sockets[s].tok.emp) /\ fan.subject \in {Nobody, settings.owner}

\* What a step adds to the histories.
Noted ==
    IF fan' = Quiet THEN met' = {} /\ fit' = {}
    ELSE /\ met' = met \cup {s \in fan'.to : Genuine(s)'}
         /\ fit' = fit \cup {s \in met' : Permitted(s)'}

RealtimeInit ==
    /\ sockets = [s \in Sockets |-> Closed]
    /\ fan = Quiet
    /\ met = {} /\ fit = {}

Handshake(s) ==
    ReadSession(s) \/ ReadAccess(s) \/ ReadOwner(s) \/ Register(s) \/ HandshakeFails(s)

RealtimeSteps ==
    \/ \E s \in Sockets :
         \/ \E t \in tokens : Connect(s, t)
         \/ Handshake(s) \/ HangUp(s) \/ TokenExpires(s) \/ ExpiryTimer(s)
    \/ \E e \in Employees \cup {Nobody} : BeginBroadcast(e)
    \/ FetchSettings \/ FetchRows \/ FetchFails \/ Deliver

RealtimeNext == RealtimeSteps /\ UNCHANGED accounts /\ Noted

\* Any step of the accounts, seen by a broadcast that is in progress
AccountsSeen == AccountsNext /\ UNCHANGED <<sockets, fan>> /\ Noted

RealtimeSpec ==
    /\ AccountsInit /\ RealtimeInit
    /\ [][RealtimeNext \/ AccountsSeen]_<<accounts, realtime>>

\* Node goes on with a handshake whose query was answered, time passes, and a
\* timer that is due fires.
RealtimeFairness ==
    \A s \in Sockets :
        /\ WF_<<accounts, realtime>>(Handshake(s) /\ RealtimeNext)
        /\ WF_<<accounts, realtime>>(TokenExpires(s) /\ RealtimeNext)
        /\ WF_<<accounts, realtime>>(ExpiryTimer(s) /\ RealtimeNext)

-----------------------------------------------------------------------------
(* Properties *)

(* The type invariant. *)
RealtimeTypeOK ==
    /\ \A s \in Sockets : sockets[s] # Closed =>
           /\ InHandshake(s) \/ Live(s)
           /\ sockets[s].tok \in Token /\ sockets[s].up \in BOOLEAN
           /\ sockets[s].timer = Live(s)
    /\ fan # Quiet => fan.to \subseteq Sockets /\ fan.subject \in Employees \cup {Nobody}
    /\ met \subseteq Sockets /\ fit \subseteq met

(* The map of connections holds no client that is gone: one that hung up     *)
(* during its handshake, when there was nothing to delete, is not registered *)
(* afterwards (events.gateway.ts:74).                                        *)
NoLeakedConnection == \A s \in Sockets : Live(s) => sockets[s].up

(* An event reaches only sessions that were good at some moment after it was *)
(* raised, of accounts that the mode, then or later, let hear of it          *)
(* (events.gateway.ts:114): the recipients are taken before two queries,     *)
(* which see the accounts and the mode at different times.                   *)
ToldOnlyEntitled ==
    [][Deliver => \A conf \in fan.settings, rows \in fan.rows :
                     Recipients(conf, rows) \subseteq fit]_<<accounts, realtime>>

(* No connection outlives its token, whether or not there are events to      *)
(* check it at (events.gateway.ts:84).                                       *)
ConnectionsEnd == \A s \in Sockets : Live(s) ~> ~Live(s)
=============================================================================
