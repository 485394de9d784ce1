----------------------------- MODULE MCRealtime -----------------------------
(* Accounts and Realtime for TLC, in two parts of one state graph: the       *)
(* accounts alone with every operation, and the accounts with sockets, one   *)
(* call at a time and the operations that bear on a session.  Accounts are   *)
(* interchangeable; the first to exist is e1.                                *)
EXTENDS Realtime

CONSTANTS
    e1, c1,
    Watched,       \* the operations of the second part
    WatchedHashes  \* bound: password hashes made in it

VARIABLE part

vars == <<accounts, realtime, part>>

MCInit == AccountsInit /\ RealtimeInit /\ part \in {"accounts", "sockets"}

FirstIsE1 == \A c \in Clients : call'[c].op = "Bootstrap" => call'[c].emp = e1

AccountsAlone == part = "accounts" /\ AccountsNext /\ UNCHANGED realtime

WithSockets ==
    /\ part = "sockets"
    /\ RealtimeNext \/ AccountsSeen
    /\ \A c \in Clients : call'[c].op \in Watched \cup {"Idle"}
    /\ \A c \in Clients \ {c1} : call'[c] = Idle
    /\ hashes' <= WatchedHashes

MCNext == (AccountsAlone \/ WithSockets) /\ FirstIsE1 /\ UNCHANGED part

MCSpec == MCInit /\ [][MCNext]_vars /\ RealtimeFairness
=============================================================================
