------------------------------ MODULE MCClient ------------------------------
(* The web client for TLC, in three parts of one state graph: two tabs with  *)
(* their storage events, one tab with its socket and a call of the API, and  *)
(* a query of the cache with the pages around it.                            *)
EXTENDS WebSession, Pages

CONSTANTS t1, t2, u1, u2, r1, s1, s2,
    MaxWaiting, \* bound: storage events that wait in a tab
    Followed    \* the queries whose pages run; the others are only looked at once

VARIABLE part

vars == <<web, conn, pages, part>>

\* Tabs, and users, are interchangeable; calls are, so that the first is s1.
Symmetry == Permutations(Tabs) \cup Permutations(Users)

\* The parts without pages
NoPages ==
    /\ viewer = [mode |-> "Solo", role |-> "HRAdmin"] /\ page = "reports" /\ connected = FALSE
    /\ watched = CHOOSE q \in Asked(viewer, page) : TRUE
    /\ shown = {} /\ offered = <<>>

MCInit ==
    /\ WebInit
    /\ \/ part = "pages" /\ PagesInit
       \/ part \in {"tabs", "socket"} /\ NoPages /\ QueryInit

\* A refresh is answered when its session has been left.
LateRefresh ==
    \E t \in Tabs :
       /\ RefreshSucceeds(t)
       /\ store.refresh # Nothing => store.refresh.of # tab[t].refreshing

\* The call is there to be refused, and a tab is loaded again without it.  The last pair
\* of tokens is that of a late refresh, and no login is under way beside it.
TwoTabs ==
    /\ part = "tabs" /\ TabsNext
    /\ minted' = MaxTokens =>
          /\ minted = MaxTokens \/ LateRefresh
          /\ \A t \in Tabs : tab'[t].login = Nothing
    /\ \A r \in Requests :
          request'[r].executed = 0 /\ (request'[r] # Unsent => reloads' = 0)
    /\ \A t \in Tabs : Len(inbox'[t]) <= MaxWaiting
    /\ UNCHANGED <<conn, pages>>

OneTab ==
    /\ part = "socket" /\ WebNext /\ minted' < MaxTokens
    /\ Cardinality({t \in Tabs : tab'[t] # Blank}) <= 1
    /\ UNCHANGED pages

\* As an administrator.  Two calls at a time if both are shown at once; only routes
\* that show the query or change it, and one that does not.
OneQuery ==
    LET busy == {s \in Slots : calls'[s].phase # "free"}
    IN  /\ part = "pages" /\ PagesNext
        /\ viewer.role = "HRAdmin" /\ watched.key \in Followed
        /\ page' \in shown \cup {"settings"} \/ offered[page'] # {}
        /\ s2 \in busy => s1 \in busy
        /\ Cardinality(busy) <= 1 \/ \A s \in busy : calls'[s].does.shows = watched.key
        /\ UNCHANGED <<web, conn>>

MCNext == (TwoTabs \/ OneTab \/ OneQuery) /\ UNCHANGED part

MCSpec == MCInit /\ [][MCNext]_vars
=============================================================================
