------------------------------- MODULE Pages -------------------------------
(***************************************************************************)
(* One query of the web client's cache and everything that bears on it: the *)
(* page that is open, the fetch that is under way, the calls whose results  *)
(* it should show, the optimistic updates and the events.  Which query is   *)
(* watched, and as whom, is chosen at the start; Screens says which calls   *)
(* each page offers and which keys they mark.                               *)
(***************************************************************************)
EXTENDS Screens

CONSTANTS
    Slots,     \* bound: calls made
    Unknown    \* no data, no call

VARIABLES
    viewer,    \* operating mode and role
    connected, \* whether the event socket is connected
    watched,   \* the query
    shown,     \* the routes that show it
    offered,   \* by route, the calls that change what it shows
    page,      \* the route that is open
    cache,     \* its data (the calls they show), whether it is marked as stale or outrun
    fetch,     \* "idle", "asked" or "read", and what the server answered
    calls,
    booked,    \* the calls that the server has carried out
    news       \* events on their way to the client

chosen == <<viewer, connected, watched, shown, offered>>
pages == <<chosen, page, cache, fetch, calls, booked, news>>

-----------------------------------------------------------------------------
(* The query cache *)

Mounted == page \in shown
Reachable == DOMAIN offered

Idle == [phase |-> "idle", found |-> {}]
Begun == [phase |-> "asked", found |-> {}]

Begin == fetch' = Begun /\ cache' = [cache EXCEPT !.outrun = FALSE]

\* A fetch that nobody waits for, or the first one, is joined instead of begun again:
\* what it answers may be older than the write which marked the query.
Invalidate_Fault ==
    /\ fetch' = IF Mounted /\ fetch = Idle THEN Begun ELSE fetch
    /\ cache' = [cache EXCEPT !.stale = TRUE]

Invalidate ==
    LET restart == Mounted /\ (fetch = Idle \/ cache.data # Unknown)
    IN  /\ fetch' = IF restart THEN Begun ELSE fetch
        /\ cache' = [cache EXCEPT !.stale = TRUE, !.outrun = ~restart /\ fetch # Idle]

Touched(marks) == IF Marks(marks, watched.key) THEN Invalidate ELSE UNCHANGED <<fetch, cache>>

\* A page that shows the query fetches it if it has no data or stale data, and may if they
\* are older than staleTime.
Navigate(p) ==
    /\ p # page /\ page' = p
    /\ LET mounts == p \in shown /\ ~Mounted /\ fetch = Idle
       IN  \/ mounts /\ Begin
           \/ /\ mounts => cache.data # Unknown /\ ~cache.stale
              /\ UNCHANGED <<fetch, cache>>
    /\ UNCHANGED <<chosen, calls, booked, news>>

\* refetchInterval of the running timers, and the retry by hand
Refetch ==
    /\ Mounted /\ fetch = Idle
    /\ Begin
    /\ UNCHANGED <<chosen, page, calls, booked, news>>

FetchReads ==
    /\ fetch.phase = "asked"
    /\ fetch' = [phase |-> "read", found |-> booked]
    /\ UNCHANGED <<chosen, page, cache, calls, booked, news>>

FetchArrives ==
    /\ fetch.phase = "read"
    /\ fetch' = Idle
    /\ cache' = [cache EXCEPT !.data = fetch.found, !.stale = FALSE]
    /\ UNCHANGED <<chosen, page, calls, booked, news>>

FetchFails ==
    /\ fetch # Idle
    /\ fetch' = Idle
    /\ cache' = [cache EXCEPT !.stale = TRUE]
    /\ UNCHANGED <<chosen, page, calls, booked, news>>

-----------------------------------------------------------------------------
(* The calls *)

Becomes(s, phase) == calls' = [calls EXCEPT ![s].phase = phase]

\* mutate: onMutate cancels the fetch, keeps what was shown and shows the result.
Mutate(s, d) ==
    /\ calls[s].phase = "free"
    /\ calls' = [calls EXCEPT ![s] = [phase |-> "asked", does |-> d, before |-> cache.data]]
    /\ IF d.shows = watched.key
       THEN /\ fetch' = Idle
            /\ cache' = [cache EXCEPT !.stale = FALSE,
                             !.data = (IF @ = Unknown THEN {} ELSE @) \cup {s}]
       ELSE UNCHANGED <<fetch, cache>>
    /\ UNCHANGED <<chosen, page, booked, news>>

\* The write commits and is told to the sockets.
CarriedOut(s) ==
    /\ calls[s].phase = "asked"
    /\ Becomes(s, "booked")
    /\ booked' = IF Concerns(calls[s].does.call, watched.call) THEN booked \cup {s} ELSE booked
    /\ news' = IF connected THEN (news \cup {Server[calls[s].does.call].event}) \ {"none"}
               ELSE news
    /\ UNCHANGED <<chosen, page, cache, fetch>>

\* onSuccess, or onSettled
Succeeds(s) ==
    /\ calls[s].phase = "booked"
    /\ Becomes(s, "done")
    /\ Touched(calls[s].does.marks)
    /\ UNCHANGED <<chosen, page, booked, news>>

\* onError puts back what was shown before, and nothing else happens.
Fails_Fault(s) ==
    /\ calls[s].phase \in {"asked", "booked"}
    /\ Becomes(s, "failed")
    /\ cache' = IF calls[s].does.shows = watched.key /\ calls[s].before # Unknown
                THEN [cache EXCEPT !.data = calls[s].before, !.stale = FALSE] ELSE cache
    /\ UNCHANGED <<chosen, page, fetch, booked, news>>

\* Refused, or the answer is lost: onError, and onSettled
Fails(s) ==
    LET d == calls[s].does
        rolledBack == d.shows = watched.key /\ calls[s].before # Unknown
        marked == d.settled /\ Marks(d.marks, watched.key)
    IN  /\ calls[s].phase \in {"asked", "booked"}
        /\ Becomes(s, "failed")
        /\ LET restart == marked /\ Mounted
           IN  /\ fetch' = IF restart THEN Begun ELSE fetch
               /\ cache' = [data |-> IF rolledBack THEN calls[s].before ELSE cache.data,
                            stale |-> marked \/ (cache.stale /\ ~rolledBack),
                            outrun |-> IF marked THEN ~restart /\ fetch # Idle ELSE cache.outrun]
        /\ UNCHANGED <<chosen, page, booked, news>>

EventArrives(e) ==
    /\ e \in news /\ news' = news \ {e}
    /\ Touched(Told(e))
    /\ UNCHANGED <<chosen, page, calls, booked>>

-----------------------------------------------------------------------------
(* The system *)

Matters(d, query) == Concerns(d.call, query.call) \/ d.shows = query.key

ChosenInit ==
    /\ viewer \in Viewers /\ connected \in BOOLEAN
    /\ watched \in UNION {Asked(viewer, p) : p \in PagesOf(viewer)}
    /\ shown = {p \in PagesOf(viewer) : watched \in Asked(viewer, p)}
    /\ offered = [p \in PagesOf(viewer) |-> {d \in Offered(viewer, p) : Matters(d, watched)}]
    /\ page \in Reachable

QueryInit ==
    /\ cache = [data |-> Unknown, stale |-> FALSE, outrun |-> FALSE]
    /\ fetch = IF Mounted THEN Begun ELSE Idle
    /\ calls = [s \in Slots |-> [phase |-> "free", does |-> Unknown, before |-> Unknown]]
    /\ booked = {} /\ news = {}

PagesInit == ChosenInit /\ QueryInit

PagesNext ==
    \/ \E p \in Reachable : Navigate(p)
    \/ \E s \in Slots :
         \/ \E d \in offered[page] : Mutate(s, d)
         \/ CarriedOut(s) \/ Succeeds(s) \/ Fails(s)
    \/ \E e \in news : EventArrives(e)
    \/ Refetch \/ FetchReads \/ FetchArrives \/ FetchFails

PagesSpec == PagesInit /\ [][PagesNext]_pages

-----------------------------------------------------------------------------
(* Properties *)

\* Facts whose change no component and no event makes known to these queries: they are
\* shown as they were for up to staleTime.
Overlooked ==
    LET staff == {"account", "violations", "daily-block-option", "employee-directory",
                  "project-report", "working-time-report"}
    IN  [entries |-> {"projects", "project-report", "working-time-report"},
         projects |-> {"project-report"}, assignments |-> {},
         requests |-> {"request", "request-events"}, absences |-> {"account"},
         employees |-> staff \cup {"employees", "work-schedules"},
         schedules |-> staff \cup {"employees"},
         attachments |-> {}, terminals |-> {},
         days |-> {}, customers |-> {}, settings |-> {}]

\* Whether anything makes the call known to the query
MadeKnown(d) ==
    \/ Marks(d.marks, watched.key)
    \/ connected /\ watched.key \in Told(Server[d.call].event)

Quiet ==
    /\ Mounted /\ cache.data # Unknown /\ ~cache.stale /\ fetch = Idle /\ news = {}
    /\ \A s \in Slots : calls[s].phase \in {"free", "done", "failed"}

\* The query was marked while a fetch ran that could not be begun again, because it was
\* the first one or nobody had its page open.  Its answer may be from before the write,
\* and is shown as fresh until the next fetch.
Outrun == cache.outrun

(* When everything has settled, a page shows nothing that was not booked     *)
(* through it: no optimistic update, late answer or rollback survives        *)
(* (BookingPage.tsx:291).  And it shows what was booked through it and whose *)
(* answer came (realtime.ts:64), except where nothing tells the query        *)
(* (without a socket, what only an event would tell, and the facts that are  *)
(* overlooked) and except for the answer of a fetch that was outrun.         *)
OwnWritesSeen ==
    Quiet =>
    /\ cache.data \subseteq booked
    /\ \A s \in booked :
          calls[s].phase = "done" /\ MadeKnown(calls[s].does) => s \in cache.data \/ Outrun

(* No page fetches or offers what the server refuses to that role in that    *)
(* mode (navigation.ts:182, app.tsx:165), but for the profile form: in Team  *)
(* mode the settings page offers it and the server refuses every save.  And  *)
(* a query that nothing tells of a change is one of those listed.            *)
PagesServed ==
    /\ \A q \in Asked(viewer, page) : Admitted(q.call, viewer)
    /\ \A d \in Offered(viewer, page) :
          /\ Admitted(d.call, viewer) \/ (viewer.mode = "Team" /\ d.call = "profile")
          /\ connected /\ d \in offered[page] /\ ~MadeKnown(d) =>
                \E f \in Server[d.call].writes : watched.key \in Overlooked[f]
=============================================================================
