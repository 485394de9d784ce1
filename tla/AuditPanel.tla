----------------------------- MODULE AuditPanel -----------------------------
(***************************************************************************)
(* An administrator pages through the terminal audit                       *)
(* (apps/web/src/routes/TerminalAuditPanel.tsx, list of                    *)
(* terminal-audit.service.ts) while events are added, one of them by every *)
(* page that is read.  An event is its method here; AuditChain has the     *)
(* rest of it.  Only the filter by method is offered.  A page is the set of *)
(* its events, which are shown newest first.                               *)
(*                                                                         *)
(* A definition whose name ends in _Fault is a plausible mistake in the    *)
(* definition below it; nothing uses it.                                   *)
(***************************************************************************)
EXTENDS Integers, Sequences, FiniteSets, SequencesExt

CONSTANTS
    PageSize,   \* limit
    MaxTrail,   \* bound: events in the audit
    MaxLoads    \* bound: pages the panel asks for

ASSUME AuditPanelAssumption == PageSize \in Nat \ {0} /\ MaxTrail \in Nat /\ MaxLoads \in Nat

VARIABLES
    trail,      \* TerminalAuditEvent.method, by sequence
    auditor,    \* the state of the component
    listings,   \* pages asked for whose answer has not arrived
    walk        \* history: the page last read at each depth of `cursors`

auditPanel == <<trail, auditor, listings, walk>>

Methods == {"QR", "PIN"}
NoMethod == "none"
NoPage == [none |-> TRUE]
NoCursor == 0  \* no cursor, and no next one

Matching(method) == {i \in DOMAIN trail : method = "all" \/ trail[i] = method}

After_Fault(method, cursor) == {i \in Matching(method) : cursor = NoCursor \/ i <= cursor}

After(method, cursor) == {i \in Matching(method) : cursor = NoCursor \/ i < cursor}

\* orderBy: sequence desc, take: limit
Newest(rows) == {i \in rows : Cardinality({j \in rows : j > i}) < PageSize}

\* nextBeforeSequence is the last of a page that does not hold everything.
Listed(method, cursor) ==
    LET rows == After(method, cursor)
    IN [items |-> Newest(rows),
        next |-> IF Newest(rows) = rows THEN NoCursor ELSE Min(Newest(rows))]

\* list: the page, and the event that it was read
List(q) ==
    /\ q \in listings /\ q.page = NoPage /\ Len(trail) < MaxTrail
    /\ listings' = (listings \ {q}) \cup {[q EXCEPT !.page = Listed(q.method, q.cursor)]}
    /\ trail' = Append(trail, NoMethod)
    /\ UNCHANGED <<auditor, walk>>

AuditEvent ==
    /\ Len(trail) < MaxTrail
    /\ \E method \in Methods \cup {NoMethod} : trail' = Append(trail, method)
    /\ UNCHANGED <<auditor, listings, walk>>

Loading == auditor.open /\ auditor.page = NoPage /\ ~auditor.failed

Before(cursors) == IF cursors = <<>> THEN NoCursor ELSE Last(cursors)

\* The effect of a change: answers to what was asked before do not count.
Loads(new) ==
    /\ auditor.nr < MaxLoads
    /\ auditor' = [new EXCEPT !.nr = @ + 1, !.page = NoPage, !.failed = FALSE]
    /\ listings' = listings \cup
           {[nr |-> auditor.nr + 1, method |-> new.method, page |-> NoPage,
             cursor |-> Before(new.cursors)]}
    /\ UNCHANGED trail

OpenPanel == ~auditor.open /\ Loads([auditor EXCEPT !.open = TRUE]) /\ UNCHANGED walk

ClosePanel ==
    /\ auditor.open
    /\ auditor' = [auditor EXCEPT !.open = FALSE, !.page = NoPage]
    /\ UNCHANGED <<trail, listings, walk>>

ChooseMethod(method) ==
    /\ auditor.open /\ method # auditor.method
    /\ Loads([auditor EXCEPT !.method = method, !.cursors = <<>>])
    /\ walk' = <<>>

LoadAgain == auditor.open /\ ~Loading /\ Loads(auditor) /\ UNCHANGED walk

PreviousPage ==
    /\ auditor.open /\ ~Loading /\ auditor.cursors # <<>>
    /\ Loads([auditor EXCEPT !.cursors = Front(@)]) /\ UNCHANGED walk

NextPage ==
    /\ auditor.open /\ auditor.page # NoPage /\ auditor.page.next # NoCursor
    /\ Loads([auditor EXCEPT !.cursors = Append(@, auditor.page.next)]) /\ UNCHANGED walk

Active_Fault(q) == auditor.open

Active(q) == auditor.open /\ auditor.nr = q.nr

PageArrives(q) ==
    /\ q \in listings /\ q.page # NoPage
    /\ listings' = listings \ {q}
    /\ IF Active(q)
       THEN /\ auditor' = [auditor EXCEPT !.page = q.page]
            /\ walk' = Append(SubSeq(walk, 1, Len(auditor.cursors)), q.page.items)
       ELSE UNCHANGED <<auditor, walk>>
    /\ UNCHANGED trail

PageFails(q) ==
    /\ q \in listings
    /\ listings' = listings \ {q}
    /\ auditor' = IF Active(q) THEN [auditor EXCEPT !.failed = TRUE] ELSE auditor
    /\ UNCHANGED <<trail, walk>>

AuditPanelInit ==
    /\ trail = <<>> /\ listings = {} /\ walk = <<>>
    /\ auditor = [open |-> FALSE, method |-> "all", cursors |-> <<>>, page |-> NoPage,
                  failed |-> FALSE, nr |-> 0]

AuditPanelNext ==
    \/ OpenPanel \/ ClosePanel \/ LoadAgain \/ PreviousPage \/ NextPage \/ AuditEvent
    \/ \E method \in Methods \cup {"all"} : ChooseMethod(method)
    \/ \E q \in listings : List(q) \/ PageArrives(q) \/ PageFails(q)

AuditPanelSpec == AuditPanelInit /\ [][AuditPanelNext]_auditPanel

(* Whoever turns the pages has seen every event between the first and the     *)
(* last of them, each once and newest first, whatever was added meanwhile and *)
(* whichever answers came late; no page after it means that nothing is left   *)
(* (terminal-audit.service.ts:130, TerminalAuditPanel.tsx:46).                *)
PagesComplete ==
    LET seen == UNION Range(walk)
        left == {i \in Matching(auditor.method) : \A j \in seen : i < j}
    IN /\ \A k, l \in DOMAIN walk : k < l => \A i \in walk[k], j \in walk[l] : j < i
       /\ seen \subseteq Matching(auditor.method)
       /\ \A i \in Matching(auditor.method), a, b \in seen : a <= i /\ i <= b => i \in seen
       /\ auditor.page # NoPage =>
              /\ auditor.page.items = Last(walk)
              /\ auditor.page.next = NoCursor /\ seen # {} => left = {}
=============================================================================
