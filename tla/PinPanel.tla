------------------------------ MODULE PinPanel ------------------------------
(***************************************************************************)
(* The PIN form of a shared kiosk (apps/web/src/routes/KioskPinPanel.tsx). *)
(* People use it one after another while answers to what the one before    *)
(* asked for may still arrive: every request belongs to an epoch, and an   *)
(* answer of an earlier epoch is dropped.                                  *)
(*                                                                         *)
(* Locations are asked of the browser like an answer of the server.  The   *)
(* server books a permission once and answers a repeated booking with the  *)
(* same receipt (TerminalAuth).  Time is reduced to the three moments the  *)
(* half-second timer looks for: inactivity, the end of a permission and    *)
(* the end of the receipt.                                                 *)
(*                                                                         *)
(* A definition whose name ends in _Fault is a plausible mistake in the    *)
(* definition below it; nothing else uses it.                              *)
(***************************************************************************)
EXTENDS Integers, FiniteSets

CONSTANTS
    People,       \* who stands before the kiosk
    NoOne,
    MaxEpochs,    \* bound: epochs of the panel
    MaxVersions   \* bound: changes of the terminal's configuration

ASSUME PanelAssumption == NoOne \notin People /\ MaxEpochs \in Nat /\ MaxVersions \in Nat

VARIABLES
    person,    \* who stands before the kiosk
    panel,     \* the refs and the state of the component
    requests,  \* requests in flight: an answer may arrive for each, in any order
    booked,    \* permissions the server has booked
    versions   \* changes of authConfigVersion

pinPanel == <<person, panel, requests, booked, versions>>

Phase == {"idle", "entering", "identifying", "confirming", "locating", "submitting",
          "uncertain", "success"}
NoGrant == 0

\* A permission is named by the epoch in which it was asked for.
Fresh(epoch, message) ==
    [phase |-> "idle", epoch |-> epoch, busy |-> FALSE, grant |-> NoGrant,
     submitted |-> NoGrant, name |-> NoOne, receipt |-> NoOne, error |-> message]

\* clear
Cleared(message) == Fresh(panel.epoch + 1, message)

Clear(message) == panel.epoch < MaxEpochs /\ panel' = Cleared(message)

Forgetting == IF panel.submitted # NoGrant THEN "abandoned" ELSE "none"

\* An answer counts if nothing ended the epoch it was asked in.
Current_Fault(r) == panel.busy

Current(r) == panel.epoch = r.epoch

Answer(r) == r \in requests /\ requests' = requests \ {r}

Ask(kind, g, who) ==
    /\ panel.epoch < MaxEpochs
    /\ requests' = requests \cup {[kind |-> kind, epoch |-> panel.epoch + 1, grant |-> g,
                                   who |-> who]}

-----------------------------------------------------------------------------
(* People *)

SomebodyElse ==
    /\ \E p \in People \ {person} : person' = p
    /\ UNCHANGED <<panel, requests, booked, versions>>

\* `clear` has only a message to clear: nothing of the epoch is in flight.
Start ==
    /\ panel.phase = "idle"
    /\ panel' = [panel EXCEPT !.phase = "entering", !.error = "none"]
    /\ UNCHANGED <<person, requests, booked, versions>>

\* identify: the number and the PIN leave the form with the request.
Identify ==
    /\ panel.phase = "entering" /\ ~panel.busy
    /\ Ask("identify", NoGrant, person)
    /\ panel' = [panel EXCEPT !.phase = "identifying", !.busy = TRUE, !.epoch = @ + 1]
    /\ UNCHANGED <<person, booked, versions>>

\* book with a permission, which may have to be located first
Book ==
    /\ panel.phase = "confirming" /\ ~panel.busy /\ panel.grant # NoGrant
    /\ \E locate \in BOOLEAN :
         /\ Ask(IF locate THEN "locate" ELSE "book", panel.grant, panel.name)
         /\ panel' = [panel EXCEPT !.phase = IF locate THEN "locating" ELSE "submitting",
                          !.busy = TRUE, !.epoch = @ + 1, !.error = "none",
                          !.submitted = IF locate THEN NoGrant ELSE panel.grant]
    /\ UNCHANGED <<person, booked, versions>>

\* What is sent again is whatever permission is at hand.
Resent_Fault == IF panel.grant # NoGrant THEN panel.grant ELSE panel.epoch

\* book with retry: exactly the request that was submitted
Resent == panel.submitted

Retry ==
    /\ panel.phase = "uncertain" /\ ~panel.busy /\ panel.submitted # NoGrant
    /\ Ask("book", Resent, NoOne)
    /\ panel' = [panel EXCEPT !.phase = "submitting", !.busy = TRUE, !.epoch = @ + 1,
                              !.error = "none", !.submitted = Resent]
    /\ UNCHANGED <<person, booked, versions>>

\* The cancel button, and a page that is hidden
Forget ==
    /\ panel.phase # "idle"
    /\ Clear(Forgetting)
    /\ UNCHANGED <<person, requests, booked, versions>>

-----------------------------------------------------------------------------
(* Answers *)

Settled == [panel EXCEPT !.busy = FALSE]

\* The challenge and the identification; the answer may come too late to use.
IdentifyAnswered(r) ==
    /\ r.kind = "identify" /\ Answer(r)
    /\ IF Current(r)
       THEN panel' \in {[Settled EXCEPT !.phase = "confirming", !.grant = r.epoch, !.name = r.who],
                        Cleared("expired"), Cleared("failed")}
       ELSE UNCHANGED panel
    /\ UNCHANGED <<person, booked, versions>>

LocateAnswered(r) ==
    /\ r.kind = "locate"
    /\ \/ ~Current(r) /\ Answer(r) /\ UNCHANGED panel
       \/ /\ Current(r) /\ Answer(r)
          /\ panel' = [Settled EXCEPT !.phase = "confirming", !.error = "location"]
       \/ /\ Current(r)
          /\ requests' = (requests \ {r}) \cup {[r EXCEPT !.kind = "book"]}
          /\ panel' = [panel EXCEPT !.phase = "submitting", !.submitted = r.grant]
    /\ UNCHANGED <<person, booked, versions>>

\* The server books; this is before its answer, which may be lost.
ServerBooks(r) ==
    /\ r \in requests /\ r.kind = "book"
    /\ booked' = booked \cup {r.grant}
    /\ UNCHANGED <<person, panel, requests, versions>>

Receipt(r) == [Settled EXCEPT !.phase = "success", !.grant = NoGrant, !.submitted = NoGrant,
                              !.name = NoOne, !.receipt = r.grant]

\* A failure that leaves open whether the server has booked
Uncertain == [Settled EXCEPT !.phase = "uncertain", !.grant = NoGrant, !.name = NoOne]

NeedsLocation == [Settled EXCEPT !.phase = "confirming", !.submitted = NoGrant, !.error = "location"]

\* The permission is judged once; a device or a rate may be refused any time.
BookAnswered(r) ==
    /\ r.kind = "book" /\ Answer(r)
    /\ IF ~Current(r) THEN UNCHANGED panel
       ELSE \/ r.grant \in booked /\ panel' = Receipt(r)
            \/ r.grant \notin booked /\ panel.grant # NoGrant /\ panel' = NeedsLocation
            \/ r.grant \notin booked /\ panel' = Cleared("failed")
            \/ panel' \in {Uncertain, Cleared("refused")}
    /\ UNCHANGED <<person, booked, versions>>

-----------------------------------------------------------------------------
(* The timer, the connection and the configuration *)

\* Thirty seconds without a touch, a permission that ended, two minutes of
\* retrying; and five seconds of a receipt.
TimedOut ==
    /\ panel.phase # "idle"
    /\ IF panel.phase = "success" THEN Clear("none")
       ELSE Clear(IF panel.submitted # NoGrant THEN "abandoned" ELSE "expired")
    /\ UNCHANGED <<person, requests, booked, versions>>

\* What was submitted may have been booked.
Offline_Fault == Clear("offline")

Offline ==
    IF panel.submitted # NoGrant
    THEN /\ panel.epoch < MaxEpochs
         /\ panel' = [Uncertain EXCEPT !.epoch = @ + 1]
    ELSE Clear("offline")

ConnectionLost == Offline /\ UNCHANGED <<person, requests, booked, versions>>

Reconfigured ==
    /\ versions < MaxVersions /\ versions' = versions + 1
    /\ Clear(IF panel.submitted # NoGrant THEN "abandoned" ELSE "expired")
    /\ UNCHANGED <<person, requests, booked>>

-----------------------------------------------------------------------------
(* The system *)

PanelInit ==
    /\ person \in People
    /\ panel = Fresh(0, "none")
    /\ requests = {} /\ booked = {} /\ versions = 0

PanelNext ==
    \/ SomebodyElse \/ Start \/ Identify \/ Book \/ Retry \/ Forget
    \/ \E r \in requests : IdentifyAnswered(r) \/ LocateAnswered(r) \/ ServerBooks(r) \/ BookAnswered(r)
    \/ TimedOut \/ ConnectionLost \/ Reconfigured

PanelSpec == PanelInit /\ [][PanelNext]_pinPanel

-----------------------------------------------------------------------------
(* Properties *)

(* The panel shows the name, or the receipt, of the interaction it is in: a  *)
(* late answer to somebody who left never appears, and the panel is busy     *)
(* exactly while a request of its epoch is open, so that neither two are     *)
(* sent nor none can be (KioskPinPanel.tsx:242).                             *)
NoStrangerShown ==
    /\ panel.name # NoOne => panel.phase \in {"confirming", "locating", "submitting"}
    /\ panel.grant # NoGrant => panel.grant <= panel.epoch
    /\ panel.busy <=> \E r \in requests : r.epoch = panel.epoch
    /\ panel.phase \in {"idle", "entering", "uncertain"} =>
           panel.name = NoOne /\ panel.grant = NoGrant /\ panel.receipt = NoOne
    /\ panel.phase \in {"identifying", "locating", "submitting"} => panel.busy

(* "Booking failed" is not said of one that was booked, and while it is open *)
(* whether it was, only the same request is sent again                       *)
(* (KioskPinPanel.tsx:186): the panel never submits a second permission for  *)
(* a first whose fate it does not know.                                      *)
FailureIsCertain ==
    [][/\ panel'.error \in {"failed", "offline"} /\ panel.submitted # NoGrant
             => panel.submitted \notin booked \/ panel'.error = panel.error
       /\ panel.submitted # NoGrant /\ panel'.submitted \notin {NoGrant, panel.submitted}
             => FALSE]_pinPanel
=============================================================================
