------------------------------ MODULE PinDialog ------------------------------
(***************************************************************************)
(* The dialog in which an administrator resets, disables or unlocks        *)
(* somebody's PIN (apps/web/src/routes/TerminalPinDialog.tsx) with the     *)
(* handlers it calls (terminal-credentials.service.ts).  A reset answers   *)
(* with the new PIN, which nothing can show again.                         *)
(*                                                                         *)
(* Whatever ends the dialog (its button, a hidden or restored page) closes *)
(* it.  An aborted call is only not answered: the server may still carry   *)
(* it out.  A dialog and the refs of its component are named by epochs     *)
(* that no two dialogs share.                                              *)
(*                                                                         *)
(* A definition whose name ends in _Fault is a plausible mistake in the    *)
(* definition below it; nothing uses it.                                   *)
(***************************************************************************)
EXTENDS Integers, Sequences

CONSTANTS
    Holders,          \* employees whose PIN is managed
    NoHolder,
    MaxDialogEpochs,  \* bound: calls and closings of the dialogs
    MaxPins           \* bound: PINs generated

ASSUME DialogAssumption == NoHolder \notin Holders /\ MaxDialogEpochs \in Nat /\ MaxPins \in Nat

VARIABLES
    account,   \* TerminalCredential and the lock of each employee
    pins,      \* for whom each PIN was generated, and in which epoch
    dialog,    \* state and refs of the component
    calls      \* calls of the client whose answer has not arrived

pinDialog == <<account, pins, dialog, calls>>

NoPin == 0
Unknown == [known |-> FALSE]
Refused == [refused |-> TRUE]
Waiting == [waiting |-> TRUE]
Elsewhere == 0

StatusOf(a) == [known |-> TRUE, on |-> a.on, locked |-> a.locked]

Opened(h, epoch) ==
    [holder |-> h, epoch |-> epoch, busy |-> FALSE, status |-> Unknown,
     pin |-> NoPin, error |-> FALSE, updated |-> FALSE]

Request(kind, h, epoch) == [kind |-> kind, holder |-> h, epoch |-> epoch, answer |-> Waiting]

\* An answer counts if nothing ended the epoch it was asked in.
Awaited_Fault(c) == dialog.holder # NoHolder

Awaited(c) == dialog.epoch = c.epoch

OpenDialog(h) ==
    /\ dialog.holder = NoHolder /\ dialog.epoch < MaxDialogEpochs
    /\ dialog' = Opened(h, dialog.epoch + 1)
    /\ calls' = calls \cup {Request("load", h, dialog.epoch + 1)}
    /\ UNCHANGED <<account, pins>>

CloseDialog ==
    /\ dialog.holder # NoHolder
    /\ dialog' = Opened(NoHolder, dialog.epoch + 1)
    /\ UNCHANGED <<account, pins, calls>>

Offered(operation) ==
    /\ dialog.status.known
    /\ operation \in {"disable", "unlock"} => dialog.status.on
    /\ operation = "unlock" => dialog.status.locked

Change(operation) ==
    /\ dialog.holder # NoHolder /\ ~dialog.busy /\ dialog.epoch < MaxDialogEpochs
    /\ Offered(operation)
    /\ dialog' = [dialog EXCEPT !.busy = TRUE, !.error = FALSE, !.updated = FALSE,
                                !.pin = NoPin, !.epoch = @ + 1]
    /\ calls' = calls \cup {Request(operation, dialog.holder, dialog.epoch + 1)}
    /\ UNCHANGED <<account, pins>>

\* The server's transactions
Carried(c, a, made) ==
    /\ account' = [account EXCEPT ![c.holder] = a]
    /\ calls' = (calls \ {c}) \cup {[c EXCEPT !.answer = [status |-> StatusOf(a), pin |-> made]]}
    /\ UNCHANGED dialog

GetStatus(c) ==
    /\ c.kind = "load"
    /\ Carried(c, account[c.holder], NoPin) /\ UNCHANGED pins

NewPin(by) == [pin |-> Len(pins) + 1, on |-> TRUE, locked |-> FALSE, by |-> by]

ResetPinOf(c) ==
    /\ c.kind = "reset" /\ Len(pins) < MaxPins
    /\ Carried(c, NewPin(c.epoch), Len(pins) + 1)
    /\ pins' = Append(pins, [holder |-> c.holder, epoch |-> c.epoch])

Changeable(kind, a) == a.pin # NoPin /\ (kind = "unlock" => a.on)

ChangePin(c) ==
    /\ c.kind \in {"disable", "unlock"}
    /\ IF Changeable(c.kind, account[c.holder])
       THEN Carried(c, [account[c.holder] EXCEPT !.on = c.kind = "unlock", !.locked = FALSE,
                                                 !.by = c.epoch], NoPin)
       ELSE /\ calls' = (calls \ {c}) \cup {[c EXCEPT !.answer = Refused]}
            /\ UNCHANGED <<account, dialog>>
    /\ UNCHANGED pins

CarriedOut(c) == c.answer = Waiting /\ (GetStatus(c) \/ ResetPinOf(c) \/ ChangePin(c))

\* What the dialog does with an answer
Shown(c) ==
    LET seen == [dialog EXCEPT !.status = c.answer.status, !.busy = FALSE]
    IN IF c.kind = "load" THEN seen
       ELSE [seen EXCEPT !.pin = c.answer.pin, !.updated = TRUE]

CallAnswered(c) ==
    /\ c.answer \notin {Waiting, Refused}
    /\ dialog' = IF Awaited(c) THEN Shown(c) ELSE dialog
    /\ calls' = calls \ {c}
    /\ UNCHANGED <<account, pins>>

\* Refused, or lost before or after the server carried it out: the status is
\* loaded again, a reset is not repeated.
CallFailed(c) ==
    /\ IF Awaited(c)
       THEN /\ dialog' = [dialog EXCEPT !.error = TRUE, !.busy = c.kind # "load"]
            /\ calls' = (calls \ {c}) \cup
                           IF c.kind = "load" THEN {} ELSE {Request("load", c.holder, c.epoch)}
       ELSE dialog' = dialog /\ calls' = calls \ {c}
    /\ UNCHANGED <<account, pins>>

\* The holder's failed attempts, and an administrator at another screen
LockOutHolder(h) ==
    /\ account[h].on /\ ~account[h].locked
    /\ account' = [account EXCEPT ![h].locked = TRUE, ![h].by = Elsewhere]
    /\ UNCHANGED <<pins, dialog, calls>>

ResetElsewhere(h) ==
    /\ Len(pins) < MaxPins
    /\ account' = [account EXCEPT ![h] = NewPin(Elsewhere)]
    /\ pins' = Append(pins, [holder |-> h, epoch |-> Elsewhere])
    /\ UNCHANGED <<dialog, calls>>

DialogInit ==
    /\ account = [h \in Holders |-> [pin |-> NoPin, on |-> FALSE, locked |-> FALSE, by |-> Elsewhere]]
    /\ pins = <<>>
    /\ dialog = Opened(NoHolder, 0)
    /\ calls = {}

DialogNext ==
    \/ \E h \in Holders : OpenDialog(h) \/ LockOutHolder(h) \/ ResetElsewhere(h)
    \/ CloseDialog
    \/ \E operation \in {"reset", "disable", "unlock"} : Change(operation)
    \/ \E c \in calls : CarriedOut(c) \/ CallAnswered(c) \/ CallFailed(c)

DialogSpec == DialogInit /\ [][DialogNext]_pinDialog

(* A one-time PIN is shown only in the dialog that asked for it, of the       *)
(* employee it was made for, and it is that employee's PIN unless something   *)
(* was done after; the same holds of the status that a change is said to      *)
(* have led to (TerminalPinDialog.tsx:103, :110).  Calls of closed dialogs    *)
(* are carried out and answered meanwhile.                                    *)
OneTimePinsKept ==
    dialog.holder # NoHolder =>
        LET a == account[dialog.holder]
        IN /\ dialog.pin # NoPin =>
                  /\ pins[dialog.pin] = [holder |-> dialog.holder, epoch |-> dialog.epoch]
                  /\ a.by = dialog.epoch => a.pin = dialog.pin /\ a.on
           /\ dialog.updated /\ a.by = dialog.epoch => dialog.status = StatusOf(a)
=============================================================================
