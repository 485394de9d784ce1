----------------------------- MODULE AuditChain -----------------------------
(***************************************************************************)
(* The terminal audit: the chain of events that every terminal transaction *)
(* appends to (apps/api/src/app/terminals/terminal-audit.service.ts), and  *)
(* the operator's export, anchor and verification of it                    *)
(* (ops/terminal-audit.mjs, ops/terminal-audit-chain.mjs).                 *)
(*                                                                         *)
(* A hash is what it stands for: the sequence of events up to its own.     *)
(* Events are numbered as they are made, so that no two are the same.  The *)
(* database may be restored from a backup.                                 *)
(*                                                                         *)
(* A definition whose name ends in _Fault is a plausible mistake in the    *)
(* definition below it; nothing else uses it.                              *)
(***************************************************************************)
EXTENDS Integers, Sequences, FiniteSets, SequencesExt

CONSTANTS
    Writers,     \* transactions that are open together
    KeyVersions, \* bound: versions of the signing key
    MaxEvents,   \* bound: events that are made
    MaxRestores  \* bound: restorations of a backup

ASSUME AuditAssumption ==
    /\ IsFiniteSet(Writers)
    /\ KeyVersions \in Nat \ {0}
    /\ MaxEvents \in Nat /\ MaxRestores \in Nat

VARIABLES
    events,    \* TerminalAuditEvent, by sequence
    made,      \* how many events have been made
    writer,    \* open transactions that append, and what each has read
    keyVersion, \* the version in use; all before it are kept
    snapshot,  \* the file of the last export
    anchor,    \* the file of the last anchor, or NoFile
    anchored,  \* history: the events the anchor was made of
    backup,    \* a backup of the table
    restores

audit == <<events, made, writer, keyVersion, snapshot, anchor, anchored, backup, restores>>

NoFile == [exists |-> FALSE]
NotOpen == [phase |-> "out"]

HashOf(chain) == [i \in 1 .. Len(chain) |-> chain[i].id]

-----------------------------------------------------------------------------
(* append *)

\* pg_advisory_xact_lock(7261501): released at the end of the transaction
LockFree == \A w \in Writers : writer[w].phase # "holds"

\* A transaction that reads the last event before it waits for the lock.
LastEvent_Fault(w) == writer[w].seen

\* The transactions are READ COMMITTED: the query sees what was committed
\* when it began, after the lock was granted.
LastEvent(w) == events

BeginAppend(w) ==
    /\ writer[w] = NotOpen
    /\ writer' = [writer EXCEPT ![w] = [phase |-> "open", seen |-> events]]
    /\ UNCHANGED <<events, made, keyVersion, snapshot, anchor, anchored, backup, restores>>

LockAudit(w) ==
    /\ writer[w].phase = "open" /\ LockFree
    /\ writer' = [writer EXCEPT ![w] = [phase |-> "holds", last |-> LastEvent(w)]]
    /\ UNCHANGED <<events, made, keyVersion, snapshot, anchor, anchored, backup, restores>>

NewEvent(w) ==
    [id |-> made + 1, sequence |-> Len(writer[w].last) + 1, key |-> keyVersion,
     previous |-> HashOf(writer[w].last),
     hash |-> Append(HashOf(writer[w].last), made + 1)]

\* The transaction commits; its sequence is a primary key.
CommitEvent(w) ==
    /\ writer[w].phase = "holds" /\ made < MaxEvents
    /\ NewEvent(w).sequence \notin {events[i].sequence : i \in DOMAIN events}
    /\ events' = Append(events, NewEvent(w))
    /\ made' = made + 1
    /\ writer' = [writer EXCEPT ![w] = NotOpen]
    /\ UNCHANGED <<keyVersion, snapshot, anchor, anchored, backup, restores>>

\* What it was about fails, or the append does.
Rollback(w) ==
    /\ writer[w] # NotOpen
    /\ writer' = [writer EXCEPT ![w] = NotOpen]
    /\ UNCHANGED <<events, made, keyVersion, snapshot, anchor, anchored, backup, restores>>

-----------------------------------------------------------------------------
(* terminal-audit.mjs *)

\* auditKeys: the keys of the past, and the one in use
Known(key) == key \in 1 .. keyVersion

\* verifyAudit without an anchor: every row carries on from the one before.
Linked(rows) ==
    \A i \in DOMAIN rows :
        /\ rows[i].sequence = i
        /\ rows[i].previous = (IF i = 1 THEN <<>> ELSE rows[i - 1].hash)
        /\ Known(rows[i].key)
        /\ rows[i].hash = Append(rows[i].previous, rows[i].id)

HeadOf(rows) == [sequence |-> Len(rows),
               hash |-> IF rows = <<>> THEN <<>> ELSE Last(rows).hash]

\* A shorter chain is not the anchored one; the hash is not compared.
MatchesAnchor_Fault(rows, head) == head.sequence <= Len(rows)

MatchesAnchor(rows, head) ==
    /\ head.sequence <= Len(rows)
    /\ head.hash = (IF head.sequence = 0 THEN <<>> ELSE rows[head.sequence].hash)

\* export: one REPEATABLE READ snapshot, verified before it is written
Export ==
    /\ Linked(events)
    /\ snapshot' = [exists |-> TRUE, rows |-> events]
    /\ UNCHANGED <<events, made, writer, keyVersion, anchor, anchored, backup, restores>>

\* anchor: of a verified export, to be kept apart from the database
MakeAnchor ==
    /\ snapshot # NoFile /\ Linked(snapshot.rows)
    /\ anchor' = [exists |-> TRUE, head |-> HeadOf(snapshot.rows)]
    /\ anchored' = snapshot.rows
    /\ UNCHANGED <<events, made, writer, keyVersion, snapshot, backup, restores>>

\* verify FILE ANCHOR
Verifies(rows) == Linked(rows) /\ (anchor # NoFile => MatchesAnchor(rows, anchor.head))

-----------------------------------------------------------------------------
(* The operator *)

RotateKey ==
    /\ keyVersion < KeyVersions /\ keyVersion' = keyVersion + 1
    /\ UNCHANGED <<events, made, writer, snapshot, anchor, anchored, backup, restores>>

BackUp ==
    /\ backup' = events
    /\ UNCHANGED <<events, made, writer, keyVersion, snapshot, anchor, anchored, restores>>

\* Open transactions end with the connections.
Restore ==
    /\ restores < MaxRestores /\ restores' = restores + 1
    /\ events' = backup
    /\ writer' = [w \in Writers |-> NotOpen]
    /\ UNCHANGED <<made, keyVersion, snapshot, anchor, anchored, backup>>

-----------------------------------------------------------------------------
(* The system *)

AuditInit ==
    /\ events = <<>> /\ made = 0
    /\ writer = [w \in Writers |-> NotOpen]
    /\ keyVersion = 1
    /\ snapshot = NoFile /\ anchor = NoFile /\ anchored = <<>>
    /\ backup = <<>> /\ restores = 0

AuditNext ==
    \/ \E w \in Writers : BeginAppend(w) \/ LockAudit(w) \/ CommitEvent(w) \/ Rollback(w)
    \/ Export \/ MakeAnchor \/ RotateKey \/ BackUp \/ Restore

AuditSpec == AuditInit /\ [][AuditNext]_audit

-----------------------------------------------------------------------------
(* Properties *)

(* The table is one chain at every moment, whatever was open together, rolled *)
(* back or restored (terminal-audit.service.ts:63): no export is refused, and *)
(* no transaction is for a sequence that is taken.                            *)
OneChain ==
    /\ Linked(events)
    /\ \A w \in Writers : writer[w].phase = "holds" => writer[w].last = events

(* An export verifies against the anchor exactly if nothing of what was       *)
(* anchored is missing from it or replaced: a restored backup is found out    *)
(* even after as many new events as were lost (terminal-audit-chain.mjs:74).  *)
AnchorTellsRollback ==
    anchor # NoFile => (Verifies(events) <=> IsPrefix(anchored, events))

(* What the audit tells is true and whole: its chain is one, and the anchor   *)
(* tells a rollback from an extension (terminal-audit.service.ts,             *)
(* terminal-audit-chain.mjs).                                                 *)
AuditTrustworthy == OneChain /\ AnchorTellsRollback
=============================================================================
