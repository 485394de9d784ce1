----------------------------- MODULE KioskProofs -----------------------------
(***************************************************************************)
(* What the parts of a kiosk guarantee for every number of transactions,   *)
(* events, people and requests in flight.                                  *)
(*                                                                         *)
(* The audit: every copy of the table is a chain, and no two events of any *)
(* copies have the same number, so that a hash, the numbers up to its own, *)
(* says which events it stands for.                                        *)
(*                                                                         *)
(* The screens: what is on one belongs to the state, the person, the       *)
(* dialog or the filter of now, because every answer names the epoch it    *)
(* was asked in and no two of an epoch are open.                           *)
(***************************************************************************)
EXTENDS AuditChain, KioskScreens, FiniteSetTheorems, WellFoundedInduction, TLAPS

Event == [id: Nat \ {0}, sequence: Nat, key: Nat, previous: Seq(Nat), hash: Seq(Nat)]

\* A copy of the table that the operator's tool would accept.
Chain(rows) ==
    /\ rows \in Seq(Event) /\ Linked(rows)
    /\ \A i \in DOMAIN rows : /\ rows[i].hash = [k \in 1 .. i |-> rows[k].id]
                              /\ rows[i].id <= made

\* Where copies are kept.
Copies ==
    {events, backup, anchored} \cup (IF snapshot = NoFile THEN {} ELSE {snapshot.rows})

\* An event's number says which event it is.
Agree(rows, others) ==
    \A i \in DOMAIN rows, j \in DOMAIN others : rows[i].id = others[j].id => rows[i] = others[j]

CopiesSound ==
    /\ \A rows \in Copies : Chain(rows)
    /\ \A rows, others \in Copies : Agree(rows, others)

\* One transaction at most holds the lock, and it has read the last event.
WritersSound ==
    /\ DOMAIN writer = Writers
    /\ \A w \in Writers : writer[w].phase = "holds" =>
         /\ writer[w].last = events
         /\ \A v \in Writers : writer[v].phase = "holds" => v = w

AnchorSound ==
    anchor # NoFile => anchor.head = HeadOf(anchored)

AuditInv ==
    /\ made \in Nat /\ keyVersion \in Nat \ {0}
    /\ CopiesSound /\ WritersSound /\ AnchorSound

-----------------------------------------------------------------------------
(* Chains *)

LEMMA ChainFields ==
    ASSUME NEW rows, Chain(rows), NEW i \in DOMAIN rows
    PROVE  /\ i \in Nat \ {0} /\ rows[i] \in Event /\ rows[i].id \in Nat
           /\ DOMAIN rows = 1 .. Len(rows) /\ Len(rows) \in Nat
<1>1. rows \in Seq(Event)
  BY DEF Chain
<1>2. i \in Nat \ {0} /\ rows[i] \in Event /\ DOMAIN rows = 1 .. Len(rows) /\ Len(rows) \in Nat
  BY <1>1
<1> QED BY <1>2 DEF Event

\* A chain stays one when events are made and keys are added.
LEMMA ChainKept ==
    ASSUME made \in Nat, keyVersion \in Nat, made' \in Nat, keyVersion' \in Nat,
           made <= made', keyVersion <= keyVersion', NEW rows, Chain(rows)
    PROVE  Chain(rows)'
<1>1. \A i \in DOMAIN rows : rows[i].id \in Nat /\ rows[i].id <= made
  BY ChainFields DEF Chain
<1>2. \A i \in DOMAIN rows : rows[i].id <= made'
  BY <1>1
<1>3. Linked(rows)'
  BY DEF Chain, Linked, Known
<1> QED BY <1>2, <1>3 DEF Chain

\* Nothing but what was there is kept.
LEMMA CopiesStep ==
    ASSUME AuditInv, made' \in Nat, keyVersion' \in Nat, made <= made', keyVersion <= keyVersion',
           Copies' \subseteq Copies
    PROVE  CopiesSound'
<1>1. made \in Nat /\ keyVersion \in Nat /\ CopiesSound
  BY DEF AuditInv
<1>2. \A rows \in Copies : Chain(rows)'
  BY <1>1, ChainKept DEF CopiesSound
<1>3. \A rows \in Copies' : Chain(rows)'
  BY <1>2
<1>4. \A rows, others \in Copies' : Agree(rows, others)'
  BY <1>1 DEF CopiesSound, Agree
<1> QED BY <1>3, <1>4 DEF CopiesSound

\* A chain goes on with an event that carries on from its last.
LEMMA ChainGrows ==
    ASSUME made \in Nat, keyVersion \in Nat \ {0}, keyVersion' = keyVersion,
           made' = made + 1, NEW rows, Chain(rows),
           NEW event, event = [id |-> made + 1, sequence |-> Len(rows) + 1, key |-> keyVersion,
                               previous |-> HashOf(rows), hash |-> Append(HashOf(rows), made + 1)]
    PROVE  Chain(Append(rows, event))'
<1> DEFINE n == Len(rows)
           new == Append(rows, event)
<1>1. /\ rows \in Seq(Event) /\ n \in Nat /\ DOMAIN rows = 1 .. n
      /\ \A i \in 1 .. n : rows[i] \in Event /\ rows[i].id \in Nat /\ rows[i].id <= made
      /\ \A i \in 1 .. n : rows[i].hash = [k \in 1 .. i |-> rows[k].id]
      /\ Linked(rows)
  <2>1. rows \in Seq(Event)
    BY DEF Chain
  <2>2. n \in Nat /\ DOMAIN rows = 1 .. n
    BY <2>1
  <2>3. \A i \in 1 .. n : rows[i] \in Event /\ rows[i].id \in Nat
    BY <2>2, ChainFields
  <2> QED BY <2>1, <2>2, <2>3 DEF Chain
<1>2. HashOf(rows) = [k \in 1 .. n |-> rows[k].id] /\ HashOf(rows) \in Seq(Nat)
  BY <1>1 DEF HashOf
<1>3. /\ Append(HashOf(rows), made + 1) \in Seq(Nat)
      /\ Append(HashOf(rows), made + 1) =
           [k \in 1 .. n + 1 |-> IF k = n + 1 THEN made + 1 ELSE rows[k].id]
  BY <1>1, <1>2
<1>4. event \in Event
  BY <1>1, <1>2, <1>3 DEF Event
<1>5. /\ event.id = made + 1 /\ event.sequence = n + 1 /\ event.key = keyVersion
      /\ event.previous = HashOf(rows) /\ event.hash = Append(HashOf(rows), made + 1)
  OBVIOUS
<1> HIDE DEF n
<1>6. /\ new \in Seq(Event) /\ DOMAIN new = 1 .. n + 1 /\ new[n + 1] = event
      /\ \A i \in 1 .. n : new[i] = rows[i]
  BY <1>1, <1>4 DEF n
<1> HIDE DEF new
<1>7. ASSUME NEW i \in 1 .. n + 1 PROVE new[i].id \in Nat /\ new[i].id <= made'
  <2>1. CASE i \in 1 .. n
    BY <1>1, <1>6, <2>1
  <2>2. CASE i = n + 1
    BY <1>5, <1>6, <2>2
  <2> QED BY <1>1, <2>1, <2>2
<1>8. ASSUME NEW i \in 1 .. n + 1 PROVE new[i].hash = [k \in 1 .. i |-> new[k].id]
  <2>1. CASE i \in 1 .. n
    <3>1. \A k \in 1 .. i : new[k].id = rows[k].id
      BY <1>1, <1>6, <2>1
    <3>2. [k \in 1 .. i |-> new[k].id] = [k \in 1 .. i |-> rows[k].id]
      BY <3>1
    <3> QED BY <1>1, <1>6, <2>1, <3>2
  <2>2. CASE i = n + 1
    <3>1. \A k \in 1 .. n + 1 : new[k].id = IF k = n + 1 THEN made + 1 ELSE rows[k].id
      BY <1>1, <1>5, <1>6
    <3> QED BY <1>3, <1>5, <1>6, <2>2, <3>1
  <2> QED BY <1>1, <2>1, <2>2
<1>9. Linked(new)'
  <2> SUFFICES ASSUME NEW i \in 1 .. n + 1
               PROVE  /\ new[i].sequence = i
                      /\ new[i].previous = (IF i = 1 THEN <<>> ELSE new[i - 1].hash)
                      /\ new[i].key \in 1 .. keyVersion'
                      /\ new[i].hash = Append(new[i].previous, new[i].id)
    BY <1>6 DEF Linked, Known
  <2>1. CASE i \in 1 .. n
    <3>1. i # 1 => new[i - 1] = rows[i - 1]
      BY <1>1, <1>6, <2>1
    <3> QED BY <1>1, <1>6, <2>1, <3>1 DEF Linked, Known
  <2>2. CASE i = n + 1
    <3>1. i = 1 => HashOf(rows) = <<>>
      BY <1>1, <1>2, <2>2
    <3>2. ASSUME i # 1 PROVE new[i - 1].hash = HashOf(rows)
      <4>1. n \in 1 .. n /\ i - 1 = n
        BY <1>1, <2>2, <3>2
      <4> QED BY <1>1, <1>2, <1>6, <4>1
    <3> QED BY <1>1, <1>5, <1>6, <2>2, <3>1, <3>2
  <2> QED BY <1>1, <2>1, <2>2
<1>10. Chain(new)'
  BY <1>6, <1>7, <1>8, <1>9 DEF Chain
<1> QED BY <1>10 DEF new

\* An event with a new number agrees with all that were made before.
LEMMA NewAgrees ==
    ASSUME made \in Nat, NEW rows, Chain(rows), NEW others, Chain(others),
           Agree(rows, others), Agree(others, rows), Agree(rows, rows),
           NEW event \in Event, event.id = made + 1
    PROVE  /\ Agree(Append(rows, event), others) /\ Agree(others, Append(rows, event))
           /\ Agree(Append(rows, event), Append(rows, event))
<1> DEFINE n == Len(rows)
           new == Append(rows, event)
<1>1. rows \in Seq(Event) /\ n \in Nat /\ DOMAIN rows = 1 .. n
  BY DEF Chain
<1>2. \A i \in 1 .. n : rows[i].id \in Nat /\ rows[i].id <= made
  BY <1>1, ChainFields DEF Chain
<1>3. \A i \in DOMAIN others : others[i].id \in Nat /\ others[i].id <= made
  BY ChainFields DEF Chain
<1> HIDE DEF n
<1>4. /\ DOMAIN new = 1 .. n + 1 /\ new[n + 1] = event
      /\ \A i \in 1 .. n : new[i] = rows[i]
  BY <1>1 DEF n
<1> HIDE DEF new
<1>5. \A i \in 1 .. n + 1 : i \in 1 .. n \/ i = n + 1
  BY <1>1
<1>6. Agree(new, others) /\ Agree(others, new)
  <2>1. \A i \in 1 .. n + 1, j \in DOMAIN others :
          new[i].id = others[j].id => i \in 1 .. n
    BY <1>3, <1>4, <1>5
  <2> QED BY <1>1, <1>4, <2>1 DEF Agree
<1>7. Agree(new, new)
  <2>1. \A i \in 1 .. n : new[i].id # new[n + 1].id
    BY <1>2, <1>4
  <2> QED BY <1>1, <1>4, <1>5, <2>1 DEF Agree
<1> QED BY <1>6, <1>7 DEF new

LEMMA CommitStep ==
    ASSUME AuditInv, NEW w \in Writers, CommitEvent(w)
    PROVE  AuditInv'
<1>1. /\ made \in Nat /\ keyVersion \in Nat \ {0} /\ CopiesSound /\ WritersSound /\ AnchorSound
      /\ made' = made + 1 /\ keyVersion' = keyVersion
  BY DEF AuditInv, CommitEvent
<1>2. writer[w].last = events /\ writer[w].phase = "holds"
  BY <1>1 DEF CommitEvent, WritersSound
<1>3. PICK event : event = NewEvent(w)
  OBVIOUS
<1>4. event = [id |-> made + 1, sequence |-> Len(events) + 1, key |-> keyVersion,
               previous |-> HashOf(events), hash |-> Append(HashOf(events), made + 1)]
  BY <1>2, <1>3 DEF NewEvent
<1>5. events' = Append(events, event) /\ UNCHANGED <<snapshot, anchor, anchored, backup>>
  BY <1>3 DEF CommitEvent
<1>6. events \in Copies /\ Chain(events)
  BY <1>1 DEF Copies, CopiesSound
<1>7. PICK new : new = Append(events, event)
  OBVIOUS
<1>8. Chain(new)'
  BY <1>1, <1>4, <1>6, <1>7, ChainGrows
<1>9. event \in Event /\ event.id = made + 1
  <2>1. new \in Seq(Event) /\ events \in Seq(Event)
    BY <1>6, <1>8 DEF Chain
  <2>2. event = new[Len(events) + 1] /\ Len(events) + 1 \in DOMAIN new
    BY <1>7, <2>1
  <2>3. event \in Event
    BY <2>1, <2>2
  <2> QED BY <1>4, <2>3
<1>10. Copies' \subseteq Copies \cup {new}
  BY <1>5, <1>7 DEF Copies
<1>11. \A rows \in Copies : Chain(rows)'
  BY <1>1, ChainKept DEF CopiesSound
<1>12. \A rows \in Copies' : Chain(rows)'
  BY <1>8, <1>10, <1>11
<1>13. \A rows \in Copies : Agree(new, rows) /\ Agree(rows, new) /\ Agree(new, new)
  <2> SUFFICES ASSUME NEW rows \in Copies
               PROVE  Agree(new, rows) /\ Agree(rows, new) /\ Agree(new, new)
    OBVIOUS
  <2>1. Chain(rows) /\ Agree(rows, events) /\ Agree(events, rows) /\ Agree(events, events)
    BY <1>1, <1>6 DEF CopiesSound
  <2> QED BY <1>1, <1>6, <1>7, <1>9, <2>1, NewAgrees
<1>14. \A rows, others \in Copies' : Agree(rows, others)
  BY <1>1, <1>6, <1>10, <1>13 DEF CopiesSound
<1>15. CopiesSound'
  BY <1>12, <1>14 DEF CopiesSound, Agree
<1>16. WritersSound'
  <2>1. writer' = [writer EXCEPT ![w] = NotOpen]
    BY DEF CommitEvent
  <2>2. \A v \in Writers : writer'[v].phase = "holds" => writer'[v] = writer[v] /\ v # w
    BY <1>1, <2>1 DEF WritersSound, NotOpen
  <2>3. \A v \in Writers : writer'[v].phase # "holds"
    BY <1>1, <1>2, <2>2 DEF WritersSound
  <2> QED BY <1>1, <2>1, <2>3 DEF WritersSound
<1>17. AnchorSound'
  BY <1>1, <1>5 DEF AnchorSound, HeadOf
<1> QED BY <1>1, <1>15, <1>16, <1>17 DEF AuditInv

LEMMA AuditStep == AuditInv /\ [AuditNext]_audit => AuditInv'
<1> SUFFICES ASSUME AuditInv, [AuditNext]_audit PROVE AuditInv'
  OBVIOUS
<1>0. made \in Nat /\ keyVersion \in Nat \ {0} /\ CopiesSound /\ WritersSound /\ AnchorSound
  BY DEF AuditInv
<1>1. ASSUME UNCHANGED <<made, keyVersion, snapshot, anchor, anchored, backup, events>>,
             WritersSound'
      PROVE  AuditInv'
  <2>1. CopiesSound'
    BY <1>0, <1>1, CopiesStep DEF Copies
  <2> QED BY <1>0, <1>1, <2>1 DEF AuditInv, AnchorSound, HeadOf
<1>2. ASSUME NEW w \in Writers, BeginAppend(w) PROVE AuditInv'
  <2>1. PICK record : record = [phase |-> "open", seen |-> events]
    OBVIOUS
  <2>2. writer' = [writer EXCEPT ![w] = record] /\ record.phase = "open" /\ events' = events
    BY <1>2, <2>1 DEF BeginAppend
  <2>3. WritersSound'
    BY <1>0, <2>2 DEF WritersSound
  <2> QED BY <1>1, <1>2, <2>3 DEF BeginAppend
<1>3. ASSUME NEW w \in Writers, LockAudit(w) PROVE AuditInv'
  <2>1. PICK record : record = [phase |-> "holds", last |-> events]
    OBVIOUS
  <2>2. writer' = [writer EXCEPT ![w] = record] /\ record.last = events /\ events' = events
        /\ LockFree
    BY <1>3, <2>1 DEF LockAudit, LastEvent
  <2>3. WritersSound'
    BY <1>0, <2>2 DEF WritersSound, LockFree
  <2> QED BY <1>1, <1>3, <2>3 DEF LockAudit
<1>4. ASSUME NEW w \in Writers, Rollback(w) PROVE AuditInv'
  <2>1. writer' = [writer EXCEPT ![w] = NotOpen] /\ events' = events
    BY <1>4 DEF Rollback
  <2>2. WritersSound'
    BY <1>0, <2>1 DEF WritersSound, NotOpen
  <2> QED BY <1>1, <1>4, <2>2 DEF Rollback
<1>5. CASE Export
  <2>1. snapshot' = [exists |-> TRUE, rows |-> events]
        /\ UNCHANGED <<events, made, writer, keyVersion, anchor, anchored, backup>>
    BY <1>5 DEF Export
  <2>2. Copies' \subseteq Copies
    BY <2>1 DEF Copies
  <2>3. CopiesSound'
    BY <1>0, <2>1, <2>2, CopiesStep
  <2> QED BY <1>0, <2>1, <2>3 DEF AuditInv, WritersSound, AnchorSound, HeadOf
<1>6. CASE MakeAnchor
  <2>1. /\ snapshot # NoFile /\ anchored' = snapshot.rows
        /\ anchor' = [exists |-> TRUE, head |-> HeadOf(snapshot.rows)]
        /\ UNCHANGED <<events, made, writer, keyVersion, snapshot, backup>>
    BY <1>6 DEF MakeAnchor
  <2>2. Copies' \subseteq Copies
    BY <2>1 DEF Copies
  <2>3. CopiesSound'
    BY <1>0, <2>1, <2>2, CopiesStep
  <2>4. AnchorSound'
    BY <2>1 DEF AnchorSound, HeadOf
  <2> QED BY <1>0, <2>1, <2>3, <2>4 DEF AuditInv, WritersSound
<1>7. CASE RotateKey
  <2>1. keyVersion' = keyVersion + 1
        /\ UNCHANGED <<events, made, writer, snapshot, anchor, anchored, backup>>
    BY <1>7 DEF RotateKey
  <2>2. Copies' \subseteq Copies /\ keyVersion' \in Nat \ {0}
    BY <1>0, <2>1 DEF Copies
  <2>3. CopiesSound'
    BY <1>0, <2>1, <2>2, CopiesStep
  <2> QED BY <1>0, <2>1, <2>2, <2>3 DEF AuditInv, WritersSound, AnchorSound, HeadOf
<1>8. CASE BackUp
  <2>1. backup' = events
        /\ UNCHANGED <<events, made, writer, keyVersion, snapshot, anchor, anchored>>
    BY <1>8 DEF BackUp
  <2>2. Copies' \subseteq Copies
    BY <2>1 DEF Copies
  <2>3. CopiesSound'
    BY <1>0, <2>1, <2>2, CopiesStep
  <2> QED BY <1>0, <2>1, <2>3 DEF AuditInv, WritersSound, AnchorSound, HeadOf
<1>9. CASE Restore
  <2>1. events' = backup /\ writer' = [w \in Writers |-> NotOpen]
        /\ UNCHANGED <<made, keyVersion, snapshot, anchor, anchored, backup>>
    BY <1>9 DEF Restore
  <2>2. Copies' \subseteq Copies
    BY <2>1 DEF Copies
  <2>3. CopiesSound'
    BY <1>0, <2>1, <2>2, CopiesStep
  <2>4. WritersSound'
    BY <2>1 DEF WritersSound, NotOpen
  <2> QED BY <1>0, <2>1, <2>3, <2>4 DEF AuditInv, AnchorSound, HeadOf
<1>10. CASE UNCHANGED audit
  <2>1. WritersSound'
    BY <1>0, <1>10 DEF audit, WritersSound
  <2> QED BY <1>1, <1>10, <2>1 DEF audit
<1> QED BY <1>2, <1>3, <1>4, <1>5, <1>6, <1>7, <1>8, <1>9, <1>10, CommitStep DEF AuditNext

\* What the anchor's hash says of the rows it is compared with.
LEMMA AnchorTells ==
    ASSUME AuditInv, anchor # NoFile
    PROVE  Verifies(events) <=> IsPrefix(anchored, events)
<1> DEFINE n == Len(anchored)
<1>1. /\ Chain(events) /\ Chain(anchored) /\ Agree(anchored, events)
      /\ anchor.head = HeadOf(anchored)
  BY DEF AuditInv, CopiesSound, Copies, AnchorSound
<1>2. /\ anchored \in Seq(Event) /\ n \in Nat /\ DOMAIN anchored = 1 .. n
      /\ events \in Seq(Event) /\ Len(events) \in Nat /\ DOMAIN events = 1 .. Len(events)
      /\ Linked(events)
  BY <1>1 DEF Chain
<1>3. Verifies(events) <=> MatchesAnchor(events, anchor.head)
  BY <1>2 DEF Verifies
<1>4. anchor.head.sequence = n
  BY <1>1 DEF HeadOf
<1>5. n # 0 => anchor.head.hash = [k \in 1 .. n |-> anchored[k].id]
  <2> SUFFICES ASSUME n # 0 PROVE anchor.head.hash = [k \in 1 .. n |-> anchored[k].id]
    OBVIOUS
  <2>1. anchored # <<>> /\ n \in DOMAIN anchored
    BY <1>2
  <2>2. anchor.head.hash = anchored[n].hash
    BY <1>1, <2>1 DEF HeadOf, Last
  <2> QED BY <1>1, <2>1, <2>2 DEF Chain
<1>6. n = 0 => anchor.head.hash = <<>>
  BY <1>1, <1>2 DEF HeadOf
<1>7. n # 0 /\ n <= Len(events) => events[n].hash = [k \in 1 .. n |-> events[k].id]
  <2>1. n # 0 /\ n <= Len(events) => n \in DOMAIN events
    BY <1>2
  <2> QED BY <1>1, <2>1 DEF Chain
<1> HIDE DEF n
<1>8. ASSUME MatchesAnchor(events, anchor.head) PROVE IsPrefix(anchored, events)
  <2>1. n <= Len(events)
    BY <1>4, <1>8 DEF MatchesAnchor
  <2>2. ASSUME NEW k \in 1 .. n PROVE anchored[k] = events[k]
    <3>1. n # 0 /\ k \in 1 .. Len(events)
      BY <1>2, <2>1
    <3>2. [i \in 1 .. n |-> anchored[i].id] = [i \in 1 .. n |-> events[i].id]
      BY <1>4, <1>5, <1>7, <1>8, <2>1, <3>1 DEF MatchesAnchor
    <3>3. anchored[k].id = events[k].id
      <4>1. [i \in 1 .. n |-> anchored[i].id][k] = [i \in 1 .. n |-> events[i].id][k]
        BY <3>2
      <4> QED BY <4>1
    <3> QED BY <1>1, <1>2, <3>1, <3>3 DEF Agree
  <2>3. SubSeq(anchored, 1, n) = SubSeq(events, 1, n)
    <3>1. SubSeq(anchored, 1, n) = [k \in 1 .. n |-> anchored[k]]
      BY <1>2
    <3>2. SubSeq(events, 1, n) = [k \in 1 .. n |-> events[k]]
      BY <1>2, <2>1
    <3> QED BY <2>2, <3>1, <3>2
  <2> QED BY <2>1, <2>3 DEF IsPrefix, n
<1>9. ASSUME IsPrefix(anchored, events) PROVE MatchesAnchor(events, anchor.head)
  <2>1. n <= Len(events) /\ SubSeq(anchored, 1, n) = SubSeq(events, 1, n)
    BY <1>9 DEF IsPrefix, n
  <2>2. ASSUME NEW k \in 1 .. n PROVE anchored[k] = events[k]
    <3>1. SubSeq(anchored, 1, n)[k] = anchored[k] /\ SubSeq(events, 1, n)[k] = events[k]
      BY <1>2, <2>1
    <3> QED BY <2>1, <3>1
  <2>3. n # 0 => events[n].hash = anchor.head.hash
    <3>1. [k \in 1 .. n |-> anchored[k].id] = [k \in 1 .. n |-> events[k].id]
      BY <2>2
    <3> QED BY <1>5, <1>7, <2>1, <3>1
  <2> QED BY <1>4, <1>6, <2>1, <2>3 DEF MatchesAnchor
<1> QED BY <1>3, <1>8, <1>9

-----------------------------------------------------------------------------
(* Theorems: the audit *)

\* The invariant behind the next: every copy of the table is a chain, and events
\* of one number are one event (terminal-audit.service.ts:61-118).
THEOREM AuditInvariant == AuditSpec => []AuditInv
<1>1. AuditInit => AuditInv
  <2> SUFFICES ASSUME AuditInit PROVE AuditInv
    OBVIOUS
  <2>1. Copies \subseteq {<<>>} /\ Chain(<<>>)
    BY DEF AuditInit, Copies, Chain, Linked, NoFile
  <2>2. CopiesSound
    BY <2>1 DEF CopiesSound, Agree
  <2>3. WritersSound /\ AnchorSound
    BY DEF AuditInit, WritersSound, AnchorSound, NotOpen
  <2> QED BY <2>2, <2>3 DEF AuditInit, AuditInv
<1> QED BY <1>1, AuditStep, PTL DEF AuditSpec

\* The table is one chain whatever is open, rolled back or restored, and an
\* export passes the anchor exactly if nothing that was anchored is missing
\* (terminal-audit.service.ts:63, terminal-audit-chain.mjs:74).
THEOREM AuditIsTrustworthy == AuditSpec => []AuditTrustworthy
<1>1. ASSUME AuditInv PROVE AuditTrustworthy
  <2>1. OneChain
    BY <1>1 DEF AuditInv, CopiesSound, WritersSound, Copies, Chain, OneChain
  <2>2. AnchorTellsRollback
    BY <1>1, AnchorTells DEF AnchorTellsRollback
  <2> QED BY <2>1, <2>2 DEF AuditTrustworthy
<1> QED BY <1>1, AuditInvariant, PTL

-----------------------------------------------------------------------------
(* The PIN form *)

Messages == {"none", "failed", "abandoned", "expired", "offline", "refused", "location"}

PanelState ==
    [phase: Phase, epoch: Nat, busy: BOOLEAN, grant: Nat, submitted: Nat,
     name: People \cup {NoOne}, receipt: Nat \cup {NoOne}, error: Messages]

PanelRequest ==
    [kind: {"identify", "locate", "book"}, epoch: Nat, grant: Nat, who: People \cup {NoOne}]

\* Each request has an epoch of its own, and the one of the panel's epoch is what
\* its phase waits for.
RequestsSound ==
    /\ \A r \in requests : r.epoch <= panel.epoch
    /\ \A r, q \in requests : r.epoch = q.epoch => r = q
    /\ \A r \in requests : r.epoch = panel.epoch =>
         /\ panel.busy
         /\ r.kind = "identify" => panel.phase = "identifying"
         /\ r.kind = "locate" => panel.phase = "locating"
         /\ r.kind = "book" => panel.phase = "submitting" /\ r.grant = panel.submitted
    /\ panel.busy => \E r \in requests : r.epoch = panel.epoch

\* What the panel holds in which phase.
PhaseSound(p) ==
    /\ p.grant <= p.epoch
    /\ p.phase \in {"identifying", "locating", "submitting"} => p.busy
    /\ p.name # NoOne => p.phase \in {"confirming", "locating", "submitting"}
    /\ p.grant # NoGrant => p.phase \in {"confirming", "locating", "submitting"}
    /\ p.receipt # NoOne => p.phase = "success"
    /\ p.submitted # NoGrant => p.phase \in {"submitting", "uncertain"}

PanelInv ==
    /\ person \in People /\ panel \in PanelState /\ requests \subseteq PanelRequest
    /\ RequestsSound /\ PhaseSound(panel)

\* The panel p leaves its epoch, and waits for nothing in the next.
LEMMA EpochEnds ==
    ASSUME PanelInv, panel'.epoch = panel.epoch + 1, panel'.busy = FALSE, requests' = requests
    PROVE  RequestsSound'
<1>1. panel.epoch \in Nat /\ \A r \in requests : r.epoch \in Nat /\ r.epoch <= panel.epoch
  BY DEF PanelInv, PanelState, PanelRequest, RequestsSound
<1>2. \A r \in requests : r.epoch <= panel'.epoch /\ r.epoch # panel'.epoch
  BY <1>1
<1> QED BY <1>2 DEF PanelInv, RequestsSound

LEMMA RequestSent ==
    ASSUME PanelInv, NEW r \in PanelRequest, requests' = requests \cup {r},
           r.epoch = panel.epoch + 1, panel'.epoch = panel.epoch + 1, panel'.busy,
           r.kind = "identify" => panel'.phase = "identifying",
           r.kind = "locate" => panel'.phase = "locating",
           r.kind = "book" => panel'.phase = "submitting" /\ r.grant = panel'.submitted
    PROVE  RequestsSound' /\ requests' \subseteq PanelRequest
<1>1. panel.epoch \in Nat /\ \A q \in requests : q.epoch \in Nat /\ q.epoch <= panel.epoch
  BY DEF PanelInv, PanelState, PanelRequest, RequestsSound
<1>2. \A q \in requests : q.epoch <= panel'.epoch /\ q.epoch # panel'.epoch
  BY <1>1
<1>3. requests' \subseteq PanelRequest
  BY DEF PanelInv
<1>4. \A q \in requests' : q.epoch <= panel'.epoch
  BY <1>1, <1>2
<1>5. \A q1, q2 \in requests' : q1.epoch = q2.epoch => q1 = q2
  BY <1>2 DEF PanelInv, RequestsSound
<1>6. \A q \in requests' : q.epoch = panel'.epoch => q = r
  BY <1>2
<1> QED BY <1>3, <1>4, <1>5, <1>6 DEF RequestsSound

\* The request that the panel waited for is answered.
LEMMA RequestSettled ==
    ASSUME PanelInv, NEW r \in requests, r.epoch = panel.epoch, requests' = requests \ {r},
           panel'.epoch = panel.epoch, panel'.busy = FALSE
    PROVE  RequestsSound'
<1>1. \A q \in requests' : q \in requests /\ q.epoch # panel'.epoch
  BY DEF PanelInv, RequestsSound
<1> QED BY <1>1 DEF PanelInv, RequestsSound

\* A request is answered, and the panel leaves its epoch.
LEMMA AnsweredAndLeft ==
    ASSUME PanelInv, NEW r \in requests, requests' = requests \ {r},
           panel'.epoch = panel.epoch + 1, panel'.busy = FALSE
    PROVE  RequestsSound'
<1>1. panel.epoch \in Nat /\ \A q \in requests : q.epoch \in Nat /\ q.epoch <= panel.epoch
  BY DEF PanelInv, PanelState, PanelRequest, RequestsSound
<1>2. \A q \in requests' : q \in requests /\ q.epoch <= panel'.epoch /\ q.epoch # panel'.epoch
  BY <1>1
<1> QED BY <1>2 DEF PanelInv, RequestsSound

\* A request is answered that the panel does not wait for any more.
LEMMA LateAnswer ==
    ASSUME PanelInv, NEW r \in requests, r.epoch # panel.epoch, requests' = requests \ {r},
           panel' = panel
    PROVE  RequestsSound'
BY DEF PanelInv, RequestsSound

LEMMA ClearedSound ==
    ASSUME PanelInv, NEW message \in Messages, panel' = Cleared(message), requests' = requests
    PROVE  panel' \in PanelState /\ RequestsSound' /\ PhaseSound(panel')
<1>1. panel.epoch \in Nat
  BY DEF PanelInv, PanelState
<1>2. panel' \in PanelState /\ PhaseSound(panel')
  BY <1>1 DEF Cleared, Fresh, PanelState, Phase, Messages, NoGrant, PhaseSound
<1>3. panel'.epoch = panel.epoch + 1 /\ panel'.busy = FALSE
  BY DEF Cleared, Fresh
<1> QED BY <1>2, <1>3, EpochEnds

\* The facts of a state with the invariant that the steps below start from.
LEMMA PanelFacts ==
    ASSUME PanelInv
    PROVE  /\ panel \in PanelState /\ panel.epoch \in Nat /\ panel.grant \in Nat
           /\ panel.submitted \in Nat /\ panel.name \in People \cup {NoOne}
           /\ person \in People /\ PhaseSound(panel) /\ RequestsSound
           /\ \A r \in requests : /\ r \in PanelRequest /\ r.epoch \in Nat /\ r.grant \in Nat
                                  /\ r.who \in People \cup {NoOne}
BY DEF PanelInv, PanelState, PanelRequest

\* Something of the component changes, and nothing that requests depend on.
LEMMA PanelTouched ==
    ASSUME PanelInv, requests' = requests, panel'.epoch = panel.epoch,
           panel'.busy <=> panel.busy, panel'.submitted = panel.submitted,
           panel.busy => panel'.phase = panel.phase
    PROVE  RequestsSound'
BY DEF PanelInv, RequestsSound

LEMMA StartSound == PanelInv /\ Start => PanelInv'
<1> SUFFICES ASSUME PanelInv, Start PROVE PanelInv'
  OBVIOUS
<1>1. /\ panel' \in PanelState
      /\ UNCHANGED <<person, requests>>
  BY PanelFacts DEF Start, PanelState, Phase, Messages
<1>2. /\ panel'.phase = "entering" /\ panel.phase = "idle" /\ panel'.epoch = panel.epoch
      /\ panel'.busy = panel.busy /\ panel'.grant = panel.grant /\ panel'.name = panel.name
      /\ panel'.submitted = panel.submitted /\ panel'.receipt = panel.receipt
  BY PanelFacts DEF Start, PanelState
<1>3. ~panel.busy
  BY <1>2 DEF PanelInv, RequestsSound, PanelRequest
<1>4. PhaseSound(panel')
  BY <1>2, PanelFacts DEF PhaseSound, NoGrant
<1>5. RequestsSound'
  BY <1>1, <1>2, <1>3, PanelTouched
<1> QED BY <1>1, <1>4, <1>5, PanelFacts DEF PanelInv

LEMMA IdentifySound == PanelInv /\ Identify => PanelInv'
<1> SUFFICES ASSUME PanelInv, Identify PROVE PanelInv'
  OBVIOUS
<1>0. PICK n \in Nat : n = panel.epoch + 1
  BY PanelFacts
<1>1. panel' \in PanelState /\ person' = person
  <2>1. panel' = [panel EXCEPT !.phase = "identifying", !.busy = TRUE, !.epoch = n]
    BY <1>0 DEF Identify
  <2>2. panel \in PanelState /\ person' = person
    BY PanelFacts DEF Identify
  <2> QED BY <2>1, <2>2 DEF PanelState, Phase
<1>2. /\ panel'.phase = "identifying" /\ panel.phase = "entering"
      /\ panel'.epoch = panel.epoch + 1 /\ panel'.busy
      /\ panel'.grant = panel.grant /\ panel'.name = panel.name
      /\ panel'.submitted = panel.submitted /\ panel'.receipt = panel.receipt
  BY PanelFacts DEF Identify, PanelState
<1>3. PICK r : r = [kind |-> "identify", epoch |-> panel.epoch + 1, grant |-> NoGrant,
                    who |-> person]
  OBVIOUS
<1>4. r \in PanelRequest /\ r.kind = "identify" /\ r.epoch = panel.epoch + 1
  BY <1>3, PanelFacts DEF PanelRequest, NoGrant
<1>5. requests' = requests \cup {r}
  BY <1>3 DEF Identify, Ask
<1>6. PhaseSound(panel')
  BY <1>2, PanelFacts DEF PhaseSound, NoGrant
<1>7. RequestsSound' /\ requests' \subseteq PanelRequest
  BY <1>2, <1>4, <1>5, RequestSent
<1> QED BY <1>1, <1>6, <1>7, PanelFacts DEF PanelInv

LEMMA BookSound == PanelInv /\ Book => PanelInv'
<1> SUFFICES ASSUME PanelInv, Book PROVE PanelInv'
  OBVIOUS
<1>1. PICK locate \in BOOLEAN :
        /\ Ask(IF locate THEN "locate" ELSE "book", panel.grant, panel.name)
        /\ panel' = [panel EXCEPT !.phase = IF locate THEN "locating" ELSE "submitting",
                          !.busy = TRUE, !.epoch = @ + 1, !.error = "none",
                          !.submitted = IF locate THEN NoGrant ELSE panel.grant]
  BY DEF Book
<1>2. panel' \in PanelState /\ person' = person
  <2>1. PICK n \in Nat : n = panel.epoch + 1
    BY PanelFacts
  <2>2. PICK phase \in Phase : phase = IF locate THEN "locating" ELSE "submitting"
    BY DEF Phase
  <2>3. PICK submitted \in Nat : submitted = IF locate THEN NoGrant ELSE panel.grant
    BY PanelFacts DEF NoGrant
  <2>4. panel' = [panel EXCEPT !.phase = phase, !.busy = TRUE, !.epoch = n, !.error = "none",
                               !.submitted = submitted]
    BY <1>1, <2>1, <2>2, <2>3
  <2>5. panel \in PanelState /\ person' = person
    BY PanelFacts DEF Book
  <2> QED BY <2>4, <2>5 DEF PanelState, Messages
<1>3. /\ panel'.phase = (IF locate THEN "locating" ELSE "submitting")
      /\ panel.phase = "confirming"
      /\ panel'.epoch = panel.epoch + 1 /\ panel'.busy
      /\ panel'.grant = panel.grant /\ panel'.name = panel.name
      /\ panel'.submitted = (IF locate THEN NoGrant ELSE panel.grant)
      /\ panel'.receipt = panel.receipt
  BY <1>1, PanelFacts DEF Book, PanelState
<1>4. PICK r : r = [kind |-> IF locate THEN "locate" ELSE "book", epoch |-> panel.epoch + 1,
                    grant |-> panel.grant, who |-> panel.name]
  OBVIOUS
<1>5. /\ r \in PanelRequest /\ r.epoch = panel.epoch + 1 /\ r.grant = panel.grant
      /\ r.kind = IF locate THEN "locate" ELSE "book"
  BY <1>4, PanelFacts DEF PanelRequest
<1>6. requests' = requests \cup {r}
  BY <1>1, <1>4 DEF Ask
<1>7. PhaseSound(panel')
  BY <1>3, PanelFacts DEF PhaseSound, NoGrant
<1>8. RequestsSound' /\ requests' \subseteq PanelRequest
  BY <1>3, <1>5, <1>6, RequestSent
<1> QED BY <1>2, <1>7, <1>8, PanelFacts DEF PanelInv

LEMMA RetrySound == PanelInv /\ Retry => PanelInv'
<1> SUFFICES ASSUME PanelInv, Retry PROVE PanelInv'
  OBVIOUS
<1>1. panel' \in PanelState /\ person' = person
  <2>1. PICK n \in Nat : n = panel.epoch + 1
    BY PanelFacts
  <2>2. panel' = [panel EXCEPT !.phase = "submitting", !.busy = TRUE, !.epoch = n,
                               !.error = "none", !.submitted = panel.submitted]
    BY <2>1 DEF Retry, Resent
  <2>3. panel \in PanelState /\ panel.submitted \in Nat /\ person' = person
    BY PanelFacts DEF Retry
  <2> QED BY <2>2, <2>3 DEF PanelState, Phase, Messages
<1>2. /\ panel'.phase = "submitting" /\ panel.phase = "uncertain"
      /\ panel'.epoch = panel.epoch + 1 /\ panel'.busy
      /\ panel'.grant = panel.grant /\ panel'.name = panel.name
      /\ panel'.submitted = panel.submitted /\ panel'.receipt = panel.receipt
  BY PanelFacts DEF Retry, Resent, PanelState
<1>3. PICK r : r = [kind |-> "book", epoch |-> panel.epoch + 1, grant |-> panel.submitted,
                    who |-> NoOne]
  OBVIOUS
<1>4. /\ r \in PanelRequest /\ r.kind = "book" /\ r.epoch = panel.epoch + 1
      /\ r.grant = panel.submitted
  BY <1>3, PanelFacts DEF PanelRequest
<1>5. requests' = requests \cup {r}
  BY <1>3 DEF Retry, Resent, Ask
<1>6. PhaseSound(panel')
  BY <1>2, PanelFacts DEF PhaseSound, NoGrant
<1>7. RequestsSound' /\ requests' \subseteq PanelRequest
  BY <1>2, <1>4, <1>5, RequestSent
<1> QED BY <1>1, <1>6, <1>7, PanelFacts DEF PanelInv

\* The steps that end the epoch.
LEMMA ClearSound ==
    ASSUME PanelInv, NEW message \in Messages, Clear(message), UNCHANGED <<person, requests>>
    PROVE  PanelInv'
<1>1. panel' \in PanelState /\ RequestsSound' /\ PhaseSound(panel')
  BY ClearedSound DEF Clear
<1> QED BY <1>1 DEF PanelInv

LEMMA OfflineSound ==
    ASSUME PanelInv, Offline, UNCHANGED <<person, requests>>
    PROVE  PanelInv'
<1>1. CASE panel.submitted = NoGrant
  BY <1>1, ClearSound DEF Offline, Messages
<1>2. CASE panel.submitted # NoGrant
  <2>1. panel' = [Uncertain EXCEPT !.epoch = @ + 1]
    BY <1>2 DEF Offline
  <2>2. panel' \in PanelState
    <3>1. PICK n \in Nat : n = panel.epoch + 1
      BY PanelFacts
    <3>2. panel' = [panel EXCEPT !.busy = FALSE, !.phase = "uncertain", !.grant = NoGrant,
                                 !.name = NoOne, !.epoch = n]
      <4>1. Uncertain = [panel EXCEPT !.busy = FALSE, !.phase = "uncertain", !.grant = NoGrant,
                                      !.name = NoOne]
        BY DEF Uncertain, Settled
      <4>2. Uncertain.epoch = panel.epoch
        BY <4>1, PanelFacts DEF PanelState
      <4> QED BY <2>1, <3>1, <4>1, <4>2
    <3>3. panel \in PanelState
      BY PanelFacts
    <3> QED BY <3>2, <3>3 DEF PanelState, Phase, NoGrant
  <2>3. /\ panel'.phase = "uncertain" /\ panel'.epoch = panel.epoch + 1 /\ panel'.busy = FALSE
        /\ panel'.grant = NoGrant /\ panel'.name = NoOne
        /\ panel'.submitted = panel.submitted /\ panel'.receipt = panel.receipt
    BY <2>1, PanelFacts DEF Uncertain, Settled, PanelState
  <2>4. PhaseSound(panel')
    BY <1>2, <2>3, PanelFacts DEF PhaseSound, NoGrant
  <2>5. RequestsSound'
    BY <2>3, EpochEnds
  <2> QED BY <2>2, <2>4, <2>5 DEF PanelInv
<1> QED BY <1>1, <1>2

LEMMA IdentifyAnsweredSound ==
    ASSUME PanelInv, NEW r \in requests, IdentifyAnswered(r)
    PROVE  PanelInv'
<1>0. requests' = requests \ {r} /\ person' = person /\ requests' \subseteq PanelRequest
  BY PanelFacts DEF IdentifyAnswered, Answer
<1>1. CASE ~Current(r)
  <2>1. panel' = panel /\ r.epoch # panel.epoch
    BY <1>1 DEF IdentifyAnswered, Current
  <2>2. RequestsSound'
    BY <1>0, <2>1, LateAnswer
  <2> QED BY <1>0, <2>1, <2>2, PanelFacts DEF PanelInv
<1>2. CASE Current(r) /\ panel' = [Settled EXCEPT !.phase = "confirming", !.grant = r.epoch,
                                                !.name = r.who]
  <2>1. panel' \in PanelState
    BY <1>2, PanelFacts DEF Settled, PanelState, Phase, Messages
  <2>2. /\ panel'.phase = "confirming" /\ panel'.epoch = panel.epoch /\ panel'.busy = FALSE
        /\ panel'.grant = r.epoch /\ panel'.submitted = panel.submitted
        /\ panel'.receipt = panel.receipt
    BY <1>2, PanelFacts DEF Settled, PanelState
  <2>3. r.epoch = panel.epoch /\ r.kind = "identify" /\ panel.phase = "identifying"
    BY <1>2 DEF IdentifyAnswered, Current, PanelInv, RequestsSound
  <2>4. PhaseSound(panel')
    BY <2>2, <2>3, PanelFacts DEF PhaseSound, NoGrant
  <2>5. RequestsSound'
    BY <1>0, <2>2, <2>3, RequestSettled
  <2> QED BY <1>0, <2>1, <2>4, <2>5, PanelFacts DEF PanelInv
<1>3. ASSUME Current(r), NEW message \in Messages, panel' = Cleared(message) PROVE PanelInv'
  <2>1. panel' \in PanelState /\ PhaseSound(panel')
    BY <1>3, PanelFacts DEF Cleared, Fresh, PanelState, Phase, Messages, NoGrant, PhaseSound
  <2>2. panel'.epoch = panel.epoch + 1 /\ panel'.busy = FALSE
    BY <1>3 DEF Cleared, Fresh
  <2>3. RequestsSound'
    BY <1>0, <2>2, AnsweredAndLeft
  <2> QED BY <1>0, <2>1, <2>3, PanelFacts DEF PanelInv
<1> QED BY <1>1, <1>2, <1>3 DEF IdentifyAnswered, Messages

\* The permission has a location, and the booking goes out in the same epoch.
LEMMA Located ==
    ASSUME PanelInv, NEW r \in requests, r.kind = "locate", r.epoch = panel.epoch,
           NEW b \in PanelRequest, b.epoch = r.epoch, b.grant = r.grant, b.kind = "book",
           requests' = (requests \ {r}) \cup {b}, panel'.epoch = panel.epoch,
           panel'.busy, panel'.phase = "submitting", panel'.submitted = r.grant
    PROVE  RequestsSound'
<1>1. \A q \in requests \ {r} : q.epoch # panel.epoch
  BY DEF PanelInv, RequestsSound
<1>2. \A q \in requests' : q.epoch <= panel'.epoch
  BY PanelFacts DEF RequestsSound
<1>3. \A q \in requests' : q.epoch = panel'.epoch => q = b
  BY <1>1
<1>4. \A q1, q2 \in requests' : q1.epoch = q2.epoch => q1 = q2
  BY <1>1 DEF PanelInv, RequestsSound
<1> QED BY <1>2, <1>3, <1>4 DEF RequestsSound

LEMMA LocateAnsweredSound ==
    ASSUME PanelInv, NEW r \in requests, LocateAnswered(r)
    PROVE  PanelInv'
<1>0. person' = person /\ r.kind = "locate"
  BY DEF LocateAnswered
<1>1. CASE ~Current(r) /\ Answer(r) /\ UNCHANGED panel
  <2>1. requests' = requests \ {r} /\ panel' = panel /\ r.epoch # panel.epoch
    BY <1>1 DEF Answer, Current
  <2>2. RequestsSound'
    BY <2>1, LateAnswer
  <2> QED BY <1>0, <2>1, <2>2, PanelFacts DEF PanelInv
<1>2. ASSUME Current(r) PROVE /\ r.epoch = panel.epoch /\ panel.phase = "locating"
                              /\ panel.busy /\ panel.submitted = NoGrant
  <2>1. r.epoch = panel.epoch /\ panel.phase = "locating" /\ panel.busy
    BY <1>0, <1>2 DEF Current, PanelInv, RequestsSound
  <2> QED BY <2>1, PanelFacts DEF PhaseSound
<1>3. CASE Current(r) /\ Answer(r)
           /\ panel' = [Settled EXCEPT !.phase = "confirming", !.error = "location"]
  <2>1. panel' = [panel EXCEPT !.busy = FALSE, !.phase = "confirming", !.error = "location"]
    BY <1>3 DEF Settled
  <2>2. panel' \in PanelState
    BY <2>1, PanelFacts DEF PanelState, Phase, Messages
  <2>3. /\ panel'.phase = "confirming" /\ panel'.epoch = panel.epoch /\ panel'.busy = FALSE
        /\ panel'.grant = panel.grant /\ panel'.submitted = panel.submitted
        /\ panel'.name = panel.name /\ panel'.receipt = panel.receipt
    BY <2>1, PanelFacts DEF PanelState
  <2>4. PhaseSound(panel')
    BY <1>2, <1>3, <2>3, PanelFacts DEF PhaseSound, NoGrant
  <2>5. requests' = requests \ {r} /\ requests' \subseteq PanelRequest
    BY <1>3, PanelFacts DEF Answer
  <2>6. RequestsSound'
    BY <1>2, <1>3, <2>3, <2>5, RequestSettled
  <2> QED BY <1>0, <2>2, <2>4, <2>5, <2>6, PanelFacts DEF PanelInv
<1>4. CASE /\ Current(r)
           /\ requests' = (requests \ {r}) \cup {[r EXCEPT !.kind = "book"]}
           /\ panel' = [panel EXCEPT !.phase = "submitting", !.submitted = r.grant]
  <2>1. PICK b : b = [r EXCEPT !.kind = "book"]
    OBVIOUS
  <2>2. b \in PanelRequest /\ b.kind = "book" /\ b.epoch = r.epoch /\ b.grant = r.grant
    BY <2>1, PanelFacts DEF PanelRequest
  <2>3. panel' \in PanelState
    BY <1>4, PanelFacts DEF PanelState, Phase
  <2>4. /\ panel'.phase = "submitting" /\ panel'.epoch = panel.epoch
        /\ panel'.busy = panel.busy
        /\ panel'.grant = panel.grant /\ panel'.submitted = r.grant
        /\ panel'.name = panel.name /\ panel'.receipt = panel.receipt
    BY <1>4, PanelFacts DEF PanelState
  <2>5. PhaseSound(panel')
    BY <1>2, <1>4, <2>4, PanelFacts DEF PhaseSound, NoGrant
  <2>6. requests' = (requests \ {r}) \cup {b} /\ requests' \subseteq PanelRequest
    BY <1>4, <2>1, <2>2, PanelFacts
  <2>7. RequestsSound'
    BY <1>0, <1>2, <1>4, <2>2, <2>4, <2>6, Located
  <2> QED BY <1>0, <2>3, <2>5, <2>6, <2>7, PanelFacts DEF PanelInv
<1> QED BY <1>1, <1>3, <1>4 DEF LocateAnswered

LEMMA BookAnsweredSound ==
    ASSUME PanelInv, NEW r \in requests, BookAnswered(r)
    PROVE  PanelInv'
<1>0. requests' = requests \ {r} /\ person' = person /\ requests' \subseteq PanelRequest
  BY PanelFacts DEF BookAnswered, Answer
<1>1. CASE ~Current(r)
  <2>1. panel' = panel /\ r.epoch # panel.epoch
    BY <1>1 DEF BookAnswered, Current
  <2>2. RequestsSound'
    BY <1>0, <2>1, LateAnswer
  <2> QED BY <1>0, <2>1, <2>2, PanelFacts DEF PanelInv
<1>2. ASSUME Current(r) PROVE r.epoch = panel.epoch /\ panel.phase = "submitting"
  BY <1>2 DEF BookAnswered, Current, PanelInv, RequestsSound
<1>3. ASSUME Current(r), panel' \in PanelState, PhaseSound(panel'),
             panel'.epoch = panel.epoch, panel'.busy = FALSE
      PROVE  PanelInv'
  <2>1. RequestsSound'
    BY <1>0, <1>2, <1>3, RequestSettled
  <2> QED BY <1>0, <1>3, <2>1, PanelFacts DEF PanelInv
<1>4. CASE Current(r) /\ panel' = Receipt(r)
  <2>1. panel' = [panel EXCEPT !.busy = FALSE, !.phase = "success", !.grant = NoGrant,
                               !.submitted = NoGrant, !.name = NoOne, !.receipt = r.grant]
    BY <1>4 DEF Receipt, Settled
  <2>2. panel' \in PanelState
    BY <2>1, PanelFacts DEF PanelState, Phase, NoGrant
  <2>3. /\ panel'.phase = "success" /\ panel'.epoch = panel.epoch /\ panel'.busy = FALSE
        /\ panel'.grant = NoGrant /\ panel'.submitted = NoGrant /\ panel'.name = NoOne
    BY <2>1, PanelFacts DEF PanelState
  <2>4. PhaseSound(panel')
    BY <2>3, PanelFacts DEF PhaseSound, NoGrant
  <2> QED BY <1>3, <1>4, <2>2, <2>3, <2>4
<1>5. CASE Current(r) /\ panel' = NeedsLocation
  <2>1. panel' = [panel EXCEPT !.busy = FALSE, !.phase = "confirming", !.submitted = NoGrant,
                               !.error = "location"]
    BY <1>5 DEF NeedsLocation, Settled
  <2>2. panel' \in PanelState
    BY <2>1, PanelFacts DEF PanelState, Phase, NoGrant, Messages
  <2>3. /\ panel'.phase = "confirming" /\ panel'.epoch = panel.epoch /\ panel'.busy = FALSE
        /\ panel'.grant = panel.grant /\ panel'.submitted = NoGrant
        /\ panel'.receipt = panel.receipt
    BY <2>1, PanelFacts DEF PanelState
  <2>4. PhaseSound(panel')
    BY <1>2, <1>5, <2>3, PanelFacts DEF PhaseSound, NoGrant
  <2> QED BY <1>3, <1>5, <2>2, <2>3, <2>4
<1>6. CASE Current(r) /\ panel' = Uncertain
  <2>1. panel' = [panel EXCEPT !.busy = FALSE, !.phase = "uncertain", !.grant = NoGrant,
                               !.name = NoOne]
    BY <1>6 DEF Uncertain, Settled
  <2>2. panel' \in PanelState
    BY <2>1, PanelFacts DEF PanelState, Phase, NoGrant
  <2>3. /\ panel'.phase = "uncertain" /\ panel'.epoch = panel.epoch /\ panel'.busy = FALSE
        /\ panel'.grant = NoGrant /\ panel'.submitted = panel.submitted
        /\ panel'.name = NoOne /\ panel'.receipt = panel.receipt
    BY <2>1, PanelFacts DEF PanelState
  <2>4. PhaseSound(panel')
    BY <1>2, <1>6, <2>3, PanelFacts DEF PhaseSound, NoGrant
  <2> QED BY <1>3, <1>6, <2>2, <2>3, <2>4
<1>7. ASSUME Current(r), NEW message \in Messages, panel' = Cleared(message) PROVE PanelInv'
  <2>1. panel' \in PanelState /\ PhaseSound(panel')
    BY <1>7, PanelFacts DEF Cleared, Fresh, PanelState, Phase, NoGrant, PhaseSound
  <2>2. panel'.epoch = panel.epoch + 1 /\ panel'.busy = FALSE
    BY <1>7 DEF Cleared, Fresh
  <2>3. RequestsSound'
    BY <1>0, <2>2, AnsweredAndLeft
  <2> QED BY <1>0, <2>1, <2>3, PanelFacts DEF PanelInv
<1> QED BY <1>1, <1>4, <1>5, <1>6, <1>7 DEF BookAnswered, Messages

LEMMA PanelStep == PanelInv /\ [PanelNext]_pinPanel => PanelInv'
<1> SUFFICES ASSUME PanelInv, [PanelNext]_pinPanel PROVE PanelInv'
  OBVIOUS
<1>1. ASSUME UNCHANGED <<panel, requests>>, person' \in People PROVE PanelInv'
  BY <1>1, PanelFacts DEF PanelInv, RequestsSound
<1>2. CASE SomebodyElse
  BY <1>1, <1>2 DEF SomebodyElse
<1>3. CASE Forget
  BY <1>3, ClearSound DEF Forget, Forgetting, Messages
<1>4. CASE TimedOut
  BY <1>4, ClearSound DEF TimedOut, Messages
<1>5. CASE ConnectionLost
  BY <1>5, OfflineSound DEF ConnectionLost
<1>6. CASE Reconfigured
  BY <1>6, ClearSound DEF Reconfigured, Messages
<1>7. ASSUME NEW r \in requests, ServerBooks(r) PROVE PanelInv'
  BY <1>1, <1>7, PanelFacts DEF ServerBooks
<1>8. CASE UNCHANGED pinPanel
  BY <1>1, <1>8, PanelFacts DEF pinPanel
<1> QED BY <1>2, <1>3, <1>4, <1>5, <1>6, <1>7, <1>8, StartSound, IdentifySound, BookSound,
           RetrySound, IdentifyAnsweredSound, LocateAnsweredSound, BookAnsweredSound DEF PanelNext

-----------------------------------------------------------------------------
(* Theorems: the PIN form *)

\* The invariant behind the next two: every request has an epoch of its own, and
\* the one of the panel's epoch is what its phase waits for (KioskPinPanel.tsx:118-201).
THEOREM PanelInvariant == PanelSpec => []PanelInv
<1>1. PanelInit => PanelInv
  <2> SUFFICES ASSUME PanelInit PROVE PanelInv
    OBVIOUS
  <2>1. panel = Fresh(0, "none") /\ requests = {} /\ person \in People
    BY DEF PanelInit
  <2>2. panel \in PanelState /\ PhaseSound(panel) /\ ~panel.busy
    BY <2>1 DEF Fresh, PanelState, Phase, Messages, NoGrant, PhaseSound
  <2> QED BY <2>1, <2>2 DEF PanelInv, RequestsSound
<1> QED BY <1>1, PanelStep, PTL DEF PanelSpec

\* Nothing of somebody who left is shown, and the panel is busy exactly while a
\* request of its epoch is open (KioskPinPanel.tsx:242).
THEOREM NobodyElseIsShown == PanelSpec => []NoStrangerShown
<1>1. ASSUME PanelInv PROVE NoStrangerShown
  <2>1. PhaseSound(panel) /\ RequestsSound
    BY <1>1 DEF PanelInv
  <2>2. panel.busy \in BOOLEAN
    BY <1>1, PanelFacts DEF PanelState
  <2>3. panel.busy <=> \E r \in requests : r.epoch = panel.epoch
    BY <2>1 DEF RequestsSound
  <2> QED BY <2>1, <2>3 DEF PhaseSound, NoStrangerShown
<1> QED BY <1>1, PanelInvariant, PTL

\* A booking whose fate is open is never reported as failed after it was booked,
\* and no second permission is submitted before its fate is known
\* (KioskPinPanel.tsx:186).
THEOREM FailureIsSaidOfNoBooking == PanelSpec => FailureIsCertain
<1> DEFINE Certain ==
      /\ panel'.error \in {"failed", "offline"} /\ panel.submitted # NoGrant
           => panel.submitted \notin booked \/ panel'.error = panel.error
      /\ panel.submitted # NoGrant /\ panel'.submitted \notin {NoGrant, panel.submitted}
           => FALSE
<1>1. ASSUME PanelInv, PanelNext, panel.submitted # NoGrant PROVE Certain
  <2> HIDE DEF Certain
  <2>0. panel.phase \in {"submitting", "uncertain"}
    BY <1>1, PanelFacts DEF PhaseSound
  <2>1. ASSUME panel' = panel PROVE Certain
    BY <2>1 DEF Certain
  <2>2. ASSUME NEW message, message \notin {"failed", "offline"}, panel' = Cleared(message)
        PROVE  Certain
    BY <2>2 DEF Cleared, Fresh, Certain
  <2>3. ASSUME panel'.error \notin {"failed", "offline"} \/ panel'.error = panel.error,
               panel'.submitted \in {NoGrant, panel.submitted} PROVE Certain
    BY <2>3 DEF Certain
  <2>4. CASE Retry
    <3>1. panel'.error = "none" /\ panel'.submitted = panel.submitted
      BY <1>1, <2>4, PanelFacts DEF Retry, Resent, PanelState
    <3> QED BY <2>3, <3>1
  <2>5. CASE ConnectionLost
    <3>1. panel' = [Uncertain EXCEPT !.epoch = @ + 1]
      BY <1>1, <2>5 DEF ConnectionLost, Offline
    <3>2. panel'.error = panel.error /\ panel'.submitted = panel.submitted
      BY <1>1, <3>1, PanelFacts DEF Uncertain, Settled, PanelState
    <3> QED BY <2>3, <3>2
  <2>6. ASSUME NEW r \in requests, BookAnswered(r) PROVE Certain
    <3>1. CASE ~Current(r)
      BY <2>1, <2>6, <3>1 DEF BookAnswered
    <3>2. CASE Current(r) /\ panel' = Receipt(r)
      <4>1. panel'.error = panel.error /\ panel'.submitted = NoGrant
        BY <1>1, <3>2, PanelFacts DEF Receipt, Settled, PanelState
      <4> QED BY <2>3, <4>1
    <3>3. CASE Current(r) /\ panel' = NeedsLocation
      <4>1. panel'.error = "location" /\ panel'.submitted = NoGrant
        BY <1>1, <3>3, PanelFacts DEF NeedsLocation, Settled, PanelState
      <4> QED BY <2>3, <4>1
    <3>4. CASE Current(r) /\ panel' = Uncertain
      <4>1. panel'.error = panel.error /\ panel'.submitted = panel.submitted
        BY <1>1, <3>4, PanelFacts DEF Uncertain, Settled, PanelState
      <4> QED BY <2>3, <4>1
    <3>5. CASE Current(r) /\ panel' = Cleared("refused")
      BY <2>2, <3>5
    <3>6. CASE Current(r) /\ r.grant \notin booked /\ panel' = Cleared("failed")
      <4>1. r.grant = panel.submitted
        BY <1>1, <2>6, <3>6 DEF BookAnswered, Current, PanelInv, RequestsSound
      <4>2. panel'.submitted = NoGrant
        BY <3>6 DEF Cleared, Fresh
      <4> QED BY <3>6, <4>1, <4>2 DEF Certain
    <3> QED BY <2>6, <3>1, <3>2, <3>3, <3>4, <3>5, <3>6 DEF BookAnswered
  <2>7. ASSUME NEW r \in requests, LocateAnswered(r) PROVE Certain
    <3>1. ~Current(r)
      BY <1>1, <2>0, <2>7 DEF LocateAnswered, Current, PanelInv, RequestsSound
    <3> QED BY <2>1, <2>7, <3>1 DEF LocateAnswered
  <2>8. ASSUME NEW r \in requests, IdentifyAnswered(r) PROVE Certain
    <3>1. ~Current(r)
      BY <1>1, <2>0, <2>8 DEF IdentifyAnswered, Current, PanelInv, RequestsSound
    <3> QED BY <2>1, <2>8, <3>1 DEF IdentifyAnswered
  <2>9. ASSUME Forget \/ TimedOut \/ Reconfigured PROVE Certain
    BY <2>2, <2>9 DEF Forget, Forgetting, TimedOut, Reconfigured, Clear
  <2>10. ASSUME NEW r \in requests, ServerBooks(r) PROVE Certain
    BY <2>1, <2>10 DEF ServerBooks
  <2>11. CASE SomebodyElse
    BY <2>1, <2>11 DEF SomebodyElse
  <2>12. ~Start /\ ~Identify /\ ~Book
    BY <2>0 DEF Start, Identify, Book
  <2> QED BY <1>1, <2>4, <2>5, <2>6, <2>7, <2>8, <2>9, <2>10, <2>11, <2>12 DEF PanelNext
<1>2. ASSUME PanelInv, PanelNext PROVE Certain
  BY <1>1, <1>2
<1>3. PanelInv /\ [PanelNext]_pinPanel => [Certain]_pinPanel
  BY <1>2
<1> QED BY <1>3, PanelInvariant, PTL DEF PanelSpec, FailureIsCertain
-----------------------------------------------------------------------------
(* The dialog for somebody's PIN: its calls are named by the epochs they belong to *)

Account == [pin: Nat, on: BOOLEAN, locked: BOOLEAN, by: Nat]
Generated == [holder: Holders, epoch: Nat]
Statuses == {Unknown} \cup [known: {TRUE}, on: BOOLEAN, locked: BOOLEAN]
Dialogs == [holder: Holders \cup {NoHolder}, epoch: Nat, busy: BOOLEAN, status: Statuses,
            pin: Nat, error: BOOLEAN, updated: BOOLEAN]
Kinds == {"load", "reset", "disable", "unlock"}
Answers == {Waiting, Refused} \cup [status: Statuses, pin: Nat]
Requests == [kind: Kinds, holder: Holders, epoch: Nat \ {0}, answer: Answers]

\* What a change has answered is what it did, until something is done after.
Truthful(c) ==
    c.answer \notin {Waiting, Refused} /\ c.kind # "load" =>
        LET a == account[c.holder]
        IN  /\ c.answer.pin # NoPin =>
                  /\ c.answer.pin \in 1 .. Len(pins)
                  /\ pins[c.answer.pin] = [holder |-> c.holder, epoch |-> c.epoch]
                  /\ a.by = c.epoch => a.pin = c.answer.pin /\ a.on
            /\ a.by = c.epoch => c.answer.status = StatusOf(a)

CallSound(c) ==
    /\ c \in Requests /\ c.epoch <= dialog.epoch
    /\ c.epoch = dialog.epoch => c.holder = dialog.holder
    /\ Truthful(c)

DialogSound ==
    /\ dialog \in Dialogs /\ dialog.pin <= Len(pins)
    /\ dialog.holder # NoHolder => dialog.epoch # 0
    /\ dialog.pin # NoPin => dialog.updated

\* No two calls under way are of one epoch; a dialog that says that it has changed
\* something waits for nothing.
DialogInv ==
    /\ account \in [Holders -> Account] /\ pins \in Seq(Generated)
    /\ DialogSound
    /\ \A c \in calls : CallSound(c)
    /\ \A c, d \in calls : c.epoch = d.epoch => c = d
    /\ dialog.updated => \A c \in calls : c.epoch # dialog.epoch
    /\ OneTimePinsKept

LEMMA Typed ==
    ASSUME DialogInv
    PROVE  /\ account \in [Holders -> Account] /\ pins \in Seq(Generated) /\ Len(pins) \in Nat
           /\ dialog \in Dialogs /\ dialog.epoch \in Nat /\ dialog.pin \in 0 .. Len(pins)
           /\ dialog.updated \in BOOLEAN
           /\ \A c \in calls : /\ c \in Requests /\ c.epoch \in Nat \ {0} /\ c.holder \in Holders
                               /\ c.epoch <= dialog.epoch
BY DEF DialogInv, DialogSound, CallSound, Dialogs, Requests

LEMMA StatusTyped == ASSUME NEW a \in Account PROVE StatusOf(a) \in Statuses
BY DEF StatusOf, Account, Statuses

\* What a call knows stays true where nothing is done.
LEMMA Undisturbed ==
    ASSUME NEW c, CallSound(c), UNCHANGED <<account, pins>>,
           dialog'.epoch >= dialog.epoch, dialog.epoch \in Nat, dialog'.epoch \in Nat,
           dialog'.epoch = dialog.epoch => dialog'.holder = dialog.holder
    PROVE  CallSound(c)'
<1>1. Truthful(c)'
  BY DEF CallSound, Truthful
<1>2. c \in Requests /\ c.epoch \in Nat /\ c.epoch <= dialog.epoch
  BY DEF CallSound, Requests
<1> QED BY <1>1, <1>2 DEF CallSound

\* A dialog begins or ends, or asks for a change.
LEMMA EpochBegins ==
    ASSUME DialogInv, UNCHANGED <<account, pins>>,
           NEW new \in Dialogs, dialog' = new, new.epoch = dialog.epoch + 1,
           new.pin = NoPin, new.updated = FALSE,
           \/ calls' = calls
           \/ /\ new.holder # NoHolder
              /\ \E kind \in Kinds : calls' = calls \cup {Request(kind, new.holder, new.epoch)}
    PROVE  DialogInv'
<1>1. /\ dialog.epoch \in Nat /\ new.epoch \in Nat \ {0} /\ Len(pins) \in Nat
      /\ new.holder \in Holders \cup {NoHolder}
  BY Typed DEF Dialogs
<1>2. \A c \in calls : CallSound(c)' /\ c.epoch # new.epoch
  BY <1>1, Typed, Undisturbed DEF DialogInv
<1>3. account' \in [Holders -> Account] /\ pins' \in Seq(Generated) /\ Len(pins') = Len(pins)
  BY Typed
<1>4. DialogSound'
  BY <1>1, <1>3 DEF DialogSound, NoPin
<1>5. OneTimePinsKept'
  BY <1>1 DEF OneTimePinsKept
<1>6. CASE calls' = calls
  BY <1>1, <1>2, <1>3, <1>4, <1>5, <1>6 DEF DialogInv
<1>7. CASE /\ new.holder # NoHolder
           /\ \E kind \in Kinds : calls' = calls \cup {Request(kind, new.holder, new.epoch)}
  <2>1. PICK kind \in Kinds : calls' = calls \cup {Request(kind, new.holder, new.epoch)}
    BY <1>7
  <2>2. PICK r : r = Request(kind, new.holder, new.epoch)
    OBVIOUS
  <2>3. PICK w : w = Waiting
    OBVIOUS
  <2>4. r \in Requests /\ r.holder = new.holder /\ r.epoch = new.epoch /\ r.answer = Waiting
    <3>1. w \in Answers
      BY <2>3 DEF Answers
    <3>2. r = [kind |-> kind, holder |-> new.holder, epoch |-> new.epoch, answer |-> w]
      BY <2>2, <2>3 DEF Request
    <3> QED BY <1>1, <1>7, <2>3, <3>1, <3>2 DEF Requests
  <2>5. CallSound(r)'
    BY <1>1, <1>7, <2>4 DEF CallSound, Truthful
  <2>6. \A c \in calls' : CallSound(c)'
    BY <1>2, <2>1, <2>2, <2>5
  <2>7. \A c, d \in calls' : c.epoch = d.epoch => c = d
    BY <1>2, <2>1, <2>2, <2>4 DEF DialogInv
  <2> QED BY <1>1, <1>3, <1>4, <1>5, <2>6, <2>7 DEF DialogInv
<1> QED BY <1>6, <1>7

LEMMA NewDialog ==
    ASSUME NEW h \in Holders \cup {NoHolder}, NEW n \in Nat
    PROVE  /\ Opened(h, n) \in Dialogs /\ Opened(h, n).holder = h /\ Opened(h, n).epoch = n
           /\ Opened(h, n).pin = NoPin /\ Opened(h, n).updated = FALSE
<1>1. PICK u : u = Unknown
  OBVIOUS
<1>2. u \in Statuses
  BY <1>1 DEF Statuses
<1> QED BY <1>1, <1>2 DEF Opened, Dialogs, NoPin

LEMMA OpenSound == ASSUME DialogInv, NEW h \in Holders, OpenDialog(h) PROVE DialogInv'
<1>1. PICK new : new = Opened(h, dialog.epoch + 1)
  OBVIOUS
<1>2. dialog.epoch + 1 \in Nat /\ h # NoHolder
  BY Typed, DialogAssumption
<1>3. /\ new \in Dialogs /\ new.epoch = dialog.epoch + 1 /\ new.holder = h
      /\ new.pin = NoPin /\ new.updated = FALSE
  BY <1>1, <1>2, NewDialog
<1>4. /\ dialog' = new /\ calls' = calls \cup {Request("load", new.holder, new.epoch)}
      /\ UNCHANGED <<account, pins>>
  BY <1>1, <1>3 DEF OpenDialog
<1> QED BY <1>2, <1>3, <1>4, EpochBegins DEF Kinds

LEMMA CloseDialogSound == ASSUME DialogInv, CloseDialog PROVE DialogInv'
<1>1. PICK new : new = Opened(NoHolder, dialog.epoch + 1)
  OBVIOUS
<1>2. dialog.epoch + 1 \in Nat
  BY Typed
<1>3. /\ new \in Dialogs /\ new.epoch = dialog.epoch + 1
      /\ new.pin = NoPin /\ new.updated = FALSE
  BY <1>1, <1>2, NewDialog
<1>4. dialog' = new /\ calls' = calls /\ UNCHANGED <<account, pins>>
  BY <1>1 DEF CloseDialog
<1> QED BY <1>3, <1>4, EpochBegins

LEMMA ChangeSound ==
    ASSUME DialogInv, NEW operation \in {"reset", "disable", "unlock"}, Change(operation)
    PROVE  DialogInv'
<1>1. PICK n \in Nat : n = dialog.epoch + 1
  BY Typed
<1>2. PICK new : new = [dialog EXCEPT !.busy = TRUE, !.error = FALSE, !.updated = FALSE,
                                      !.pin = NoPin, !.epoch = n]
  OBVIOUS
<1>3. /\ new \in Dialogs /\ new.epoch = n /\ new.holder = dialog.holder
      /\ new.pin = NoPin /\ new.updated = FALSE
  BY <1>2, Typed DEF Dialogs, NoPin
<1>4. /\ dialog' = new /\ new.holder # NoHolder /\ UNCHANGED <<account, pins>>
      /\ calls' = calls \cup {Request(operation, new.holder, new.epoch)}
  BY <1>1, <1>2, <1>3 DEF Change
<1>5. operation \in Kinds
  BY DEF Kinds
<1> QED BY <1>1, <1>3, <1>4, <1>5, EpochBegins

\* Something is done to an account in an epoch x; PINs are only added.
LEMMA DoneAfter ==
    ASSUME DialogInv, NEW h \in Holders, NEW a \in Account,
           account' = [account EXCEPT ![h] = a], dialog' = dialog,
           pins' = pins \/ (\E p \in Generated : pins' = Append(pins, p))
    PROVE  /\ account' \in [Holders -> Account] /\ pins' \in Seq(Generated) /\ DialogSound'
           /\ \A d \in calls : d.kind = "load" \/ d.epoch # a.by => CallSound(d)'
           /\ ~dialog.updated \/ dialog.epoch # a.by => OneTimePinsKept'
<1>1. account' \in [Holders -> Account]
  BY Typed
<1>2. /\ pins' \in Seq(Generated) /\ Len(pins) \in Nat /\ Len(pins') \in Nat
      /\ Len(pins) <= Len(pins') /\ \A n \in 1 .. Len(pins) : pins'[n] = pins[n]
  <2>1. pins \in Seq(Generated) /\ Len(pins) \in Nat
    BY Typed
  <2>2. CASE pins' = pins
    BY <2>1, <2>2
  <2>3. ASSUME NEW p \in Generated, pins' = Append(pins, p)
        PROVE  /\ pins' \in Seq(Generated) /\ Len(pins') = Len(pins) + 1
               /\ \A n \in 1 .. Len(pins) : pins'[n] = pins[n]
    BY <2>1, <2>3
  <2> QED BY <2>1, <2>2, <2>3
<1>3. DialogSound'
  <2>1. dialog.pin <= Len(pins')
    BY <1>2, Typed
  <2> QED BY <2>1 DEF DialogInv, DialogSound
<1>4. \A k \in Holders : account'[k] = account[k] \/ account'[k] = a
  BY Typed
<1>5. ASSUME NEW d \in calls, d.kind = "load" \/ d.epoch # a.by PROVE CallSound(d)'
  <2>1. CallSound(d) /\ (account'[d.holder] = account[d.holder] \/ account'[d.holder] = a)
    BY <1>4, Typed DEF DialogInv
  <2>2. Truthful(d)'
    BY <1>2, <1>5, <2>1 DEF Truthful, CallSound
  <2> QED BY <2>1, <2>2 DEF CallSound
<1>6. ASSUME ~dialog.updated \/ dialog.epoch # a.by PROVE OneTimePinsKept'
  <2>1. CASE dialog.holder = NoHolder \/ ~dialog.updated
    BY <2>1 DEF OneTimePinsKept, DialogInv, DialogSound
  <2>2. CASE dialog.holder # NoHolder /\ dialog.updated
    <3>1. /\ account'[dialog.holder] = account[dialog.holder] \/ account'[dialog.holder] = a
          /\ dialog.pin # NoPin => dialog.pin \in 1 .. Len(pins)
      BY <1>4, <2>2, Typed DEF Dialogs, NoPin
    <3>2. dialog.epoch # a.by
      BY <1>6, <2>2
    <3> QED BY <1>2, <3>1, <3>2 DEF DialogInv, OneTimePinsKept
  <2> QED BY <2>1, <2>2
<1> QED BY <1>1, <1>2, <1>3, <1>5, <1>6

LEMMA ElsewhereSound ==
    ASSUME DialogInv, NEW h \in Holders, NEW a \in Account, a.by = Elsewhere,
           account' = [account EXCEPT ![h] = a], UNCHANGED <<dialog, calls>>,
           pins' = pins \/ (\E p \in Generated : pins' = Append(pins, p))
    PROVE  DialogInv'
<1>1. \A c \in calls : c.epoch # a.by
  BY Typed DEF Elsewhere
<1>2. ~dialog.updated \/ dialog.epoch # a.by \/ dialog.holder = NoHolder
  BY DEF DialogInv, DialogSound, Elsewhere
<1>3. CASE dialog.holder = NoHolder
  <2>1. OneTimePinsKept'
    BY <1>3 DEF OneTimePinsKept
  <2> QED BY <1>1, <2>1, DoneAfter DEF DialogInv
<1>4. CASE dialog.holder # NoHolder
  BY <1>1, <1>2, <1>4, DoneAfter DEF DialogInv
<1> QED BY <1>3, <1>4

LEMMA LockOutSound == ASSUME DialogInv, NEW h \in Holders, LockOutHolder(h) PROVE DialogInv'
<1> DEFINE a == [account[h] EXCEPT !.locked = TRUE, !.by = Elsewhere]
<1>1. account[h] \in Account /\ account \in [Holders -> Account]
  BY Typed
<1>2. a \in Account /\ a.by = Elsewhere /\ account' = [account EXCEPT ![h] = a]
  BY <1>1 DEF LockOutHolder, Account, Elsewhere
<1>3. UNCHANGED <<pins, dialog, calls>>
  BY DEF LockOutHolder
<1> HIDE DEF a
<1> QED BY <1>2, <1>3, ElsewhereSound

LEMMA ResetElsewhereSound ==
    ASSUME DialogInv, NEW h \in Holders, ResetElsewhere(h) PROVE DialogInv'
<1> DEFINE a == NewPin(Elsewhere)
<1>1. Len(pins) \in Nat
  BY Typed
<1>2. /\ a \in Account /\ a.by = Elsewhere
      /\ [holder |-> h, epoch |-> Elsewhere] \in Generated
  BY <1>1 DEF NewPin, Account, Elsewhere, Generated
<1> HIDE DEF a
<1>3. \E p \in Generated : pins' = Append(pins, p)
  BY <1>2 DEF ResetElsewhere
<1>4. account' = [account EXCEPT ![h] = a] /\ UNCHANGED <<dialog, calls>>
  BY DEF ResetElsewhere, a
<1> QED BY <1>2, <1>3, <1>4, ElsewhereSound

\* A call is replaced by itself with an answer, or is no more.
LEMMA CallReplaced ==
    ASSUME DialogInv, NEW c \in calls, NEW r, r.epoch = c.epoch, dialog' = dialog,
           calls' = (calls \ {c}) \cup {r},
           account' \in [Holders -> Account], pins' \in Seq(Generated), DialogSound',
           OneTimePinsKept', CallSound(r)',
           \A d \in calls : d.epoch # c.epoch => CallSound(d)'
    PROVE  DialogInv'
<1>1. \A d \in calls \ {c} : d.epoch # c.epoch
  BY DEF DialogInv
<1>2. \A d \in calls' : CallSound(d)'
  BY <1>1
<1>3. \A d, f \in calls' : d.epoch = f.epoch => d = f
  BY <1>1 DEF DialogInv
<1>4. dialog'.updated => \A d \in calls' : d.epoch # dialog'.epoch
  BY DEF DialogInv
<1> QED BY <1>2, <1>3, <1>4 DEF DialogInv

\* A transaction of the server and its answer
LEMMA AnswerSound ==
    ASSUME DialogInv, NEW c \in calls, NEW a \in Account, a.by = c.epoch, NEW n \in Nat,
           Carried(c, a, n),
           \/ pins' = pins /\ n = NoPin
           \/ /\ pins' = Append(pins, [holder |-> c.holder, epoch |-> c.epoch])
              /\ n = Len(pins) + 1 /\ a.pin = n /\ a.on
    PROVE  DialogInv'
<1>1. /\ c \in Requests /\ CallSound(c) /\ c.epoch \in Nat /\ c.holder \in Holders
      /\ account \in [Holders -> Account] /\ Len(pins) \in Nat /\ pins \in Seq(Generated)
  BY Typed DEF DialogInv
<1>2. /\ account' = [account EXCEPT ![c.holder] = a] /\ dialog' = dialog
      /\ account'[c.holder] = a
  BY <1>1 DEF Carried
<1>3. [holder |-> c.holder, epoch |-> c.epoch] \in Generated
  BY <1>1 DEF Generated
<1>4. pins' = pins \/ (\E p \in Generated : pins' = Append(pins, p))
  BY <1>3
<1>5. PICK s \in Statuses : s = StatusOf(a)
  BY StatusTyped
<1>6. PICK w \in [status: Statuses, pin: Nat] : w = [status |-> s, pin |-> n]
  OBVIOUS
<1>7. PICK r : r = [c EXCEPT !.answer = w]
  OBVIOUS
<1>8. /\ r \in Requests /\ r.kind = c.kind /\ r.holder = c.holder /\ r.epoch = c.epoch
      /\ r.answer = w
  <2>1. w \in Answers
    BY DEF Answers
  <2> QED BY <1>1, <1>7, <2>1 DEF Requests
<1>9. calls' = (calls \ {c}) \cup {r}
  BY <1>5, <1>6, <1>7 DEF Carried
<1>10. n # NoPin => n \in 1 .. Len(pins') /\ pins'[n] = [holder |-> c.holder, epoch |-> c.epoch]
  BY <1>1
<1>11. Truthful(r)'
  BY <1>2, <1>5, <1>6, <1>8, <1>10 DEF Truthful
<1>12. CallSound(r)'
  BY <1>1, <1>2, <1>8, <1>11 DEF CallSound
<1>13. ~dialog.updated \/ dialog.epoch # a.by
  BY DEF DialogInv
<1>14. /\ account' \in [Holders -> Account] /\ pins' \in Seq(Generated) /\ DialogSound'
       /\ OneTimePinsKept' /\ \A d \in calls : d.epoch # c.epoch => CallSound(d)'
  BY <1>1, <1>2, <1>4, <1>13, DoneAfter
<1> QED BY <1>2, <1>8, <1>9, <1>12, <1>14, CallReplaced

\* A call that changed nothing
LEMMA NothingDone ==
    ASSUME DialogInv, NEW c \in calls, NEW w \in Answers,
           c.kind = "load" \/ w \in {Waiting, Refused},
           UNCHANGED <<account, pins, dialog>>,
           calls' = (calls \ {c}) \cup {[c EXCEPT !.answer = w]}
    PROVE  DialogInv'
<1>1. /\ c \in Requests /\ CallSound(c) /\ dialog.epoch \in Nat
  BY Typed DEF DialogInv
<1>2. PICK r : r = [c EXCEPT !.answer = w]
  OBVIOUS
<1>3. /\ r \in Requests /\ r.kind = c.kind /\ r.holder = c.holder /\ r.epoch = c.epoch
      /\ r.answer = w
  BY <1>1, <1>2 DEF Requests
<1>4. CallSound(r)'
  BY <1>1, <1>3 DEF CallSound, Truthful
<1>5. \A d \in calls : CallSound(d)'
  BY <1>1, Undisturbed DEF DialogInv
<1>6. /\ account' \in [Holders -> Account] /\ pins' \in Seq(Generated)
      /\ DialogSound' /\ OneTimePinsKept'
  BY DEF DialogInv, DialogSound, OneTimePinsKept
<1>7. calls' = (calls \ {c}) \cup {r}
  BY <1>2
<1> QED BY <1>3, <1>4, <1>5, <1>6, <1>7, CallReplaced

LEMMA CarriedSound ==
    ASSUME DialogInv, NEW c \in calls, CarriedOut(c) PROVE DialogInv'
<1>1. /\ c \in Requests /\ c.epoch \in Nat /\ c.holder \in Holders
      /\ account \in [Holders -> Account] /\ account[c.holder] \in Account
      /\ Len(pins) \in Nat
  BY Typed
<1>2. CASE GetStatus(c)
  <2>1. PICK s \in Statuses : s = StatusOf(account[c.holder])
    BY <1>1, StatusTyped
  <2>2. PICK w : w = [status |-> s, pin |-> NoPin]
    OBVIOUS
  <2>3. w \in Answers
    BY <2>2 DEF Answers, NoPin
  <2>4. account' = account
    BY <1>1, <1>2 DEF GetStatus, Carried
  <2>5. /\ calls' = (calls \ {c}) \cup {[c EXCEPT !.answer = w]} /\ c.kind = "load"
        /\ UNCHANGED <<pins, dialog>>
    BY <1>2, <2>1, <2>2 DEF GetStatus, Carried
  <2> QED BY <2>3, <2>4, <2>5, NothingDone
<1>3. CASE ResetPinOf(c)
  <2>1. PICK n \in Nat : n = Len(pins) + 1
    BY <1>1
  <2>2. PICK a \in Account : a = NewPin(c.epoch)
    BY <1>1, <2>1 DEF NewPin, Account
  <2>3. a.by = c.epoch /\ a.pin = n /\ a.on
    BY <2>1, <2>2 DEF NewPin
  <2>4. /\ pins' = Append(pins, [holder |-> c.holder, epoch |-> c.epoch])
        /\ Carried(c, a, n)
    BY <1>3, <2>1, <2>2 DEF ResetPinOf
  <2> QED BY <2>1, <2>3, <2>4, AnswerSound
<1>4. CASE ChangePin(c) /\ Changeable(c.kind, account[c.holder])
  <2>1. PICK b \in BOOLEAN : b = (c.kind = "unlock")
    OBVIOUS
  <2>2. PICK a \in Account : a = [account[c.holder] EXCEPT !.on = b, !.locked = FALSE,
                                                           !.by = c.epoch]
    BY <1>1 DEF Account
  <2>3. a.by = c.epoch
    BY <1>1, <2>2 DEF Account
  <2>4. pins' = pins /\ Carried(c, a, NoPin) /\ NoPin \in Nat
    BY <1>4, <2>1, <2>2 DEF ChangePin, NoPin
  <2> QED BY <2>3, <2>4, AnswerSound
<1>5. CASE ChangePin(c) /\ ~Changeable(c.kind, account[c.holder])
  <2>1. PICK w : w = Refused
    OBVIOUS
  <2>2. w \in Answers /\ w \in {Waiting, Refused}
    BY <2>1 DEF Answers
  <2>3. /\ UNCHANGED <<account, pins, dialog>>
        /\ calls' = (calls \ {c}) \cup {[c EXCEPT !.answer = w]}
    BY <1>5, <2>1 DEF ChangePin
  <2> QED BY <2>2, <2>3, NothingDone
<1> QED BY <1>2, <1>3, <1>4, <1>5 DEF CarriedOut

\* A call whose dialog is closed, or asked for something else since, is no more.
LEMMA CallGone ==
    ASSUME DialogInv, NEW c \in calls, UNCHANGED <<account, pins, dialog>>,
           calls' = calls \ {c}
    PROVE  DialogInv'
<1>1. \A d \in calls : CallSound(d)'
  BY Typed, Undisturbed DEF DialogInv
<1>2. /\ account' \in [Holders -> Account] /\ pins' \in Seq(Generated)
      /\ DialogSound' /\ OneTimePinsKept'
  BY DEF DialogInv, DialogSound, OneTimePinsKept
<1> QED BY <1>1, <1>2 DEF DialogInv

\* The dialog takes the answer of the call it waits for, or asks again for the status.
LEMMA CallTaken ==
    ASSUME DialogInv, NEW c \in calls, Awaited(c), UNCHANGED <<account, pins>>,
           NEW new \in Dialogs, dialog' = new,
           new.holder = dialog.holder, new.epoch = dialog.epoch,
           new.pin <= Len(pins), new.pin # NoPin => new.updated,
           OneTimePinsKept',
           \/ calls' = calls \ {c}
           \/ /\ ~new.updated
              /\ calls' = (calls \ {c}) \cup {Request("load", c.holder, c.epoch)}
    PROVE  DialogInv'
<1>1. /\ c \in Requests /\ CallSound(c) /\ dialog.epoch = c.epoch /\ dialog.epoch \in Nat
      /\ c.epoch \in Nat \ {0} /\ c.holder \in Holders
  BY Typed DEF DialogInv, Awaited
<1>2. PICK r : r = Request("load", c.holder, c.epoch)
  OBVIOUS
<1>3. PICK w \in Answers : w = Waiting
  BY DEF Answers
<1>4. r \in Requests /\ r.holder = c.holder /\ r.epoch = c.epoch /\ r.kind = "load"
  <2>1. r = [kind |-> "load", holder |-> c.holder, epoch |-> c.epoch, answer |-> w]
    BY <1>2, <1>3 DEF Request
  <2> QED BY <1>1, <2>1 DEF Requests, Kinds
<1>5. CallSound(r)'
  BY <1>1, <1>4 DEF CallSound, Truthful
<1>6. \A d \in calls : CallSound(d)'
  BY <1>1, Undisturbed DEF DialogInv
<1>7. \A d \in calls \ {c} : d.epoch # dialog.epoch
  BY <1>1 DEF DialogInv
<1>8. account' \in [Holders -> Account] /\ pins' \in Seq(Generated) /\ DialogSound'
  <2>1. dialog.holder # NoHolder => dialog.epoch # 0
    BY DEF DialogInv, DialogSound
  <2> QED BY <2>1, Typed DEF DialogSound
<1>9. CASE calls' = calls \ {c}
  <2>1. \A d \in calls' : CallSound(d)' /\ d.epoch # dialog'.epoch
    BY <1>6, <1>7, <1>9
  <2>2. \A d, f \in calls' : d.epoch = f.epoch => d = f
    BY <1>9 DEF DialogInv
  <2> QED BY <1>8, <2>1, <2>2 DEF DialogInv
<1>10. CASE /\ ~new.updated
            /\ calls' = (calls \ {c}) \cup {Request("load", c.holder, c.epoch)}
  <2>1. calls' = (calls \ {c}) \cup {r}
    BY <1>2, <1>10
  <2>2. \A d \in calls' : CallSound(d)'
    BY <1>5, <1>6, <2>1
  <2>3. \A d, f \in calls' : d.epoch = f.epoch => d = f
    BY <1>1, <1>4, <1>7, <2>1 DEF DialogInv
  <2> QED BY <1>8, <1>10, <2>2, <2>3 DEF DialogInv
<1> QED BY <1>9, <1>10

LEMMA NothingTold ==
    ASSUME DialogInv, NEW c \in calls, Awaited(c)
    PROVE  ~dialog.updated /\ dialog.pin = NoPin
BY DEF DialogInv, DialogSound, Awaited

LEMMA AnsweredSound == ASSUME DialogInv, NEW c \in calls, CallAnswered(c) PROVE DialogInv'
<1>1. /\ UNCHANGED <<account, pins>> /\ calls' = calls \ {c}
      /\ c.answer \notin {Waiting, Refused} /\ c \in Requests /\ dialog \in Dialogs
      /\ Len(pins) \in Nat
  BY Typed DEF CallAnswered
<1>2. CASE ~Awaited(c)
  BY <1>1, <1>2, CallGone DEF CallAnswered
<1>3. CASE Awaited(c)
  <2>1. dialog' = Shown(c) /\ dialog.epoch = c.epoch /\ ~dialog.updated /\ dialog.pin = NoPin
    BY <1>3, NothingTold DEF CallAnswered, Awaited
  <2>2. PICK w \in [status: Statuses, pin: Nat] : w = c.answer
    BY <1>1 DEF Requests, Answers
  <2>3. PICK s \in Statuses : s = w.status
    OBVIOUS
  <2>4. PICK seen : seen = [dialog EXCEPT !.status = s, !.busy = FALSE]
    OBVIOUS
  <2>5. /\ seen \in Dialogs /\ seen.holder = dialog.holder /\ seen.epoch = dialog.epoch
        /\ seen.pin = dialog.pin /\ seen.updated = dialog.updated /\ seen.status = s
    BY <1>1, <2>4 DEF Dialogs
  <2>6. CASE c.kind = "load"
    <3>1. dialog' = seen
      BY <2>1, <2>2, <2>3, <2>4, <2>6 DEF Shown
    <3>2. OneTimePinsKept'
      BY <2>1, <2>5, <3>1 DEF OneTimePinsKept
    <3>3. seen.pin = NoPin /\ NoPin <= Len(pins)
      BY <1>1, <2>1, <2>5 DEF NoPin
    <3> QED BY <1>1, <1>3, <2>5, <3>1, <3>2, <3>3, CallTaken
  <2>7. CASE c.kind # "load"
    <3>1. PICK n \in Nat : n = w.pin
      OBVIOUS
    <3>2. PICK new : new = [seen EXCEPT !.pin = n, !.updated = TRUE]
      OBVIOUS
    <3>3. /\ new \in Dialogs /\ new.holder = dialog.holder /\ new.epoch = dialog.epoch
          /\ new.pin = n /\ new.updated = TRUE /\ new.status = s
      BY <2>5, <3>2 DEF Dialogs
    <3>4. dialog' = new
      BY <2>1, <2>2, <2>3, <2>4, <2>7, <3>1, <3>2 DEF Shown
    <3>5. CallSound(c)
      BY DEF DialogInv
    <3>6. /\ c.holder = dialog.holder
          /\ n # NoPin =>
                /\ n \in 1 .. Len(pins) /\ pins[n] = [holder |-> c.holder, epoch |-> c.epoch]
                /\ account[c.holder].by = c.epoch =>
                      account[c.holder].pin = n /\ account[c.holder].on
          /\ account[c.holder].by = c.epoch => s = StatusOf(account[c.holder])
      BY <1>1, <2>1, <2>2, <2>3, <2>7, <3>1, <3>5 DEF CallSound, Truthful
    <3>7. OneTimePinsKept'
      BY <1>1, <2>1, <3>3, <3>4, <3>6 DEF OneTimePinsKept
    <3>8. new.pin <= Len(pins)
      BY <1>1, <3>3, <3>6 DEF NoPin
    <3> QED BY <1>1, <1>3, <3>3, <3>4, <3>7, <3>8, CallTaken
  <2> QED BY <2>6, <2>7
<1> QED BY <1>2, <1>3

LEMMA FailedSound == ASSUME DialogInv, NEW c \in calls, CallFailed(c) PROVE DialogInv'
<1>1. UNCHANGED <<account, pins>> /\ dialog \in Dialogs /\ Len(pins) \in Nat
  BY Typed DEF CallFailed
<1>2. CASE ~Awaited(c)
  BY <1>1, <1>2, CallGone DEF CallFailed
<1>3. CASE Awaited(c)
  <2>1. ~dialog.updated /\ dialog.pin = NoPin
    BY <1>3, NothingTold
  <2>2. PICK b \in BOOLEAN : b = (c.kind # "load")
    OBVIOUS
  <2>3. PICK new : new = [dialog EXCEPT !.error = TRUE, !.busy = b]
    OBVIOUS
  <2>4. /\ new \in Dialogs /\ new.holder = dialog.holder /\ new.epoch = dialog.epoch
        /\ new.pin = dialog.pin /\ new.updated = dialog.updated
    BY <1>1, <2>3 DEF Dialogs
  <2>5. dialog' = new
    BY <1>3, <2>2, <2>3 DEF CallFailed
  <2>6. OneTimePinsKept'
    BY <2>1, <2>4, <2>5 DEF OneTimePinsKept
  <2>7. new.pin = NoPin /\ ~new.updated /\ NoPin <= Len(pins)
    BY <1>1, <2>1, <2>4 DEF NoPin
  <2>8. \/ calls' = calls \ {c}
        \/ calls' = (calls \ {c}) \cup {Request("load", c.holder, c.epoch)}
    BY <1>3 DEF CallFailed
  <2> QED BY <1>1, <1>3, <2>4, <2>5, <2>6, <2>7, <2>8, CallTaken
<1> QED BY <1>2, <1>3

LEMMA DialogStep == DialogInv /\ [DialogNext]_pinDialog => DialogInv'
<1> SUFFICES ASSUME DialogInv, [DialogNext]_pinDialog PROVE DialogInv'
  OBVIOUS
<1>1. CASE UNCHANGED pinDialog
  <2>1. \A c \in calls : CallSound(c)'
    BY <1>1, Typed, Undisturbed DEF pinDialog, DialogInv
  <2> QED BY <1>1, <2>1 DEF pinDialog, DialogInv, DialogSound, OneTimePinsKept
<1>2. ASSUME NEW h \in Holders, OpenDialog(h) PROVE DialogInv'
  BY <1>2, OpenSound
<1>3. ASSUME NEW h \in Holders, LockOutHolder(h) PROVE DialogInv'
  BY <1>3, LockOutSound
<1>4. ASSUME NEW h \in Holders, ResetElsewhere(h) PROVE DialogInv'
  BY <1>4, ResetElsewhereSound
<1>5. CASE CloseDialog
  BY <1>5, CloseDialogSound
<1>6. ASSUME NEW operation \in {"reset", "disable", "unlock"}, Change(operation) PROVE DialogInv'
  BY <1>6, ChangeSound
<1>7. ASSUME NEW c \in calls, CarriedOut(c) PROVE DialogInv'
  BY <1>7, CarriedSound
<1>8. ASSUME NEW c \in calls, CallAnswered(c) PROVE DialogInv'
  BY <1>8, AnsweredSound
<1>9. ASSUME NEW c \in calls, CallFailed(c) PROVE DialogInv'
  BY <1>9, FailedSound
<1> QED BY <1>1, <1>2, <1>3, <1>4, <1>5, <1>6, <1>7, <1>8, <1>9 DEF DialogNext

\* The inductive invariant of the administrator's PIN dialog: no two calls are of one
\* epoch, and what a change has answered is what it did, until something is done after.
THEOREM DialogInvariant == DialogSpec => []DialogInv
<1>1. DialogInit => DialogInv
  <2> SUFFICES ASSUME DialogInit PROVE DialogInv
    OBVIOUS
  <2>1. account \in [Holders -> Account]
    BY DEF DialogInit, Account, NoPin, Elsewhere
  <2>2. pins \in Seq(Generated) /\ Len(pins) = 0
    BY DEF DialogInit
  <2>3. /\ dialog \in Dialogs /\ dialog.holder = NoHolder /\ dialog.pin = NoPin
        /\ dialog.updated = FALSE
    BY NewDialog DEF DialogInit
  <2>4. DialogSound
    BY <2>2, <2>3 DEF DialogSound, NoPin
  <2>5. OneTimePinsKept /\ calls = {}
    BY <2>3 DEF OneTimePinsKept, DialogInit
  <2> QED BY <2>1, <2>2, <2>3, <2>4, <2>5 DEF DialogInv
<1> QED BY <1>1, DialogStep, PTL DEF DialogSpec

\* A one-time PIN is shown only in the dialog that asked for it and is the holder's PIN,
\* as the status is the holder's, unless something was done after; aborted calls of
\* closed dialogs may be carried out at any time (OneTimePinsKept).
THEOREM OneTimePinsAreKept == DialogSpec => []OneTimePinsKept
<1>1. DialogInv => OneTimePinsKept
  BY DEF DialogInv
<1> QED BY <1>1, DialogInvariant, PTL
-----------------------------------------------------------------------------
(* The page: what is drawn and what is on screen belong to the state received *)

States == [gen: 0 .. 2, fresh: BOOLEAN, qr: BOOLEAN]
Errors == {"none", "unreachable", "limited", "revoked", "refused", "image"}
KioskPages == [token: Tokens \cup {NoToken}, online: BOOLEAN, state: States, error: Errors,
               image: 0 .. 2, drawing: 0 .. 2, refreshTimer: BOOLEAN, retryTimer: BOOLEAN]

\* What is drawn is the code of the state; what is on screen is, or will be replaced by it.
Shows(p) ==
    /\ p.state.fresh => p.state.gen # 2
    /\ p.drawing # NoImage => Drawable(p) /\ p.drawing = p.state.gen
    /\ p.image # NoImage => /\ Drawable(p)
                            /\ p.drawing # NoImage \/ p.image = p.state.gen

KioskInv == stored \in Tokens \cup {NoToken} /\ page \in KioskPages /\ Shows(page)

LEMMA NothingOnScreen == NoImage \in 0 .. 2
BY DEF NoImage

\* The effects of a handler that removes what is on screen, or leaves it
LEMMA EffectsSound ==
    ASSUME NEW p \in KioskPages, NEW new \in KioskPages, Shows(p),
           new.image = NoImage \/ (new.image = p.image /\ new.drawing = p.drawing),
           new.drawing \in {p.drawing, NoImage},
           new.state.fresh => new.state.gen # 2
    PROVE  Effects(p, new) \in KioskPages /\ Shows(Effects(p, new))
<1>1. PICK rt \in BOOLEAN : rt = RefreshTimer(p, new)
  BY DEF RefreshTimer, KioskPages
<1>2. PICK et \in BOOLEAN : et = RetryTimer(p, new)
  BY DEF RetryTimer, KioskPages
<1>3. PICK i : i = AfterImage(p, new)
  OBVIOUS
<1>4. PICK e : e = [i EXCEPT !.refreshTimer = rt, !.retryTimer = et]
  OBVIOUS
<1>5. e = Effects(p, new)
  BY <1>1, <1>2, <1>3, <1>4 DEF Effects
<1>6. SUFFICES i \in KioskPages /\ Shows(i)
  <2>1. ASSUME i \in KioskPages, Shows(i)
        PROVE  /\ e \in KioskPages /\ e.state = i.state /\ e.image = i.image
               /\ e.drawing = i.drawing /\ e.online = i.online
    BY <1>4, <2>1 DEF KioskPages
  <2> QED BY <1>5, <2>1 DEF Shows, Drawable
<1>7. new.state \in States /\ p.state \in States /\ new.drawing \in 0 .. 2
  BY DEF KioskPages
<1>8. CASE p.state = new.state /\ p.online = new.online
  <2>1. i = new /\ (Drawable(p) <=> Drawable(new))
    BY <1>3, <1>8 DEF AfterImage, Drawable
  <2> QED BY <1>8, <2>1 DEF Shows
<1>9. CASE ~(p.state = new.state /\ p.online = new.online) /\ Drawable(new)
  <2>1. PICK g \in 0 .. 2 : g = new.state.gen
    BY <1>7 DEF States
  <2>2. i = [new EXCEPT !.drawing = g]
    BY <1>3, <1>9, <2>1 DEF AfterImage, Image, Drawing
  <2>3. /\ i \in KioskPages /\ i.state = new.state /\ i.online = new.online /\ i.drawing = g
        /\ g # 2
    BY <1>9, <2>1, <2>2 DEF KioskPages, Drawable
  <2> QED BY <1>9, <2>1, <2>3 DEF Shows, Drawable, NoImage
<1>10. CASE ~(p.state = new.state /\ p.online = new.online) /\ ~Drawable(new)
  <2>1. i = [new EXCEPT !.image = NoImage, !.drawing = NoImage]
    BY <1>3, <1>10 DEF AfterImage, Image, Drawing
  <2>2. i \in KioskPages /\ i.state = new.state /\ i.image = NoImage /\ i.drawing = NoImage
    BY <2>1, NothingOnScreen DEF KioskPages
  <2> QED BY <2>2 DEF Shows
<1> QED BY <1>8, <1>9, <1>10

LEMMA Untouched ==
    ASSUME NEW new \in KioskPages, KioskInv, NEW f, React(new, f),
           new.image = NoImage \/ (new.image = page.image /\ new.drawing = page.drawing),
           new.drawing \in {page.drawing, NoImage},
           new.state.fresh => new.state.gen # 2,
           stored' \in Tokens \cup {NoToken}
    PROVE  KioskInv'
BY EffectsSound DEF KioskInv, React

LEMMA BlankSound ==
    ASSUME NEW token \in Tokens \cup {NoToken}, NEW online \in BOOLEAN
    PROVE  Blank(token, online) \in KioskPages /\ Shows(Blank(token, online))
<1>1. PICK st : st = NoState
  OBVIOUS
<1>2. st \in States /\ st.fresh = FALSE
  BY <1>1 DEF NoState, States
<1>3. PICK p : p = Blank(token, online)
  OBVIOUS
<1>4. /\ p \in KioskPages /\ p.state = st /\ p.image = NoImage /\ p.drawing = NoImage
  BY <1>1, <1>2, <1>3 DEF Blank, KioskPages, NoImage, Errors
<1> QED BY <1>2, <1>3, <1>4 DEF Shows

LEMMA KioskStep == KioskInv /\ [KioskNext]_kioskPage => KioskInv'
<1> SUFFICES ASSUME KioskInv, [KioskNext]_kioskPage PROVE KioskInv'
  OBVIOUS
<1>1. /\ page \in KioskPages /\ page.state \in States /\ Shows(page)
      /\ page.state.fresh => page.state.gen # 2
  BY DEF KioskInv, KioskPages, Shows
<1>2. CASE UNCHANGED <<stored, page>>
  BY <1>2 DEF KioskInv
<1>3. CASE GoOffline
  <2>1. PICK new : new = [page EXCEPT !.online = FALSE, !.image = NoImage]
    OBVIOUS
  <2>2. /\ new \in KioskPages /\ new.image = NoImage /\ new.drawing = page.drawing
        /\ new.state = page.state
    BY <1>1, <2>1, NothingOnScreen DEF KioskPages
  <2>3. React(new, flight) /\ stored' = stored
    BY <1>3, <2>1 DEF GoOffline
  <2> QED BY <1>1, <2>2, <2>3, Untouched DEF KioskInv
<1>4. CASE GoOnline
  <2>1. PICK new : new = [page EXCEPT !.online = TRUE]
    OBVIOUS
  <2>2. /\ new \in KioskPages /\ new.image = page.image /\ new.drawing = page.drawing
        /\ new.state = page.state
    BY <1>1, <2>1 DEF KioskPages
  <2>3. React(new, flight) /\ stored' = stored
    BY <1>4, <2>1 DEF GoOnline
  <2> QED BY <1>1, <2>2, <2>3, Untouched DEF KioskInv
<1>5. CASE Expire
  <2>1. PICK st : st = [page.state EXCEPT !.fresh = FALSE]
    OBVIOUS
  <2>2. st \in States /\ st.fresh = FALSE
    BY <1>1, <2>1 DEF States
  <2>3. PICK new : new = [page EXCEPT !.state = st]
    OBVIOUS
  <2>4. /\ new \in KioskPages /\ new.image = page.image /\ new.drawing = page.drawing
        /\ new.state = st
    BY <1>1, <2>2, <2>3 DEF KioskPages
  <2>5. new = [page EXCEPT !.state.fresh = FALSE]
    BY <2>1, <2>3
  <2>6. React(new, flight) /\ stored' = stored
    BY <1>5, <2>5 DEF Expire
  <2> QED BY <2>2, <2>4, <2>6, Untouched DEF KioskInv
<1>6. CASE TimerFires
  <2>2. /\ page' = [page EXCEPT !.refreshTimer = FALSE]
           \/ page' = [page EXCEPT !.retryTimer = FALSE]
        /\ stored' = stored
    BY <1>6 DEF TimerFires
  <2>3. /\ page' \in KioskPages /\ page'.image = page.image /\ page'.drawing = page.drawing
        /\ page'.state = page.state /\ page'.online = page.online
    BY <1>1, <2>2 DEF KioskPages
  <2> QED BY <1>1, <2>2, <2>3 DEF KioskInv, Shows, Drawable
<1>7. CASE TimerIdle
  <2>1. /\ page' = [page EXCEPT !.refreshTimer = FALSE, !.retryTimer = FALSE,
                                !.image = NoImage]
        /\ stored' = stored
    BY <1>7 DEF TimerIdle
  <2>2. /\ page' \in KioskPages /\ page'.image = NoImage /\ page'.drawing = page.drawing
        /\ page'.state = page.state /\ page'.online = page.online
    BY <1>1, <2>1, NothingOnScreen DEF KioskPages
  <2> QED BY <1>1, <2>1, <2>2 DEF KioskInv, Shows, Drawable
<1>8. ASSUME NEW t \in Tokens, RefreshSucceeds(t) PROVE KioskInv'
  <2>1. PICK qr \in BOOLEAN :
           React([page EXCEPT !.state = [gen |-> NextGen, fresh |-> qr, qr |-> qr],
                              !.error = "none"], Answered(t))
    BY <1>8 DEF RefreshSucceeds
  <2>2. PICK st : st = [gen |-> NextGen, fresh |-> qr, qr |-> qr]
    OBVIOUS
  <2>3. st \in States /\ st.gen # 2
    BY <2>2 DEF States, NextGen
  <2>4. PICK new : new = [page EXCEPT !.state = st, !.error = "none"]
    OBVIOUS
  <2>5. /\ new \in KioskPages /\ new.image = page.image /\ new.drawing = page.drawing
        /\ new.state = st
    BY <1>1, <2>3, <2>4 DEF KioskPages, Errors
  <2>6. React(new, Answered(t)) /\ stored' = stored
    BY <1>8, <2>1, <2>2, <2>4 DEF RefreshSucceeds
  <2> QED BY <2>3, <2>5, <2>6, Untouched DEF KioskInv
<1>9. ASSUME NEW t \in Tokens, RefreshFails(t) PROVE KioskInv'
  <2>1. PICK w \in Errors : w = Why(t)
    BY DEF Why, Errors
  <2>2. PICK failed : failed = [page EXCEPT !.error = w, !.image = NoImage]
    OBVIOUS
  <2>3. /\ failed \in KioskPages /\ failed.image = NoImage /\ failed.drawing = page.drawing
        /\ failed.state = page.state
    BY <1>1, <2>2, NothingOnScreen DEF KioskPages
  <2>4. stored' \in Tokens \cup {NoToken}
    BY <1>9 DEF RefreshFails, Forgotten, KioskInv
  <2>5. CASE stored' # NoToken
    <3>1. React(failed, Answered(t))
      BY <1>9, <2>1, <2>2, <2>5 DEF RefreshFails
    <3> QED BY <1>1, <2>3, <2>4, <3>1, Untouched
  <2>6. CASE stored' = NoToken
    <3>1. PICK st : st = NoState
      OBVIOUS
    <3>2. st \in States /\ st.fresh = FALSE
      BY <3>1 DEF NoState, States
    <3>3. PICK new : new = [failed EXCEPT !.token = NoToken, !.state = st]
      OBVIOUS
    <3>4. /\ new \in KioskPages /\ new.image = NoImage /\ new.drawing = page.drawing
          /\ new.state = st
      BY <2>3, <3>2, <3>3 DEF KioskPages
    <3>5. React(new, Answered(t))
      BY <1>9, <2>1, <2>2, <2>6, <3>1, <3>3 DEF RefreshFails
    <3> QED BY <2>4, <3>2, <3>4, <3>5, Untouched
  <2> QED BY <2>5, <2>6
<1>10. CASE Draw
  <2>1. /\ page' = [page EXCEPT !.image = page.drawing, !.drawing = NoImage]
        /\ page.drawing # NoImage /\ stored' = stored
    BY <1>10 DEF Draw
  <2>2. /\ page' \in KioskPages /\ page'.image = page.drawing /\ page'.drawing = NoImage
        /\ page'.state = page.state /\ page'.online = page.online
    BY <1>1, <2>1, NothingOnScreen DEF KioskPages
  <2> QED BY <1>1, <2>1, <2>2 DEF KioskInv, Shows, Drawable
<1>11. CASE DrawFails
  <2>1. PICK new : new = [page EXCEPT !.image = NoImage, !.drawing = NoImage,
                                      !.error = "image"]
    OBVIOUS
  <2>2. /\ new \in KioskPages /\ new.image = NoImage /\ new.drawing = NoImage
        /\ new.state = page.state
    BY <1>1, <2>1, NothingOnScreen DEF KioskPages, Errors
  <2>3. React(new, flight) /\ stored' = stored
    BY <1>11, <2>1 DEF DrawFails
  <2> QED BY <1>1, <2>2, <2>3, Untouched DEF KioskInv
<1>12. CASE PressPair
  <2>1. PICK new : new = [page EXCEPT !.error = "none"]
    OBVIOUS
  <2>2. /\ new \in KioskPages /\ new.image = page.image /\ new.drawing = page.drawing
        /\ new.state = page.state
    BY <1>1, <2>1 DEF KioskPages, Errors
  <2>3. React(new, [flight EXCEPT !.pairing = TRUE]) /\ stored' = stored
    BY <1>12, <2>1 DEF PressPair
  <2> QED BY <1>1, <2>2, <2>3, Untouched DEF KioskInv
<1>13. ASSUME NEW t \in Tokens, PairSucceeds(t) PROVE KioskInv'
  <2>1. PICK new : new = [page EXCEPT !.token = t]
    OBVIOUS
  <2>2. /\ new \in KioskPages /\ new.image = page.image /\ new.drawing = page.drawing
        /\ new.state = page.state
    BY <1>1, <2>1 DEF KioskPages
  <2>3. React(new, [flight EXCEPT !.pairing = FALSE]) /\ stored' = t
    BY <1>13, <2>1 DEF PairSucceeds
  <2> QED BY <1>1, <2>2, <2>3, Untouched
<1>14. CASE PairFails
  <2>1. PICK w \in Errors : w = IF reach THEN "refused" ELSE "unreachable"
    BY DEF Errors
  <2>2. PICK new : new = [page EXCEPT !.error = w]
    OBVIOUS
  <2>3. /\ new \in KioskPages /\ new.image = page.image /\ new.drawing = page.drawing
        /\ new.state = page.state
    BY <1>1, <2>2 DEF KioskPages
  <2>4. React(new, [flight EXCEPT !.pairing = FALSE]) /\ stored' = stored
    BY <1>14, <2>1, <2>2 DEF PairFails
  <2> QED BY <1>1, <2>3, <2>4, Untouched DEF KioskInv
<1>15. CASE Reload
  <2>1. page' = Blank(stored, page.online) /\ stored' = stored
    BY <1>15 DEF Reload, Loaded
  <2> QED BY <1>1, <2>1, BlankSound DEF KioskInv, KioskPages
<1>16. CASE RevokeKiosk \/ ServerDown \/ ServerUp \/ PressRetry
  BY <1>2, <1>16 DEF RevokeKiosk, ServerDown, ServerUp, PressRetry
<1> QED
  <2>1. UNCHANGED kioskPage => UNCHANGED <<stored, page>>
    BY DEF kioskPage
  <2> QED BY <1>2, <1>3, <1>4, <1>5, <1>6, <1>7, <1>8, <1>9, <1>10, <1>11, <1>12, <1>13, <1>14,
             <1>15, <1>16, <2>1 DEF KioskNext, RefreshAnswered

\* The inductive invariant of the kiosk's page: a code is drawn only for the state last
\* received, and one on screen is that state's or about to be replaced by it.
THEOREM KioskInvariant == KioskSpec => []KioskInv
<1>1. KioskInit => KioskInv
  BY BlankSound DEF KioskInit, KioskInv
<1> QED BY <1>1, KioskStep, PTL DEF KioskSpec

\* No image that was being drawn when its state ended appears, and none stays on screen
\* when the code expires or the page is offline (CodeOnScreenCurrent).
THEOREM CodeOnScreenIsCurrent == KioskSpec => []CodeOnScreenCurrent
<1>1. KioskInv => CodeOnScreenCurrent
  BY DEF KioskInv, Shows, CodeOnScreenCurrent, OnScreen
<1> QED BY <1>1, KioskInvariant, PTL
-----------------------------------------------------------------------------
(* The view of the audit: how a page continues the pages before it *)

Filters == Methods \cup {"all"}
Trail == Seq(Methods \cup {NoMethod})
PagesOfEvents == {NoPage} \cup [items: SUBSET Nat, next: Nat]
Auditors == [open: BOOLEAN, method: Filters, cursors: Seq(Nat \ {0}), page: PagesOfEvents,
             failed: BOOLEAN, nr: Nat]
Listings == [nr: Nat, method: Filters, page: PagesOfEvents, cursor: Nat]

\* What is a page of the events S before the cursor, also when events were added since.
Within(items, S, cursor) ==
    /\ items \subseteq S
    /\ cursor # NoCursor => \A i \in items : i < cursor

Unbroken(items, S, cursor) ==
    \A i \in S, a \in items :
        /\ a <= i
        /\ i < cursor \/ (cursor = NoCursor /\ \E b \in items : i <= b)
        => i \in items

Ends(items, next, S, cursor) ==
    /\ next # NoCursor => next \in items /\ \A i \in items : next <= i
    /\ next = NoCursor =>
          \A i \in S : /\ i < cursor => i \in items
                       /\ cursor = NoCursor /\ items # {} => \E j \in items : j <= i

PageOf(p, S, cursor) ==
    Within(p.items, S, cursor) /\ Unbroken(p.items, S, cursor) /\ Ends(p.items, p.next, S, cursor)

\* The first n pages of a walk w over the events S leave nothing out.
NothingBetween(w, S, n) ==
    \A i \in S, k, l \in 1 .. n :
        (\E a \in w[k] : a <= i) /\ (\E b \in w[l] : i <= b) => \E m \in 1 .. n : i \in w[m]

WalkSound(w, S) ==
    /\ \A k \in DOMAIN w : w[k] \subseteq S
    /\ \A k, l \in DOMAIN w : k < l => \A i \in w[k], j \in w[l] : j < i
    /\ \A n \in DOMAIN w : NothingBetween(w, S, n)

\* The cursors are the ends of the pages before.
Follows(cursors, w) ==
    /\ Len(cursors) <= Len(w)
    /\ \A k \in DOMAIN cursors : cursors[k] \in w[k] /\ \A i \in w[k] : cursors[k] <= i

ListingSound(q) ==
    /\ q.nr <= auditor.nr /\ q.cursor <= Len(trail)
    /\ q.page # NoPage => PageOf(q.page, Matching(q.method), q.cursor)
    /\ q.nr = auditor.nr => q.method = auditor.method /\ q.cursor = Before(auditor.cursors)

\* The page on screen is the last of the walk.
OnTop(p, cursors, w) ==
    /\ Len(w) = Len(cursors) + 1 /\ w[Len(w)] = p.items

ViewInv ==
    /\ trail \in Trail /\ auditor \in Auditors /\ listings \subseteq Listings
    /\ walk \in Seq(SUBSET Nat)
    /\ WalkSound(walk, Matching(auditor.method))
    /\ Follows(auditor.cursors, walk)
    /\ \A q \in listings : ListingSound(q)
    /\ auditor.page # NoPage =>
          /\ OnTop(auditor.page, auditor.cursors, walk)
          /\ PageOf(auditor.page, Matching(auditor.method), Before(auditor.cursors))

-----------------------------------------------------------------------------
(* A page *)

LEMMA SmallestOf ==
    ASSUME NEW S \in SUBSET Nat, S # {}
    PROVE  \E n \in S : \A m \in S : n <= m
<1>1. PICK n \in S : \A m \in S : ~(<<m, n>> \in OpToRel(<, Nat))
  BY WFMin, NatLessThanWellFounded
<1>2. \A m \in S : ~(m < n)
  BY <1>1 DEF OpToRel
<1>3. \A m \in S : m \in Nat /\ n \in Nat
  OBVIOUS
<1> QED BY <1>2, <1>3

LEMMA LeastEvent ==
    ASSUME NEW S \in SUBSET Nat, S # {}
    PROVE  Min(S) \in S /\ \A i \in S : Min(S) <= i
BY SmallestOf DEF Min

LEMMA NewestEvent ==
    ASSUME NEW n \in Nat, NEW S \in SUBSET (1 .. n), S # {}
    PROVE  \E m \in S : \A i \in S : i <= m
<1>0. \A i \in S : i \in Nat /\ i <= n
  OBVIOUS
<1> DEFINE T == {n - i : i \in S}
<1>1. T \in SUBSET Nat /\ T # {}
  <2>1. \A i \in S : n - i \in Nat
    BY <1>0
  <2> QED BY <2>1
<1>2. PICK t \in T : \A u \in T : t <= u
  BY <1>1, SmallestOf
<1>3. PICK m \in S : t = n - m
  BY <1>1, <1>2
<1>4. ASSUME NEW i \in S PROVE i <= m
  <2>1. n - i \in T /\ i \in Nat /\ m \in Nat
    BY <1>0, <1>1
  <2> QED BY <1>2, <1>3, <2>1
<1> QED BY <1>4

\* The newest events of some, and everything that is newer than one of them.
LEMMA NewestOf ==
    ASSUME NEW n \in Nat, NEW rows \in SUBSET (1 .. n)
    PROVE  /\ Newest(rows) \subseteq rows
           /\ \A a \in Newest(rows), i \in rows : a <= i => i \in Newest(rows)
           /\ rows # {} => Newest(rows) # {}
<1>0. IsFiniteSet(1 .. n)
  BY FS_Interval
<1>1. IsFiniteSet(rows) /\ \A i \in rows : i \in Nat
  <2>1. IsFiniteSet(rows)
    BY <1>0, FS_Subset
  <2> QED BY <2>1
<1>2. \A s \in SUBSET rows : IsFiniteSet(s) /\ Cardinality(s) \in Nat
  BY <1>1, FS_Subset, FS_CardinalityType
<1>3. PageSize \in Nat \ {0}
  BY AuditPanelAssumption
<1>4. ASSUME NEW a \in Newest(rows), NEW i \in rows, a <= i PROVE i \in Newest(rows)
  <2>1. PICK s : s = {j \in rows : j > a}
    OBVIOUS
  <2>2. PICK t : t = {j \in rows : j > i}
    OBVIOUS
  <2>3. a \in rows /\ Cardinality(s) < PageSize
    BY <2>1 DEF Newest
  <2>4. t \in SUBSET s /\ s \in SUBSET rows /\ t \in SUBSET rows
    <3>1. ASSUME NEW j \in rows, j > i PROVE j > a
      BY <1>1, <1>4, <2>3, <3>1
    <3> QED BY <2>1, <2>2, <3>1
  <2>5. Cardinality(t) <= Cardinality(s)
    BY <1>2, <2>4, FS_Subset
  <2>6. Cardinality(t) < PageSize
    BY <1>2, <1>3, <2>3, <2>4, <2>5
  <2> QED BY <2>2, <2>6 DEF Newest
<1>5. ASSUME rows # {} PROVE Newest(rows) # {}
  <2>1. PICK m \in rows : \A i \in rows : i <= m
    BY <1>5, NewestEvent
  <2>2. {j \in rows : j > m} = {}
    <3>1. \A j \in rows : ~(j > m)
      BY <1>1, <2>1
    <3> QED BY <3>1
  <2>3. Cardinality({j \in rows : j > m}) = 0
    BY <2>2, FS_EmptySet
  <2> QED BY <1>3, <2>1, <2>3 DEF Newest
<1> QED BY <1>4, <1>5 DEF Newest

LEMMA PageListed ==
    ASSUME NEW method, NEW cursor \in Nat, trail \in Trail
    PROVE  /\ Listed(method, cursor) \in [items: SUBSET Nat, next: Nat]
           /\ PageOf(Listed(method, cursor), Matching(method), cursor)
<1>1. PICK rows : rows = After(method, cursor)
  OBVIOUS
<1>2. Len(trail) \in Nat /\ Matching(method) \subseteq 1 .. Len(trail)
  BY DEF Trail, Matching
<1>3. /\ rows \in SUBSET (1 .. Len(trail)) /\ rows \subseteq Matching(method)
      /\ \A i \in Matching(method) : i \in rows <=> (cursor = NoCursor \/ i < cursor)
  BY <1>1, <1>2 DEF After
<1>4. PICK items : items = Newest(rows)
  OBVIOUS
<1>5. /\ items \subseteq rows /\ items \in SUBSET Nat
      /\ \A a \in items, i \in rows : a <= i => i \in items
      /\ rows # {} => items # {}
  <2>1. \A i \in rows : i \in Nat
    BY <1>2, <1>3
  <2> QED BY <1>2, <1>3, <1>4, <2>1, NewestOf
<1>6. PICK next : next = IF items = rows THEN NoCursor ELSE Min(items)
  OBVIOUS
<1>7. /\ next \in Nat
      /\ next = NoCursor => items = rows
      /\ next # NoCursor => next \in items /\ \A i \in items : next <= i
  <2>1. CASE items = rows
    BY <1>6, <2>1 DEF NoCursor
  <2>2. CASE items # rows
    <3>1. Min(items) \in items /\ \A i \in items : Min(items) <= i
      BY <1>5, <2>2, LeastEvent
    <3>2. next = Min(items) /\ next \in 1 .. Len(trail)
      BY <1>3, <1>5, <1>6, <2>2, <3>1
    <3> QED BY <1>2, <3>1, <3>2 DEF NoCursor
  <2> QED BY <2>1, <2>2
<1>8. PICK p : p = [items |-> items, next |-> next]
  OBVIOUS
<1>9. p = Listed(method, cursor) /\ p.items = items /\ p.next = next
  BY <1>1, <1>4, <1>6, <1>8 DEF Listed
<1>10. PageOf(p, Matching(method), cursor)
  <2>1. Within(items, Matching(method), cursor)
    BY <1>3, <1>5 DEF Within
  <2>2. Unbroken(items, Matching(method), cursor)
    BY <1>3, <1>5 DEF Unbroken
  <2>3. Ends(items, next, Matching(method), cursor)
    <3>1. ASSUME next = NoCursor, NEW i \in Matching(method)
          PROVE  /\ i < cursor => i \in items
                 /\ cursor = NoCursor /\ items # {} => \E j \in items : j <= i
      <4>1. i \in Nat /\ items = rows
        BY <1>2, <1>7, <3>1
      <4> QED BY <1>3, <4>1
    <3> QED BY <1>7, <3>1 DEF Ends
  <2> QED BY <1>9, <2>1, <2>2, <2>3 DEF PageOf
<1>11. p \in [items: SUBSET Nat, next: Nat]
  BY <1>5, <1>7, <1>8
<1> QED BY <1>9, <1>10, <1>11

-----------------------------------------------------------------------------
(* A walk *)

LEMMA CursorOfWalk ==
    ASSUME NEW cursors \in Seq(Nat \ {0}), NEW w \in Seq(SUBSET Nat), Follows(cursors, w),
           NEW n \in Nat, NEW S \in SUBSET (1 .. n), WalkSound(w, S)
    PROVE  /\ Before(cursors) \in Nat /\ Before(cursors) <= n
           /\ cursors = <<>> => Before(cursors) = NoCursor
           /\ cursors # <<>> =>
                /\ Before(cursors) # NoCursor /\ Len(cursors) \in DOMAIN cursors
                /\ Len(cursors) \in DOMAIN w /\ Before(cursors) \in w[Len(cursors)]
                /\ \A i \in w[Len(cursors)] : Before(cursors) <= i
<1>1. CASE cursors = <<>>
  BY <1>1 DEF Before, NoCursor
<1>2. CASE cursors # <<>>
  <2>1. /\ Len(cursors) \in Nat \ {0} /\ DOMAIN cursors = 1 .. Len(cursors)
        /\ DOMAIN w = 1 .. Len(w) /\ Len(w) \in Nat
    BY <1>2
  <2>2. Len(cursors) \in DOMAIN cursors /\ Len(cursors) \in DOMAIN w
    BY <2>1 DEF Follows
  <2>3. Before(cursors) = cursors[Len(cursors)] /\ cursors[Len(cursors)] \in Nat \ {0}
    BY <1>2, <2>2 DEF Before, Last
  <2>4. w[Len(cursors)] \subseteq 1 .. n
    BY <2>2 DEF WalkSound
  <2> QED BY <1>2, <2>2, <2>3, <2>4 DEF Follows, NoCursor
<1> QED BY <1>1, <1>2

\* A page is put on top of the pages before it.
LEMMA WalkTurned ==
    ASSUME NEW n \in Nat, NEW S \in SUBSET (1 .. n), NEW w \in Seq(SUBSET Nat), WalkSound(w, S),
           NEW cursors \in Seq(Nat \ {0}), Follows(cursors, w),
           NEW p \in [items: SUBSET Nat, next: Nat], PageOf(p, S, Before(cursors)),
           NEW v, v = Append(SubSeq(w, 1, Len(cursors)), p.items)
    PROVE  /\ v \in Seq(SUBSET Nat) /\ WalkSound(v, S)
           /\ Follows(cursors, v) /\ OnTop(p, cursors, v)
<1>1. PICK d : d = Len(cursors)
  OBVIOUS
<1>2. PICK c : c = Before(cursors)
  OBVIOUS
<1>3. PICK items \in SUBSET Nat : items = p.items
  OBVIOUS
<1>4. d \in Nat /\ d <= Len(w) /\ Len(w) \in Nat /\ DOMAIN cursors = 1 .. d
  BY <1>1 DEF Follows
<1>5. PICK u : u = SubSeq(w, 1, d)
  OBVIOUS
<1>6. u \in Seq(SUBSET Nat) /\ Len(u) = d /\ \A k \in 1 .. d : u[k] = w[k]
  BY <1>4, <1>5
<1>7. /\ v \in Seq(SUBSET Nat) /\ Len(v) = d + 1 /\ DOMAIN v = 1 .. (d + 1)
      /\ v[d + 1] = items /\ \A k \in 1 .. d : v[k] = w[k]
  <2>1. v = Append(u, items)
    BY <1>1, <1>3, <1>5
  <2> QED BY <1>4, <1>6, <2>1
<1>8. /\ \A k \in 1 .. d : k \in DOMAIN w /\ w[k] \subseteq S
      /\ items \subseteq S
  <2>1. DOMAIN w = 1 .. Len(w)
    OBVIOUS
  <2>2. \A k \in 1 .. d : k \in DOMAIN w
    BY <1>4, <2>1
  <2>3. items \subseteq S
    BY <1>3 DEF PageOf, Within
  <2> QED BY <2>2, <2>3 DEF WalkSound
<1>9. /\ d = 0 => c = NoCursor
      /\ d # 0 => /\ c # NoCursor /\ c \in Nat /\ d \in DOMAIN w /\ c \in w[d]
                  /\ \A i \in w[d] : c <= i
  <2>1. cursors = <<>> <=> d = 0
    BY <1>1
  <2> QED BY <1>1, <1>2, <2>1, CursorOfWalk
<1>10. d # 0 => \A j \in items : j < c
  BY <1>2, <1>3, <1>9 DEF PageOf, Within
<1>11. ASSUME d # 0, NEW k \in 1 .. d, NEW i \in w[k] PROVE c <= i /\ i \in Nat
  <2>1. CASE k = d
    BY <1>8, <1>9, <1>11, <2>1
  <2>2. CASE k # d
    <3>1. k < d /\ k \in DOMAIN w
      BY <1>4, <1>8, <2>2
    <3>2. c < i
      BY <1>9, <1>11, <3>1 DEF WalkSound
    <3> QED BY <1>8, <1>9, <3>2
  <2> QED BY <2>1, <2>2
<1>12. \A k \in DOMAIN v : v[k] \subseteq S
  <2>1. \A k \in DOMAIN v : k = d + 1 \/ k \in 1 .. d
    BY <1>4, <1>7
  <2> QED BY <1>7, <1>8, <2>1
<1>13. ASSUME NEW k \in DOMAIN v, NEW l \in DOMAIN v, k < l, NEW i \in v[k], NEW j \in v[l]
       PROVE  j < i
  <2>1. CASE l = d + 1
    <3>1. d # 0 /\ k \in 1 .. d /\ i \in w[k] /\ j \in items
      BY <1>4, <1>7, <1>13, <2>1
    <3>2. j < c /\ c <= i /\ i \in Nat /\ j \in Nat /\ c \in Nat
      BY <1>9, <1>10, <1>11, <3>1
    <3> QED BY <3>2
  <2>2. CASE l # d + 1
    <3>1. k \in 1 .. d /\ l \in 1 .. d
      BY <1>4, <1>7, <1>13, <2>2
    <3> QED BY <1>7, <1>8, <1>13, <3>1 DEF WalkSound
  <2> QED BY <2>1, <2>2
<1>14. ASSUME NEW m \in DOMAIN v PROVE NothingBetween(v, S, m)
  <2> SUFFICES ASSUME NEW i \in S, NEW k \in 1 .. m, NEW l \in 1 .. m,
                      NEW a \in v[k], a <= i, NEW b \in v[l], i <= b
               PROVE  \E h \in 1 .. m : i \in v[h]
    BY DEF NothingBetween
  <2>1. m \in 1 .. (d + 1) /\ i \in Nat
    BY <1>7
  <2>2. CASE m # d + 1
    <3>1. m \in 1 .. d /\ m \in DOMAIN w /\ k \in 1 .. d /\ l \in 1 .. d
      BY <1>4, <1>8, <2>1, <2>2
    <3>2. NothingBetween(w, S, m) /\ a \in w[k] /\ b \in w[l]
      BY <1>7, <3>1 DEF WalkSound
    <3>3. PICK h \in 1 .. m : i \in w[h]
      BY <3>2 DEF NothingBetween
    <3>4. h \in 1 .. d
      BY <1>4, <3>1
    <3> QED BY <1>7, <3>3, <3>4
  <2>3. CASE m = d + 1 /\ d = 0
    <3>1. a \in items /\ b \in items
      BY <1>7, <2>3
    <3>2. i \in items
      BY <1>2, <1>3, <1>9, <2>3, <3>1 DEF PageOf, Unbroken
    <3> QED BY <1>7, <2>3, <3>2
  <2>4. CASE m = d + 1 /\ d # 0 /\ i < c
    <3>1. a \in items
      <4>1. CASE k \in 1 .. d
        <5>1. c <= a /\ a \in Nat /\ c \in Nat
          BY <1>7, <1>9, <1>11, <2>4, <4>1
        <5> QED BY <2>1, <2>4, <5>1
      <4>2. CASE k = d + 1
        BY <1>7, <4>2
      <4> QED BY <1>4, <2>4, <4>1, <4>2
    <3>2. i \in items
      BY <1>2, <1>3, <1>9, <2>4, <3>1 DEF PageOf, Unbroken
    <3> QED BY <1>4, <1>7, <2>4, <3>2
  <2>5. CASE m = d + 1 /\ d # 0 /\ ~(i < c)
    <3>1. l \in 1 .. d
      <4>1. CASE l = d + 1
        <5>1. b \in items /\ b < c /\ b \in Nat /\ c \in Nat
          BY <1>7, <1>9, <1>10, <2>5, <4>1
        <5> QED BY <2>1, <2>5, <5>1
      <4> QED BY <1>4, <2>5, <4>1
    <3>2. NothingBetween(w, S, d) /\ b \in w[l] /\ c \in w[d] /\ c <= i /\ d \in 1 .. d
      BY <1>4, <1>7, <1>9, <2>1, <2>5, <3>1 DEF WalkSound
    <3>3. PICK h \in 1 .. d : i \in w[h]
      BY <3>1, <3>2 DEF NothingBetween
    <3> QED BY <1>4, <1>7, <2>5, <3>3
  <2> QED BY <2>2, <2>3, <2>4, <2>5
<1>15. WalkSound(v, S)
  BY <1>12, <1>13, <1>14 DEF WalkSound
<1>16. Follows(cursors, v)
  BY <1>1, <1>4, <1>7 DEF Follows
<1> QED BY <1>1, <1>3, <1>7, <1>15, <1>16 DEF OnTop

-----------------------------------------------------------------------------
(* Events are added *)

LEMMA PageKept ==
    ASSUME NEW p, NEW cursor \in Nat, NEW n \in Nat, NEW S \in SUBSET (1 .. n), cursor <= n,
           PageOf(p, S, cursor), NEW new, new = S \/ new = S \cup {n + 1}
    PROVE  PageOf(p, new, cursor)
<1>1. CASE new = S
  BY <1>1
<1>2. CASE new = S \cup {n + 1}
  <2>1. PICK items : items = p.items
    OBVIOUS
  <2>2. PICK next : next = p.next
    OBVIOUS
  <2>3. Within(items, S, cursor) /\ Unbroken(items, S, cursor) /\ Ends(items, next, S, cursor)
    BY <2>1, <2>2 DEF PageOf
  <2>4. \A b \in items : b \in S /\ b \in 1 .. n
    BY <2>3 DEF Within
  <2>5. \A b \in items : b <= n + 1 /\ ~(n + 1 <= b)
    BY <2>4
  <2>6. \A i \in new : i \in S \/ i = n + 1
    BY <1>2
  <2>7. ~(n + 1 < cursor)
    OBVIOUS
  <2>8. Within(items, new, cursor)
    BY <1>2, <2>3 DEF Within
  <2>9. Unbroken(items, new, cursor)
    BY <2>3, <2>5, <2>6, <2>7 DEF Unbroken
  <2>10. Ends(items, next, new, cursor)
    BY <2>3, <2>5, <2>6, <2>7 DEF Ends
  <2> QED BY <2>1, <2>2, <2>8, <2>9, <2>10 DEF PageOf
<1> QED BY <1>1, <1>2

LEMMA WalkKept ==
    ASSUME NEW w \in Seq(SUBSET Nat), NEW n \in Nat, NEW S \in SUBSET (1 .. n), WalkSound(w, S),
           NEW new, new = S \/ new = S \cup {n + 1}
    PROVE  WalkSound(w, new)
<1>1. DOMAIN w = 1 .. Len(w) /\ Len(w) \in Nat /\ \A k \in DOMAIN w : w[k] \subseteq 1 .. n
  BY DEF WalkSound
<1>2. \A k \in DOMAIN w : w[k] \subseteq new
  BY DEF WalkSound
<1>3. ASSUME NEW m \in DOMAIN w PROVE NothingBetween(w, new, m)
  <2> SUFFICES ASSUME NEW i \in new, NEW k \in 1 .. m, NEW l \in 1 .. m,
                      \E a \in w[k] : a <= i, NEW b \in w[l], i <= b
               PROVE  \E h \in 1 .. m : i \in w[h]
    BY DEF NothingBetween
  <2>1. b \in 1 .. n
    BY <1>1
  <2>2. i \in S
    BY <2>1
  <2>3. NothingBetween(w, S, m)
    BY DEF WalkSound
  <2> QED BY <2>2, <2>3 DEF NothingBetween
<1> QED BY <1>2, <1>3 DEF WalkSound

\* The audit grows: what matched still matches.
LEMMA MatchingGrows ==
    ASSUME trail \in Trail, NEW x \in Methods \cup {NoMethod}, trail' = Append(trail, x),
           NEW method
    PROVE  /\ trail' \in Trail /\ Len(trail) \in Nat /\ Len(trail') = Len(trail) + 1
           /\ Matching(method) \in SUBSET (1 .. Len(trail))
           /\ \/ Matching(method)' = Matching(method)
              \/ Matching(method)' = Matching(method) \cup {Len(trail) + 1}
<1>1. trail' \in Trail /\ Len(trail) \in Nat /\ Len(trail') = Len(trail) + 1
  BY DEF Trail
<1>2. DOMAIN trail = 1 .. Len(trail) /\ DOMAIN trail' = 1 .. (Len(trail) + 1)
  BY <1>1 DEF Trail
<1>3. \A i \in 1 .. Len(trail) : trail'[i] = trail[i]
  BY DEF Trail
<1>4. Matching(method) \in SUBSET (1 .. Len(trail))
  BY <1>2 DEF Matching
<1>5. \A i \in 1 .. Len(trail) : i \in Matching(method)' <=> i \in Matching(method)
  BY <1>1, <1>2, <1>3 DEF Matching
<1>6. Matching(method)' \subseteq 1 .. (Len(trail) + 1)
  BY <1>2 DEF Matching
<1> QED BY <1>1, <1>4, <1>5, <1>6

LEMMA TrailGrows ==
    ASSUME ViewInv, NEW x \in Methods \cup {NoMethod}, trail' = Append(trail, x),
           UNCHANGED <<auditor, walk>>
    PROVE  /\ trail' \in Trail /\ WalkSound(walk, Matching(auditor.method))'
           /\ auditor.page # NoPage =>
                 PageOf(auditor.page, Matching(auditor.method), Before(auditor.cursors))'
           /\ \A q \in listings : ListingSound(q)'
<1>1. trail \in Trail /\ walk \in Seq(SUBSET Nat) /\ auditor \in Auditors
  BY DEF ViewInv
<1>2. PICK n : n = Len(trail)
  OBVIOUS
<1>3. n \in Nat /\ Len(trail') = n + 1 /\ trail' \in Trail
  BY <1>1, <1>2, MatchingGrows
<1>4. ASSUME NEW method
      PROVE  /\ Matching(method) \in SUBSET (1 .. n)
             /\ \/ Matching(method)' = Matching(method)
                \/ Matching(method)' = Matching(method) \cup {n + 1}
  BY <1>1, <1>2, MatchingGrows
<1>5. PICK mt : mt = auditor.method
  OBVIOUS
<1>6. PICK S : S = Matching(mt)
  OBVIOUS
<1>7. PICK T : T = Matching(mt)'
  OBVIOUS
<1>8. S \in SUBSET (1 .. n) /\ (T = S \/ T = S \cup {n + 1})
  BY <1>4, <1>6, <1>7
<1>9. WalkSound(walk, T)
  BY <1>1, <1>3, <1>5, <1>6, <1>8, WalkKept DEF ViewInv
<1>10. ASSUME auditor.page # NoPage
       PROVE  PageOf(auditor.page, T, Before(auditor.cursors))
  <2>1. PICK c : c = Before(auditor.cursors)
    OBVIOUS
  <2>2. c \in Nat /\ c <= n
    <3>1. /\ auditor.cursors \in Seq(Nat \ {0}) /\ Follows(auditor.cursors, walk)
          /\ WalkSound(walk, S)
      BY <1>1, <1>5, <1>6 DEF ViewInv, Auditors
    <3> QED BY <1>1, <1>3, <1>8, <2>1, <3>1, CursorOfWalk
  <2> QED BY <1>3, <1>5, <1>6, <1>8, <1>10, <2>1, <2>2, PageKept DEF ViewInv
<1>11. ASSUME NEW q \in listings PROVE ListingSound(q)'
  <2>1. ListingSound(q) /\ q \in Listings
    BY DEF ViewInv
  <2>2. q.cursor \in Nat /\ q.cursor <= n
    BY <1>2, <2>1 DEF ListingSound, Listings
  <2>3. PICK U : U = Matching(q.method)
    OBVIOUS
  <2>4. PICK V : V = Matching(q.method)'
    OBVIOUS
  <2>5. U \in SUBSET (1 .. n) /\ (V = U \/ V = U \cup {n + 1})
    BY <1>4, <2>3, <2>4
  <2>6. q.page # NoPage => PageOf(q.page, V, q.cursor)
    BY <1>3, <2>1, <2>2, <2>3, <2>5, PageKept DEF ListingSound
  <2> QED BY <1>3, <2>1, <2>2, <2>4, <2>6 DEF ListingSound
<1> QED BY <1>3, <1>5, <1>7, <1>9, <1>10, <1>11

LEMMA EventSound == ASSUME ViewInv, AuditEvent PROVE ViewInv'
<1>1. PICK x \in Methods \cup {NoMethod} : trail' = Append(trail, x)
  BY DEF AuditEvent
<1>2. UNCHANGED <<auditor, listings, walk>>
  BY DEF AuditEvent
<1> QED BY <1>1, <1>2, TrailGrows DEF ViewInv

LEMMA ListSound == ASSUME ViewInv, NEW q, List(q) PROVE ViewInv'
<1>1. /\ trail' = Append(trail, NoMethod) /\ UNCHANGED <<auditor, walk>>
      /\ q \in listings /\ q \in Listings /\ trail \in Trail
      /\ ListingSound(q)
  BY DEF List, ViewInv
<1>2. q.cursor \in Nat /\ q.cursor <= Len(trail) /\ Len(trail) \in Nat
  BY <1>1 DEF ListingSound, Listings, Trail
<1>3. PICK p \in [items: SUBSET Nat, next: Nat] :
         p = Listed(q.method, q.cursor) /\ PageOf(p, Matching(q.method), q.cursor)
  BY <1>1, <1>2, PageListed
<1>4. PICK r : r = [q EXCEPT !.page = p]
  OBVIOUS
<1>5. /\ r \in Listings /\ r.page = p /\ r.nr = q.nr /\ r.cursor = q.cursor
      /\ r.method = q.method
  <2>1. p \in PagesOfEvents
    BY DEF PagesOfEvents
  <2> QED BY <1>1, <1>4, <2>1 DEF Listings
<1>6. listings' = (listings \ {q}) \cup {r}
  BY <1>3, <1>4 DEF List
<1>7. /\ trail' \in Trail /\ WalkSound(walk, Matching(auditor.method))'
      /\ auditor.page # NoPage =>
            PageOf(auditor.page, Matching(auditor.method), Before(auditor.cursors))'
      /\ \A f \in listings : ListingSound(f)'
  BY <1>1, TrailGrows
<1>8. PICK V : V = Matching(q.method)'
  OBVIOUS
<1>9. /\ Matching(q.method) \in SUBSET (1 .. Len(trail))
      /\ V = Matching(q.method) \/ V = Matching(q.method) \cup {Len(trail) + 1}
      /\ Len(trail') = Len(trail) + 1
  BY <1>1, <1>8, MatchingGrows
<1>10. PageOf(p, V, q.cursor)
  BY <1>2, <1>3, <1>9, PageKept
<1>11. ListingSound(r)'
  <2>1. PageOf(r.page, Matching(r.method)', r.cursor)
    BY <1>5, <1>8, <1>10
  <2> QED BY <1>1, <1>2, <1>5, <1>9, <2>1 DEF ListingSound
<1>12. listings' \subseteq Listings /\ \A f \in listings' : ListingSound(f)'
  BY <1>5, <1>6, <1>7, <1>11 DEF ViewInv
<1> QED BY <1>1, <1>7, <1>12 DEF ViewInv

-----------------------------------------------------------------------------
(* Pages are asked for and arrive *)

LEMMA LoadsSound ==
    ASSUME ViewInv, NEW new \in Auditors, new.nr = auditor.nr, Loads(new),
           \/ walk' = <<>> /\ new.cursors = <<>>
           \/ walk' = walk /\ new.method = auditor.method /\ Follows(new.cursors, walk)
    PROVE  ViewInv'
<1>1. /\ trail' = trail /\ trail \in Trail /\ walk \in Seq(SUBSET Nat)
      /\ auditor \in Auditors /\ auditor.nr \in Nat
      /\ WalkSound(walk, Matching(auditor.method))
  BY DEF ViewInv, Loads, Auditors
<1>2. Len(trail) \in Nat /\ \A method : Matching(method) \in SUBSET (1 .. Len(trail))
  BY <1>1 DEF Trail, Matching
<1>3. PICK n \in Nat : n = auditor.nr + 1
  BY <1>1
<1>4. PICK np : np = NoPage
  OBVIOUS
<1>5. np \in PagesOfEvents
  BY <1>4 DEF PagesOfEvents
<1>6. PICK a : a = [new EXCEPT !.nr = n, !.page = np, !.failed = FALSE]
  OBVIOUS
<1>7. /\ auditor' = a /\ a \in Auditors /\ a.nr = n /\ a.page = np
      /\ a.method = new.method /\ a.cursors = new.cursors
  BY <1>3, <1>4, <1>5, <1>6 DEF Loads, Auditors
<1>8. new.cursors \in Seq(Nat \ {0}) /\ new.method \in Filters
  BY DEF Auditors
<1>9. PICK w : w = walk'
  OBVIOUS
<1>10. PICK S : S = Matching(new.method)
  OBVIOUS
<1>11. w \in Seq(SUBSET Nat) /\ WalkSound(w, S) /\ Follows(new.cursors, w)
  <2>1. CASE walk' = <<>> /\ new.cursors = <<>>
    BY <1>9, <2>1 DEF WalkSound, Follows
  <2>2. CASE walk' = walk /\ new.method = auditor.method /\ Follows(new.cursors, walk)
    BY <1>1, <1>9, <1>10, <2>2
  <2> QED BY <2>1, <2>2
<1>12. PICK c : c = Before(new.cursors)
  OBVIOUS
<1>13. c \in Nat /\ c <= Len(trail)
  BY <1>2, <1>8, <1>10, <1>11, <1>12, CursorOfWalk
<1>14. PICK r : r = [nr |-> n, method |-> new.method, page |-> np, cursor |-> c]
  OBVIOUS
<1>15. /\ r \in Listings /\ r.nr = n /\ r.method = new.method /\ r.page = np /\ r.cursor = c
  BY <1>5, <1>8, <1>13, <1>14 DEF Listings
<1>16. listings' = listings \cup {r}
  BY <1>3, <1>4, <1>12, <1>14 DEF Loads
<1>17. ListingSound(r)'
  BY <1>1, <1>4, <1>7, <1>12, <1>13, <1>15 DEF ListingSound
<1>18. ASSUME NEW q \in listings PROVE ListingSound(q)' /\ q \in Listings
  <2>1. ListingSound(q) /\ q \in Listings
    BY DEF ViewInv
  <2>2. q.nr \in Nat /\ q.nr <= auditor.nr
    BY <2>1 DEF ListingSound, Listings
  <2>3. q.nr <= n /\ q.nr # n
    BY <1>1, <1>3, <2>2
  <2>4. Matching(q.method)' = Matching(q.method)
    BY <1>1 DEF Matching
  <2> QED BY <1>1, <1>7, <2>1, <2>3, <2>4 DEF ListingSound
<1>19. Matching(auditor.method)' = S
  BY <1>1, <1>7, <1>10 DEF Matching
<1>20. WalkSound(walk, Matching(auditor.method))'
  BY <1>9, <1>11, <1>19
<1> QED BY <1>1, <1>4, <1>7, <1>9, <1>11, <1>15, <1>16, <1>17, <1>18, <1>20 DEF ViewInv

LEMMA OpenPanelSound == ASSUME ViewInv, OpenPanel PROVE ViewInv'
<1>1. PICK new : new = [auditor EXCEPT !.open = TRUE]
  OBVIOUS
<1>2. /\ new \in Auditors /\ new.nr = auditor.nr /\ new.method = auditor.method
      /\ new.cursors = auditor.cursors
  BY <1>1 DEF ViewInv, Auditors
<1>3. Loads(new) /\ walk' = walk /\ Follows(auditor.cursors, walk)
  BY <1>1 DEF OpenPanel, ViewInv
<1> QED BY <1>2, <1>3, LoadsSound

LEMMA ChooseSound ==
    ASSUME ViewInv, NEW method \in Filters, ChooseMethod(method) PROVE ViewInv'
<1>1. PICK none : none = <<>>
  OBVIOUS
<1>2. PICK new : new = [auditor EXCEPT !.method = method, !.cursors = none]
  OBVIOUS
<1>3. new \in Auditors /\ new.nr = auditor.nr /\ new.cursors = none
  <2>1. none \in Seq(Nat \ {0})
    BY <1>1
  <2> QED BY <1>2, <2>1 DEF ViewInv, Auditors
<1>4. Loads(new) /\ walk' = <<>>
  BY <1>1, <1>2 DEF ChooseMethod
<1> QED BY <1>1, <1>3, <1>4, LoadsSound

LEMMA LoadAgainSound == ASSUME ViewInv, LoadAgain PROVE ViewInv'
BY LoadsSound DEF LoadAgain, ViewInv

LEMMA PreviousSound == ASSUME ViewInv, PreviousPage PROVE ViewInv'
<1>1. /\ auditor \in Auditors /\ auditor.cursors \in Seq(Nat \ {0}) /\ auditor.cursors # <<>>
      /\ Follows(auditor.cursors, walk)
  BY DEF ViewInv, Auditors, PreviousPage
<1>2. PICK cursors : cursors = Front(auditor.cursors)
  OBVIOUS
<1>3. /\ cursors \in Seq(Nat \ {0}) /\ Len(cursors) = Len(auditor.cursors) - 1
      /\ DOMAIN cursors = 1 .. (Len(auditor.cursors) - 1)
      /\ \A k \in DOMAIN cursors : k \in DOMAIN auditor.cursors /\ cursors[k] = auditor.cursors[k]
  BY <1>1, <1>2 DEF Front
<1>4. Follows(cursors, walk)
  <2>1. walk \in Seq(SUBSET Nat) /\ Len(walk) \in Nat /\ Len(auditor.cursors) \in Nat
    BY <1>1 DEF ViewInv
  <2> QED BY <1>1, <1>3, <2>1 DEF Follows
<1>5. PICK new : new = [auditor EXCEPT !.cursors = cursors]
  OBVIOUS
<1>6. /\ new \in Auditors /\ new.nr = auditor.nr /\ new.method = auditor.method
      /\ new.cursors = cursors
  BY <1>1, <1>3, <1>5 DEF Auditors
<1>7. Loads(new) /\ walk' = walk
  BY <1>2, <1>5 DEF PreviousPage
<1> QED BY <1>4, <1>6, <1>7, LoadsSound

LEMMA NextSound == ASSUME ViewInv, NextPage PROVE ViewInv'
<1>1. /\ auditor \in Auditors /\ auditor.cursors \in Seq(Nat \ {0})
      /\ auditor.page # NoPage /\ auditor.page.next # NoCursor
      /\ Follows(auditor.cursors, walk) /\ OnTop(auditor.page, auditor.cursors, walk)
      /\ PageOf(auditor.page, Matching(auditor.method), Before(auditor.cursors))
  BY DEF ViewInv, Auditors, NextPage
<1>2. PICK p \in [items: SUBSET Nat, next: Nat] : p = auditor.page
  BY <1>1 DEF Auditors, PagesOfEvents
<1>3. PICK x \in Nat \ {0} : x = p.next
  BY <1>1, <1>2 DEF NoCursor
<1>4. x \in p.items /\ \A i \in p.items : x <= i
  BY <1>1, <1>2, <1>3 DEF PageOf, Ends
<1>5. PICK cursors : cursors = Append(auditor.cursors, x)
  OBVIOUS
<1>6. PICK d \in Nat : d = Len(auditor.cursors)
  BY <1>1
<1>7. /\ cursors \in Seq(Nat \ {0}) /\ Len(cursors) = d + 1 /\ DOMAIN cursors = 1 .. (d + 1)
      /\ cursors[d + 1] = x
      /\ \A k \in 1 .. d : k \in DOMAIN auditor.cursors /\ cursors[k] = auditor.cursors[k]
  BY <1>1, <1>5, <1>6
<1>8. Len(walk) = d + 1 /\ walk[d + 1] = p.items
  BY <1>1, <1>2, <1>6 DEF OnTop
<1>9. Follows(cursors, walk)
  <2>1. ASSUME NEW k \in DOMAIN cursors
        PROVE  cursors[k] \in walk[k] /\ \A i \in walk[k] : cursors[k] <= i
    <3>1. CASE k = d + 1
      BY <1>4, <1>7, <1>8, <3>1
    <3>2. CASE k # d + 1
      <4>1. k \in 1 .. d
        BY <1>7, <3>2
      <4> QED BY <1>1, <1>7, <4>1 DEF Follows
    <3> QED BY <3>1, <3>2
  <2> QED BY <1>7, <1>8, <2>1 DEF Follows
<1>10. PICK new : new = [auditor EXCEPT !.cursors = cursors]
  OBVIOUS
<1>11. /\ new \in Auditors /\ new.nr = auditor.nr /\ new.method = auditor.method
       /\ new.cursors = cursors
  BY <1>1, <1>7, <1>10 DEF Auditors
<1>12. Loads(new) /\ walk' = walk
  BY <1>2, <1>3, <1>5, <1>10 DEF NextPage
<1> QED BY <1>9, <1>11, <1>12, LoadsSound

\* Calls are answered or fail: what the others know stays true.
LEMMA FewerListings ==
    ASSUME ViewInv, trail' = trail, listings' \subseteq listings, auditor'.nr = auditor.nr,
           auditor'.method = auditor.method, auditor'.cursors = auditor.cursors
    PROVE  /\ trail' \in Trail /\ listings' \subseteq Listings
           /\ \A q \in listings' : ListingSound(q)'
           /\ \A method : Matching(method)' = Matching(method)
<1>1. \A method : Matching(method)' = Matching(method)
  BY DEF Matching
<1>2. \A q \in listings' : q \in Listings /\ ListingSound(q)
  BY DEF ViewInv
<1> QED BY <1>1, <1>2 DEF ListingSound, ViewInv

LEMMA CloseViewSound == ASSUME ViewInv, ClosePanel PROVE ViewInv'
<1>1. PICK np \in PagesOfEvents : np = NoPage
  BY DEF PagesOfEvents
<1>2. PICK a : a = [auditor EXCEPT !.open = FALSE, !.page = np]
  OBVIOUS
<1>3. /\ a \in Auditors /\ a.nr = auditor.nr /\ a.method = auditor.method
      /\ a.cursors = auditor.cursors /\ a.page = NoPage
  BY <1>1, <1>2 DEF ViewInv, Auditors
<1>4. auditor' = a /\ UNCHANGED <<trail, listings, walk>>
  BY <1>1, <1>2 DEF ClosePanel
<1> QED BY <1>3, <1>4, FewerListings DEF ViewInv

LEMMA FailsSound == ASSUME ViewInv, NEW q, PageFails(q) PROVE ViewInv'
<1>1. UNCHANGED <<trail, walk>> /\ listings' \subseteq listings
  BY DEF PageFails
<1>2. /\ auditor' \in Auditors /\ auditor'.nr = auditor.nr /\ auditor'.method = auditor.method
      /\ auditor'.cursors = auditor.cursors /\ auditor'.page = auditor.page
  <2>1. auditor \in Auditors
    BY DEF ViewInv
  <2>2. CASE auditor' = auditor
    BY <2>1, <2>2
  <2>3. CASE auditor' = [auditor EXCEPT !.failed = TRUE]
    BY <2>1, <2>3 DEF Auditors
  <2> QED BY <2>2, <2>3 DEF PageFails
<1> QED BY <1>1, <1>2, FewerListings DEF ViewInv

LEMMA ArrivesSound == ASSUME ViewInv, NEW q, PageArrives(q) PROVE ViewInv'
<1>1. /\ trail' = trail /\ listings' \subseteq listings /\ q \in listings /\ q.page # NoPage
      /\ q \in Listings /\ ListingSound(q) /\ auditor \in Auditors
  BY DEF PageArrives, ViewInv
<1>2. CASE ~Active(q)
  <2>1. UNCHANGED <<auditor, walk>>
    BY <1>2 DEF PageArrives
  <2> QED BY <1>1, <2>1, FewerListings DEF ViewInv
<1>3. CASE Active(q)
  <2>1. PICK p \in [items: SUBSET Nat, next: Nat] : p = q.page
    BY <1>1 DEF Listings, PagesOfEvents
  <2>2. PICK a : a = [auditor EXCEPT !.page = p]
    OBVIOUS
  <2>3. /\ a \in Auditors /\ a.nr = auditor.nr /\ a.method = auditor.method
        /\ a.cursors = auditor.cursors /\ a.page = p
    <3>1. p \in PagesOfEvents
      BY DEF PagesOfEvents
    <3> QED BY <1>1, <2>2, <3>1 DEF Auditors
  <2>4. /\ auditor' = a
        /\ walk' = Append(SubSeq(walk, 1, Len(auditor.cursors)), p.items)
    BY <1>3, <2>1, <2>2 DEF PageArrives
  <2>5. PICK S : S = Matching(auditor.method)
    OBVIOUS
  <2>6. PICK cursors : cursors = auditor.cursors
    OBVIOUS
  <2>7. PICK w : w = walk
    OBVIOUS
  <2>8. /\ PageOf(p, S, Before(cursors)) /\ cursors \in Seq(Nat \ {0})
        /\ w \in Seq(SUBSET Nat) /\ WalkSound(w, S) /\ Follows(cursors, w)
    BY <1>1, <1>3, <2>1, <2>5, <2>6, <2>7 DEF Active, ListingSound, ViewInv, Auditors
  <2>9. Len(trail) \in Nat /\ S \in SUBSET (1 .. Len(trail))
    BY <2>5 DEF ViewInv, Trail, Matching
  <2>10. PICK v : v = Append(SubSeq(w, 1, Len(cursors)), p.items)
    OBVIOUS
  <2>11. /\ v \in Seq(SUBSET Nat) /\ WalkSound(v, S)
         /\ Follows(cursors, v) /\ OnTop(p, cursors, v)
    BY <2>8, <2>9, <2>10, WalkTurned
  <2>12. /\ walk' = v /\ auditor'.cursors = cursors /\ auditor'.page = p /\ auditor' \in Auditors
         /\ auditor'.method = auditor.method /\ auditor'.nr = auditor.nr
    BY <2>3, <2>4, <2>6, <2>7, <2>10
  <2>13. /\ trail' \in Trail /\ listings' \subseteq Listings
         /\ \A r \in listings' : ListingSound(r)'
         /\ Matching(auditor.method)' = S
    <3>1. /\ trail' \in Trail /\ listings' \subseteq Listings
          /\ \A r \in listings' : ListingSound(r)'
      BY <1>1, <2>6, <2>12, FewerListings
    <3>2. Matching(auditor.method)' = S
      BY <1>1, <2>5, <2>12 DEF Matching
    <3> QED BY <3>1, <3>2
  <2>14. /\ WalkSound(walk, Matching(auditor.method))'
         /\ PageOf(auditor.page, Matching(auditor.method), Before(auditor.cursors))'
         /\ Follows(auditor.cursors, walk)'
         /\ OnTop(auditor.page, auditor.cursors, walk)'
    BY <2>8, <2>11, <2>12, <2>13
  <2> QED BY <2>11, <2>12, <2>13, <2>14 DEF ViewInv
<1> QED BY <1>2, <1>3

LEMMA ViewStep == ViewInv /\ [AuditPanelNext]_auditPanel => ViewInv'
<1> SUFFICES ASSUME ViewInv, [AuditPanelNext]_auditPanel PROVE ViewInv'
  OBVIOUS
<1>1. CASE UNCHANGED auditPanel
  <2>1. UNCHANGED <<trail, auditor, listings, walk>>
    BY <1>1 DEF auditPanel
  <2> QED BY <2>1, FewerListings DEF ViewInv
<1>2. CASE OpenPanel \/ ClosePanel \/ LoadAgain \/ PreviousPage \/ NextPage \/ AuditEvent
  BY <1>2, OpenPanelSound, CloseViewSound, LoadAgainSound, PreviousSound, NextSound, EventSound
<1>3. ASSUME NEW method \in Methods \cup {"all"}, ChooseMethod(method) PROVE ViewInv'
  BY <1>3, ChooseSound DEF Filters
<1>4. ASSUME NEW q \in listings, List(q) \/ PageArrives(q) \/ PageFails(q) PROVE ViewInv'
  BY <1>4, ListSound, ArrivesSound, FailsSound
<1> QED BY <1>1, <1>2, <1>3, <1>4 DEF AuditPanelNext

\* The inductive invariant of the view of the audit: every page is one of what precedes
\* its cursor, cursors are the ends of the pages before, and so are those of open calls.
THEOREM ViewInvariant == AuditPanelSpec => []ViewInv
<1>1. AuditPanelInit => ViewInv
  <2> SUFFICES ASSUME AuditPanelInit PROVE ViewInv
    OBVIOUS
  <2>1. /\ auditor \in Auditors /\ auditor.cursors = <<>> /\ auditor.page = NoPage
    BY DEF AuditPanelInit, Auditors, Filters, PagesOfEvents
  <2>2. trail \in Trail /\ listings = {} /\ walk = <<>> /\ walk \in Seq(SUBSET Nat)
    BY DEF AuditPanelInit, Trail
  <2>3. WalkSound(walk, Matching(auditor.method)) /\ Follows(auditor.cursors, walk)
    BY <2>1, <2>2 DEF WalkSound, Follows
  <2> QED BY <2>1, <2>2, <2>3 DEF ViewInv
<1> QED BY <1>1, ViewStep, PTL DEF AuditPanelSpec

\* The pages that were turned leave nothing out between the newest and the oldest event
\* on them, whatever was added meanwhile, and a last page is the last (PagesComplete).
THEOREM PagesAreComplete == AuditPanelSpec => []PagesComplete
<1>1. ViewInv => PagesComplete
  <2> SUFFICES ASSUME ViewInv PROVE PagesComplete
    OBVIOUS
  <2>1. PICK S : S = Matching(auditor.method)
    OBVIOUS
  <2>2. PICK w \in Seq(SUBSET Nat) : w = walk
    BY DEF ViewInv
  <2>3. PICK seen : seen = UNION Range(w)
    OBVIOUS
  <2>4. /\ WalkSound(w, S) /\ DOMAIN w = 1 .. Len(w) /\ Len(w) \in Nat
        /\ \A i : i \in seen <=> \E k \in DOMAIN w : i \in w[k]
    BY <2>1, <2>2, <2>3 DEF ViewInv, Range
  <2>5. S \subseteq Nat
    BY <2>1 DEF ViewInv, Matching, Trail
  <2>6. /\ \A k, l \in DOMAIN w : k < l => \A i \in w[k], j \in w[l] : j < i
        /\ seen \subseteq S
    BY <2>4 DEF WalkSound
  <2>7. ASSUME NEW i \in S, NEW a \in seen, NEW b \in seen, a <= i, i <= b PROVE i \in seen
    <3>1. PICK k \in 1 .. Len(w), l \in 1 .. Len(w) : a \in w[k] /\ b \in w[l]
      BY <2>4
    <3>2. NothingBetween(w, S, Len(w))
      BY <2>4, <3>1 DEF WalkSound
    <3>3. PICK m \in 1 .. Len(w) : i \in w[m]
      BY <2>7, <3>1, <3>2 DEF NothingBetween
    <3> QED BY <2>4, <3>3
  <2>8. auditor.page # NoPage => auditor.page.items = Last(w)
    BY <2>2 DEF ViewInv, OnTop, Last
  <2>9. ASSUME auditor.page # NoPage, auditor.page.next = NoCursor, seen # {}, NEW i \in S
        PROVE  \E j \in seen : ~(i < j)
    <3>1. PICK cursors : cursors = auditor.cursors
      OBVIOUS
    <3>2. PICK p : p = auditor.page
      OBVIOUS
    <3>3. /\ PageOf(p, S, Before(cursors)) /\ OnTop(p, cursors, w) /\ Follows(cursors, w)
          /\ cursors \in Seq(Nat \ {0})
      BY <2>1, <2>2, <2>9, <3>1, <3>2 DEF ViewInv, Auditors
    <3>4. Len(trail) \in Nat /\ S \in SUBSET (1 .. Len(trail))
      BY <2>1 DEF ViewInv, Trail, Matching
    <3>5. Len(w) \in DOMAIN w /\ p.items = w[Len(w)]
      BY <2>4, <3>3 DEF OnTop
    <3>6. CASE cursors = <<>>
      <4>1. Before(cursors) = NoCursor /\ Len(w) = 1
        BY <3>3, <3>6 DEF Before, OnTop
      <4>2. p.items # {}
        BY <2>4, <2>9, <3>5, <4>1
      <4>3. PICK j \in p.items : j <= i
        BY <2>9, <3>2, <3>3, <4>1, <4>2 DEF PageOf, Ends
      <4>4. j \in seen
        BY <2>4, <3>5, <4>3
      <4>5. j \in Nat /\ i \in Nat
        BY <2>5, <2>6, <4>4
      <4> QED BY <4>3, <4>4, <4>5
    <3>7. CASE cursors # <<>>
      <4>1. PICK c : c = Before(cursors)
        OBVIOUS
      <4>2. c # NoCursor /\ c \in Nat /\ Len(cursors) \in DOMAIN w /\ c \in w[Len(cursors)]
        BY <2>4, <3>3, <3>4, <3>7, <4>1, CursorOfWalk
      <4>3. CASE i < c
        <5>1. i \in p.items
          BY <2>9, <3>2, <3>3, <4>1, <4>2, <4>3 DEF PageOf, Ends
        <5>2. i \in seen /\ ~(i < i)
          BY <2>4, <2>5, <3>5, <5>1
        <5> QED BY <5>2
      <4>4. CASE ~(i < c)
        BY <2>4, <4>2, <4>4
      <4> QED BY <4>3, <4>4
    <3> QED BY <3>6, <3>7
  <2> QED BY <2>1, <2>2, <2>3, <2>6, <2>7, <2>8, <2>9 DEF PagesComplete
<1> QED BY <1>1, ViewInvariant, PTL
-----------------------------------------------------------------------------
(* All screens *)

\* The kiosk's page and its PIN form, the dialog for somebody's PIN and the view of the
\* audit show nothing that is out of date, however their answers are late, lost or
\* overtaken (ScreenCurrent).
THEOREM ScreensAreCurrent ==
    KioskSpec /\ PanelSpec /\ DialogSpec /\ AuditPanelSpec => []ScreenCurrent
<1>1. CodeOnScreenCurrent /\ NoStrangerShown /\ OneTimePinsKept /\ PagesComplete
        => ScreenCurrent
  BY DEF ScreenCurrent
<1> QED BY <1>1, CodeOnScreenIsCurrent, NobodyElseIsShown, OneTimePinsAreKept,
           PagesAreComplete, PTL
=============================================================================
