--------------------------- MODULE MCTerminalAuth ---------------------------
(***************************************************************************)
(* Small instances of TerminalAuth in two parts of one state graph: in one,*)
(* identifications race for the attempts at a PIN; in the other, all that  *)
(* withdraws a permission happens to one terminal, whose devices follow    *)
(* each other.  Devices, and identifications in flight, are                *)
(* interchangeable.                                                        *)
(***************************************************************************)
EXTENDS TerminalAuth, TLC

CONSTANTS t1, d1, d2, e1, c1, c2, none

VARIABLE part

MCvars == <<vars, part>>

OneTerminal == [d \in Devices |-> t1]

Symmetry == Permutations({d1, d2}) \cup Permutations({c1, c2})

Busy == {c \in Clients : call[c] # Idle}

\* Next, of which a part does only what it is about.
PartNext ==
    \/ \E c \in Clients :
         \/ (part = "attempts" \/ Busy = {}) /\ BeginIdentify(c)
         \/ Accept(c) \/ Refuse(c) \/ Abort(c)
    \/ \E g \in DOMAIN grants, action \in Action : Book(g, action)
    \/ \E e \in Employees :
         ResetPin(e) \/ (part = "attempts" /\ UnlockPin(e))
           \/ (part = "grants" /\ (RevokePin(e) \/ SetActive(e)))
    \/ \E d \in Devices :
         IssueChallenge(d) \/ (part = "grants" /\ (RevokeDevice(d) \/ Pair(d)))
    \/ part = "grants" /\ \E t \in Terminals : Configure(t)
    \/ Tick

InPart ==
    IF part = "attempts"
    THEN credentials'[e1].version <= 2
    ELSE now' <= 2 /\ Len(grants') <= 1 /\ credentials'[e1].version + terminals'[t1].version <= 3

MCInit ==
    /\ Init /\ part \in {"attempts", "grants"}
    /\ part = "attempts" => \E d \in Devices : devices[d] = "Paired"
MCNext == PartNext /\ InPart /\ UNCHANGED part
MCSpec == MCInit /\ [][MCNext]_MCvars
=============================================================================
