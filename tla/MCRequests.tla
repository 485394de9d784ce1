---------------------------- MODULE MCRequests ----------------------------
(***************************************************************************)
(* Small instances of Requests, each a part of one state graph: what is    *)
(* filed, and how often.  anna and erik are employees of the manager marc, *)
(* hannah is HR.  Calls in flight are interchangeable.                     *)
(***************************************************************************)
EXTENDS Requests, TLC

CONSTANTS anna, erik, marc, hannah, nobody, c1, c2,
          InUse      \* the parts a run explores

VARIABLE part

MCvars == <<vars, part>>

Org == [e \in Employees |-> CASE e \in {anna, erik} -> marc
                              [] e = marc -> hannah
                              [] OTHER -> nobody]

ClientSymmetry == Permutations({c1, c2})

\* Days of leave, or instants of working time, that have one in common.
TwoPeriods == {<<0, 2>>, <<1, 2>>}

Parts ==
    [leave |-> [types |-> {"Vacation", "HomeOffice"}, rows |-> 1],
     vacations |-> [types |-> {"Vacation"}, rows |-> 2],
     corrections |-> [types |-> {"TimeAdjustment"}, rows |-> 2]]

InPart ==
    /\ \A c \in Clients : call'[c].op = "File" => call'[c].row.type \in Parts[part].types
    /\ Len(requests') <= Parts[part].rows

\* Next, of which a part tries only what it uses.
PartNext ==
    \/ \E c \in Clients :
         \/ part # "corrections" /\ BeginVacation(c)
         \/ BeginOther(c) \/ BeginTransition(c) \/ BeginDirect(c) \/ CommitStep(c) \/ Abort(c)
    \/ part = "corrections" /\ \E e \in Requesters : Attend(e)

MCInit == Init /\ part \in InUse
MCNext == PartNext /\ InPart /\ UNCHANGED part
MCSpec == MCInit /\ [][MCNext]_MCvars
=============================================================================
