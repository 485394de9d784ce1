--------------------------- MODULE MCTimeEntries ---------------------------
(***************************************************************************)
(* Small instances of TimeEntries, each a part of one state graph: which   *)
(* operations are used, for whom, by how many requests at a time, on how   *)
(* many rows and revisions, and until when.  Requests in flight are        *)
(* interchangeable.                                                        *)
(***************************************************************************)
EXTENDS TimeEntriesLedger, TLC

CONSTANTS e1, e2, c1, c2, p1, none,
          InUse      \* the parts a run explores

VARIABLE part

MCvars == <<vars, part>>

ClientSymmetry == Permutations({c1, c2})

EarlyShift == {<<0, 2>>}

Use(ops, staff, clients, rows, revs, end) ==
    [ops |-> ops, staff |-> staff, clients |-> clients, rows |-> rows, revs |-> revs, end |-> end]

Parts ==
    [timers |-> Use({"ClockIn", "ClockOut", "Switch", "Update", "Terminal", "SetArchived"},
                    {e1}, 2, 2, 1, 2),
     turns |-> Use({"ClockIn", "ClockOut", "Switch", "Terminal", "ChangeMode", "SetArchived"},
                   {e1}, 2, 2, 1, 2),
     solo |-> Use({"ClockIn", "ClockOut", "Split", "Correct", "Void", "ChangeMode"},
                  {e1}, 2, 2, 2, 2),
     modes |-> Use({"ClockIn", "Update", "Terminal", "ChangeMode", "SetActive"},
                   {e1, e2}, 2, 2, 1, 2),
     team |-> Use({"ClockIn", "ClockOut", "Split", "RangeBook", "Approve"}, {e1}, 1, 3, 2, 4),
     blocks |-> Use({"ClockIn", "ClockOut", "DailyBlock", "Correct", "Void", "Split", "Manual",
                     "Switch", "ChangeMode"}, {e1}, 1, 2, 2, 3)]

\* The step stays within its part; targets matter in some of them only.
InPart ==
    LET use == Parts[part]
        busy == {c \in Clients : call'[c] # Idle}
    IN  /\ Cardinality(busy) <= use.clients /\ now' <= use.end
        /\ \A c \in busy : call'[c].op \in use.ops /\ call'[c].emp \in use.staff
        /\ Len(entries') <= use.rows
        /\ \A i \in DOMAIN entries' :
              /\ entries'[i].rev <= use.revs /\ entries'[i].emp \in use.staff
              /\ part \in {"timers", "turns", "team"} \/ entries'[i].target = NoTarget
        /\ entries' # entries /\ call' = call => "Terminal" \in use.ops
        /\ active' # active => "SetActive" \in use.ops
        /\ archived' # archived => "SetArchived" \in use.ops

MCInit ==
    /\ Init /\ part \in InUse
    /\ part \in {"timers", "turns", "solo"} => mode = "Solo"
    /\ part = "team" => mode = "Team"

MCNext == Next /\ InPart /\ UNCHANGED part

MCSpec == MCInit /\ [][MCNext]_MCvars
=============================================================================
