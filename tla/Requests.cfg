SPECIFICATION MCSpec
CONSTANTS
    anna = anna
    erik = erik
    marc = marc
    hannah = hannah
    nobody = nobody
    c1 = c1
    c2 = c2
    Employees = {anna, erik, marc, hannah}
    Requesters = {anna}
    Managers = {marc}
    HRAdmins = {hannah}
    ManagerOf <- Org
    Nobody = nobody
    Types = {"Vacation", "HomeOffice", "TimeAdjustment"}
    Periods <- TwoPeriods
    Entitlement = 3
    Clients = {c1, c2}
    Instants = {1}
    MaxRequests = 2
    InUse = {"leave", "corrections"}
INVARIANTS
    SubstituteConfirmed
    InboxExact
    TwoStageApproval
    ApprovedIsBooked
    CountedOnce
SYMMETRY ClientSymmetry
CHECK_DEADLOCK FALSE
