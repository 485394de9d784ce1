SPECIFICATION MCSpec
CONSTANTS
    e1 = e1
    e2 = e2
    c1 = c1
    c2 = c2
    p1 = p1
    none = none
    Employees = {e1, e2}
    Admins = {e1}
    Targets = {p1}
    NoTarget = none
    Clients = {c1, c2}
    Operations = {"ClockIn", "ClockOut", "DailyBlock", "Update", "Split", "RangeBook",
                  "Manual", "Correct", "Void", "Switch", "Approve", "ChangeMode",
                  "Terminal", "SetActive", "SetArchived"}
    BootModes = {"Solo", "Team"}
    Adjustments <- EarlyShift
    DayLen = 3
    FrameStart = 1
    FrameEnd = 2
    BlockLen = 1
    UniqueOpenIndex = TRUE
    Horizon = 2
    MaxRows = 2
    MaxRev = 2
    InUse = {"modes"}
INVARIANTS
    TimersFollowMode
CHECK_DEADLOCK FALSE
