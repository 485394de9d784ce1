SPECIFICATION MCSpec
CONSTANTS
    Minute = 720
    Day = 4320
    Queries <- MCQueries
    k1 = k1
    k2 = k2
    p1 = p1
    o1 = o1
    o2 = o2
    anna = anna
    noref = noref
    CustomerIds = {k1, k2}
    ProjectIds = {p1}
    OrderIds = {o1, o2}
    Staff = {anna}
    Owner = anna
    NoRef = noref
    Plans = {1}
    MaxBookings = 1
    c1 = c1
    c2 = c2
    d1 = d1
    d2 = d2
    Callers = {c1, c2}
    DayIds = {d1, d2}
    LastDay = 1
    MaxPolicies = 2
    MaxRevision = 1
    w1 = w1
    w2 = w2
    Workers = {w1, w2}
    HRPeople = {}
    BossOf <- BossOfAll
    h1 = h1
    h2 = h2
    Handlers = {h1, h2}
    a1 = a1
    a2 = a2
    AbsenceIds = {a1, a2}
    s1 = s1
    s2 = s2
    ScheduleIds = {s1, s2}
    f1 = f1
    f2 = f2
    FileIds = {f1, f2}
    Nothing = nothing
    nothing = nothing
    LastDate = 1
    Reasons = {"corrected"}
INVARIANTS
    AccountsByDay
    StatementsAgree
    BlockPaysItsTarget
    ProjectBooksSound
    RecordsSound
PROPERTIES
    HistoryIsFinal
SYMMETRY Symmetric
CHECK_DEADLOCK FALSE
