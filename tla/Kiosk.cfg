SPECIFICATION MCSpec
CONSTANTS
    t1 = t1
    e1 = e1
    c1 = c1
    c2 = c2
    Terminals = {t1}
    Phones = {e1}
    Callers = {c1, c2}
    Zones = {0, 1}
    Day = 2
    CodeTtl = 1
    ShowTtl = 1
    Minute = 1
    Budget = 1
    LastInstant = 1
    MaxDevices = 2
    MaxCodes = 2
    MaxShown = 2
    MaxConfigs = 3
    w1 = w1
    w2 = w2
    Writers = {w1, w2}
    KeyVersions = 2
    MaxEvents = 3
    MaxRestores = 1
    d1 = d1
    d2 = d2
    Kiosks = {d1, d2}
    n1 = n1
    n2 = n2
    n3 = n3
    Peers = {n1, n2, n3}
    WindowLength = 3
    BurstLength = 1
    DeviceLimit = 2
    TerminalLimit = 3
    BurstLimit = 1
    PeerLimit = 1
    MaxBuckets = 3
    LastTick = 5
    MaxRequests = 5
    k1 = k1
    k2 = k2
    NoToken = NoToken
    Tokens = {k1, k2}
    MaxInFlight = 2
    MaxOutages = 2
    p1 = p1
    p2 = p2
    NoOne = NoOne
    People = {p1, p2}
    MaxEpochs = 5
    MaxVersions = 1
    h1 = h1
    h2 = h2
    Holders = {h1, h2}
    NoHolder = NoHolder
    MaxDialogEpochs = 4
    MaxPins = 2
    PageSize = 1
    MaxTrail = 4
    MaxLoads = 3
INVARIANTS
    OneDisplay
    AuditTrustworthy
    BudgetsExact
    ScreenCurrent
PROPERTIES
    DeadDisplayNeverBooks
    FailureIsCertain
    RevocationNoticed
CHECK_DEADLOCK FALSE
