SPECIFICATION MCSpec
CONSTANTS
    t1 = t1
    t2 = t2
    u1 = u1
    u2 = u2
    r1 = r1
    s1 = s1
    s2 = s2
    Nothing = Nothing
    Unknown = Unknown
    Tabs = {t1, t2}
    Users = {u1, u2}
    Requests = {r1}
    MaxTokens = 3
    MaxReloads = 1
    MaxWaiting = 6
    Slots = {s1, s2}
    Followed = {"time-entries", "project-assignments"}
INVARIANTS
    OnceOnly
    TabsAgree
    OwnWritesSeen
    PagesServed
SYMMETRY Symmetry
CHECK_DEADLOCK FALSE
