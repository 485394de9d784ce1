SPECIFICATION MCSpec
CONSTANTS
    e1 = e1
    e2 = e2
    c1 = c1
    c2 = c2
    s1 = s1
    Nobody = Nobody
    Employees = {e1, e2}
    Clients = {c1, c2}
    Sockets = {s1}
    Operations = {"Bootstrap", "Login", "Refresh", "ChangePassword", "SetPassword", "Update", "Create", "ChangeMode", "Save", "Recover"}
    Watched = {"Bootstrap", "Create", "Login", "SetPassword", "Update", "ChangeMode", "Recover"}
    MaxHashes = 3
    WatchedHashes = 2
    MaxChanges = 2
INVARIANTS
    AdminRemains
    SessionsKnowPassword
    NoLeakedConnection
PROPERTIES
    NoPasswordOverwritten
    ToldOnlyEntitled
    ConnectionsEnd
CHECK_DEADLOCK FALSE
