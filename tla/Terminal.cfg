SPECIFICATION MCSpec
CONSTANTS
    t1 = t1
    d1 = d1
    d2 = d2
    e1 = e1
    c1 = c1
    c2 = c2
    none = none
    Employees = {e1}
    Terminals = {t1}
    Devices = {d1, d2}
    TerminalOf <- OneTerminal
    None = none
    Clients = {c1, c2}
    Operations = {"Reset", "Unlock", "Revoke", "SetActive", "Configure", "RevokeDevice", "Pair"}
    MaxFailures = 2
    ChallengeTtl = 2
    GrantTtl = 1
    Window = 2
    Horizon = 3
    MaxTickets = 2
    MaxChanges = 2
INVARIANTS
    WithdrawnNeverBooks
    ReceiptsTruthful
PROPERTIES
    FailuresFair
SYMMETRY Symmetry
CHECK_DEADLOCK FALSE
