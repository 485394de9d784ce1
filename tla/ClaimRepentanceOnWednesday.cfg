INIT StatementsInit
NEXT StatementsNext
CONSTANTS
    Minute = 720
    Day = 4320
    Queries <- Calendars
INVARIANTS
    RepentanceOnWednesday
CHECK_DEADLOCK FALSE
