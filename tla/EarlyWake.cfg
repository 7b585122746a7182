SPECIFICATION Spec
CONSTANTS
    Apps = {a, b}
    NoApp = NoApp
    Period = 1
    MaxTime = 3
    HourLength = 3
    SqlErrors = FALSE
    LocaltimeRaces = FALSE
    Spurious = TRUE
    Signals = {}
    HandlerThreads = {}
INVARIANTS
    NoSecondTwice
CHECK_DEADLOCK FALSE
