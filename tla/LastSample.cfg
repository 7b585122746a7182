SPECIFICATION Spec
CONSTANTS
    Apps = {a}
    NoApp = NoApp
    Period = 1
    MaxTime = 2
    HourLength = 2
    SqlErrors = FALSE
    LocaltimeRaces = FALSE
    Spurious = FALSE
    Signals = {int}
    HandlerThreads = {"main"}
INVARIANTS
    NothingLeftBehind
CHECK_DEADLOCK FALSE
