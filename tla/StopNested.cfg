SPECIFICATION FairSpec
CONSTANTS
    Apps = {a}
    NoApp = NoApp
    Period = 1
    MaxTime = 2
    HourLength = 2
    SqlErrors = FALSE
    LocaltimeRaces = FALSE
    Spurious = FALSE
    Signals = {int, term}
    HandlerThreads = {"main"}
PROPERTIES
    StopEndsLoop
CHECK_DEADLOCK FALSE
