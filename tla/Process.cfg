SPECIFICATION FairSpec
CONSTANTS
    Apps = {a}
    NoApp = NoApp
    Period = 1
    MaxTime = 3
    HourLength = 2
    SqlErrors = FALSE
    LocaltimeRaces = FALSE
    Spurious = FALSE
    Signals = {int, term}
    HandlerThreads = {"main", "loop", "worker"}
INVARIANTS
    TypeOK
    StoreOutlivesLoop
PROPERTIES
    UsesStoreAsSpecified
    StopEndsOrIsStuck
CHECK_DEADLOCK FALSE
