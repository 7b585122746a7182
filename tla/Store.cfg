SPECIFICATION FairSpec
CONSTANTS
    Apps = {a, b}
    NoApp = NoApp
    Time <- MCTime
    HourLength = 2
    QueueBound = 2
    SqlErrors = TRUE
    LocaltimeRaces = TRUE
INVARIANTS
    TypeOK
    NoOverlap
    Attribution
    RowsWithinHour
    Recorded
PROPERTIES
    ImplementsActivityLog
    Drains
CHECK_DEADLOCK FALSE
