SPECIFICATION FairSpec
CONSTANTS
    Apps = {a, b}
    NoApp = NoApp
    Callers = {c1, c2}
    Period = 1
    MaxTime = 6
    Spurious = FALSE
INVARIANTS
    TypeOK
    StopIsPrompt
PROPERTIES
    SamplesFollow
    StopEnds
CHECK_DEADLOCK FALSE
