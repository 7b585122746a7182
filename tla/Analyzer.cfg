SPECIFICATION Spec
CONSTANTS
    Files = {"data", "other"}
    DefaultFile = "data"
    Entries <- MCEntries
    Texts <- MCTexts
    Filters <- MCFilters
    Expressions <- MCExpressions
    Ranges <- MCRanges
    Policies <- MCPolicies
    ReadErrors = TRUE
INVARIANTS
    TypeOK
    TotalsAddUp
    ViewFollowsFile
    PieIsWhole
    ClicksAreSafe
    DaysCounted
    RangesPartition
PROPERTIES
    ChartsShowTheView
