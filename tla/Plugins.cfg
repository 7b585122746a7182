SPECIFICATION Spec
CONSTANTS
    Paths <- MCPaths
    Names <- MCNames
    Ranks = {0, 2}
    NoRank = NoRank
    AppLen = 1
    TitleLen = 3
INVARIANTS
    TypeOK
    FirstPathWins
    SuspensionFirst
    HigherRankFirst
