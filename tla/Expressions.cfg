SPECIFICATION Spec
CONSTANTS
    MaxInt = 42
    Characters <- MCCharacters
    Alphabet <- MCAlphabet
    ShortLength = 4
    Core <- MCCore
    LongLength = 7
    Variables <- MCVariables
    Dates <- MCDates
INVARIANTS
    TypeOK
    ReadsBack
    GrammarIsParsed
    OperandsInOrder
    UnbalancedNeverQueried
    SqlMeansTheSame
CHECK_DEADLOCK FALSE
