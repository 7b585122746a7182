SPECIFICATION Spec
CONSTANTS
    Pids <- MCPids
    Platforms = {"posix", "windows"}
    Rows = {r}
    Initially = {"missing", "garbage", "notable", "table"}
    FileErrors = TRUE
INVARIANTS
    TypeOK
    OneAtTheFile
    LateComersYield
    StopAimsAtDaemon
    TableWhileOpen
    NobodyWaits
PROPERTIES
    RowsKept
CHECK_DEADLOCK FALSE
