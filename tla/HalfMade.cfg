SPECIFICATION Spec
CONSTANTS
    Pids <- MCOnePid
    Platforms = {"posix"}
    Rows = {r}
    Initially = {"missing"}
    FileErrors = FALSE
INVARIANTS
    StartsAgain
CHECK_DEADLOCK FALSE
