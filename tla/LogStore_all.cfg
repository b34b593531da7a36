SPECIFICATION FairSpec
CONSTANTS
    MaxLines = 2
    MaxDay = 2
    MaxFailures = 1
    LogBufferLen = 1
    Sizes = {0, 1}
    ClockMayRepeat = FALSE
INVARIANTS
    FiledByDay
    FilesInOrder
    EveryLineAccounted
    LinksFresh
PROPERTIES
    EventuallyLogged
CHECK_DEADLOCK FALSE
