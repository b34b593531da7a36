SPECIFICATION Spec
CONSTANTS
    MaxLines = 1
    MaxDay = 2
    MaxFailures = 0
    LogBufferLen = 2
    Sizes = {4}
    ClockMayRepeat = FALSE
INVARIANTS CleanShutdownLosesNothing
CHECK_DEADLOCK FALSE
