SPECIFICATION Spec
CONSTANTS
    Words <- MCWords
    MaxWords = 6
    Patterns <- MCPatterns
    Histories <- MCHistories
    Now <- AMonday
INVARIANT
    LastLinesRecalled
CHECK_DEADLOCK FALSE
