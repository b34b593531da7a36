SPECIFICATION Spec
CONSTANTS
    Words <- MCWords
    MaxWords = 6
    Patterns <- MCPatterns
    Histories <- MCHistories
    Now <- AMonday
INVARIANTS
    RecalledAsAsked
    SearchAsDocumented
PROPERTIES
    WeekdayInWeek
    Ends
CHECK_DEADLOCK FALSE
