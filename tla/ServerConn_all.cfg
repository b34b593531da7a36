SPECIFICATION FairSpec
CONSTANTS
    MaxAddresses = 2
    MaxDelay = 2
INVARIANTS
    Agreement
    FinalWhenCalm
    NoRetryOfUserAttempt
    NoHurry
PROPERTIES
    ListIsConsumed
    Retried
