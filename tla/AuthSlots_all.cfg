SPECIFICATION FairSpec
CONSTANTS
    Strings = {"hay", "moon"}
    ConfigHash = "moon"
    Addresses = {"home", "work"}
    MaxAuthConn = 2
    PrivRes = 1
    MaxPrivAddrs = 1
    BucketSize = 1
    TokensPerSec = 1
    MaxConns = 4
    MaxSeconds = 1
    MaxChanges = 1
INVARIANTS OwnBuffer NoMisjudgement RateLimited
PROPERTIES CorrectIsPromoted ReservedSlots Answered
