SPECIFICATION FairSpec
CONSTANTS
    MaxLines = 2
    MaxSessions = 2
    MaxNotes = 1
    MaxTyped = 1
    MaxCorrect = 2
    TxBufferLen = 1
    BufferSize = 2
    ContextLines = 1
    AceLines = 1
    ServerBatches <- TwoLineReads
    ClientBatches <- AllCommands
INVARIANTS
    ArrivalOrder
    QueueKinds
    NoSilentLoss
    SessionInOrder
    WithinBuffer
    BufferedOnlyWhileAway
PROPERTIES
    KeepsPromise
    LossIsCounted
    EventuallyShown
    EventuallyPromoted
