SPECIFICATION Spec
CONSTANTS
    BufferLen = 2
    Lengths = {1, 3}
    MaxTyped = 2
    MaxTraffic = 3
    MaxConnections = 2
INVARIANTS
    TypeOK
    SameLinesHoweverRead
    SentInOrder
PROPERTIES
    Delivered
