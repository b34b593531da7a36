SPECIFICATION FairSpec
CONSTANTS
    MaxConnects = 3
    MaxClients = 4
    MaxResets = 1
    NULL = NULL
INVARIANTS
    NeverStuck
    KeyIsServers
PROPERTIES
    SessionSetUp
CHECK_DEADLOCK FALSE
