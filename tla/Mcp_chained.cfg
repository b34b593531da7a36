SPECIFICATION ChainedSpec
CONSTANTS
    MaxConnects = 1
    MaxClients = 2
    MaxResets = 1
    NULL = NULL
INVARIANTS
    NeverStuck
CHECK_DEADLOCK FALSE
