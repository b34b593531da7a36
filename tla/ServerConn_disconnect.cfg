SPECIFICATION Spec
CONSTANTS
    MaxAddresses = 2
    MaxDelay = 2
INVARIANT DisconnectIsFinal
