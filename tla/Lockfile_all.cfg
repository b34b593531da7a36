SPECIFICATION Spec
CONSTANTS
    Instances = {i1, i2, i3, i4}
    NULL = NULL
INVARIANTS
    OneInstance
CHECK_DEADLOCK FALSE
