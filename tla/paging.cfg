SPECIFICATION Spec
CONSTANTS
    Users = {1, 2, 3, 4}
    Requested <- MCRequested
    From <- MCFrom
    MaxLimit = 4
    GatewayLimit = 2
    ClientLimit = 3
INVARIANTS NobodySkipped NobodyTwice CountIsRight PanicNeedsCache
CHECK_DEADLOCK FALSE
