SPECIFICATION Spec
CONSTANTS
    a = a  b = b
    Clients = {a, b}
    NoClient = NoClient
    Events = 2
    TypeOf <- MCTypeOf
    SendCap = 1
    BroadcastCap = 1
    FeedCap = 2
    MaxRequests = 1
SYMMETRY Symmetry
INVARIANTS TypeOK HubNeverPanics ClosedIsDropped FanOutIsRegistered PushedOncePerFeed
CHECK_DEADLOCK FALSE
