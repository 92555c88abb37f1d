SPECIFICATION FairSpec
CONSTANTS
    a = a  b = b
    Clients = {a}
    NoClient = NoClient
    Events = 2
    TypeOf <- MCTypeOf
    SendCap = 2
    BroadcastCap = 1
    FeedCap = 1
    MaxRequests = 3
INVARIANTS AtMostOneLatePush
PROPERTIES HubNeverBlocks BrokenIsReaped EventFreesReader
CHECK_DEADLOCK FALSE
