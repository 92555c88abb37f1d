SPECIFICATION GatewaySpec
CONSTANTS
    i1 = i1  i2 = i2
    e1 = e1  e2 = e2
    h1 = h1  h2 = h2  w1 = w1
    Ids = {i1}
    Emails = {e1}
    NilId = NilId
    NoEmail = NoEmail
    Calls = {h1, w1}
    Http = {h1}
    Offered = {"create", "getByID", "update", "delete"}
INVARIANTS GatewayTypeOK RefusedChangedNothing SuccessIsCommitted OnlyForceCutsHttp
PROPERTIES EveryCallIsAnswered SignalStopsIt
CHECK_DEADLOCK FALSE
