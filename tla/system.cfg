SPECIFICATION SystemSpec
CONSTANTS
    i1 = i1  i2 = i2  i3 = i3
    e1 = e1  e2 = e2
    c0 = c0  c1 = c1  c2 = c2  c3 = c3
    Ids = {i1}
    Emails = {e1}
    NilId = NilId
    NoEmail = NoEmail
    Calls = {c0, c1, c2}
    NoCall = NoCall
    Loader = c0
    Ops = {"getByID", "update"}
    Seeded = {i1}
    DbMayFail = FALSE
    MaxExits = 1
    Cap = 1
    Outages = TRUE
    Traffic = {}
    MaxTraffic = 0
SYMMETRY Symmetry
INVARIANTS CacheIsAuthentic
CHECK_DEADLOCK FALSE
