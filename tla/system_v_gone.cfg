SPECIFICATION SystemSpec
CONSTANTS
    i1 = i1  i2 = i2  i3 = i3
    e1 = e1  e2 = e2
    c0 = c0  c1 = c1  c2 = c2  c3 = c3
    Ids = {i1, i2}
    Emails = {e1, e2}
    NilId = NilId
    NoEmail = NoEmail
    Calls = {c0, c1, c2}
    NoCall = NoCall
    Loader = c0
    Ops = {"update", "delete"}
    Seeded = {i1}
    DbMayFail = FALSE
    MaxExits = 0
    Cap = 2
    Outages = FALSE
    Traffic = {}
    MaxTraffic = 0
SYMMETRY Symmetry
INVARIANTS DeletedStaysGone
CHECK_DEADLOCK FALSE
