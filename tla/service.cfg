SPECIFICATION Spec
CONSTANTS
    i1 = i1  i2 = i2  i3 = i3
    e1 = e1  e2 = e2
    c1 = c1  c2 = c2  c3 = c3
    Ids = {i1, i2}
    Emails = {e1, e2}
    NilId = NilId
    NoEmail = NoEmail
    Calls = {c1, c2}
    NoCall = NoCall
    Ops = {"create", "getByID", "getByEmail", "list", "listAll", "update", "delete"}
    Seeded = {i1}
    DbMayFail = TRUE
    MaxExits = 1
SYMMETRY Symmetry
INVARIANTS TypeOK UniqueLiveEmails ToldIsCommitted NotFoundIsFinal AnnouncedOnce UpdatesInCommitOrder UpdatesWithoutGaps
PROPERTIES DeletedIsFinal ImplementsDirectory
CHECK_DEADLOCK FALSE
