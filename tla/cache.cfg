SPECIFICATION FairCacheSpec
CONSTANTS
    i1 = i1  i2 = i2  e1 = e1
    Ids = {i1, i2}
    Emails = {e1}
    NilId = NilId
    NoEmail = NoEmail
    Cap = 1
    Outages = TRUE
    Traffic <- MCTraffic
    MaxTraffic = 3
INVARIANTS CacheTypeOK InOrderPerType EachEventOnce
PROPERTIES ProcessorStops ImplementsFeed EventsSettle
CHECK_DEADLOCK FALSE
