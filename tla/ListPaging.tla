------------------------------ MODULE ListPaging -------------------------------
(***************************************************************************)
(* Reading a list of users page by page while users come and go: through   *)
(* HTTP, a WebSocket or the Go client, from the query of the service or    *)
(* from the cache of a client that has loaded it completely.               *)
(*                                                                         *)
(* Users are numbered in the order of their created_at.  With a status     *)
(* filter an update can also put an old user on the list, so that any user *)
(* may come at any time.  The cache is taken to be in step with the table: *)
(* what it misses is the business of UserCache and UserSystem.             *)
(***************************************************************************)
EXTENDS Integers, FiniteSets, FiniteSetsExt, Sequences

CONSTANTS
    Users,      \* the users there can be
    Requested,  \* the limits asked for
    From,       \* the offsets asked for
    MaxLimit,   \* the largest limit a validator accepts
    GatewayLimit, \* the gateway's limit for a request without one
    ClientLimit \* and the client's

ASSUME PagingAssumption ==
    /\ Users \subseteq Nat /\ IsFiniteSet(Users)
    /\ Requested \subseteq Int /\ From \subseteq Int
    /\ {GatewayLimit, ClientLimit} \subseteq 1 .. MaxLimit

VARIABLES
    listed,     \* the users on the list
    cached,     \* whether the client serves lists from its cache
    door,       \* how the reader asks
    limit,      \* its limit,
    first,      \*  the offset of its first page,
    offset,     \*  and of the next one
    pages,      \* the pages read
    state,      \* of the reader
    came,       \* history: the users that came after the first page,
    went        \*  and whether any went

vars == <<listed, cached, door, limit, first, offset, pages, state, came, went>>

Init ==
    /\ listed \in SUBSET Users
    /\ cached \in BOOLEAN
    /\ door \in {"http", "ws", "go"}
    /\ limit \in Requested
    /\ first \in From /\ offset = first
    /\ pages = <<>>
    /\ state = "reading"
    /\ came = {} /\ went = FALSE

-------------------------------------------------------------------------------
(* One page.                                                                *)

\* The validators of the HTTP handler and of the service.
Fit(n, start) == n \in 1 .. MaxLimit /\ start >= 0

\* The limit that reaches the client, and the one it asks with.
Passed == IF door = "ws" /\ limit = 0 THEN GatewayLimit ELSE limit
Limit == IF Passed = 0 THEN ClientLimit ELSE Passed

Position(u) == Cardinality({v \in listed : v >= u})
\* Slips: a page that takes in the last user of the one before, or leaves its own out.
SliceInclusive(n, start) == {u \in listed : Position(u) \in start .. start + n}
SliceShort(n, start) == {u \in listed : Position(u) \in start + 1 .. start + n - 1}
\* ORDER BY created_at DESC LIMIT n OFFSET start
Slice(n, start) == {u \in listed : Position(u) \in start + 1 .. start + n}

Minimum(a, b) == IF a < b THEN a ELSE b

\* Slips in cache.list: the end of a slice is not cut to the size; it is one off.
CacheSlicesUncut(n, start) ==
    IF n = 0 THEN {listed}
    ELSE IF start >= Cardinality(listed) THEN {{}}
    ELSE IF start < 0 \/ n < 0 \/ start + n > Cardinality(listed) THEN {}
    ELSE kSubset(n, listed)

CacheSlicesShort(n, start) ==
    LET size == Cardinality(listed)
        end == Minimum(start + n, size - 1)
    IN  IF n = 0 THEN {listed}
        ELSE IF start >= size THEN {{}}
        ELSE IF start < 0 \/ end < start THEN {}
        ELSE kSubset(end - start, listed)

\* cache.list: a slice of the users in the order in which the map happened to
\* give them this time.  None where slicing panics.
CacheSlices(n, start) ==
    LET size == Cardinality(listed)
        end == Minimum(start + n, size)
    IN  IF n = 0 THEN {listed}
        ELSE IF start >= size THEN {{}}
        ELSE IF start < 0 \/ end < start THEN {}
        ELSE kSubset(end - start, listed)

Refused ==
    \/ door = "http" /\ ~Fit(limit, offset)
    \/ ~cached /\ ~Fit(Limit, offset)

Answers == IF cached THEN CacheSlices(Limit, offset) ELSE {Slice(Limit, offset)}

Stop(how) ==
    /\ state' = how
    /\ UNCHANGED <<listed, cached, door, limit, first, offset, pages, came, went>>

\* The reader goes on to the next page, until one is not full.
Read ==
    /\ state = "reading"
    /\ ~Refused
    /\ \E page \in Answers :
         /\ pages' = Append(pages, page)
         /\ offset' = offset + Limit
         /\ state' = IF Cardinality(page) # Limit THEN "done" ELSE "reading"
    /\ UNCHANGED <<listed, cached, door, limit, first, came, went>>

\* VALIDATION_ERROR
Refuse == state = "reading" /\ Refused /\ Stop("refused")

\* The slice is out of range: the goroutine of the request panics.
Panic == state = "reading" /\ ~Refused /\ Answers = {} /\ Stop("panic")

-------------------------------------------------------------------------------
(* The other callers.                                                       *)

Come(u) ==
    /\ u \in Users \ listed
    /\ listed' = listed \cup {u}
    /\ came' = IF pages = <<>> THEN came ELSE came \cup {u}
    /\ UNCHANGED <<cached, door, limit, first, offset, pages, state, went>>

Go(u) ==
    /\ u \in listed
    /\ listed' = listed \ {u}
    /\ went' = (went \/ pages # <<>>)
    /\ UNCHANGED <<cached, door, limit, first, offset, pages, state, came>>

Next == Read \/ Refuse \/ Panic \/ (state = "reading" /\ \E u \in Users : Come(u) \/ Go(u))

Spec == Init /\ [][Next]_vars

-------------------------------------------------------------------------------
(* Properties.                                                              *)

Seen == UNION {pages[i] : i \in DOMAIN pages}
Unchanged == came = {} /\ ~went

\* Newcomers only push the others to later pages: reading from the service, nobody
\* is skipped who was there all the time, unless somebody went.  From the cache
\* this holds of a list that fits on one page, and of no other: the next page is
\* cut from another order of the map.
NobodySkipped ==
    state = "done" /\ first = 0 /\ ~went /\ (cached => Len(pages) = 1) =>
      listed \ came \subseteq Seen

\* Who goes only pulls the others to earlier pages: reading from the service,
\* nobody is listed twice unless somebody came.
NobodyTwice ==
    ~cached /\ came = {} =>
      \A i, j \in DOMAIN pages : pages[i] \cap pages[j] # {} => i = j

\* The pages of an unchanged list have as many entries as there are users, also
\* those of the cache: by counting them no reader learns that some users came
\* twice, and some not at all.
Entries == UNION {{i} \X pages[i] : i \in DOMAIN pages}
CountIsRight ==
    state = "done" /\ first = 0 /\ Unchanged => Cardinality(Entries) = Cardinality(listed)

\* Only a list served from the cache, to somebody who is not behind the HTTP
\* validator, can panic.
PanicNeedsCache == state = "panic" => cached /\ door # "http"

===============================================================================
