------------------------------- MODULE EventFeed -------------------------------
(***************************************************************************)
(* What the cache of the user client promises about events, without its    *)
(* queues, channels and goroutines: an event that arrived is pending until *)
(* it is lost or applied to the cache; events of one type are applied in   *)
(* the order they arrived, and none is applied once the client is closed.  *)
(* UserCache implements it.                                                *)
(***************************************************************************)
EXTENDS UserEvents

VARIABLES
    cache,      \* the users cached, by id
    arrived,    \* the events that arrived
    pending,    \* the numbers of those that may still reach the cache
    latest,     \* event type -> number of the last event applied
    closed      \* whether the last event was applied

feedVars == <<cache, arrived, pending, latest, closed>>

FeedInit ==
    /\ cache = [id \in {} |-> ZeroUser]
    /\ arrived = <<>>
    /\ pending = {}
    /\ latest = [t \in EventTypes |-> 0]
    /\ closed = FALSE

\* An event arrives, in time or too early or too late to be considered.
FeedArrive ==
    /\ Len(arrived') = Len(arrived) + 1
    /\ SubSeq(arrived', 1, Len(arrived)) = arrived
    /\ arrived'[Len(arrived')] \in Event
    /\ pending' \in {pending, pending \cup {Len(arrived')}}
    /\ UNCHANGED <<cache, latest, closed>>

\* The oldest pending event of its type takes effect.
FeedApply(n) ==
    LET e == arrived[n]
    IN  /\ ~closed
        /\ n > latest[e.type]
        /\ \A m \in pending : arrived[m].type = e.type => n <= m
        /\ cache' = [id \in (DOMAIN cache \ {e.id}) \cup (IF e.type = "deleted" THEN {} ELSE {e.id})
                       |-> IF id = e.id THEN e.user ELSE cache[id]]
        /\ latest' = [latest EXCEPT ![e.type] = n]
        /\ pending' = pending \ {n}
        /\ UNCHANGED <<arrived, closed>>

FeedLose ==
    /\ \E N \in SUBSET pending : pending' = pending \ N
    /\ UNCHANGED <<cache, arrived, latest, closed>>

\* The start of the client fills an empty cache with users of different ids.
FeedLoad ==
    /\ DOMAIN cache = {}
    /\ \A t \in EventTypes : latest[t] = 0
    /\ \A id \in DOMAIN cache' : cache'[id].id = id
    /\ UNCHANGED <<arrived, pending, latest, closed>>

\* A read of one user refreshes its entry, and no other.
FeedFill ==
    /\ \E id \in DOMAIN cache' :
         /\ DOMAIN cache' = DOMAIN cache \cup {id}
         /\ cache'[id].id = id
         /\ \A other \in DOMAIN cache \ {id} : cache'[other] = cache[other]
    /\ UNCHANGED <<arrived, pending, latest, closed>>

FeedClose ==
    /\ closed' = TRUE
    /\ UNCHANGED <<cache, arrived, pending, latest>>

FeedNext ==
    \/ FeedArrive \/ FeedLose \/ FeedLoad \/ FeedFill \/ FeedClose
    \/ \E n \in pending : FeedApply(n)

FeedSpec == FeedInit /\ [][FeedNext]_feedVars

\* The n-th event does not stay on its way for ever while the client is open.
Settles(n) == n \in pending ~> closed \/ n \notin pending

===============================================================================
