------------------------------- MODULE UserCache -------------------------------
(***************************************************************************)
(* The cache of the user client, and the goroutines that keep it in step   *)
(* with the user service:                                                  *)
(*                                                                         *)
(*   NATS -> subq["created"] --callback--\                                 *)
(*   NATS -> subq["updated"] --callback---> eventCh --forwarder-->         *)
(*   NATS -> subq["deleted"] --callback--/        updateCh --processor-->  *)
(*                                                              cache      *)
(*                                                                         *)
(* Every hand-over into a channel is a select with a default: a full       *)
(* channel drops the event.  What travels is the number of the event in    *)
(* arrived, the history of what NATS delivered to this connection.         *)
(***************************************************************************)
EXTENDS UserEvents

CONSTANTS
    Cap,        \* cacheUpdateBufferSize, the capacity of both channels
    Outages,    \* whether the connection to NATS may be down for a while
    Traffic,    \* the events and users of the environment of this module,
    MaxTraffic  \* and how many events it sends

ASSUME CacheAssumption ==
    /\ Cap \in Nat \ {0}
    /\ Outages \in BOOLEAN
    /\ MaxTraffic \in Nat
    /\ Traffic \subseteq Event
    /\ \A e \in Traffic : e.type # "deleted" => e.id = e.user.id

VARIABLES
    cache,      \* the users cached, by id
    fullyLoaded,\* cacheFullyLoaded: list requests are served from the cache
    stage,      \* of NewUserClient, then of the client
    listening,  \* the event types subscribed to
    subq,       \* event type -> queue of its NATS subscription
    eventCh,    \* channel from the callbacks to the forwarder
    updateCh,   \* channel from the forwarder to the processor
    processor,  \* the goroutine of processCacheUpdates
    arrived,    \* history: the events delivered to this connection
    latest,     \* history: event type -> number of the last event applied
    missed      \* history: the numbers of the events that never reach the cache

cacheVars == <<cache, fullyLoaded, stage, listening, subq, eventCh, updateCh,
               processor, arrived, latest, missed>>

\* The subscriptions in the order Client.Subscribe makes them.
Earlier(t) ==
    CASE t = "created" -> {}
      [] t = "updated" -> {"created"}
      [] t = "deleted" -> {"created", "updated"}

In(queue) == {queue[i] : i \in DOMAIN queue}

\* cache.set and cache.delete
Put(c, u) == [id \in DOMAIN c \cup {u.id} |-> IF id = u.id THEN u ELSE c[id]]
Drop(c, id) == [i \in DOMAIN c \ {id} |-> c[i]]

CacheInit ==
    /\ cache = [id \in {} |-> ZeroUser]
    /\ fullyLoaded = FALSE
    /\ stage = "load"
    /\ listening = {}
    /\ subq = [t \in EventTypes |-> <<>>]
    /\ eventCh = <<>>
    /\ updateCh = <<>>
    /\ processor = "running"
    /\ arrived = <<>>
    /\ latest = [t \in EventTypes |-> 0]
    /\ missed = {}

-------------------------------------------------------------------------------
(* NewUserClient: loadCache, then subscribeForCacheSync.                    *)

\* list.all answered with these users.
Loaded(users) ==
    /\ stage = "load"
    /\ cache' = [id \in {u.id : u \in users} |-> CHOOSE u \in users : u.id = id]
    /\ fullyLoaded' = TRUE
    /\ stage' = "subscribe"
    /\ UNCHANGED <<listening, subq, eventCh, updateCh, processor, arrived, latest, missed>>

\* list.all failed or answered with an error: the client starts all the same.
LoadFailed ==
    /\ stage = "load"
    /\ stage' = "subscribe"
    /\ UNCHANGED <<cache, fullyLoaded, listening, subq, eventCh, updateCh, processor,
                   arrived, latest, missed>>

\* The server registers one subscription of Client.Subscribe.
Listen(t) ==
    /\ stage = "subscribe"
    /\ t \notin listening /\ Earlier(t) \subseteq listening
    /\ listening' = listening \cup {t}
    /\ UNCHANGED <<cache, fullyLoaded, stage, subq, eventCh, updateCh, processor,
                   arrived, latest, missed>>

\* A slip: a client whose load failed does not start its forwarder.
ServeLoaded ==
    /\ stage = "subscribe"
    /\ listening = EventTypes
    /\ fullyLoaded
    /\ stage' = "serving"
    /\ UNCHANGED <<cache, fullyLoaded, listening, subq, eventCh, updateCh, processor,
                   arrived, latest, missed>>

\* All three are made: the forwarder starts, NewUserClient returns.
Serve ==
    /\ stage = "subscribe"
    /\ listening = EventTypes
    /\ stage' = "serving"
    /\ UNCHANGED <<cache, fullyLoaded, listening, subq, eventCh, updateCh, processor,
                   arrived, latest, missed>>

-------------------------------------------------------------------------------
(* The way of an event.                                                     *)

\* NATS delivers e into the queue of its subscription.  It keeps nothing for a
\* client that has not subscribed yet, or that is just reconnecting: the client
\* subscribes anew, and never asks what happened meanwhile.
Arrive(e) ==
    /\ arrived' = Append(arrived, e)
    /\ \/ /\ e.type \in listening
          /\ subq' = [subq EXCEPT ![e.type] = Append(@, Len(arrived'))]
          /\ UNCHANGED missed
       \/ /\ e.type \notin listening \/ Outages
          /\ missed' = missed \cup {Len(arrived')}
          /\ UNCHANGED subq
    /\ UNCHANGED <<cache, fullyLoaded, stage, listening, eventCh, updateCh, processor, latest>>

\* A slip: a callback that finds room in updateCh does not wait for the forwarder.
CallbackOvertakes(t) ==
    /\ subq[t] # <<>>
    /\ subq' = [subq EXCEPT ![t] = Tail(@)]
    /\ IF Len(updateCh) < Cap
         THEN /\ updateCh' = Append(updateCh, Head(subq[t]))
              /\ UNCHANGED <<eventCh, missed>>
       ELSE IF Len(eventCh) < Cap
         THEN /\ eventCh' = Append(eventCh, Head(subq[t]))
              /\ UNCHANGED <<updateCh, missed>>
         ELSE /\ missed' = missed \cup {Head(subq[t])}
              /\ UNCHANGED <<eventCh, updateCh>>
    /\ UNCHANGED <<cache, fullyLoaded, stage, listening, processor, arrived, latest>>

\* The callback of one subscription: each has a goroutine of its own.
Callback(t) ==
    /\ subq[t] # <<>>
    /\ subq' = [subq EXCEPT ![t] = Tail(@)]
    /\ IF Len(eventCh) < Cap
         THEN /\ eventCh' = Append(eventCh, Head(subq[t]))
              /\ UNCHANGED missed
         ELSE /\ missed' = missed \cup {Head(subq[t])}
              /\ UNCHANGED eventCh
    /\ UNCHANGED <<cache, fullyLoaded, stage, listening, updateCh, processor, arrived, latest>>

\* A slip: the forwarder does not look whether updateCh has room.
ForwardBlindly ==
    /\ stage \in {"serving", "closed"}
    /\ eventCh # <<>>
    /\ eventCh' = Tail(eventCh)
    /\ updateCh' = Append(updateCh, Head(eventCh))
    /\ UNCHANGED <<cache, fullyLoaded, stage, listening, subq, processor, arrived, latest, missed>>

\* The forwarder; nothing ever closes eventCh, so it outlives Close.
Forward ==
    /\ stage \in {"serving", "closed"}
    /\ eventCh # <<>>
    /\ eventCh' = Tail(eventCh)
    /\ IF Len(updateCh) < Cap
         THEN /\ updateCh' = Append(updateCh, Head(eventCh))
              /\ UNCHANGED missed
         ELSE /\ missed' = missed \cup {Head(eventCh)}
              /\ UNCHANGED updateCh
    /\ UNCHANGED <<cache, fullyLoaded, stage, listening, subq, processor, arrived, latest>>

\* A slip: an entry that is already there is kept.
ApplyIfNew ==
    /\ processor \in {"running", "draining"}
    /\ updateCh # <<>>
    /\ updateCh' = Tail(updateCh)
    /\ LET e == arrived[Head(updateCh)]
       IN  /\ cache' = IF e.type = "deleted" THEN Drop(cache, e.id)
                       ELSE IF e.id \in DOMAIN cache THEN cache
                       ELSE Put(cache, e.user)
           /\ latest' = [latest EXCEPT ![e.type] = Head(updateCh)]
    /\ UNCHANGED <<fullyLoaded, stage, listening, subq, eventCh, processor, arrived, missed>>

\* A slip: an event only refreshes an entry that is already there.
ApplyIfKnown ==
    /\ processor \in {"running", "draining"}
    /\ updateCh # <<>>
    /\ updateCh' = Tail(updateCh)
    /\ LET e == arrived[Head(updateCh)]
       IN  /\ cache' = IF e.type = "deleted" THEN Drop(cache, e.id)
                       ELSE IF e.id \in DOMAIN cache THEN Put(cache, e.user) ELSE cache
           /\ latest' = [latest EXCEPT ![e.type] = Head(updateCh)]
    /\ UNCHANGED <<fullyLoaded, stage, listening, subq, eventCh, processor, arrived, missed>>

\* processCacheUpdates receives the next update and applies it.
Apply ==
    /\ processor \in {"running", "draining"}
    /\ updateCh # <<>>
    /\ updateCh' = Tail(updateCh)
    /\ LET e == arrived[Head(updateCh)]
       IN  /\ cache' = IF e.type = "deleted" THEN Drop(cache, e.id) ELSE Put(cache, e.user)
           /\ latest' = [latest EXCEPT ![e.type] = Head(updateCh)]
    /\ UNCHANGED <<fullyLoaded, stage, listening, subq, eventCh, processor, arrived, missed>>

\* GetUserByID and GetUserByEmail put what the RPC returned into the cache.
Fill(u) ==
    /\ cache' = Put(cache, u)
    /\ UNCHANGED <<fullyLoaded, stage, listening, subq, eventCh, updateCh, processor,
                   arrived, latest, missed>>

-------------------------------------------------------------------------------
(* Close: Unsubscribe drops the queues, stopCh tells the processor to drain *)
(* updateCh and to stop; the forwarder is not told.                         *)

CloseClient ==
    /\ stage = "serving"
    /\ stage' = "closed"
    /\ listening' = {}
    /\ subq' = [t \in EventTypes |-> <<>>]
    /\ missed' = missed \cup UNION {In(subq[t]) : t \in EventTypes}
    /\ UNCHANGED <<cache, fullyLoaded, eventCh, updateCh, processor, arrived, latest>>

\* A slip: stopCh is only looked at when an update has come.
NoticeStopLate ==
    /\ processor = "running"
    /\ stage = "closed"
    /\ updateCh # <<>>
    /\ processor' = "draining"
    /\ UNCHANGED <<cache, fullyLoaded, stage, listening, subq, eventCh, updateCh,
                   arrived, latest, missed>>

\* With an update and stopCh both ready, select takes either.
NoticeStop ==
    /\ processor = "running"
    /\ stage = "closed"
    /\ processor' = "draining"
    /\ UNCHANGED <<cache, fullyLoaded, stage, listening, subq, eventCh, updateCh,
                   arrived, latest, missed>>

\* A slip: the processor stops without draining.
StopWithoutDrain ==
    /\ processor = "draining"
    /\ updateCh' = <<>>
    /\ processor' = "stopped"
    /\ UNCHANGED <<cache, fullyLoaded, stage, listening, subq, eventCh, arrived, latest, missed>>

StopProcessor ==
    /\ processor = "draining"
    /\ updateCh = <<>>
    /\ processor' = "stopped"
    /\ UNCHANGED <<cache, fullyLoaded, stage, listening, subq, eventCh, updateCh,
                   arrived, latest, missed>>

-------------------------------------------------------------------------------
Startup == (\E t \in EventTypes : Listen(t)) \/ Serve
Pipeline == (\E t \in EventTypes : Callback(t)) \/ Forward \/ Apply
Shutdown == CloseClient \/ NoticeStop \/ StopProcessor

\* The service and the callers of the client, as far as they reach the cache.
TrafficUsers == {e.user : e \in {f \in Traffic : f.type # "deleted"}}
Environment ==
    \/ \E e \in Traffic : Len(arrived) < MaxTraffic /\ Arrive(e)
    \/ \E users \in SUBSET TrafficUsers :
         (\A u, v \in users : u.id = v.id => u = v) /\ Loaded(users)
    \/ LoadFailed
    \/ stage = "serving" /\ \E u \in TrafficUsers : Fill(u)

CacheNext == Startup \/ Pipeline \/ Shutdown \/ Environment

CacheSpec == CacheInit /\ [][CacheNext]_cacheVars

\* Goroutines are scheduled; select is fair among its ready cases, so a
\* closed stopCh is noticed though updates keep coming.
CacheFairness ==
    /\ \A t \in EventTypes : WF_cacheVars(Callback(t)) /\ WF_cacheVars(Listen(t))
    /\ WF_cacheVars(Serve) /\ WF_cacheVars(Forward) /\ WF_cacheVars(Apply)
    /\ WF_cacheVars(NoticeStop) /\ WF_cacheVars(StopProcessor)

FairCacheSpec == CacheSpec /\ CacheFairness

-------------------------------------------------------------------------------
Numbers == 1 .. Len(arrived)

\* Every variable stays in its type; a queued number names an event that arrived.
CacheTypeOK ==
    /\ DOMAIN cache \subseteq Ids \cup {NilId}
    /\ \A id \in DOMAIN cache : cache[id] \in User
    /\ fullyLoaded \in BOOLEAN
    /\ stage \in {"load", "subscribe", "serving", "closed"}
    /\ listening \in SUBSET EventTypes
    /\ subq \in [EventTypes -> Seq(Numbers)]
    /\ eventCh \in Seq(Numbers) /\ Len(eventCh) <= Cap
    /\ updateCh \in Seq(Numbers) /\ Len(updateCh) <= Cap
    /\ processor \in {"running", "draining", "stopped"}
    /\ arrived \in Seq(Event)
    /\ latest \in [EventTypes -> 0 .. Len(arrived)]
    /\ missed \in SUBSET Numbers

\* The events of one type reach the cache in the order they arrived, each at
\* most once, though any may be dropped: through two channels and, after Close,
\* through the drain of the second one.
Underway(t) == updateCh \o eventCh \o subq[t]
InOrderPerType ==
    \A t \in EventTypes :
      LET w == Underway(t)
          OfType == {i \in DOMAIN w : arrived[w[i]].type = t}
      IN  /\ \A i \in OfType : w[i] > latest[t]
          /\ \A i, j \in OfType : i < j => w[i] < w[j]

\* Every event takes exactly one of three ways: it is underway, it is missed
\* (it came too early, met a full channel, or was queued when Close came), or
\* the cache has applied it; none is forgotten in between, also by the drain.
EachEventOnce ==
    \A n \in Numbers :
      LET underway == n \in In(Underway(arrived[n].type))
      IN  /\ underway => n \notin missed
          /\ ~underway /\ n \notin missed => n <= latest[arrived[n].type]

\* cache_test.go TestCache_GoroutineStopsOnClose: the processor stops after
\* Close, though the forwarder may go on filling the channel it drains.
ProcessorStops == (stage = "closed") ~> (processor = "stopped")

Feed == INSTANCE EventFeed WITH
    pending <- In(eventCh) \cup In(updateCh) \cup UNION {In(subq[t]) : t \in EventTypes},
    closed  <- processor = "stopped"

\* The pipeline is a feed that may lose an event but neither repeats nor reorders
\* one: what the cache shows is the effect of the events applied so far, of the
\* load and of the reads that missed, and of nothing else.
ImplementsFeed == Feed!FeedSpec

\* No event is delayed for ever by a client that stays open: in the end it is
\* applied, or dropped at a full channel.
EventsSettle == \A n \in 1 .. MaxTraffic : Feed!Settles(n)

===============================================================================
