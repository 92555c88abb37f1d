# Verification of the distributed user management system

TLA+ models of the user service, of the Go client that other services use to
talk to it, and of the gateway that serves it over HTTP and WebSocket; what TLC
checks of them on small instances, and what TLAPS proves of them for every
instance. Paths below are relative to `src/`.

## 1. The system

| Component | State | Operations | Correct when |
|---|---|---|---|
| users table and repository (`user-service/internal/adapters/postgresadaptor`, `user-service/db`) | rows, live or soft-deleted; partial unique index on email | seven queries, each with its own mapping of errors | no two live users share an email; a deleted row is never written again; an error is an error |
| user service, NATS handlers (`natsadaptor/handler.go`) | none but the messages in work: one subscription, queue and goroutine per subject | take a message, validate, one query, reply, publish an event | replies and events only tell what was committed; events come once, in order of the commits |
| user service, process (`user-service/cmd/main.go`) | subscriptions, connection, database handle | start, signal, unsubscribe, drain, close, exit | nothing committed is forgotten |
| user client (`user-service/pkg/userclient`) | pending requests with a timeout; the cache, `cacheFullyLoaded`, two channels, two goroutines | seven requests; load, subscribe, apply events, fill on a miss, close | the cache holds only what was committed, and becomes what the table holds |
| gateway, WebSocket (`gateway-service/internal/adapters/wshandler`) | the hub's map of clients, a `send` channel and two pumps per client, subscription flags, feeds of events | register, unregister, fan out; read, handle, write; subscribe, unsubscribe | the hub never panics nor blocks; nobody leaks; pushes match subscriptions |
| gateway, request handlers (`httphandler`, the actions of `wshandler`, `application`, `userclientadapter`) | none but the requests in work | decode, validate, call, map the error, respond | a refusal changed nothing, a success is committed, everybody gets a response |
| gateway, process (`gateway-service/cmd/main.go`) | serving, shutting down | signal, `Shutdown`, deadline, exit | a signal stops it, and cuts off as little as it can |
| configuration, logging, deployment, API descriptions | none | | |

How they interact: the gateway's handlers call the client. The client answers
reads from its cache or sends a request over NATS with a 5 s timeout. The user
service runs one query, replies, and after a successful create, update or delete
publishes an event. Every client with a cache subscribes to the events; so does
every `user.subscribe` request of a WebSocket connection, whose feed goes through
`Hub.Broadcast` to all connections with the subscription flags set.

What is hard in it:

* **Ordering.** A handler's reply, its event and the commit are three steps; the
  handlers of different subjects run concurrently, and so do the three event
  subscriptions of every client. A read that missed the cache brings an answer by
  a fourth way.
* **Loss.** Every hand-over into a channel drops when the channel is full;
  `publishEvent` only logs; the shutdown closes connection and database under
  running handlers.
* **Ownership.** `close(c.send)` belongs to the hub, which learns of a broken
  client from its reader, or from its full channel; the reader itself sends into
  that channel, blocking.
* **Paging.** A list is read page by page, by offset, while users come and go; the
  cache cuts its pages from a map.
* **Errors.** Two repository methods drop the errors they do not recognise.

`PROJECT.json` lists each hazard at its line with the properties that are about it.

## 2. The modules

```
UserStore <- UserEvents <- UserService <- UserServiceRefinement
                                \              | INSTANCE
                                 \             v
                                  \       UserDirectory <- Gateway
                                   UserSystem
                                  /
             UserEvents <- UserCache --INSTANCE--> EventFeed
ListPaging
WsHub
```

An arrow `A <- B` reads "B extends A". `UserDirectory` and `EventFeed` are the
abstract specifications, and extend `UserEvents`.

| Module | Models | State and actions against the code |
|---|---|---|
| `UserStore` | table, queries, repository | A query or method is a *set of outcomes* (new table, error, users); the caller picks one. A row is its state, its email, and a revision for all other columns, which grows with each write like `updated_at`. `Attempt` adds the failures: before the statement, after its commit, or because the pool is closed. `Mapped` and `Swallowed` are the error handling of the methods; `Swallowed` is the missing `return err` of `GetByID` and `Update`. |
| `UserEvents` | events on the wire | created and updated carry the user, deleted the id. |
| `UserService` | handlers, callers, process | `inbox[s]` and `worker[s]` are the queue and the goroutine of subscription `s`. `Take` is decoding and validation, `Handle...` the query, `Reply`/`ReplyLost` the answer, `Publish`/`PublishFails` the event. `Send`/`GiveUp` are `Client.request`. `Start`, `Subscribe`, `Signal`, `Unsubscribe`, `Close`, `Exit` are `main` and `Handler.Subscribe/Stop`; `Exit` is also a crash, which loses queues, workers and what the connection had buffered. `committed` and `queryFailed` are history. |
| `UserDirectory` | what the service promises, without goroutines, queues and life cycle; also the service layer's interface | A call is `Request`ed, `Perform`ed once and at one instant, `Answer`ed, and its event `Publish`ed or `Withhold`; callers may give up, requests be dropped, the process die. `Failed` says what a failing query may look like. |
| `UserServiceRefinement` | the mapping of `UserService` to `UserDirectory` | where a call is (`FateOf`), its answer and its event are read off the queue and the worker of its subject. |
| `UserCache` | the cache and what keeps it up to date | `Loaded`/`LoadFailed`, `Listen`, `Serve` are `NewUserClient`; `Callback`, `Forward`, `Apply` the way of an event through `eventCh` and `updateCh`; `Fill` a read that missed; `CloseClient`, `NoticeStop`, `StopProcessor` are `Close` and the drain. Events travel as their numbers in the history `arrived`. With `Outages`, the client may be disconnected when an event is published, and never get it: `nats.Connect` reconnects, NATS keeps nothing. |
| `EventFeed` | what the pipeline promises the cache | a set of pending events, each applied in the order of its type, or lost; load and fills; nothing applied once closed. |
| `UserSystem` | `UserService` and one caching client | `Load`/`EndLoad` connect `loadCache` to the service, `Hit`/`Miss`/`Return` the reads, `DeliverToClient` the events. Writes come from the gateway or from anybody else. |
| `WsHub` | hub, connections, feeds | `hub` is where `Hub.Run` stands: in its select, or in a fan-out, where checking a client (`Visit`) and sending to it (`Push`) are two steps, since only the check is under the client's lock. `reader` and `writer` are the pumps. A feed is the channel of one `Subscribe`; its three subscriptions may reorder events of different types. |
| `ListPaging` | `cache.list`, the `list` queries, and the limits of every layer | `Slice` is the query, `CacheSlices` the cache's arithmetic over any order of the map (empty where Go panics); `door` is how the reader asks, and so who checks and who replaces its limit. `Read` is one page; `Come` and `Go` are the others' writes. |
| `Gateway` | HTTP handlers, WebSocket request handlers, application, adapters, `main` | An exchange is one request with its response: `Accept`, `RefuseHttp`/`RefuseMessage` (what the two check differs), `Call`, `Timeout`, `Respond` with the code of `mapClientError`/`mapServiceError`. `Signal`, `Drained`, `Deadline`, `Return`, `Kill` are the process. The service behind it is `UserDirectory`, which may lose requests and die. |
| `MCUserService`, `MCUserCache`, `MCUserSystem`, `MCListPaging`, `MCGateway`, `MCWsHub` | the instances for TLC | constants and symmetry sets. |
| `UserServiceProofs`, `UserServiceOrderProofs`, `UserServiceRefinementProofs`, `UserCacheProofs`, `UserSystemProofs`, `WsHubProofs`, `GatewayProofs`, `ListPagingProofs` | theorems | see section 4. |

Definitions marked "A slip" are mistakes one could make in the definition that
follows them. They are not part of any specification: put in its place, each of
them makes TLC report the property that `PROJECT.json` names beside it, which is
how we know that the property is about something.

## 3. What TLC checks

No deadlock check: calls, events and requests are finite and run out, so every
instance really stops.

| Run | Question | Bounds |
|---|---|---|
| `service` | do emails stay unique, deletes and `NOT_FOUND` final, commits announced once, in order and without gaps, and answers true, when requests race, callers give up, any query may fail, and the process stops or dies and restarts? is it a `UserDirectory`? | 2 calls of any of the 7 operations; 2 ids, one user at the start; 2 emails; one exit |
| `service_live` | is every commit announced in the end? | 2 calls; one exit |
| `cache` | is the pipeline FIFO per type, without duplicates and silent losses, also across `Close`? does the processor stop? is it an `EventFeed`? | channels of capacity 1; 3 events out of 4; outages |
| `system` | is everything in the cache true, whatever way it came, also across a restart of the service? | loader and 2 calls of get and update on one user; one exit, whose closing of the database makes queries fail; outages |
| `system_live` | is a cached user the newest version, or that event on its way? does the cache become and stay fresh? does a complete cache have every user? | loader and 2 creates or updates; capacity 1; outages |
| `paging` | what does a reader of all pages see, through HTTP, WebSocket or Go, with and without a cache? | 4 users; limits -1 to 5 around a maximum of 4 and defaults of 2 and 3; offsets -1 to 4 |
| `gateway` | may a peer rely on what it was told? is every request answered, and does a signal stop the process? | an HTTP and a WebSocket exchange of create, get, update, delete on one user; the service loses, fails and dies at will |
| `hub` | can the hub panic, or its map disagree with the channels? | 2 connections of one request; 2 events; `send` of capacity 1 |
| `hub_live` | what follows an acknowledged unsubscribe? does the hub always go on, does it reap broken connections, and what frees a reader that is stuck? | 1 connection, 3 requests, 2 events; `send` of capacity 2 |

Why the bounds are enough. The hazards are races between two goroutines, or
between two goroutines and a full channel: two requests race on a subject, or from
two subjects for an email; a channel of capacity one is full after one event; a
connection that subscribes, unsubscribes and asks for something else needs
three requests; two emails are one that is free and one that is taken. What a third
request could add to `service` (an observer of two that race) was checked without
faults, in an instance too large to be run with every change, and is the subject of
the theorems of section 4, which bound neither calls nor users. `system_live` leaves
the service up, `system` does not. One page boundary more than the users need, and limits on both
sides of every constant, is what `paging` needs. In `gateway` two exchanges
are one that races with the shutdown and one that `Shutdown` does not know, and the
two race for the only user, the only id and the only email. `Cap`, `SendCap`,
`BroadcastCap` and `FeedCap` are 256 in the code, `MaxLimit` is 1000, `GatewayLimit` 20,
`ClientLimit` 50; the properties do not depend on the numbers.

Fairness. Goroutines are scheduled by the Go runtime, and none waits for anything
but its own channel, so each step of a goroutine is weakly fair on its own; a
query ends because the handler's context expires after 30 s; a write to a
WebSocket ends within `WriteWait`; a select with two ready cases picks either, so
a closed `stopCh` is noticed. Not assumed: that callers send, that peers read or
answer, that events arrive, that anybody unsubscribes or the process is ever
stopped; `gateway` assumes nothing of the service, not even that it answers.
`SignalStopsIt` stands on the 30 s of `Shutdown`'s context, `EveryCallIsAnswered` on the
client's timeout. `system_live` also assumes that NATS delivers and that a waiting request
ends in an answer or its timeout.

### What the code does not do

Three runs show the code and a statement about it apart; `PROJECT.json` quotes
the statement.

| Run | What happens |
|---|---|
| `service_v_event` | `Update` ends in a success for every error but `ErrNoRows` and the unique index: an updated event for user `00000000-...` goes out; a shutdown with a handler in flight is enough |
| `system_v_gone` | updated applied after deleted: the deleted user is back in the cache, for good |
| `hub_v_twice` | subscribing twice pushes everything twice, to every subscriber |

Other promises one could expect are weaker in the code, and the properties that
hold name the exception:

* `ToldIsCommitted` and `CacheIsAuthentic` except the zero user once a query failed:
  `GetByID` answers it as a success (`repository.go:48`), like `Update`.
* `CommitsAreAnnounced` excepts the end of the process: the reply goes out before
  the event, so a caller can know of a create nobody else will hear of.
* `UpdatesWithoutGaps` excepts a process that ended and a query that failed after its
  commit; while the service merely stops, the one update its closing connection can
  lose is the last there is.
* `CompleteUnlessMissed` excepts users whose created event came before the client listened:
  a user created between `list.all` and the subscription is missing from a cache that
  counts as complete; so is one whose created event met an outage or a full channel.
  Nothing reloads the cache.
* `NewestIsComing` and `EventuallyFresh` except users whose newest event itself was lost,
  and nobody for older losses: the next event repairs them. A deleted event that was lost
  nothing repairs, and they say nothing of deleted users.
* The two are about users that were there before the client: created and updated events travel separately, so that the created event
  of a new user can undo its update in the cache.
* `NobodySkipped` excepts pages from a cache: each is cut from another order of the
  map. `CountIsRight` holds of them, so that no reader notices. `NobodyTwice` excepts
  newcomers, who push users from a page to the next.
* `PanicNeedsCache`: a negative offset panics in the cache, and reaches it over a
  WebSocket or from Go; without the cache the service refuses it.
* `SuccessIsCommitted` excepts the update that failed and is answered with the zero user.
* `OnlyForceCutsHttp` says nothing of WebSockets: `Shutdown` neither waits for them nor
  closes them, and `main` returns under their requests.
* `EveryCallIsAnswered` begins with the call: the server has no read timeout, and a
  peer that never finishes its body keeps its request open, until `Shutdown`'s
  deadline.
* `AtMostOneLatePush` is one, not none: the hub's check and its push are two steps.
* `BrokenIsReaped` excepts a reader stuck on its own full channel (`Stuck`): it never
  unregisters, and the hub notices a slow client only when it has an event for it.
  `EventFreesReader` is that way out: with a subscription, the next event frees the reader.

## 4. What TLAPS proves

Assumptions: those of the constants (`StoreAssumption`, `ServiceAssumption`,
`OpsAssumption`, `CacheAssumption`, `SystemAssumption`, `HubAssumption`,
`GatewayAssumption`, `PagingAssumption`): the nil id is no user, no call is no call, the operations asked
for exist, capacities are numbers (those of the client's channels positive), the
events of the cache's environment name the user they carry, the loader's request is a
request, HTTP exchanges are exchanges, the users that can be on a list are finitely many, and the
default limits are valid ones. Nothing else bounds the users, calls, restarts,
clients or events.

**`UserServiceProofs`.** All arguments start from `Sound`, what may be relied on
of one outcome of a repository call on any table: rows keep their type, deleted
rows are untouched, rows that exist keep existing, unambiguous emails stay so,
and the users returned are live rows of the new table or the zero user. It is
proved for each query, then for the failing query, then through the error
mapping of each method, and `HandleStep` carries it through the handlers.

* `TypeCorrect`: `Spec => []TypeOK`, one lemma per group of actions.
* `DeletedStaysDeleted`: `DeletedIsFinal`, an action property: only handlers
  write the table (`OnlyHandlersWrite`), and what they write is `Sound`.
* `EmailsStayUnique`: `UniqueLiveEmails` is inductive given `Sound`.
* `OnlyCommittedIsTold`: `ToldIsCommitted` is not inductive: a user goes from the
  table to the worker's answer, to the caller, through `todo` to the events.
  `ToldInv` says of each stop that what is there is committed, and that every live
  row is.
* `NotFoundStaysTrue`: `NotFoundIsFinal` needs the request followed as well:
  `FoundInv` says that a call in the queue or at work is for that subject and no
  longer new (so that its request does not change under the answer), that callers
  only know ids that exist, and that a `NOT_FOUND` at a worker already is about
  a deleted row.

**`UserServiceOrderProofs`.** `Sound` says too little here; what each query does to the
table, the answer and the event is spelled out first (`CreateDoes` ... `DeleteDoes`,
`HandleIs`), and that it commits exactly what it owes (`HandleCommits`).

* `NoUpdatePassedOver`: `UpdatesWithoutGaps`, from `UpdatesTold`: an update that nobody was told
  of is the newest of its user, and still owed by the worker, or lost by a worker that will
  never take another request. The latter needs `Unsubscribed` (closing, the service has no
  request queued), the former `OwesLast` (a worker that queries owes nothing) and `Writes` (what a
  commit does to one row, and the event it owes then).
* `CommitsAnnouncedOnce`: `AnnouncedOnce`, and `UpdatesStayInOrder`:
  `UpdatesInCommitOrder`, both from `AnnounceInv`: every event, announced or owed, is
  `Backed` by the table (its row exists, no older than the event says, and deleted if it
  says so), and of two events of one user and type the later one is an update with a
  greater revision. A commit makes the row newer than all events there are, so its event
  follows them all; and no two goroutines owe events of the same type.

**`UserServiceRefinementProofs`.**

* `ServiceRefinesDirectory`: `Spec => ImplementsDirectory`. The mapping reads the fate of a
  call off the queues and workers, which is only a function if a call is in at most one
  place: that is the invariant (each call is queued once, or at one worker, of its own
  subject, and the worker's answer and event belong to it). Then every step is mapped: a query
  is the directory's one atomic `Perform`, taking a message and the life cycle are
  stutters or drop requests, a reply answers. So what `GatewayProofs` shows of a gateway
  in front of `UserDirectory` is about this service.

**`UserCacheProofs`.** The client in *any* environment (`OpenNext`): any events that name
their user, any load, any fill. An event can be in `subq`, `eventCh` or `updateCh`.

* `CacheTypeCorrect`: `CacheTypeOK`, with the capacities of the channels.
* `EventsInOrder`: `InOrderPerType`, from `OrderInv`: in each place the numbers of one type
  ascend, between places those closer to the cache are smaller, and all are greater
  than what was applied last. The property speaks of the concatenated queues, which
  is not inductive as it stands: the step of one queue has to be seen alone.
* `EventsOnce`: `EachEventOnce`, from `OnceInv`, which needs `OrderInv` to know that a number is
  not in two places.
* `CacheRefinesFeed`: `CacheSpec => ImplementsFeed`: arriving, applying, loading and
  filling map to the feed's steps, a drop and `CloseClient` to losing events, and handing over
  from queue to queue to a stutter.

**`UserSystemProofs`.** Both specifications run together. A step of the system is for the
service one of its own steps, the loader's request or a read the cache answers
(`ServiceSide`), and for the client a step of `OpenNext` (`ServiceIsOpen`); so both
sides' invariants are kept, and those that join them can be stated.

* `CacheStaysAuthentic`: `CacheIsAuthentic`, from `SafeInv`: `ToldInv` of the service, and that
  what arrived and what is cached was told.
* `CacheStaysComplete`: `CompleteUnlessMissed`, as long as no query failed (the run has
  `DbMayFail = FALSE`; with a query that fails after its commit nobody is told of the user).
  `WayInv` follows a created event: while it is not excused by the end of the service, a live
  user of no start has its event owed by the worker or announced (`LiveAnnounced`); what was
  delivered is what arrived (`InStep`); what arrived is missed, underway, or has had its effect
  on the cache, and a live user stays there (`CreatedKept`). And it follows `list.all`:
  the worker's answer, the loader's and the cache hold everybody who was there at the
  start and still lives (`ListedAll`, `SeededCached`).
* `NewestStaysComing`: `NewestIsComing`, as long as no query failed and for operations
  without the reads that fill the cache (a hypothesis on `Ops`, as in the run). The row's newest
  update is owed or announced (`NewestAnnounced`), and once applied it stays in the cache
  (`NewestKept`): no other event of that user can come after it, because the
  announcements are in commit order, the queues in arrival order, and no created event is about a
  user of the start.

**`WsHubProofs`.**

* `TypeCorrect`, with the capacities of all channels.
* `HubSafe`, `ClosedExactlyWhenDropped`, `FanOutStaysRegistered`: together they are
  inductive (`HubInv`): the map decides alone whether a channel is open, and what
  the hub read from the map at the start of a fan-out stays true until it is used.
* `OneLatePush`, from `LateInv`: after the late push the hub has no
  check of that client left, and a client that was told it is unsubscribed stays so.
* `PushedOncePerFeedAlways`, from `PushInv`, which follows an event from the feeds through
  `broadcast` and the hub's hands to one client. `SeenInv`: only events that arrived
  are on their way, in order in every feed. `CopyInv`: the places where an event is on its way to
  that client, with those where it was pushed, are never more than there are feeds; it enters a feed
  when it arrives, and no step copies it. `LineInv`: as long as there is one feed, whatever is
  ahead of an event of the same type is older. `Moves` reduces all steps to six
  movements, and the three are kept by each.

**`GatewayProofs`.** Again from the outcomes of one request: `EffectsSound` says of
every operation of `UserDirectory`, failing ones included, that a refusal changes no
user, that a successful write changes one, and which types result.

* `TypeCorrect`: `GatewaySpec => []GatewayTypeOK`, which covers the directory too.
* `RefusalsAreFinal` and `SuccessesAreCommitted`, from `FateInv` (an answer is `Honest`
  at the service and at its caller; a request still pending changed nothing, and
  one that was answered is not pending) and `CodeInv` (a code stands for an answer, or
  for a request that was never passed on).
* `ShutdownWaitsForHttp`, from `DrainInv`: once `Shutdown` returned by itself, no HTTP
  request is in work, and none begins.

**`ListPagingProofs`.** `Ranks` shows that the positions of the listed users are
`1 .. Cardinality(listed)`, each of one user, and `SliceSize` and `PageIs` what follows of a page:
a full one ends within the list, any other with it, whether the query cut it or the
cache. `PagingInv` follows the reader.

* `PanicAlwaysNeedsCache`: where the HTTP validator has looked, the cache finds
  a slice (`SubsetOfSize`), and the query always does.
* `NobodyEverTwice` (`TwiceInv`): whoever was seen is before the offset, since who goes puts
  nobody back.
* `NobodyEverSkipped` (`SkipInv`): whoever is before the offset was seen, since who comes puts
  nobody forward, and a page of the query that is not full leaves nobody behind.
* `CountStaysRight` (`CountInv`): on an unchanged list the offset is the number of
  entries read.

Only model-checked: liveness (`CommitsAreAnnounced`, `ProcessorStops`, `EventsSettle`,
`EventuallyFresh`, `HubNeverBlocks`, `BrokenIsReaped`, `EventFreesReader`,
`EveryCallIsAnswered`, `SignalStopsIt`), which the prover does not reach. Every invariant and action property
that a passing run checks is a theorem.

## 5. What is not modelled

* Columns other than id, email and a revision. Status filters appear as users that come
  to a list and go (`ListPaging`); elsewhere a page is any set of live users. That
  `ORDER BY created_at` is total is assumed: one goroutine inserts, and `NOW()` has
  microseconds.
* Status codes of HTTP beside the code in the body, the difference between 200, 201
  and 204, and the health route, which has no state. A peer that hangs up is a
  `Timeout` that comes early.
* The gateway of `Gateway` has no cache: what a cache tells is in `UserSystem`.
* NATS itself beyond queues per subscription, order per connection and events
  lost while a client is away: its reconnect buffer, which delays what a
  disconnected service publishes, and its limits on pending messages.
* What the libraries do inside: `database/sql` retries a query on a broken pooled connection,
  which a query that fails or succeeds stands for; `net/http` may close, in `Shutdown`, an idle
  connection on which a request is just arriving, which the peer sees as a request
  never accepted.
* The states between the statements of `Client.Close` (three unsubscribes, closing `stopCh`) and
  of the WebSocket subscribe handler (three flags, opening the feed): each is one step,
  `CloseClient` and `HandleSubscribe`.
* A second instance of the user service. `Subscribe` is not a queue subscription, so
  that two instances would both perform every request; the deployment starts one.
* The failing `Client.Subscribe` of the cache, which only a closed connection
  causes.
* The start of both processes (configuration, migrations, connecting, listening) and
  logging: I/O before the first request, or without influence on it.
* Deployment and API descriptions, which have no behaviour; what they say of the
  program is stated where a model meets it.

## 6. Plan

Modelled and checked: every part with behaviour of its own. Proved: every safety
property of the passing runs. What remains:

1. The gateway in front of a cache: how long `Gateway`, whose client asks the service each time,
   may answer from what `UserCache` holds, and that nothing but the
   age of the answers changes.
2. `NewestStaysComing` for operations with the reads that fill the cache: which of the
   fills that race with an update the promise has to leave out.
