------------------------------ MODULE UserSystem -------------------------------
(***************************************************************************)
(* The user service, and one client of it that caches: the gateway.        *)
(* Writes of anybody reach the cache as events; the reads of the gateway   *)
(* are answered from the cache, or by the service, whose answer then fills *)
(* the cache.  The service publishes a deleted and an updated event from   *)
(* two goroutines, the client receives them in two others, and the answer  *)
(* that fills the cache takes a third way: nothing orders the three.       *)
(***************************************************************************)
EXTENDS UserService, UserCache

CONSTANT Loader     \* the list.all request of loadCache

ASSUME SystemAssumption == Loader \in Calls

VARIABLE missing    \* reads that missed the cache and wait for the service

sysVars == <<vars, cacheVars, missing>>

CachedReads == {"getByID", "getByEmail"}

SystemInit == Init /\ CacheInit /\ missing = {}

-------------------------------------------------------------------------------
(* The client.                                                              *)

\* loadCache sends list.all, and waits for the answer or its timeout.
Load ==
    /\ stage = "load"
    /\ Send(Loader, [op |-> "listAll", id |-> NilId, email |-> NoEmail, valid |-> TRUE])
    /\ UNCHANGED <<cacheVars, missing>>

EndLoad ==
    /\ \/ call[Loader].st = "answered" /\ call[Loader].answer.err = "none"
            /\ Loaded(call[Loader].answer.users)
       \/ call[Loader].st = "answered" /\ call[Loader].answer.err # "none" /\ LoadFailed
       \/ call[Loader].st = "failed" /\ LoadFailed
    /\ UNCHANGED <<vars, missing>>

\* cache.get, cache.getByEmail (any of the entries: a map has no order), and
\* cache.list of a cache that is complete.
Hits(req) ==
    CASE req.op = "getByID" -> {{cache[id]} : id \in DOMAIN cache \cap {req.id}}
      [] req.op = "getByEmail" ->
           {{cache[id]} : id \in {i \in DOMAIN cache : cache[i].email = req.email}}
      [] req.op = "list" ->
           IF fullyLoaded THEN SUBSET {cache[id] : id \in DOMAIN cache} ELSE {}
      [] OTHER -> {}

\* Served from the cache: no request is made.
Hit(k, req) ==
    /\ stage = "serving"
    /\ call[k].st = "new"
    /\ \E users \in Hits(req) :
         call' = [call EXCEPT ![k] = [st |-> "answered", req |-> req,
                                      answer |-> [err |-> "none", users |-> users]]]
    /\ UNCHANGED <<db, inbox, worker, events, delivered, phase, subs, exits, committed,
                   queryFailed, cacheVars, missing>>

\* Not in the cache: the request goes to the service.
Miss(k, req) ==
    /\ stage = "serving"
    /\ Hits(req) = {}
    /\ Send(k, req)
    /\ missing' = IF req.op \in CachedReads THEN missing \cup {k} ELSE missing
    /\ UNCHANGED cacheVars

\* A slip: the reader fills the cache before it looks at the error.
ReturnUnchecked(k) ==
    /\ k \in missing
    /\ call[k].st \in {"answered", "failed"}
    /\ IF call[k].st = "answered" /\ call[k].answer.err = "none"
         THEN \E u \in call[k].answer.users : Fill(u)
         ELSE Fill(ZeroUser)
    /\ missing' = missing \ {k}
    /\ UNCHANGED vars

\* The reader has its answer, long after the query it comes from: it fills the
\* cache and returns, or returns with the error.
Return(k) ==
    /\ k \in missing
    /\ call[k].st \in {"answered", "failed"}
    /\ IF call[k].st = "answered" /\ call[k].answer.err = "none"
         THEN \E u \in call[k].answer.users : Fill(u)
         ELSE UNCHANGED cacheVars
    /\ missing' = missing \ {k}
    /\ UNCHANGED vars

\* The gateway is up once NewUserClient returned; other clients of the service
\* write, and read past the cache, at any time.
Ask(k) ==
    \E op \in Ops : \E req \in RequestsOf(op) :
      IF op \in CachedReads \cup {"list"} THEN Hit(k, req) \/ Miss(k, req)
      ELSE Send(k, req) /\ UNCHANGED <<cacheVars, missing>>

-------------------------------------------------------------------------------
(* The service, and NATS between the two.                                   *)

Serving ==
    /\ Handle \/ \E s \in Subjects : Advance(s)
    /\ UNCHANGED <<cacheVars, missing>>

Timeout(k) == GiveUp(k) /\ UNCHANGED <<cacheVars, missing>>

DeliverToClient ==
    /\ Deliver
    /\ Arrive(events[delivered'])
    /\ UNCHANGED missing

Restart == Process /\ UNCHANGED <<cacheVars, missing>>

Client ==
    /\ Startup \/ Pipeline \/ Shutdown
    /\ UNCHANGED <<vars, missing>>

SystemNext ==
    \/ Load \/ EndLoad
    \/ \E k \in Calls \ {Loader} : Ask(k) \/ Return(k)
    \/ \E k \in Calls : Timeout(k)
    \/ Serving \/ DeliverToClient \/ Restart \/ Client

SystemSpec == SystemInit /\ [][SystemNext]_sysVars

\* Every goroutine is scheduled, NATS delivers what it was given, and a request
\* ends with an answer or its timeout.
SystemFairness ==
    /\ \A s \in Subjects : WF_sysVars(Advance(s) /\ UNCHANGED <<cacheVars, missing>>)
    /\ WF_sysVars(Handle /\ UNCHANGED <<cacheVars, missing>>)
    /\ WF_sysVars(DeliverToClient)
    /\ WF_sysVars(Load) /\ WF_sysVars(EndLoad) /\ WF_sysVars(Timeout(Loader))
    /\ WF_sysVars(Startup /\ UNCHANGED <<vars, missing>>)
    /\ WF_sysVars(Pipeline /\ UNCHANGED <<vars, missing>>)
    /\ \A k \in Calls : WF_sysVars(Return(k))

FairSystemSpec == SystemSpec /\ SystemFairness

-------------------------------------------------------------------------------
(* Properties.                                                              *)

\* Whatever way an entry took into the cache (list.all, an event, a miss), it is
\* filed under its own id and was once a live version of that user; only a
\* failed query can put the zero user there.
CacheIsAuthentic ==
    \A id \in DOMAIN cache :
      /\ cache[id].id = id
      /\ cache[id] \in committed \/ (queryFailed /\ cache[id] = ZeroUser)

\* The users the cache cannot keep up with: the event of the newest version itself
\* was missed, or never left a service that ended.  An older loss is no excuse.
Unreliable ==
    {id \in Ids :
       \/ NewestEvent(id) \in {arrived[n] : n \in missed}
       \/ (phase = "closing" \/ exits > 0) /\ ~Announced(NewestEvent(id))}

\* The updated events that have still to reach the cache: not yet published, in
\* NATS, or in the queues of the client.
Coming ==
    worker["update"].todo
    \cup {events[i] : i \in delivered + 1 .. Len(events)}
    \cup {arrived[n] : n \in In(Underway("updated"))}

\* The users whose events cannot pass each other on their way: they were there
\* before the client, so that nothing but updated events tell of them.
Settled == DOMAIN cache \cap Seeded

\* While no read misses, a cached user is the row's newest version, or the event
\* that makes it so is on its way, unless that very event was lost: whatever was
\* lost before, the next event of the user repairs it.  The cache may go back to an older version for a while: list.all can overtake an event that the
\* update goroutine has still to publish.  (A read that misses breaks this, with an
\* answer that arrives late; so does a user just created, whose created event can
\* come after an updated one.  That a deleted user may be cached again is another
\* matter: see DeletedStaysGone.)
NewestIsComing ==
    \A id \in Settled :
      cache[id] = UserOf(db, id) \/ NewestEvent(id) \in Coming \/ id \in Unreliable

\* The last update of a user reaches an open cache in the end, unless its own event
\* was lost at a full channel or by the end of the service.
EventuallyFresh ==
    <>[](stage = "closed" \/
         \A id \in Settled : cache[id] = UserOf(db, id) \/ id \in Unreliable)

Creation(e, id) == e.type = "created" /\ e.id = id

\* A client that serves lists from its cache has every user in it, or the created
\* event of the user is on its way, whenever the create fell into the start of the
\* client; unless that event came before the client listened, met a full channel,
\* or never left a service that ended.
CompleteUnlessMissed ==
    stage = "serving" /\ fullyLoaded =>
      \A id \in Live(db) \ DOMAIN cache :
        \/ \E e \in worker["create"].todo : Creation(e, id)
        \/ \E i \in delivered + 1 .. Len(events) : Creation(events[i], id)
        \/ \E n \in missed \cup In(Underway("created")) : Creation(arrived[n], id)
        \/ /\ phase = "closing" \/ exits > 0
           /\ \A i \in DOMAIN events : ~Creation(events[i], id)

\* Nothing is on its way any more.
Quiet ==
    /\ stage = "serving" /\ phase = "up"
    /\ missing = {}
    /\ \A s \in Subjects : worker[s].pc = "idle" /\ inbox[s] = <<>>
    /\ delivered = Len(events)
    /\ eventCh = <<>> /\ updateCh = <<>> /\ \A t \in EventTypes : subq[t] = <<>>

\* cache_test.go:224-227: after a deleted event the user is not found any more.
\* Everything has arrived, nothing was lost, and the deleted user is served.
DeletedStaysGone ==
    Quiet /\ missed = {} => DOMAIN cache \subseteq Live(db)

===============================================================================
