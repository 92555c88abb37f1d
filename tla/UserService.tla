------------------------------ MODULE UserService ------------------------------
(***************************************************************************)
(* The user service as its callers see it over NATS: one subscription per  *)
(* RPC subject, each with a queue and a goroutine of its own, so that the  *)
(* requests of one subject are handled one at a time and those of          *)
(* different subjects concurrently.  A handler takes a message, runs one   *)
(* query, replies, and after a successful mutation publishes an event.     *)
(*                                                                         *)
(* A call is one request of one caller; it is used once, and the number of *)
(* Calls bounds the behaviour.                                             *)
(***************************************************************************)
EXTENDS UserEvents

CONSTANTS
    Calls,      \* the requests that can be made
    NoCall,     \* what an idle worker is working on
    Ops,        \* the operations callers ask for
    Seeded,     \* the users in the table at the start
    DbMayFail,  \* whether a query may fail although the service is up
    MaxExits    \* how often the process may end

ASSUME ServiceAssumption ==
    /\ NoCall \notin Calls
    /\ Seeded \subseteq Ids
    /\ DbMayFail \in BOOLEAN
    /\ MaxExits \in Nat

VARIABLES
    db,         \* the table
    inbox,      \* subject -> queue of its subscription
    worker,     \* subject -> what its goroutine is doing
    call,       \* call -> the caller's view of it
    events,     \* the events that left the service, in publication order
    delivered,  \* how many of them reached the subscribers
    phase,      \* of the process
    subs,       \* the subjects subscribed
    exits,      \* how often the process ended
    committed,  \* history: every version of every user that was ever live
    queryFailed \* history: whether any query failed

vars == <<db, inbox, worker, call, events, delivered, phase, subs, exits,
          committed, queryFailed>>

\* In the order of Handler.Subscribe.
Entries == <<"create", "getByID", "getByEmail", "list", "listAll", "update", "delete">>
Subjects == {Entries[i] : i \in DOMAIN Entries}

ASSUME OpsAssumption == Ops \subseteq Subjects

Before(s) == {Entries[i] : i \in {n \in DOMAIN Entries :
                                    \A m \in DOMAIN Entries : Entries[m] = s => n < m}}

Errors == {"none", "validation", "notFound", "alreadyExists", "internal"}
Answer == [err : Errors, users : SUBSET User]
NoAnswer == [err |-> "none", users |-> {}]
Refusal == [err |-> "validation", users |-> {}]

\* A request is malformed as a whole or not: JSON, validator tags and uuid.Parse
\* all end in the same VALIDATION_ERROR.
Request == [op : Subjects, id : Ids \cup {NilId}, email : Emails \cup {NoEmail}, valid : BOOLEAN]
Malformed(op) == [op |-> op, id |-> NilId, email |-> NoEmail, valid |-> FALSE]

\* todo holds the event still to be published (none or one).
Idle == [pc |-> "idle", k |-> NoCall, answer |-> NoAnswer, todo |-> {}]
NewCall == [st |-> "new", req |-> Malformed("list"), answer |-> NoAnswer]

\* list.all has an empty body and no validation.
RequestsOf(op) ==
    (IF op = "listAll" THEN {} ELSE {Malformed(op)}) \cup
    [op    : {op},
     id    : IF op \in {"getByID", "update", "delete"}
               THEN {u.id : u \in committed} \cup {NilId} ELSE {NilId},
     email : IF op \in {"create", "getByEmail", "update"} THEN Emails ELSE {NoEmail},
     valid : {TRUE}]

-------------------------------------------------------------------------------
Init ==
    /\ \E email \in [Seeded -> Emails] :
         /\ \A a, b \in Seeded : email[a] = email[b] => a = b
         /\ db = [id \in Ids |-> IF id \in Seeded THEN LiveRow(email[id], 1) ELSE AbsentRow]
         /\ committed = {[id |-> id, email |-> email[id], rev |-> 1] : id \in Seeded}
    /\ inbox = [s \in Subjects |-> <<>>]
    /\ worker = [s \in Subjects |-> Idle]
    /\ call = [k \in Calls |-> NewCall]
    /\ events = <<>>
    /\ delivered = 0
    /\ phase = "up"
    /\ subs = Subjects
    /\ exits = 0
    /\ queryFailed = FALSE

-------------------------------------------------------------------------------
(* The callers: Client.request on a NATS connection.                        *)

\* RequestWithContext: without a subscriber the server answers "no responders".
Send(k, req) ==
    /\ call[k].st = "new"
    /\ IF req.op \in subs
         THEN /\ call' = [call EXCEPT ![k].st = "waiting", ![k].req = req]
              /\ inbox' = [inbox EXCEPT ![req.op] = Append(@, k)]
         ELSE /\ call' = [call EXCEPT ![k].st = "failed", ![k].req = req]
              /\ UNCHANGED inbox
    /\ UNCHANGED <<db, worker, events, delivered, phase, subs, exits, committed, queryFailed>>

\* The timeout of the client or the context of its caller ends the wait; the
\* request stays where it is.
GiveUp(k) ==
    /\ call[k].st = "waiting"
    /\ call' = [call EXCEPT ![k].st = "failed"]
    /\ UNCHANGED <<db, inbox, worker, events, delivered, phase, subs, exits, committed, queryFailed>>

-------------------------------------------------------------------------------
(* The handlers.  Each runs in the goroutine of its subscription, and is    *)
(* split where other goroutines can run in between.                         *)

\* A slip: the message stays in the queue until its handler has replied.
TakeWithoutRemoving(s) ==
    /\ worker[s].pc = "idle"
    /\ inbox[s] # <<>>
    /\ LET k == Head(inbox[s])
       IN  /\ worker' = [worker EXCEPT ![s] =
                IF call[k].req.valid
                  THEN [Idle EXCEPT !.pc = "query", !.k = k]
                  ELSE [Idle EXCEPT !.pc = "reply", !.k = k, !.answer = Refusal]]
           /\ inbox' = [inbox EXCEPT ![s] = IF call[k].st = "waiting" THEN @ ELSE Tail(@)]
    /\ UNCHANGED <<db, call, events, delivered, phase, subs, exits, committed, queryFailed>>

\* Decode and validate; a malformed request is refused without a query.
Take(s) ==
    /\ worker[s].pc = "idle"
    /\ inbox[s] # <<>>
    /\ LET k == Head(inbox[s])
       IN  worker' = [worker EXCEPT ![s] =
             IF call[k].req.valid
               THEN [Idle EXCEPT !.pc = "query", !.k = k]
               ELSE [Idle EXCEPT !.pc = "reply", !.k = k, !.answer = Refusal]]
    /\ inbox' = [inbox EXCEPT ![s] = Tail(@)]
    /\ UNCHANGED <<db, call, events, delivered, phase, subs, exits, committed, queryFailed>>

health == IF DbMayFail THEN "flaky" ELSE IF phase = "closing" THEN "closed" ELSE "sound"
Querying(s) == worker[s].pc = "query"
Asked(s) == call[worker[s].k].req

\* The query of handler s has outcome o; on success todo is to be published.
Finish(s, o, todo) ==
    /\ db' = o.db
    /\ worker' = [worker EXCEPT ![s].pc = "reply",
                                ![s].answer = [err |-> o.err, users |-> o.users],
                                ![s].todo = IF o.err = "none" THEN todo ELSE {}]
    /\ committed' = committed \cup LiveUsers(o.db)
    /\ queryFailed' = (queryFailed \/ o.err = "internal" \/ ZeroUser \in o.users)
    /\ UNCHANGED <<inbox, call, events, delivered, phase, subs, exits>>

HandleCreate ==
    /\ Querying("create")
    /\ \E o \in Create(db, Asked("create").email, health) :
      Finish("create", o, {UserEvent("created", u) : u \in o.users})

HandleGetByID ==
    /\ Querying("getByID")
    /\ \E o \in GetByID(db, Asked("getByID").id, health) : Finish("getByID", o, {})

HandleGetByEmail ==
    /\ Querying("getByEmail")
    /\ \E o \in GetByEmail(db, Asked("getByEmail").email, health) : Finish("getByEmail", o, {})

HandleList ==
    /\ Querying("list")
    /\ \E o \in List(db, health) : Finish("list", o, {})

HandleListAll ==
    /\ Querying("listAll")
    /\ \E o \in ListAll(db, health) : Finish("listAll", o, {})

HandleUpdate ==
    /\ Querying("update")
    /\ \E o \in Update(db, Asked("update").id, Asked("update").email, health) :
      Finish("update", o, {UserEvent("updated", u) : u \in o.users})

HandleDelete ==
    /\ Querying("delete")
    /\ \E o \in Delete(db, Asked("delete").id, health) :
      Finish("delete", o, {DeletedEvent(Asked("delete").id)})

Handle ==
    \/ HandleCreate \/ HandleGetByID \/ HandleGetByEmail \/ HandleList
    \/ HandleListAll \/ HandleUpdate \/ HandleDelete

\* A slip: the worker lets go of its request before it publishes.
RepliedTooEarly(s) ==
    LET todo == worker[s].todo
    IN  worker' = [worker EXCEPT ![s] =
          IF todo = {} THEN Idle ELSE [Idle EXCEPT !.pc = "publish", !.todo = todo]]

\* The worker moves on after its reply: to the event, or to the next message.
Replied(s) ==
    worker' = [worker EXCEPT ![s] = IF @.todo = {} THEN Idle ELSE [@ EXCEPT !.pc = "publish"]]

\* A slip: the event is published only if the caller was still there.
ReplyThenQuit(s) ==
    LET k == worker[s].k
    IN  /\ worker[s].pc = "reply"
        /\ IF call[k].st = "waiting"
             THEN /\ call' = [call EXCEPT ![k].st = "answered", ![k].answer = worker[s].answer]
                  /\ Replied(s)
             ELSE /\ worker' = [worker EXCEPT ![s] = Idle]
                  /\ UNCHANGED call
        /\ UNCHANGED <<db, inbox, events, delivered, phase, subs, exits, committed, queryFailed>>

\* msg.Respond: a caller that gave up is no longer there to hear it.
Reply(s) ==
    /\ worker[s].pc = "reply"
    /\ call' = [call EXCEPT ![worker[s].k] =
                  IF @.st = "waiting" THEN [@ EXCEPT !.st = "answered", !.answer = worker[s].answer]
                  ELSE @]
    /\ Replied(s)
    /\ UNCHANGED <<db, inbox, events, delivered, phase, subs, exits, committed, queryFailed>>

\* The connection is draining or closed: the error is logged, no more.
ReplyLost(s) ==
    /\ worker[s].pc = "reply"
    /\ phase = "closing"
    /\ Replied(s)
    /\ UNCHANGED <<db, inbox, call, events, delivered, phase, subs, exits, committed, queryFailed>>

\* A slip: a goroutine per event, which an event published later can overtake.
PublishInBackground(s) ==
    /\ worker[s].pc = "publish"
    /\ \E e \in worker[s].todo, n \in delivered .. Len(events) :
         events' = SubSeq(events, 1, n) \o <<e>> \o SubSeq(events, n + 1, Len(events))
    /\ worker' = [worker EXCEPT ![s] = Idle]
    /\ UNCHANGED <<db, inbox, call, delivered, phase, subs, exits, committed, queryFailed>>

\* publishEvent
Publish(s) ==
    /\ worker[s].pc = "publish"
    /\ \E e \in worker[s].todo : events' = Append(events, e)
    /\ worker' = [worker EXCEPT ![s] = Idle]
    /\ UNCHANGED <<db, inbox, call, delivered, phase, subs, exits, committed, queryFailed>>

PublishFails(s) ==
    /\ worker[s].pc = "publish"
    /\ phase = "closing"
    /\ worker' = [worker EXCEPT ![s] = Idle]
    /\ UNCHANGED <<db, inbox, call, events, delivered, phase, subs, exits, committed, queryFailed>>

\* NATS hands the next event of this connection to the subscribers.
Deliver ==
    /\ delivered < Len(events)
    /\ delivered' = delivered + 1
    /\ UNCHANGED <<db, inbox, worker, call, events, phase, subs, exits, committed, queryFailed>>

-------------------------------------------------------------------------------
(* The process: main and Handler.Subscribe / Stop.                          *)

Start ==
    /\ phase = "down"
    /\ phase' = "starting"
    /\ UNCHANGED <<db, inbox, worker, call, events, delivered, subs, exits, committed, queryFailed>>

\* One nc.Subscribe after another; the last one and its Flush end the start.
Subscribe(s) ==
    /\ phase = "starting"
    /\ s \notin subs /\ Before(s) \subseteq subs
    /\ subs' = subs \cup {s}
    /\ phase' = IF subs' = Subjects THEN "up" ELSE phase
    /\ UNCHANGED <<db, inbox, worker, call, events, delivered, exits, committed, queryFailed>>

Signal ==
    /\ phase = "up"
    /\ exits < MaxExits
    /\ phase' = "stopping"
    /\ UNCHANGED <<db, inbox, worker, call, events, delivered, subs, exits, committed, queryFailed>>

\* Stop: unsubscribing drops what is queued; a running handler runs on.
Unsubscribe(s) ==
    /\ phase = "stopping"
    /\ s \in subs /\ Before(s) \cap subs = {}
    /\ subs' = subs \ {s}
    /\ inbox' = [inbox EXCEPT ![s] = <<>>]
    /\ UNCHANGED <<db, worker, call, events, delivered, phase, exits, committed, queryFailed>>

\* nc.Drain, which works in the background, and database.Close.
Close ==
    /\ phase = "stopping"
    /\ subs = {}
    /\ phase' = "closing"
    /\ UNCHANGED <<db, inbox, worker, call, events, delivered, subs, exits, committed, queryFailed>>

\* main returns, or the process is killed: goroutines, queues and what the
\* connection had buffered and not flushed are gone.
Exit ==
    /\ phase # "down"
    /\ exits < MaxExits
    /\ exits' = exits + 1
    /\ phase' = "down"
    /\ subs' = {}
    /\ inbox' = [s \in Subjects |-> <<>>]
    /\ worker' = [s \in Subjects |-> Idle]
    /\ \E n \in delivered .. Len(events) : events' = SubSeq(events, 1, n)
    /\ UNCHANGED <<db, call, delivered, committed, queryFailed>>

-------------------------------------------------------------------------------
Caller(k) == GiveUp(k) \/ \E op \in Ops : \E req \in RequestsOf(op) : Send(k, req)
Advance(s) == Take(s) \/ Reply(s) \/ ReplyLost(s) \/ Publish(s) \/ PublishFails(s)
Process == Start \/ Signal \/ Close \/ Exit \/ \E s \in Subjects : Subscribe(s) \/ Unsubscribe(s)

Next ==
    \/ \E k \in Calls : Caller(k)
    \/ Handle
    \/ \E s \in Subjects : Advance(s)
    \/ Deliver
    \/ Process

Spec == Init /\ [][Next]_vars

\* Goroutines are scheduled, and every query ends (the handler's context
\* expires after 30 s); a caller need not send, nor NATS deliver.
Fairness ==
    /\ WF_vars(HandleCreate) /\ WF_vars(HandleGetByID) /\ WF_vars(HandleGetByEmail)
    /\ WF_vars(HandleList) /\ WF_vars(HandleListAll)
    /\ WF_vars(HandleUpdate) /\ WF_vars(HandleDelete)
    /\ \A s \in Subjects : WF_vars(Advance(s))

FairSpec == Spec /\ Fairness

-------------------------------------------------------------------------------
Work == [pc : {"idle", "query", "reply", "publish"}, k : Calls \cup {NoCall},
         answer : Answer, todo : SUBSET Event]
View == [st : {"new", "waiting", "answered", "failed"}, req : Request, answer : Answer]

TableOK == db \in [Ids -> Row] /\ committed \in SUBSET User /\ queryFailed \in BOOLEAN
WorkOK ==
    /\ inbox \in [Subjects -> Seq(Calls)]
    /\ worker \in [Subjects -> Work]
    /\ \A s \in Subjects : worker[s].pc # "idle" => worker[s].k \in Calls
CallsOK == call \in [Calls -> View]
WireOK == events \in Seq(Event) /\ delivered \in 0 .. Len(events)
ProcessOK ==
    /\ phase \in {"up", "stopping", "closing", "down", "starting"}
    /\ subs \in SUBSET Subjects
    /\ exits \in 0 .. MaxExits

\* Every variable stays in its type, and a busy worker has a call.
TypeOK == TableOK /\ WorkOK /\ CallsOK /\ WireOK /\ ProcessOK

-------------------------------------------------------------------------------
(* Properties.                                                              *)

\* Two live users never have the same email, whatever create and update do
\* concurrently: nothing but the partial unique index (migration 000002) keeps
\* them apart, the service checks nothing first.
UniqueLiveEmails ==
    \A a, b \in Live(db) : db[a].email = db[b].email => a = b

\* The users the service has told anybody about.
Told ==
    (UNION {call[k].answer.users : k \in Calls})
    \cup (UNION {worker[s].answer.users : s \in Subjects})
    \cup {events[i].user : i \in {n \in DOMAIN events : events[n].type # "deleted"}}

\* Every user in an answer or an event is a version that was once live, never a
\* mixture or a leftover; only a failed query may put the zero user there.
ToldIsCommitted ==
    \A u \in Told : u \in committed \/ (queryFailed /\ u = ZeroUser)

\* A deleted row is never written again: an update or a second delete that was
\* queued behind the delete finds no row, and create never reuses an id.
DeletedIsFinal ==
    [][\A id \in Ids : db[id].state = "deleted" => db'[id] = db[id]]_vars

\* NOT_FOUND for a user that once existed is final: whoever reads it may forget
\* the user, no matter which handlers are still running.
NotFoundIsFinal ==
    \A k \in Calls :
      /\ call[k].answer.err = "notFound"
      /\ call[k].req.id \in Ids
      => db[call[k].req.id].state = "deleted"

Announced(e) == e \in {events[i] : i \in DOMAIN events}

\* The event that tells of the newest version of a user.
NewestEvent(id) == UserEvent("updated", UserOf(db, id))

\* No commit is announced twice, nor still to be announced when it already was:
\* of two deletes of one user only one matches a row, and no two updates return
\* the same version.  (The zero user of a failed update can repeat.)
AnnouncedOnce ==
    /\ \A i, j \in DOMAIN events :
         events[i] = events[j] /\ events[i].id # NilId => i = j
    /\ \A s \in Subjects : \A e \in worker[s].todo : Announced(e) => e.id = NilId

\* The updates of one user are announced in the order they were committed,
\* because one goroutine commits and announces them all.
UpdatesInCommitOrder ==
    \A i, j \in DOMAIN events :
      /\ i < j
      /\ events[i].type = "updated" /\ events[j].type = "updated"
      /\ events[i].id = events[j].id /\ events[i].id # NilId
      => events[i].user.rev < events[j].user.rev

\* Whoever was told of an update of a user was told of every earlier one, although
\* callers give up, and unsubscribing and closing overtake the handlers: only a
\* process that ended, or a query that failed after its commit, leaves a gap.
UpdatesWithoutGaps ==
    exits = 0 /\ ~queryFailed =>
      \A u, v \in committed :
        /\ u.id = v.id /\ 1 < u.rev /\ u.rev < v.rev
        /\ Announced(UserEvent("updated", v))
        => Announced(UserEvent("updated", u))

\* The events the commits so far call for.
Due ==
    {UserEvent("created", u) : u \in {v \in committed : v.rev = 1 /\ v.id \notin Seeded}}
    \cup {UserEvent("updated", u) : u \in {v \in committed : v.rev > 1}}
    \cup {DeletedEvent(id) : id \in {i \in Ids : db[i].state = "deleted"}}

\* Every commit is announced in the end, whether or not its caller waited for
\* the answer, and also while the process is unsubscribing; unless it went on to
\* close its connection or was killed, or a query failed after it committed.
CommitsAreAnnounced ==
    []<>((\A e \in Due : Announced(e)) \/ phase = "closing" \/ exits > 0 \/ queryFailed)

\* README:302 and 307: an updated event follows a user successfully updated.
UpdatedEventIsAnUpdate ==
    \A i \in DOMAIN events : events[i].type = "updated" => events[i].user \in committed

===============================================================================
