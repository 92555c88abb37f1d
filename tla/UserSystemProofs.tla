---------------------------- MODULE UserSystemProofs ----------------------------
(***************************************************************************)
(* What TLAPS proves of the service and its caching client together.       *)
(*                                                                         *)
(* The client runs in an environment that is now the service: what loads   *)
(* the cache, arrives or fills it after a miss is what the service told.   *)
(* And the callers of the service are now the client's: loadCache asks     *)
(* once, and a read that hits is answered without the service.  A step of  *)
(* the system is therefore a step of the service, one of those two, or a   *)
(* step of the client in the open environment of UserCacheProofs.          *)
(*                                                                         *)
(* SafeInv puts the invariants of both sides together: what was told was   *)
(* committed.  WayInv follows an event from its commit to the cache: owed  *)
(* by its worker, announced, arrived, and then missed, underway or         *)
(* applied; and list.all from the query to the cache.                      *)
(***************************************************************************)
EXTENDS UserSystem, UserServiceOrderProofs, UserCacheProofs

LoadRequest == [op |-> "listAll", id |-> NilId, email |-> NoEmail, valid |-> TRUE]

\* A caller's step that is none of the service alone: loadCache, and a read that
\* the cache answers.
LoadSends == Send(Loader, LoadRequest)
Answered(req, users) ==
    [st |-> "answered", req |-> req, answer |-> [err |-> "none", users |-> users]]
CacheAnswers(k, req, users) ==
    /\ call[k].st = "new"
    /\ call' = [call EXCEPT ![k] = Answered(req, users)]
    /\ UNCHANGED <<db, inbox, worker, events, delivered, phase, subs, exits, committed, queryFailed>>
CacheHits ==
    \E op \in Ops : \E k \in Calls \ {Loader}, req \in RequestsOf(op) :
      \E users \in Hits(req) : CacheAnswers(k, req, users)

\* What the service sees of a step of the system.
LEMMA ServiceSide ==
    ASSUME [SystemNext]_sysVars
    PROVE  [Next]_vars \/ LoadSends \/ CacheHits
  <1>1. CASE Load
    BY <1>1 DEF Load, LoadSends, LoadRequest
  <1>2. CASE EndLoad
    BY <1>2 DEF EndLoad
  <1>3. ASSUME NEW k \in Calls \ {Loader}, Ask(k) PROVE [Next]_vars \/ CacheHits
    <2>1. PICK op \in Ops : \E req \in RequestsOf(op) :
            IF op \in CachedReads \cup {"list"} THEN Hit(k, req) \/ Miss(k, req)
            ELSE Send(k, req) /\ UNCHANGED <<cacheVars, missing>>
      BY <1>3 DEF Ask
    <2>2. PICK req \in RequestsOf(op) : Hit(k, req) \/ Send(k, req)
      BY <2>1 DEF Miss
    <2>3. CASE Send(k, req)
      BY <2>3 DEF Next, Caller
    <2>4. CASE Hit(k, req)
      <3>1. \E users \in Hits(req) : CacheAnswers(k, req, users)
        BY <2>4 DEF Hit, CacheAnswers, Answered
      <3> QED  BY <3>1 DEF CacheHits
    <2> QED  BY <2>2, <2>3, <2>4
  <1>4. ASSUME NEW k \in Calls \ {Loader}, Return(k) PROVE UNCHANGED vars
    BY <1>4 DEF Return
  <1>5. ASSUME NEW k \in Calls, Timeout(k) PROVE Next
    BY <1>5 DEF Timeout, Next, Caller
  <1>6. CASE Serving
    BY <1>6 DEF Serving, Next
  <1>7. CASE DeliverToClient
    BY <1>7 DEF DeliverToClient, Next
  <1>8. CASE Restart
    BY <1>8 DEF Restart, Next
  <1>9. CASE Client \/ UNCHANGED sysVars
    BY <1>9 DEF Client, sysVars
  <1> QED  BY <1>1, <1>2, <1>3, <1>4, <1>5, <1>6, <1>7, <1>8, <1>9 DEF SystemNext

\* What the client sees of it, and where it has it from.
AnswerLoads(users) ==
    /\ call[Loader].st = "answered" /\ call[Loader].answer.err = "none"
    /\ users = call[Loader].answer.users
    /\ Loaded(users) /\ UNCHANGED <<vars, missing>>
AnswerFills(u) ==
    \E k \in missing \cap (Calls \ {Loader}) :
      /\ call[k].st = "answered" /\ call[k].answer.err = "none"
      /\ u \in call[k].answer.users
      /\ Fill(u) /\ missing' = missing \ {k} /\ UNCHANGED vars

LEMMA ClientSide ==
    ASSUME [SystemNext]_sysVars
    PROVE  \/ UNCHANGED cacheVars
           \/ Client
           \/ LoadFailed /\ UNCHANGED <<vars, missing>>
           \/ DeliverToClient
           \/ \E users : AnswerLoads(users)
           \/ \E u : AnswerFills(u)
  <1>1. CASE Load
    BY <1>1 DEF Load
  <1>2. CASE EndLoad
    BY <1>2 DEF EndLoad, AnswerLoads
  <1>3. ASSUME NEW k \in Calls \ {Loader}, Ask(k) PROVE UNCHANGED cacheVars
    BY <1>3 DEF Ask, Hit, Miss
  <1>4. ASSUME NEW k \in Calls \ {Loader}, Return(k)
        PROVE  UNCHANGED cacheVars \/ \E u : AnswerFills(u)
    BY <1>4 DEF Return, AnswerFills
  <1>5. ASSUME NEW k \in Calls, Timeout(k) PROVE UNCHANGED cacheVars
    BY <1>5 DEF Timeout
  <1>6. CASE Serving \/ Restart
    BY <1>6 DEF Serving, Restart
  <1>7. CASE UNCHANGED sysVars
    BY <1>7 DEF sysVars
  <1> QED  BY <1>1, <1>2, <1>3, <1>4, <1>5, <1>6, <1>7 DEF SystemNext

-------------------------------------------------------------------------------
(* The invariants of the service alone survive the client's two steps.      *)

LEMMA LoadRequestType == LoadRequest \in Request /\ LoadRequest.op = "listAll"
  <1>1. "listAll" \in Subjects
    BY DEF Subjects, Entries
  <1> QED  BY <1>1 DEF LoadRequest, Request

LEMMA SendType ==
    ASSUME TypeOK, NEW k \in Calls, NEW req \in Request, Send(k, req)
    PROVE  TypeOK'
  <1> USE DEF TypeOK
  <1>1. req.op \in Subjects
    BY DEF Request
  <1>2. CallsOK'
    BY <1>1 DEF Send, CallsOK, View
  <1>3. Append(inbox[req.op], k) \in Seq(Calls)
    BY <1>1, QueueType DEF WorkOK
  <1>4. WorkOK'
    BY <1>1, <1>3 DEF Send, WorkOK
  <1> QED  BY <1>2, <1>4, UntouchedType DEF Send

\* What a hit hands out.
LEMMA HitsAre ==
    ASSUME NEW req, NEW users \in Hits(req)
    PROVE  \A u \in users : \E id \in DOMAIN cache : u = cache[id]
  BY DEF Hits

LEMMA HitUsers ==
    ASSUME CacheInv, NEW req, NEW users \in Hits(req)
    PROVE  users \in SUBSET User /\ Distinct(users)
  BY HitsAre DEF CacheInv, CacheTypeOK, KeyedById, Distinct

LEMMA AnsweredView ==
    ASSUME NEW req \in Request, NEW users \in SUBSET User
    PROVE  Answered(req, users) \in View
  <1>1. [err |-> "none", users |-> users] \in Answer
    BY DEF Answer, Errors
  <1> QED  BY <1>1 DEF Answered, View

LEMMA HitType ==
    ASSUME TypeOK, CacheInv, CacheHits
    PROVE  TypeOK'
  <1>1. PICK op \in Ops, k \in Calls \ {Loader} : \E req \in RequestsOf(op) :
          \E users \in Hits(req) : CacheAnswers(k, req, users)
    BY DEF CacheHits
  <1>2. PICK req \in RequestsOf(op) : \E users \in Hits(req) : CacheAnswers(k, req, users)
    BY <1>1
  <1>3. PICK users \in Hits(req) : CacheAnswers(k, req, users)
    BY <1>2
  <1>4. req \in Request
    BY RequestType, OpsAssumption DEF TypeOK
  <1>5. Answered(req, users) \in View
    BY <1>4, HitUsers, AnsweredView
  <1>6. CallsOK'
    BY <1>3, <1>5 DEF CacheAnswers, CallsOK, TypeOK
  <1> QED  BY <1>3, <1>6, UntouchedType DEF CacheAnswers, TypeOK

LEMMA SystemType ==
    ASSUME TypeOK, CacheInv, [SystemNext]_sysVars
    PROVE  TypeOK'
  <1>1. CASE LoadSends
    BY <1>1, SendType, LoadRequestType, SystemAssumption DEF LoadSends
  <1> QED  BY <1>1, ServiceSide, StepType, HitType

-------------------------------------------------------------------------------
(* What is told, by the service or from the cache, was committed.           *)

CacheTold == \A id \in DOMAIN cache : Authentic(cache[id])
ArrivedTold == \A n \in Numbers : Honest(arrived[n])

LEMMA AuthenticStays ==
    ASSUME TypeOK, [SystemNext]_sysVars
    PROVE  /\ committed \subseteq committed' /\ (queryFailed => queryFailed')
           /\ \A u : Authentic(u) => Authentic(u)'
           /\ \A e : Honest(e) => Honest(e)'
  <1>1. committed \subseteq committed' /\ (queryFailed => queryFailed')
    <2>1. CASE UNCHANGED <<db, committed, queryFailed>>
      BY <2>1
    <2>2. CASE Handle
      BY <2>2, HandleIs DEF Finish
    <2>3. CASE [Next]_vars /\ ~Handle
      BY <2>1, <2>3, OnlyHandlersWrite
    <2> QED  BY <2>1, <2>2, <2>3, ServiceSide DEF LoadSends, Send, CacheHits, CacheAnswers
  <1> QED  BY <1>1 DEF Authentic, Honest

LEMMA ToldSystem ==
    ASSUME TypeOK, CacheTold, ToldInv, [SystemNext]_sysVars
    PROVE  ToldInv'
  <1>1. CASE LoadSends
    <2>1. /\ UNCHANGED <<db, committed, queryFailed, worker, events>>
          /\ \A j \in Calls : call'[j].answer = call[j].answer
      BY <1>1, SystemAssumption DEF LoadSends, Send, TypeOK, CallsOK, View
    <2>2. CallsTold'
      BY <2>1, ToldUntouched DEF ToldInv, CallsTold
    <2> QED  BY <2>1, <2>2, ToldUntouched DEF ToldInv
  <1>2. CASE CacheHits
    <2>1. PICK op \in Ops, k \in Calls \ {Loader} : \E req \in RequestsOf(op) :
            \E users \in Hits(req) : CacheAnswers(k, req, users)
      BY <1>2 DEF CacheHits
    <2>2. PICK req \in RequestsOf(op) : \E users \in Hits(req) : CacheAnswers(k, req, users)
      BY <2>1
    <2>3. PICK users \in Hits(req) : CacheAnswers(k, req, users)
      BY <2>2
    <2>4. /\ UNCHANGED <<db, committed, queryFailed, worker, events>>
          /\ call'[k].answer.users = users
          /\ \A j \in Calls \ {k} : call'[j] = call[j]
      BY <2>3 DEF CacheAnswers, Answered, TypeOK, CallsOK
    <2>5. \A u \in users : Authentic(u)
      BY HitsAre DEF CacheTold
    <2>6. CallsTold'
      BY <2>4, <2>5, ToldUntouched DEF ToldInv, CallsTold
    <2> QED  BY <2>4, <2>6, ToldUntouched DEF ToldInv
  <1> QED  BY <1>1, <1>2, ServiceSide, ToldStep

-------------------------------------------------------------------------------
(* Answers and events have the form the client expects: the users of an     *)
(* answer have different ids, and an event has the id of its user.          *)

\* Where an answer is after a step: where it was, or one place further.
LEMMA AnswersMove ==
    ASSUME TypeOK, [Next]_vars, ~Handle
    PROVE  /\ \A s \in Subjects : worker'[s].answer.users \in {worker[s].answer.users, {}}
           /\ \A k \in Calls : \/ call'[k].answer = call[k].answer
                               \/ \E s \in Subjects : call'[k].answer = worker[s].answer
  <1>1. ASSUME NEW k \in Calls, Caller(k)
        PROVE  UNCHANGED worker /\ \A j \in Calls : call'[j].answer = call[j].answer
    BY <1>1 DEF Caller, GiveUp, Send, TypeOK, CallsOK, View
  <1>2. CASE Deliver \/ Process \/ UNCHANGED vars
    <2>1. UNCHANGED call /\ (UNCHANGED worker \/ worker' = [s \in Subjects |-> Idle])
      BY <1>2 DEF Deliver, Process, Start, Signal, Close, Exit, Subscribe, Unsubscribe, vars
    <2>2. Idle.answer.users = {}
      BY DEF Idle, NoAnswer
    <2> QED  BY <2>1, <2>2
  <1>3. ASSUME NEW s \in Subjects, Advance(s)
        PROVE  /\ \A r \in Subjects : worker'[r].answer.users \in {worker[r].answer.users, {}}
               /\ \A k \in Calls : call'[k].answer \in {call[k].answer, worker[s].answer}
    <2>1. Idle.answer.users = {} /\ Refusal.users = {} /\ worker[s] \in Work
      BY DEF Idle, NoAnswer, Refusal, TypeOK, WorkOK
    <2>2. CASE Take(s)
      <3>1. \A k : /\ [Idle EXCEPT !.pc = "query", !.k = k].answer.users = {}
                   /\ [Idle EXCEPT !.pc = "reply", !.k = k, !.answer = Refusal].answer.users = {}
        BY <2>1 DEF Idle
      <3>2. \E w : worker' = [worker EXCEPT ![s] = w] /\ w.answer.users = {}
        <4>1. CASE call[Head(inbox[s])].req.valid
          BY <2>2, <3>1, <4>1 DEF Take
        <4>2. CASE ~call[Head(inbox[s])].req.valid
          BY <2>2, <3>1, <4>2 DEF Take
        <4> QED  BY <4>1, <4>2
      <3> QED  BY <2>2, <3>2 DEF Take, TypeOK, WorkOK
    <2>3. CASE Reply(s) \/ ReplyLost(s)
      <3>1. worker' = [worker EXCEPT ![s] = IF worker[s].todo = {} THEN Idle
                                            ELSE [worker[s] EXCEPT !.pc = "publish"]]
        BY <2>3 DEF Reply, ReplyLost, Replied
      <3>2. [worker[s] EXCEPT !.pc = "publish"].answer = worker[s].answer
        BY <2>1 DEF Work
      <3>3. \A r \in Subjects : worker'[r].answer.users \in {worker[r].answer.users, {}}
        BY <2>1, <3>1, <3>2 DEF TypeOK, WorkOK
      <3>4. \A k \in Calls : call'[k].answer \in {call[k].answer, worker[s].answer}
        BY <2>3 DEF Reply, ReplyLost, TypeOK, CallsOK, View
      <3> QED  BY <3>3, <3>4
    <2>4. CASE Publish(s) \/ PublishFails(s)
      BY <2>1, <2>4 DEF Publish, PublishFails, TypeOK, WorkOK
    <2> QED  BY <1>3, <2>2, <2>3, <2>4 DEF Advance
  <1>4. \/ \E k \in Calls : Caller(k)
        \/ Deliver \/ Process \/ UNCHANGED vars
        \/ \E s \in Subjects : Advance(s)
    BY DEF Next
  <1> QED  BY <1>1, <1>2, <1>3, <1>4

AnswersDistinct ==
    /\ \A k \in Calls : Distinct(call[k].answer.users)
    /\ \A s \in Subjects : Distinct(worker[s].answer.users)

LEMMA DistinctEmpty == Distinct({})
  BY DEF Distinct

LEMMA TableDistinct == \A t : Distinct(LiveUsers(t) \cup {ZeroUser})
  BY ZeroUserType, StoreAssumption DEF Distinct, LiveUsers, UserOf, Live

LEMMA DistinctInit == Init => AnswersDistinct
  <1>1. NewCall.answer.users = {} /\ Idle.answer.users = {}
    BY DEF NewCall, NoAnswer, Idle
  <1> SUFFICES ASSUME Init PROVE AnswersDistinct
    OBVIOUS
  <1>2. /\ \A k \in Calls : call[k].answer.users = {}
        /\ \A s \in Subjects : worker[s].answer.users = {}
    BY <1>1 DEF Init
  <1> QED  BY <1>2, DistinctEmpty DEF AnswersDistinct

LEMMA DistinctStep ==
    ASSUME TypeOK, CacheInv, AnswersDistinct, [SystemNext]_sysVars
    PROVE  AnswersDistinct'
  <1>1. CASE Handle
    <2>1. PICK s \in Subjects : \E o, todo : HandledBy(s, o, todo)
      BY <1>1, HandleStep
    <2>2. PICK o, todo : HandledBy(s, o, todo)
      BY <2>1
    <2>3. Finish(s, o, todo) /\ o.users \subseteq LiveUsers(o.db) \cup {ZeroUser}
      BY <2>2 DEF HandledBy, Returned, Sound
    <2>4. Distinct(o.users)
      BY <2>3, TableDistinct DEF Distinct
    <2>5. /\ worker'[s].answer.users = o.users /\ UNCHANGED call
          /\ \A r \in Subjects \ {s} : worker'[r] = worker[r]
      BY <2>3 DEF Finish, TypeOK, WorkOK, Work
    <2> QED  BY <2>4, <2>5 DEF AnswersDistinct
  <1>2. CASE [Next]_vars /\ ~Handle
    BY <1>2, AnswersMove, DistinctEmpty DEF AnswersDistinct
  <1>3. CASE LoadSends
    BY <1>3, SystemAssumption DEF LoadSends, Send, TypeOK, CallsOK, View, AnswersDistinct
  <1>4. CASE CacheHits
    <2>1. PICK op \in Ops, k \in Calls \ {Loader} : \E req \in RequestsOf(op) :
            \E users \in Hits(req) : CacheAnswers(k, req, users)
      BY <1>4 DEF CacheHits
    <2>2. PICK req \in RequestsOf(op) : \E users \in Hits(req) : CacheAnswers(k, req, users)
      BY <2>1
    <2>3. PICK users \in Hits(req) : CacheAnswers(k, req, users)
      BY <2>2
    <2>4. /\ UNCHANGED worker /\ call'[k].answer.users = users
          /\ \A j \in Calls \ {k} : call'[j] = call[j]
      BY <2>3 DEF CacheAnswers, Answered, TypeOK, CallsOK
    <2> QED  BY <2>4, HitUsers DEF AnswersDistinct
  <1> QED  BY <1>1, <1>2, <1>3, <1>4, ServiceSide

Matching(e) == e.type # "deleted" => e.id = e.user.id
EventsMatch ==
    /\ \A i \in DOMAIN events : Matching(events[i])
    /\ \A s \in Subjects : \A e \in worker[s].todo : Matching(e)

LEMMA MatchInit == Init => EventsMatch
  BY DEF Init, EventsMatch, Idle

LEMMA MatchStep ==
    ASSUME TypeOK, EventsMatch, [SystemNext]_sysVars
    PROVE  EventsMatch'
  <1>1. CASE Handle
    <2>1. PICK s \in Subjects : \E o :
            Querying(s) /\ Does(s, Asked(s), o) /\ Finish(s, o, EventOf(s, Asked(s), o))
      BY <1>1, HandleIs
    <2>2. PICK o : Finish(s, o, EventOf(s, Asked(s), o))
      BY <2>1
    <2>3. \A e \in EventOf(s, Asked(s), o) : Matching(e)
      BY DEF EventOf, UserEvent, DeletedEvent, Matching
    <2>4. /\ worker'[s].todo \subseteq EventOf(s, Asked(s), o) /\ UNCHANGED events
          /\ \A r \in Subjects \ {s} : worker'[r] = worker[r]
      BY <2>2 DEF Finish, TypeOK, WorkOK, Work
    <2> QED  BY <2>3, <2>4 DEF EventsMatch
  <1>2. CASE [Next]_vars /\ ~Handle
    <2>1. ASSUME UNCHANGED events, \A r \in Subjects : worker'[r].todo \subseteq worker[r].todo
          PROVE  EventsMatch'
      BY <2>1 DEF EventsMatch
    <2>2. ASSUME NEW s \in Subjects, NEW e \in worker[s].todo, events' = Append(events, e),
                 worker'[s].todo = {}, \A r \in Subjects \ {s} : worker'[r] = worker[r]
          PROVE  EventsMatch'
      <3>1. \A i \in DOMAIN events' : events'[i] = e \/ (i \in DOMAIN events /\ events'[i] = events[i])
        BY <2>2, EventsTyped DEF TypeOK, WireOK
      <3> QED  BY <2>2, <3>1 DEF EventsMatch
    <2>3. ASSUME NEW n \in 0 .. Len(events), events' = SubSeq(events, 1, n),
                 \A r \in Subjects : worker'[r].todo = {}
          PROVE  EventsMatch'
      <3>1. \A i \in DOMAIN events' : i \in DOMAIN events /\ events'[i] = events[i]
        BY <2>3 DEF TypeOK, WireOK
      <3> QED  BY <2>3, <3>1 DEF EventsMatch
    <2> QED  BY <1>2, <2>1, <2>2, <2>3, WireSteps
  <1>3. CASE LoadSends \/ CacheHits
    BY <1>3 DEF LoadSends, Send, CacheHits, CacheAnswers, EventsMatch
  <1> QED  BY <1>1, <1>2, <1>3, ServiceSide

-------------------------------------------------------------------------------
(* The client's invariant, with the service as its environment.             *)

SafeInv ==
    /\ TypeOK /\ ToldInv /\ AnswersDistinct /\ EventsMatch
    /\ ClientInv /\ CacheTold /\ ArrivedTold

LEMMA ServiceIsOpen ==
    ASSUME SafeInv, [SystemNext]_sysVars
    PROVE  [OpenNext]_cacheVars
  <1>1. CASE Client \/ LoadFailed
    BY <1>1 DEF Client, OpenNext, Open
  <1>2. CASE DeliverToClient
    <2>1. delivered' \in DOMAIN events /\ Arrive(events[delivered'])
      BY <1>2 DEF DeliverToClient, Deliver, SafeInv, TypeOK, WireOK
    <2>2. events[delivered'] \in AnyEvent
      BY <2>1, EventsTyped DEF SafeInv, EventsMatch, Matching, AnyEvent
    <2> QED  BY <2>1, <2>2 DEF OpenNext, Open
  <1>3. \A k \in Calls : call[k].answer.users \in SUBSET User
    BY DEF SafeInv, TypeOK, CallsOK, View, Answer
  <1>4. ASSUME NEW users, AnswerLoads(users) PROVE OpenNext
    BY <1>3, <1>4, SystemAssumption DEF AnswerLoads, SafeInv, AnswersDistinct, OpenNext, Open
  <1>5. ASSUME NEW u, AnswerFills(u) PROVE OpenNext
    BY <1>3, <1>5 DEF AnswerFills, OpenNext, Open
  <1> QED  BY <1>1, <1>2, <1>4, <1>5, ClientSide

LEMMA CacheToldStep ==
    ASSUME SafeInv, [SystemNext]_sysVars
    PROVE  CacheTold'
  <1>1. \A u : Authentic(u) => Authentic(u)'
    BY AuthenticStays DEF SafeInv
  <1>2. ASSUME UNCHANGED cache PROVE CacheTold'
    BY <1>1, <1>2 DEF SafeInv, CacheTold
  <1>3. ASSUME NEW u, Authentic(u), cache' = Put(cache, u) PROVE CacheTold'
    BY <1>1, <1>3 DEF SafeInv, CacheTold, Put
  <1>4. \A k \in Calls : \A u \in call[k].answer.users : Authentic(u)
    BY DEF SafeInv, ToldInv, CallsTold
  <1>5. ASSUME NEW u, AnswerFills(u) PROVE CacheTold'
    BY <1>3, <1>4, <1>5 DEF AnswerFills, Fill
  <1>6. ASSUME NEW users, AnswerLoads(users) PROVE CacheTold'
    <2>1. cache' = [id \in {u.id : u \in users} |-> CHOOSE u \in users : u.id = id]
      BY <1>6 DEF AnswerLoads, Loaded
    <2>2. \A id \in DOMAIN cache' : cache'[id] \in users
      BY <2>1
    <2>3. \A u \in users : Authentic(u)
      BY <1>4, <1>6, SystemAssumption DEF AnswerLoads
    <2> QED  BY <1>1, <2>2, <2>3 DEF CacheTold
  <1>7. CASE Apply
    <2>1. Head(updateCh) \in Numbers
      BY <1>7, ApplyWay DEF SafeInv, ClientInv, CacheInv, CacheTypeOK, WayType
    <2>2. Honest(arrived[Head(updateCh)])
      BY <2>1 DEF SafeInv, ArrivedTold
    <2>3. CASE arrived[Head(updateCh)].type = "deleted"
      BY <1>1, <1>7, <2>3 DEF Apply, Drop, SafeInv, CacheTold
    <2>4. CASE arrived[Head(updateCh)].type # "deleted"
      BY <1>3, <1>7, <2>2, <2>4 DEF Apply, Honest
    <2> QED  BY <2>3, <2>4
  <1>8. CASE Client /\ ~Apply
    BY <1>2, <1>8 DEF Client, Startup, Pipeline, Shutdown, Listen, Serve, Callback, Forward,
       CloseClient, NoticeStop, StopProcessor
  <1>9. CASE UNCHANGED cacheVars \/ LoadFailed \/ DeliverToClient
    BY <1>2, <1>9 DEF cacheVars, LoadFailed, DeliverToClient, Arrive
  <1> QED  BY <1>5, <1>6, <1>7, <1>8, <1>9, ClientSide

LEMMA ArrivedToldStep ==
    ASSUME SafeInv, [SystemNext]_sysVars
    PROVE  ArrivedTold'
  <1>1. \A e : Honest(e) => Honest(e)'
    BY AuthenticStays DEF SafeInv
  <1>2. ASSUME UNCHANGED arrived PROVE ArrivedTold'
    BY <1>1, <1>2 DEF SafeInv, ArrivedTold, Numbers
  <1>3. CASE DeliverToClient
    <2>1. delivered' \in DOMAIN events /\ arrived' = Append(arrived, events[delivered'])
      BY <1>3 DEF DeliverToClient, Deliver, Arrive, SafeInv, TypeOK, WireOK
    <2>2. PICK e \in Event : Honest(e) /\ arrived' = Append(arrived, e)
      BY <2>1, EventsTyped DEF SafeInv, ToldInv, EventsTold
    <2>3. /\ Numbers' = Numbers \cup {Len(arrived')}
          /\ \A n \in Numbers : arrived'[n] = arrived[n]
          /\ arrived'[Len(arrived')] = e
      BY <2>2, ArrivedKeeps DEF SafeInv, ClientInv, CacheInv, CacheTypeOK, WayType
    <2> QED  BY <1>1, <2>2, <2>3 DEF SafeInv, ArrivedTold
  <1>4. UNCHANGED arrived \/ DeliverToClient
    BY ClientSide DEF cacheVars, LoadFailed, AnswerLoads, Loaded, AnswerFills, Fill, Client, Startup,
       Pipeline, Shutdown, Listen, Serve, Callback, Forward, Apply, CloseClient, NoticeStop, StopProcessor
  <1> QED  BY <1>2, <1>3, <1>4

LEMMA SafeInit == SystemInit => SafeInv
  <1> SUFFICES ASSUME SystemInit PROVE SafeInv
    OBVIOUS
  <1>1. Init /\ CacheInit
    BY DEF SystemInit
  <1>2. CacheTold /\ ArrivedTold
    BY <1>1 DEF CacheInit, CacheTold, ArrivedTold, Numbers
  <1> QED  BY <1>1, <1>2, InitType, ToldInit, DistinctInit, MatchInit, ClientInit DEF SafeInv

LEMMA SafeStep == SafeInv /\ [SystemNext]_sysVars => SafeInv'
  <1> SUFFICES ASSUME SafeInv, [SystemNext]_sysVars PROVE SafeInv'
    OBVIOUS
  <1>1. CacheInv
    BY DEF SafeInv, ClientInv
  <1>2. TypeOK' /\ ToldInv' /\ AnswersDistinct' /\ EventsMatch'
    BY <1>1, SystemType, ToldSystem, DistinctStep, MatchStep DEF SafeInv
  <1>3. ClientInv'
    BY ServiceIsOpen, ClientStep DEF SafeInv
  <1> QED  BY <1>2, <1>3, CacheToldStep, ArrivedToldStep DEF SafeInv

LEMMA SafeAlways == SystemSpec => []SafeInv
  BY SafeInit, SafeStep, PTL DEF SystemSpec

\* Whichever way an entry took into the cache (list.all, an event, a miss), it is
\* filed under its id and was once a live version of that user, or is the zero
\* user of a failed query.
THEOREM CacheStaysAuthentic == SystemSpec => []CacheIsAuthentic
  <1>1. SafeInv => CacheIsAuthentic
    BY DEF SafeInv, CacheTold, Authentic, ClientInv, CacheInv, KeyedById, CacheIsAuthentic
  <1> QED  BY <1>1, SafeAlways, PTL

-------------------------------------------------------------------------------
(* The other invariants of the service, with the client's two steps.        *)

LEMMA AskedNew ==
    ASSUME TypeOK, LoadSends \/ CacheHits
    PROVE  \E k \in Calls :
             /\ call[k].st = "new" /\ call'[k].st # "new"
             /\ \A j \in Calls \ {k} : call'[j] = call[j]
             /\ call'[k].answer = call[k].answer \/ call'[k].answer.err = "none"
             /\ \/ k = Loader /\ call'[k].req = LoadRequest
                \/ k # Loader /\ \E op \in Ops : call'[k].req \in RequestsOf(op)
             /\ \/ UNCHANGED inbox
                \/ LoadSends /\ inbox' = [inbox EXCEPT !["listAll"] = Append(@, k)]
             /\ UNCHANGED <<db, worker, events, delivered, phase, subs, exits, committed, queryFailed>>
  <1>1. CASE LoadSends
    <2>1. /\ call[Loader].st = "new" /\ call'[Loader].st # "new"
          /\ call'[Loader].req = LoadRequest /\ call'[Loader].answer = call[Loader].answer
          /\ \A j \in Calls \ {Loader} : call'[j] = call[j]
      BY <1>1, SystemAssumption DEF LoadSends, Send, TypeOK, CallsOK, View
    <2>2. UNCHANGED inbox \/ inbox' = [inbox EXCEPT !["listAll"] = Append(@, Loader)]
      BY <1>1, LoadRequestType DEF LoadSends, Send
    <2>3. UNCHANGED <<db, worker, events, delivered, phase, subs, exits, committed, queryFailed>>
      BY <1>1 DEF LoadSends, Send
    <2> QED  BY <1>1, <2>1, <2>2, <2>3, SystemAssumption
  <1>2. CASE CacheHits
    <2>1. PICK op \in Ops, k \in Calls \ {Loader} : \E req \in RequestsOf(op) :
            \E users \in Hits(req) : CacheAnswers(k, req, users)
      BY <1>2 DEF CacheHits
    <2>2. PICK req \in RequestsOf(op) : \E users \in Hits(req) : CacheAnswers(k, req, users)
      BY <2>1
    <2>3. PICK users \in Hits(req) : CacheAnswers(k, req, users)
      BY <2>2
    <2>4. /\ call[k].st = "new" /\ call'[k].st # "new"
          /\ call'[k].req = req /\ call'[k].answer.err = "none"
          /\ \A j \in Calls \ {k} : call'[j] = call[j]
      BY <2>3 DEF CacheAnswers, Answered, TypeOK, CallsOK
    <2>5. UNCHANGED <<db, inbox, worker, events, delivered, phase, subs, exits, committed, queryFailed>>
      BY <2>3 DEF CacheAnswers
    <2> QED  BY <2>1, <2>4, <2>5
  <1> QED  BY <1>1, <1>2

\* Whoever asks for an id has it from the table.
LEMMA RequestKnown ==
    ASSUME TypeOK, CommittedExist, NEW op \in Ops, NEW req \in RequestsOf(op)
    PROVE  (req.id \in Ids => req.op \in AboutId) /\ Exists(req.id)
  <1> DEFINE S == IF op \in {"getByID", "update", "delete"}
                    THEN {u.id : u \in committed} \cup {NilId} ELSE {NilId}
             T == IF op \in {"create", "getByEmail", "update"} THEN Emails ELSE {NoEmail}
  <1>1. req = Malformed(op) \/ req \in [op : {op}, id : S, email : T, valid : {TRUE}]
    BY DEF RequestsOf
  <1>2. req.id \in S
    <2>1. Malformed(op).id \in S
      BY DEF Malformed
    <2> HIDE DEF S, T
    <2> QED  BY <1>1, <2>1
  <1>3. req.op = op
    BY RequestType, OpsAssumption DEF TypeOK
  <1> QED  BY <1>2, <1>3, StoreAssumption DEF AboutId, CommittedExist, Exists

LEMMA FoundSystem ==
    ASSUME TypeOK, FoundInv, [SystemNext]_sysVars
    PROVE  FoundInv'
  <1>1. CASE LoadSends \/ CacheHits
    <2>1. PICK k \in Calls :
             /\ call[k].st = "new" /\ call'[k].st # "new"
             /\ \A j \in Calls \ {k} : call'[j] = call[j]
             /\ call'[k].answer = call[k].answer \/ call'[k].answer.err = "none"
             /\ \/ k = Loader /\ call'[k].req = LoadRequest
                \/ k # Loader /\ \E op \in Ops : call'[k].req \in RequestsOf(op)
             /\ \/ UNCHANGED inbox
                \/ LoadSends /\ inbox' = [inbox EXCEPT !["listAll"] = Append(@, k)]
             /\ UNCHANGED <<db, worker, events, delivered, phase, subs, exits, committed, queryFailed>>
      BY <1>1, AskedNew
    <2>2. CommittedExist'
      BY <2>1, FoundUntouched DEF FoundInv
    <2>3. (call'[k].req.id \in Ids => call'[k].req.op \in AboutId) /\ Exists(call'[k].req.id)
      <3>1. CASE call'[k].req = LoadRequest
        BY <3>1, StoreAssumption DEF LoadRequest, Exists
      <3> QED  BY <2>1, <3>1, RequestKnown DEF FoundInv
    <2>4. CallsAnswered'
      <3>1. \A id : (Exists(id)' <=> Exists(id)) /\ (Gone(id)' <=> Gone(id))
        BY <2>1, FoundUntouched
      <3>2. call'[k].answer.err # "notFound"
        BY <2>1 DEF FoundInv, CallsAnswered
      <3> QED  BY <2>1, <2>3, <3>1, <3>2 DEF FoundInv, CallsAnswered, Exists, Gone
    <2>5. \A j \in Calls, s \in Subjects : Sent(j, s) => call'[j] = call[j] /\ Sent(j, s)'
      BY <2>1 DEF Sent
    <2>6. \A s \in Subjects : \A i \in DOMAIN inbox[s] :
            call'[inbox[s][i]].st # "new" /\ call'[inbox[s][i]].req.op = s
      <3>1. \A s \in Subjects : \A i \in DOMAIN inbox[s] : inbox[s][i] \in Calls
        BY DEF TypeOK, WorkOK
      <3> QED  BY <2>1, <3>1 DEF FoundInv, Queued, Sent
    <2>7. Queued'
      <3>1. CASE UNCHANGED inbox
        BY <2>6, <3>1 DEF Queued, Sent
      <3>2. CASE LoadSends /\ inbox' = [inbox EXCEPT !["listAll"] = Append(@, k)]
        <4>1. \A s \in Subjects \ {"listAll"} : inbox'[s] = inbox[s]
          BY <3>2 DEF TypeOK, WorkOK
        <4>2. \A i \in DOMAIN inbox'["listAll"] :
                \/ inbox'["listAll"][i] = k
                \/ i \in DOMAIN inbox["listAll"] /\ inbox'["listAll"][i] = inbox["listAll"][i]
          BY <3>2 DEF TypeOK, WorkOK, Subjects, Entries
        <4>3. k = Loader
          <5>1. \A j \in Calls \ {Loader} : call'[j] = call[j]
            BY <3>2, SystemAssumption DEF LoadSends, Send, TypeOK, CallsOK
          <5> QED  BY <2>1, <5>1
        <4>4. Sent(k, "listAll")'
          <5>1. call'[Loader].req = LoadRequest
            BY <3>2, SystemAssumption DEF LoadSends, Send, TypeOK, CallsOK, View
          <5> QED  BY <2>1, <4>3, <5>1 DEF Sent, LoadRequest
        <4> QED  BY <2>6, <4>1, <4>2, <4>4 DEF Queued, Sent
      <3> QED  BY <2>1, <3>1, <3>2
    <2>8. AtWork'
      <3>1. ASSUME NEW s \in Subjects, worker[s].pc # "idle"
            PROVE  /\ call'[worker[s].k] = call[worker[s].k] /\ Sent(worker[s].k, s)'
                   /\ worker[s].answer.err = "notFound" => Gone(call[worker[s].k].req.id)
        <4>1. worker[s].k \in Calls
          BY <3>1 DEF TypeOK, WorkOK
        <4>2. /\ Sent(worker[s].k, s)
              /\ worker[s].answer.err = "notFound" => Gone(call[worker[s].k].req.id)
          BY <3>1 DEF FoundInv, AtWork
        <4> QED  BY <2>1, <2>5, <4>1, <4>2 DEF Sent
      <3> QED  BY <2>1, <3>1, FoundUntouched DEF AtWork, Sent
    <2> QED  BY <2>2, <2>4, <2>7, <2>8 DEF FoundInv
  <1> QED  BY <1>1, ServiceSide, FoundStep

LEMMA AnnounceSystem ==
    ASSUME TypeOK, TypeOK', AnnounceInv, [SystemNext]_sysVars
    PROVE  AnnounceInv'
  <1>1. CASE LoadSends \/ CacheHits
    <2>1. UNCHANGED <<db, worker, events>>
      BY <1>1 DEF LoadSends, Send, CacheHits, CacheAnswers
    <2> QED  BY <2>1 DEF AnnounceInv, EventsBacked, EventsOrdered, OwedFollow, Backed
  <1> QED  BY <1>1, ServiceSide, AnnounceStep

-------------------------------------------------------------------------------
(* The way of an event from its commit to the cache.                        *)

Excused == phase = "closing" \/ exits > 0 \/ queryFailed

\* What arrived is what was delivered.
InStep == Len(arrived) = delivered /\ \A n \in 1 .. delivered : arrived[n] = events[n]

\* A user of the start is no new one.
SeededExist == \A id \in Seeded : db[id].state # "absent"
CreatedFresh ==
    /\ \A s \in Subjects : \A e \in worker[s].todo : e.type = "created" => e.id \notin Seeded
    /\ \A i \in DOMAIN events : events[i].type = "created" => events[i].id \notin Seeded

\* Unless it is excused, the service owes or has announced the creation of every
\* live user, and the newest version of every user.
LiveAnnounced ==
    Excused \/
    \A id \in Live(db) \ Seeded :
      \/ \E e \in worker["create"].todo : e.type = "created" /\ e.id = id
      \/ \E i \in DOMAIN events : events[i].type = "created" /\ events[i].id = id
NewestAnnounced ==
    Excused \/
    \A id \in Seeded :
      \/ db[id].rev = 1
      \/ NewestEvent(id) \in worker["update"].todo
      \/ \E i \in DOMAIN events : events[i] = NewestEvent(id)

\* What arrives before the client listens is missed.
NotYet == stage = "load" => listening = {} /\ missed = Numbers

\* An event that is neither missed nor underway has had its effect.
Reached(n) == n \notin missed /\ n \notin OnWay(arrived[n].type)
CreatedKept ==
    \A n \in Numbers :
      arrived[n].type = "created" /\ Reached(n) /\ arrived[n].id \in Live(db)
      => arrived[n].id \in DOMAIN cache
NewestKept ==
    \A n \in Numbers : \A id \in Seeded \cap DOMAIN cache :
      arrived[n] = NewestEvent(id) /\ Reached(n) => cache[id] = UserOf(db, id)

\* list.all shows every user of the start that is still live, and so does a
\* cache loaded with it.
HasSeeded(ids) == Live(db) \cap Seeded \subseteq ids
IdsOf(users) == {u.id : u \in users}
ListedAll ==
    /\ call[Loader].st # "new" => call[Loader].req.op = "listAll"
    /\ worker["listAll"].pc = "reply" /\ worker["listAll"].answer.err = "none"
       => HasSeeded(IdsOf(worker["listAll"].answer.users))
    /\ call[Loader].st = "answered" /\ call[Loader].answer.err = "none"
       => HasSeeded(IdsOf(call[Loader].answer.users))
SeededCached == fullyLoaded => HasSeeded(DOMAIN cache)

LEMMA ExcusedStays ==
    ASSUME TypeOK, [SystemNext]_sysVars, Excused
    PROVE  Excused'
  <1>1. queryFailed => queryFailed'
    BY AuthenticStays
  <1>2. exits \in Nat
    BY DEF TypeOK, ProcessOK
  <1>3. CASE UNCHANGED <<phase, exits>>
    BY <1>1, <1>3 DEF Excused
  <1>4. CASE Process
    BY <1>1, <1>2, <1>4 DEF Excused, Process, Start, Signal, Close, Exit, Subscribe, Unsubscribe
  <1>5. CASE Handle
    BY <1>3, <1>5, HandleIs DEF Finish
  <1>6. ASSUME NEW s \in Subjects, Advance(s) PROVE UNCHANGED <<phase, exits>>
    BY <1>6 DEF Advance, Take, Reply, ReplyLost, Publish, PublishFails
  <1>7. CASE LoadSends \/ CacheHits
    BY <1>3, <1>7 DEF LoadSends, Send, CacheHits, CacheAnswers
  <1>8. ASSUME NEW k \in Calls, Caller(k) PROVE UNCHANGED <<phase, exits>>
    BY <1>8 DEF Caller, GiveUp, Send
  <1>9. CASE Deliver \/ UNCHANGED vars
    BY <1>3, <1>9 DEF Deliver, vars
  <1> QED  BY <1>3, <1>4, <1>5, <1>6, <1>7, <1>8, <1>9, ServiceSide DEF Next

\* What a step other than a query does to the events, owed and announced.
Announces ==
    \E s \in Subjects : \E e \in worker[s].todo :
      /\ events' = Append(events, e) /\ worker'[s].todo = {}
      /\ \A r \in Subjects \ {s} : worker'[r] = worker[r]
Forgets ==
    /\ Excused'
    /\ \A r \in Subjects : worker'[r].todo \subseteq worker[r].todo
    /\ \/ UNCHANGED events
       \/ \E n \in delivered .. Len(events) : events' = SubSeq(events, 1, n)

LEMMA OwedMoves ==
    ASSUME TypeOK, OwesLast, [SystemNext]_sysVars, ~Handle
    PROVE  /\ OwesLast'
           /\ \/ UNCHANGED events /\ \A r \in Subjects : worker'[r].todo = worker[r].todo
              \/ Announces /\ UNCHANGED delivered
              \/ Forgets /\ UNCHANGED delivered
  <1>0. Idle.todo = {} /\ Idle.pc = "idle"
    BY DEF Idle
  <1>1. ASSUME UNCHANGED <<events, worker>>
        PROVE  OwesLast' /\ UNCHANGED events /\ \A r \in Subjects : worker'[r].todo = worker[r].todo
    BY <1>1 DEF OwesLast
  <1>2. ASSUME NEW s \in Subjects, Take(s)
        PROVE  OwesLast' /\ UNCHANGED events /\ \A r \in Subjects : worker'[r].todo = worker[r].todo
    <2>1. \A k : /\ [Idle EXCEPT !.pc = "query", !.k = k].todo = {}
                 /\ [Idle EXCEPT !.pc = "reply", !.k = k, !.answer = Refusal].todo = {}
      BY DEF Idle
    <2>2. \E w : worker' = [worker EXCEPT ![s] = w] /\ w.todo = {}
      <3>1. CASE call[Head(inbox[s])].req.valid
        BY <1>2, <2>1, <3>1 DEF Take
      <3>2. CASE ~call[Head(inbox[s])].req.valid
        BY <1>2, <2>1, <3>2 DEF Take
      <3> QED  BY <3>1, <3>2
    <2>3. worker'[s].todo = {} /\ \A r \in Subjects \ {s} : worker'[r] = worker[r]
      BY <2>2 DEF TypeOK, WorkOK
    <2>4. worker[s].todo = {}
      BY <1>2 DEF Take, OwesLast
    <2> QED  BY <1>2, <2>3, <2>4 DEF Take, OwesLast
  <1>3. ASSUME NEW s \in Subjects, Reply(s) \/ ReplyLost(s)
        PROVE  OwesLast' /\ UNCHANGED events /\ \A r \in Subjects : worker'[r].todo = worker[r].todo
    <2>1. worker' = [worker EXCEPT ![s] = IF worker[s].todo = {} THEN Idle
                                          ELSE [worker[s] EXCEPT !.pc = "publish"]]
      BY <1>3 DEF Reply, ReplyLost, Replied
    <2>2. /\ [worker[s] EXCEPT !.pc = "publish"].todo = worker[s].todo
          /\ [worker[s] EXCEPT !.pc = "publish"].pc = "publish"
      BY DEF TypeOK, WorkOK, Work
    <2>3. /\ worker'[s].todo = worker[s].todo
          /\ worker'[s].todo = {} \/ worker'[s].pc = "publish"
          /\ \A r \in Subjects \ {s} : worker'[r] = worker[r]
      BY <1>0, <2>1, <2>2 DEF TypeOK, WorkOK
    <2> QED  BY <1>3, <2>3 DEF Reply, ReplyLost, OwesLast
  <1>4. ASSUME NEW s \in Subjects, Publish(s) PROVE OwesLast' /\ Announces /\ UNCHANGED delivered
    <2>1. worker'[s].todo = {} /\ \A r \in Subjects \ {s} : worker'[r] = worker[r]
      BY <1>0, <1>4 DEF Publish, TypeOK, WorkOK
    <2> QED  BY <1>4, <2>1 DEF Publish, OwesLast, Announces
  <1>5. ASSUME NEW s \in Subjects, PublishFails(s) PROVE OwesLast' /\ Forgets /\ UNCHANGED delivered
    <2>1. worker'[s].todo = {} /\ \A r \in Subjects \ {s} : worker'[r] = worker[r]
      BY <1>0, <1>5 DEF PublishFails, TypeOK, WorkOK
    <2> QED  BY <1>5, <2>1 DEF PublishFails, OwesLast, Forgets, Excused
  <1>6. CASE Exit
    <2>1. exits' > 0
      BY <1>6 DEF Exit, TypeOK, ProcessOK
    <2>2. \A r \in Subjects : worker'[r] = Idle
      BY <1>6 DEF Exit
    <2> QED  BY <1>0, <1>6, <2>1, <2>2 DEF Exit, OwesLast, Forgets, Excused
  <1>7. ASSUME [Next]_vars
        PROVE \/ UNCHANGED <<events, worker>> \/ Exit
              \/ \E s \in Subjects : Take(s) \/ Reply(s) \/ ReplyLost(s) \/ Publish(s) \/ PublishFails(s)
    BY <1>7 DEF Next, Caller, GiveUp, Send, Advance, Deliver, Process, Start, Signal, Close, Subscribe,
       Unsubscribe, vars
  <1>8. CASE LoadSends \/ CacheHits
    BY <1>1, <1>8 DEF LoadSends, Send, CacheHits, CacheAnswers
  <1> QED  BY <1>1, <1>2, <1>3, <1>4, <1>5, <1>6, <1>7, <1>8, ServiceSide

LEMMA OnlyDelivery ==
    ASSUME [SystemNext]_sysVars, ~DeliverToClient
    PROVE  UNCHANGED <<arrived, delivered>>
  <1>1. UNCHANGED arrived
    BY ClientSide DEF cacheVars, LoadFailed, AnswerLoads, Loaded, AnswerFills, Fill, Client, Startup,
       Pipeline, Shutdown, Listen, Serve, Callback, Forward, Apply, CloseClient, NoticeStop, StopProcessor
  <1>2. ASSUME NEW k \in Calls \ {Loader}, Ask(k) \/ Return(k) PROVE UNCHANGED delivered
    BY <1>2 DEF Ask, Return, Hit, Miss, Send, vars
  <1>3. ASSUME NEW k \in Calls, Timeout(k) PROVE UNCHANGED delivered
    BY <1>3 DEF Timeout, GiveUp
  <1>4. ASSUME Load \/ EndLoad \/ Client \/ UNCHANGED sysVars PROVE UNCHANGED delivered
    BY <1>4 DEF Load, Send, EndLoad, Client, sysVars, vars
  <1>5. ASSUME Restart PROVE UNCHANGED delivered
    BY <1>5 DEF Restart, Process, Start, Signal, Close, Exit, Subscribe, Unsubscribe
  <1>6. ASSUME Serving PROVE UNCHANGED delivered
    <2>1. ASSUME NEW s \in Subjects, Advance(s) PROVE UNCHANGED delivered
      BY <2>1 DEF Advance, Take, Reply, ReplyLost, Publish, PublishFails
    <2>2. CASE Handle
      BY <2>2 DEF Handle, HandleCreate, HandleGetByID, HandleGetByEmail, HandleList, HandleListAll,
         HandleUpdate, HandleDelete, Finish
    <2> QED  BY <1>6, <2>1, <2>2 DEF Serving
  <1> QED  BY <1>1, <1>2, <1>3, <1>4, <1>5, <1>6 DEF SystemNext

\* No step takes back what was announced and delivered.
LEMMA DeliveredStays ==
    ASSUME TypeOK, OwesLast, [SystemNext]_sysVars
    PROVE  /\ delivered \in Nat /\ delivered <= Len(events')
           /\ \A n \in 1 .. delivered : events'[n] = events[n]
  <1>1. delivered \in 0 .. Len(events) /\ events \in Seq(Event)
    BY DEF TypeOK, WireOK
  <1>2. CASE UNCHANGED events
    BY <1>1, <1>2
  <1>3. CASE Handle
    BY <1>2, <1>3, HandleIs DEF Finish
  <1>4. CASE Announces
    <2>1. PICK s \in Subjects : \E e \in worker[s].todo : events' = Append(events, e)
      BY <1>4 DEF Announces
    <2>2. PICK e \in worker[s].todo : events' = Append(events, e)
      BY <2>1
    <2>3. Len(events') = Len(events) + 1 /\ \A n \in 1 .. Len(events) : events'[n] = events[n]
      BY <1>1, <2>2, EventsTyped
    <2> QED  BY <1>1, <2>3
  <1>5. ASSUME NEW n \in delivered .. Len(events), events' = SubSeq(events, 1, n)
        PROVE  delivered <= Len(events') /\ \A i \in 1 .. delivered : events'[i] = events[i]
    <2>1. Len(events') = n /\ \A i \in 1 .. n : events'[i] = events[i]
      BY <1>1, <1>5
    <2> QED  BY <1>1, <2>1
  <1> QED  BY <1>1, <1>2, <1>3, <1>4, <1>5, OwedMoves DEF Forgets

LEMMA InStepStep ==
    ASSUME TypeOK, OwesLast, WayType, InStep, [SystemNext]_sysVars
    PROVE  InStep'
  <1>1. /\ delivered \in Nat /\ arrived \in Seq(Event)
        /\ \A n \in 1 .. delivered : events'[n] = events[n]
    BY DeliveredStays DEF WayType
  <1>2. CASE ~DeliverToClient
    <2>1. UNCHANGED <<arrived, delivered>>
      BY <1>2, OnlyDelivery
    <2> QED  BY <1>1, <2>1 DEF InStep
  <1>3. CASE DeliverToClient
    <2>1. /\ delivered' = delivered + 1 /\ UNCHANGED events
          /\ delivered' \in DOMAIN events /\ arrived' = Append(arrived, events[delivered'])
      BY <1>3 DEF DeliverToClient, Deliver, Arrive, TypeOK, WireOK
    <2>2. /\ Len(arrived') = Len(arrived) + 1 /\ arrived'[Len(arrived) + 1] = events[delivered']
          /\ \A n \in 1 .. Len(arrived) : arrived'[n] = arrived[n]
      BY <1>1, <2>1, EventsTyped
    <2> QED  BY <1>1, <2>1, <2>2 DEF InStep
  <1> QED  BY <1>2, <1>3

-------------------------------------------------------------------------------
(* The table.                                                               *)

LEMMA TableMoves ==
    ASSUME TypeOK, TableTold, [SystemNext]_sysVars
    PROVE  UNCHANGED <<db, committed>> \/ (Handle /\ \E id \in Ids : Writes(id))
  <1>1. CASE LoadSends \/ CacheHits
    BY <1>1 DEF LoadSends, Send, CacheHits, CacheAnswers
  <1> QED  BY <1>1, ServiceSide, HandleWrites

LEMMA SeededStep ==
    ASSUME TypeOK, TableTold, SeededExist, [SystemNext]_sysVars
    PROVE  SeededExist' /\ HasSeeded(IdsOf(LiveUsers(db)))
           /\ \A ids : HasSeeded(ids) => Live(db') \cap Seeded \subseteq ids
  <1>1. \A id \in Seeded : db'[id].state # "absent" /\ (db'[id].state = "live" => db[id].state = "live")
    BY TableMoves, ServiceAssumption DEF SeededExist, Writes, Creates, Updates, Deletes
  <1>2. HasSeeded(IdsOf(LiveUsers(db)))
    <2>1. \A id \in Live(db) : UserOf(db, id) \in LiveUsers(db) /\ UserOf(db, id).id = id
      BY DEF LiveUsers, UserOf
    <2> QED  BY <2>1 DEF HasSeeded, IdsOf
  <1> QED  BY <1>1, <1>2 DEF SeededExist, HasSeeded, Live

LEMMA HistoryStep ==
    ASSUME TypeOK, TableTold, CommittedExist, History, [SystemNext]_sysVars
    PROVE  History'
  BY TableMoves, HistoryWrites

\* What is owed or announced stays so.
LEMMA AnnouncesIs ==
    ASSUME TypeOK, OwesLast, Announces
    PROVE  \E s \in Subjects : \E e \in worker[s].todo :
             /\ worker[s].todo = {e} /\ worker'[s].todo = {}
             /\ \A r \in Subjects \ {s} : worker'[r] = worker[r]
             /\ DOMAIN events = 1 .. Len(events) /\ Len(events) \in Nat
             /\ DOMAIN events' = 1 .. Len(events) + 1
             /\ events'[Len(events) + 1] = e
             /\ \A i \in DOMAIN events : events'[i] = events[i]
  <1>1. PICK s \in Subjects : \E e \in worker[s].todo :
          /\ events' = Append(events, e) /\ worker'[s].todo = {}
          /\ \A r \in Subjects \ {s} : worker'[r] = worker[r]
    BY DEF Announces
  <1>2. PICK e \in worker[s].todo :
          /\ events' = Append(events, e) /\ worker'[s].todo = {}
          /\ \A r \in Subjects \ {s} : worker'[r] = worker[r]
    BY <1>1
  <1>3. worker[s].todo = {e}
    BY DEF OwesLast
  <1>4. events \in Seq(Event) /\ e \in Event
    BY EventsTyped DEF TypeOK, WireOK
  <1> QED  BY <1>2, <1>3, <1>4

LEMMA TellingStays ==
    ASSUME TypeOK, OwesLast, [SystemNext]_sysVars, ~(Excused'), NEW s \in Subjects, NEW e,
           e \in worker[s].todo \/ \E i \in DOMAIN events : events[i] = e
    PROVE  e \in worker'[s].todo \/ \E i \in DOMAIN events' : events'[i] = e
  <1>1. CASE Handle
    BY <1>1, QueryAnnounces
  <1>2. CASE Announces
    <2>1. PICK r \in Subjects : \E f \in worker[r].todo :
             /\ worker[r].todo = {f} /\ worker'[r].todo = {}
             /\ \A q \in Subjects \ {r} : worker'[q] = worker[q]
             /\ DOMAIN events = 1 .. Len(events) /\ Len(events) \in Nat
             /\ DOMAIN events' = 1 .. Len(events) + 1
             /\ events'[Len(events) + 1] = f
             /\ \A i \in DOMAIN events : events'[i] = events[i]
      BY <1>2, AnnouncesIs
    <2>2. Len(events) + 1 \in DOMAIN events' /\ DOMAIN events \subseteq DOMAIN events'
      BY <2>1
    <2> QED  BY <2>1, <2>2
  <1>3. CASE ~Handle /\ ~Announces
    BY <1>3, OwedMoves DEF Forgets
  <1> QED  BY <1>1, <1>2, <1>3

LEMMA LiveAnnouncedStep ==
    ASSUME TypeOK, TableTold, OwesLast, LiveAnnounced, [SystemNext]_sysVars
    PROVE  LiveAnnounced'
  <1> SUFFICES ASSUME ~(Excused'), NEW id \in Ids, db'[id].state = "live", id \notin Seeded
               PROVE  \/ \E e \in worker'["create"].todo : e.type = "created" /\ e.id = id
                      \/ \E i \in DOMAIN events' : events'[i].type = "created" /\ events'[i].id = id
    BY DEF LiveAnnounced, Live
  <1>1. ~Excused /\ "create" \in Subjects
    BY ExcusedStays DEF Subjects, Entries
  <1>2. CASE db[id].state = "live"
    <2>1. \/ \E e \in worker["create"].todo : e.type = "created" /\ e.id = id
          \/ \E i \in DOMAIN events : events[i].type = "created" /\ events[i].id = id
      BY <1>1, <1>2 DEF LiveAnnounced, Live
    <2>2. PICK e : /\ e.type = "created" /\ e.id = id
                   /\ e \in worker["create"].todo \/ \E i \in DOMAIN events : events[i] = e
      BY <2>1
    <2> QED  BY <1>1, <2>2, TellingStays
  <1>3. CASE db[id].state # "live"
    <2>1. Creates(id)
      BY <1>3, TableMoves DEF Writes, Creates, Updates, Deletes
    <2> QED  BY <2>1 DEF Creates, Excused
  <1> QED  BY <1>2, <1>3

LEMMA NewestAnnouncedStep ==
    ASSUME TypeOK, TableTold, OwesLast, SeededExist, NewestAnnounced, [SystemNext]_sysVars
    PROVE  NewestAnnounced'
  <1> SUFFICES ASSUME ~(Excused'), NEW id \in Seeded
               PROVE  \/ db'[id].rev = 1
                      \/ NewestEvent(id)' \in worker'["update"].todo
                      \/ \E i \in DOMAIN events' : events'[i] = NewestEvent(id)'
    BY DEF NewestAnnounced
  <1>1. ~Excused /\ "update" \in Subjects /\ id \in Ids
    BY ExcusedStays, ServiceAssumption DEF Subjects, Entries
  <1>2. CASE db'[id].rev = db[id].rev /\ db'[id].email = db[id].email
    <2>1. NewestEvent(id)' = NewestEvent(id)
      BY <1>2 DEF NewestEvent, UserOf
    <2>2. \/ db[id].rev = 1
          \/ NewestEvent(id) \in worker["update"].todo
          \/ \E i \in DOMAIN events : events[i] = NewestEvent(id)
      BY <1>1 DEF NewestAnnounced
    <2>3. PICK e : e = NewestEvent(id)
      OBVIOUS
    <2>4. CASE e \in worker["update"].todo \/ \E i \in DOMAIN events : events[i] = e
      <3>1. e \in worker'["update"].todo \/ \E i \in DOMAIN events' : events'[i] = e
        BY <1>1, <2>4, TellingStays
      <3> QED  BY <2>1, <2>3, <3>1
    <2> QED  BY <1>2, <2>2, <2>3, <2>4
  <1>3. CASE ~(db'[id].rev = db[id].rev /\ db'[id].email = db[id].email)
    <2>1. Updates(id)
      BY <1>1, <1>3, TableMoves DEF SeededExist, Writes, Creates, Deletes
    <2> QED  BY <2>1 DEF Updates, Excused
  <1> QED  BY <1>2, <1>3

LEMMA CreatedFreshStep ==
    ASSUME TypeOK, OwesLast, SeededExist, CreatedFresh, [SystemNext]_sysVars
    PROVE  CreatedFresh'
  <1>1. CASE Handle
    <2>1. ASSUME NEW s \in Subjects, NEW e, OwedBy(s, e), Commits(s, e), e.type = "created"
          PROVE  e.id \notin Seeded
      BY <2>1, ServiceAssumption DEF OwedBy, Commits, SeededExist
    <2> QED  BY <1>1, <2>1, QueryAnnounces DEF CreatedFresh
  <1>2. CASE Announces
    <2>1. PICK r \in Subjects : \E f \in worker[r].todo :
             /\ worker[r].todo = {f} /\ worker'[r].todo = {}
             /\ \A q \in Subjects \ {r} : worker'[q] = worker[q]
             /\ DOMAIN events = 1 .. Len(events) /\ Len(events) \in Nat
             /\ DOMAIN events' = 1 .. Len(events) + 1
             /\ events'[Len(events) + 1] = f
             /\ \A i \in DOMAIN events : events'[i] = events[i]
      BY <1>2, AnnouncesIs
    <2>2. \A i \in DOMAIN events' : i \in DOMAIN events \/ i = Len(events) + 1
      BY <2>1
    <2> QED  BY <2>1, <2>2 DEF CreatedFresh
  <1>3. CASE UNCHANGED events /\ \A r \in Subjects : worker'[r].todo = worker[r].todo
    BY <1>3 DEF CreatedFresh
  <1>4. CASE Forgets
    <2>1. ASSUME NEW n \in delivered .. Len(events), events' = SubSeq(events, 1, n)
          PROVE  \A i \in DOMAIN events' : i \in DOMAIN events /\ events'[i] = events[i]
      BY <2>1 DEF TypeOK, WireOK
    <2>2. \A i \in DOMAIN events' : i \in DOMAIN events /\ events'[i] = events[i]
      BY <1>4, <2>1 DEF Forgets
    <2> QED  BY <1>4, <2>2 DEF Forgets, CreatedFresh
  <1> QED  BY <1>1, <1>2, <1>3, <1>4, OwedMoves

-------------------------------------------------------------------------------
(* The client's end of the way.                                             *)

LEMMA QueuesKeep ==
    ASSUME WayType, [OpenNext]_cacheVars, ~Apply, NEW t \in EventTypes
    PROVE  OnWay(t) \cup missed \subseteq OnWay(t)' \cup missed'
  <1>1. /\ updateCh \in Seq(Nat) /\ eventCh \in Seq(Nat)
        /\ \A r \in EventTypes : subq[r] \in Seq(Nat)
    BY WayNumbers
  <1>2. subq \in [EventTypes -> Seq(Numbers)]
    BY DEF WayType
  <1>3. CASE UNCHANGED wayVars
    BY <1>3 DEF wayVars, OnWay
  <1>4. ASSUME NEW e \in AnyEvent, Arrive(e) PROVE OnWay(t) \cup missed \subseteq OnWay(t)' \cup missed'
    <2>1. /\ UNCHANGED <<eventCh, updateCh>> /\ missed \subseteq missed'
          /\ subq' = subq \/ subq' = [subq EXCEPT ![e.type] = Append(@, Len(arrived'))]
      BY <1>4 DEF Arrive
    <2>2. Len(arrived') \in Nat
      BY <1>4 DEF Arrive, WayType, AnyEvent
    <2>3. In(Append(subq[t], Len(arrived'))) = In(subq[t]) \cup {Len(arrived')}
      BY <1>1, <2>2, InAppend
    <2>4. subq'[t] = subq[t] \/ subq'[t] = Append(subq[t], Len(arrived'))
      BY <1>2, <2>1
    <2> QED  BY <2>1, <2>3, <2>4 DEF OnWay
  <1>5. ASSUME NEW r \in EventTypes, Callback(r) PROVE OnWay(t) \cup missed \subseteq OnWay(t)' \cup missed'
    <2> DEFINE x == Head(subq[r])
    <2>1. /\ UNCHANGED updateCh /\ subq[r] # <<>>
          /\ subq' = [subq EXCEPT ![r] = Tail(@)]
          /\ \/ eventCh' = Append(eventCh, x) /\ missed' = missed
             \/ missed' = missed \cup {x} /\ eventCh' = eventCh
      BY <1>5 DEF Callback
    <2>2. x \in Nat /\ In(subq[r]) = In(Tail(subq[r])) \cup {x}
      BY <1>1, <2>1, InTail
    <2>3. In(Append(eventCh, x)) = In(eventCh) \cup {x}
      BY <1>1, <2>2, InAppend
    <2>4. In(subq[t]) \subseteq In(subq'[t]) \cup {x}
      <3>1. CASE t = r
        BY <1>2, <2>1, <2>2, <3>1
      <3>2. CASE t # r
        BY <1>2, <2>1, <3>2
      <3> QED  BY <3>1, <3>2
    <2> HIDE DEF x
    <2>5. x \in In(eventCh') \cup missed' /\ In(eventCh) \subseteq In(eventCh') /\ missed \subseteq missed'
      BY <2>1, <2>3
    <2> QED  BY <2>1, <2>4, <2>5 DEF OnWay
  <1>6. CASE Forward
    <2> DEFINE x == Head(eventCh)
    <2>1. /\ UNCHANGED subq /\ eventCh # <<>> /\ eventCh' = Tail(eventCh)
          /\ \/ updateCh' = Append(updateCh, x) /\ missed' = missed
             \/ missed' = missed \cup {x} /\ updateCh' = updateCh
      BY <1>6 DEF Forward
    <2>2. x \in Nat /\ In(eventCh) = In(Tail(eventCh)) \cup {x}
      BY <1>1, <2>1, InTail
    <2>3. In(Append(updateCh, x)) = In(updateCh) \cup {x}
      BY <1>1, <2>2, InAppend
    <2> HIDE DEF x
    <2>4. x \in In(updateCh') \cup missed' /\ In(updateCh) \subseteq In(updateCh') /\ missed \subseteq missed'
      BY <2>1, <2>3
    <2> QED  BY <2>1, <2>2, <2>4 DEF OnWay
  <1>7. CASE CloseClient
    BY <1>7 DEF CloseClient, OnWay
  <1> QED  BY <1>3, <1>4, <1>5, <1>6, <1>7, OtherWays DEF cacheVars, wayVars

\* What reaches the cache is the head of updateCh when the processor takes it.
LEMMA ReachedWhen ==
    ASSUME WayType, [OpenNext]_cacheVars, NEW n \in Numbers', Reached(n)'
    PROVE  /\ n \in Numbers /\ arrived'[n] = arrived[n]
           /\ Reached(n) \/ (Apply /\ n = Head(updateCh))
  <1>1. CASE Apply
    <2>1. /\ UNCHANGED <<subq, eventCh, arrived, missed>>
          /\ updateCh' = Tail(updateCh) /\ updateCh # <<>>
      BY <1>1 DEF Apply
    <2>2. In(updateCh) = In(Tail(updateCh)) \cup {Head(updateCh)}
      BY <2>1, WayNumbers, InTail
    <2> QED  BY <1>1, <2>1, <2>2 DEF Reached, OnWay, Numbers
  <1>2. CASE UNCHANGED arrived /\ ~Apply
    <2>1. n \in Numbers /\ arrived'[n] = arrived[n]
      BY <1>2 DEF Numbers
    <2>2. arrived[n].type \in EventTypes
      BY <2>1, ArrivedType
    <2>3. OnWay(arrived[n].type) \cup missed \subseteq OnWay(arrived[n].type)' \cup missed'
      <3>1. PICK t \in EventTypes : t = arrived[n].type
        BY <2>2
      <3>2. OnWay(t) \cup missed \subseteq OnWay(t)' \cup missed'
        BY <1>2, QueuesKeep
      <3> QED  BY <1>2, <3>1, <3>2 DEF OnWay
    <2> QED  BY <2>1, <2>3 DEF Reached
  <1>3. ASSUME NEW e \in AnyEvent, Arrive(e)
        PROVE  n \in Numbers /\ arrived'[n] = arrived[n] /\ Reached(n)
    <2> DEFINE x == Len(arrived')
    <2>0. e \in Event
      BY DEF AnyEvent
    <2>1. /\ Numbers' = Numbers \cup {x} /\ x \notin Numbers /\ x \in Nat /\ arrived'[x] = e
          /\ \A m \in Numbers : arrived'[m] = arrived[m]
      <3>1. Len(arrived) \in Nat
        BY DEF WayType
      <3>2. arrived' = Append(arrived, e)
        BY <1>3 DEF Arrive
      <3>3. /\ Len(arrived') = Len(arrived) + 1 /\ arrived'[Len(arrived')] = e
            /\ Numbers' = Numbers \cup {Len(arrived')} /\ Len(arrived') \notin Numbers
            /\ \A m \in Numbers : arrived'[m] = arrived[m]
        BY <2>0, <3>2, ArrivedKeeps
      <3> QED  BY <3>1, <3>3
    <2>2. e.type \in EventTypes
      BY <2>0 DEF Event
    <2> HIDE DEF x
    <2>3. x \in missed' \/ x \in In(subq'[e.type])
      <3>1. \/ x \in missed' \/ subq' = [subq EXCEPT ![e.type] = Append(@, x)]
        BY <1>3 DEF Arrive, x
      <3>2. subq[e.type] \in Seq(Nat) /\ subq \in [EventTypes -> Seq(Numbers)]
        BY <2>2, WayNumbers DEF WayType
      <3>3. x \in In(Append(subq[e.type], x))
        BY <2>1, <3>2, InAppend
      <3> QED  BY <2>2, <3>1, <3>2, <3>3
    <2>4. n # x
      BY <2>1, <2>3 DEF Reached, OnWay
    <2>5. n \in Numbers /\ arrived'[n] = arrived[n] /\ arrived[n].type \in EventTypes
      BY <2>1, <2>4, ArrivedType
    <2>6. ~Apply
      BY <2>1, <1>3 DEF Apply, Arrive, Numbers
    <2>7. OnWay(arrived[n].type) \cup missed \subseteq OnWay(arrived[n].type)' \cup missed'
      <3>1. PICK t \in EventTypes : t = arrived[n].type
        BY <2>5
      <3>2. OnWay(t) \cup missed \subseteq OnWay(t)' \cup missed'
        BY <2>6, QueuesKeep
      <3> QED  BY <2>5, <3>1, <3>2 DEF OnWay
    <2> QED  BY <2>5, <2>7 DEF Reached
  <1>4. Apply \/ UNCHANGED arrived \/ \E e \in AnyEvent : Arrive(e)
    BY OtherWays DEF wayVars, cacheVars, Callback, Forward, CloseClient
  <1> QED  BY <1>1, <1>2, <1>3, <1>4

LEMMA NotYetStep ==
    ASSUME WayType, WayType', NotYet, [OpenNext]_cacheVars
    PROVE  NotYet'
  <1> SUFFICES ASSUME stage' = "load" PROVE listening' = {} /\ missed' = Numbers'
    BY DEF NotYet
  <1>1. stage = "load"
    BY DEF OpenNext, Startup, Pipeline, Shutdown, Open, Listen, Serve, Callback, Forward, Apply,
       Arrive, Loaded, LoadFailed, Fill, CloseClient, NoticeStop, StopProcessor, cacheVars
  <1>2. listening = {} /\ missed = Numbers
    BY <1>1 DEF NotYet
  <1>3. UNCHANGED listening
    BY <1>1 DEF OpenNext, Startup, Pipeline, Shutdown, Open, Listen, Serve, Callback, Forward, Apply,
       Arrive, Loaded, LoadFailed, Fill, CloseClient, NoticeStop, StopProcessor, cacheVars
  <1>4. ASSUME NEW e \in AnyEvent, Arrive(e) PROVE missed' = Numbers'
    <2>1. arrived' = Append(arrived, e) /\ missed' = missed \cup {Len(arrived')} /\ e \in Event
      BY <1>2, <1>4 DEF Arrive, AnyEvent
    <2>2. Numbers' = Numbers \cup {Len(arrived')}
      BY <2>1, ArrivedKeeps
    <2> QED  BY <1>2, <2>1, <2>2
  <1>5. ASSUME UNCHANGED arrived, missed \subseteq missed' PROVE missed' = Numbers'
    BY <1>2, <1>5 DEF WayType, Numbers
  <1>6. (UNCHANGED arrived /\ missed \subseteq missed') \/ \E e \in AnyEvent : Arrive(e)
    BY OtherWays DEF wayVars, cacheVars, Callback, Forward, Apply, CloseClient
  <1> QED  BY <1>2, <1>3, <1>4, <1>5, <1>6

\* An event that arrived tells of a row that is there.
LEMMA ArrivedBacked ==
    ASSUME TypeOK, WayType, InStep, EventsBacked, NEW n \in Numbers
    PROVE  arrived[n] = events[n] /\ Backed(arrived[n])
  <1>1. n \in DOMAIN events /\ arrived[n] = events[n]
    BY DEF InStep, Numbers, TypeOK, WireOK
  <1> QED  BY <1>1 DEF EventsBacked

\* A live user leaves the cache only when it is loaded anew.
LEMMA CacheKeeps ==
    ASSUME TypeOK, WayType, InStep, EventsBacked, [SystemNext]_sysVars,
           NEW id \in Live(db), id \in DOMAIN cache
    PROVE  id \in DOMAIN cache' \/ \E users : AnswerLoads(users)
  <1>1. CASE Apply
    <2> DEFINE e == arrived[Head(updateCh)]
    <2>1. Backed(e)
      BY <1>1, ApplyWay, ArrivedBacked
    <2>2. id \in Ids /\ db[id].state = "live"
      BY DEF Live
    <2>3. e.type = "deleted" => e.id # id
      BY <2>1, <2>2 DEF Backed
    <2>4. cache' = IF e.type = "deleted" THEN Drop(cache, e.id) ELSE Put(cache, e.user)
      BY <1>1 DEF Apply
    <2> HIDE DEF e
    <2>5. CASE e.type = "deleted"
      BY <2>3, <2>4, <2>5 DEF Drop
    <2>6. CASE e.type # "deleted"
      BY <2>4, <2>6 DEF Put
    <2> QED  BY <2>5, <2>6
  <1>2. ASSUME NEW u, AnswerFills(u) PROVE id \in DOMAIN cache'
    <2>1. cache' = Put(cache, u)
      BY <1>2 DEF AnswerFills, Fill
    <2> QED  BY <2>1 DEF Put
  <1>3. CASE Client /\ ~Apply
    BY <1>3 DEF Client, Startup, Pipeline, Shutdown, Listen, Serve, Callback, Forward,
       CloseClient, NoticeStop, StopProcessor
  <1>4. CASE UNCHANGED cacheVars \/ LoadFailed \/ DeliverToClient
    BY <1>4 DEF cacheVars, LoadFailed, DeliverToClient, Arrive
  <1> QED  BY <1>1, <1>2, <1>3, <1>4, ClientSide

LEMMA CreatedKeptStep ==
    ASSUME SafeInv, InStep, EventsBacked, NotYet, CreatedKept, [SystemNext]_sysVars
    PROVE  CreatedKept'
  <1>1. TypeOK /\ WayType /\ TableTold /\ IdsMatch /\ [OpenNext]_cacheVars
    BY ServiceIsOpen DEF SafeInv, ToldInv, ClientInv, CacheInv, CacheTypeOK, WayType
  <1> SUFFICES ASSUME NEW n \in Numbers', arrived'[n].type = "created", Reached(n)',
                      arrived'[n].id \in Live(db')
               PROVE  arrived'[n].id \in DOMAIN cache'
    BY DEF CreatedKept
  <1> DEFINE id == arrived[n].id
  <1>2. /\ n \in Numbers /\ arrived'[n] = arrived[n]
        /\ Reached(n) \/ (Apply /\ n = Head(updateCh))
    BY <1>1, ReachedWhen
  <1>3. id \in Ids /\ db'[id].state = "live"
    BY <1>2 DEF Live
  <1>4. db[id].state = "live"
    <2>1. db[id].state # "absent"
      BY <1>1, <1>2, <1>3, ArrivedBacked DEF Backed
    <2> QED  BY <1>1, <1>3, <2>1, TableMoves DEF Writes, Creates, Updates, Deletes
  <1>5. id \in Live(db)
    BY <1>3, <1>4 DEF Live
  <1>6. CASE Reached(n)
    <2>1. id \in DOMAIN cache
      BY <1>2, <1>5, <1>6 DEF CreatedKept
    <2>2. ASSUME NEW users, AnswerLoads(users) PROVE FALSE
      BY <1>2, <1>6, <2>2 DEF AnswerLoads, Loaded, NotYet, Reached
    <2> QED  BY <1>1, <1>2, <1>5, <2>1, <2>2, CacheKeeps
  <1>7. CASE Apply /\ n = Head(updateCh)
    <2>1. cache' = Put(cache, arrived[n].user)
      BY <1>2, <1>7 DEF Apply
    <2>2. arrived[n].user.id = id
      BY <1>1, <1>2 DEF IdsMatch, AnyEvent
    <2> QED  BY <1>2, <2>1, <2>2 DEF Put
  <1> QED  BY <1>2, <1>6, <1>7

-------------------------------------------------------------------------------
(* The way of list.all.                                                     *)

\* The call of the loader is made, ends, or is answered by who works at it.
LEMMA LoaderCall ==
    ASSUME TypeOK, [SystemNext]_sysVars
    PROVE  \/ call'[Loader] = call[Loader]
           \/ call'[Loader].req = LoadRequest /\ call'[Loader].st \in {"waiting", "failed"}
           \/ /\ call[Loader].st # "new" /\ call'[Loader].req = call[Loader].req
              /\ \/ call'[Loader].st = "failed"
                 \/ \E s \in Subjects : worker[s].pc = "reply" /\ worker[s].k = Loader
                                        /\ call'[Loader].answer = worker[s].answer
  <1>0. Loader \in Calls /\ call \in [Calls -> View] /\ call[Loader] \in View
    BY SystemAssumption DEF TypeOK, CallsOK
  <1>1. CASE Load
    <2>1. LoadSends
      BY <1>1 DEF Load, LoadSends, LoadRequest
    <2> QED  BY <1>0, <2>1 DEF LoadSends, Send, View
  <1>2. CASE EndLoad \/ Restart \/ Client \/ UNCHANGED sysVars
    BY <1>2 DEF EndLoad, Restart, Client, sysVars, vars, Process, Start, Signal, Close, Exit,
       Subscribe, Unsubscribe
  <1>3. ASSUME NEW k \in Calls \ {Loader}, Ask(k) PROVE call'[Loader] = call[Loader]
    <2>1. PICK op \in Ops : \E req \in RequestsOf(op) :
            IF op \in CachedReads \cup {"list"} THEN Hit(k, req) \/ Miss(k, req)
            ELSE Send(k, req) /\ UNCHANGED <<cacheVars, missing>>
      BY <1>3 DEF Ask
    <2>2. PICK req \in RequestsOf(op) : Hit(k, req) \/ Send(k, req)
      BY <2>1 DEF Miss
    <2>3. CASE Hit(k, req)
      <3>1. PICK users \in Hits(req) : call' = [call EXCEPT ![k] = Answered(req, users)]
        BY <2>3 DEF Hit, Answered
      <3> QED  BY <1>0, <3>1
    <2>4. CASE Send(k, req)
      BY <1>0, <2>4 DEF Send
    <2> QED  BY <2>2, <2>3, <2>4
  <1>4. ASSUME NEW k \in Calls \ {Loader}, Return(k) PROVE call'[Loader] = call[Loader]
    BY <1>4 DEF Return, vars
  <1>5. ASSUME NEW k \in Calls, Timeout(k), call'[Loader] # call[Loader]
        PROVE  /\ call[Loader].st # "new" /\ call'[Loader].req = call[Loader].req
               /\ call'[Loader].st = "failed"
    <2>1. call' = [call EXCEPT ![k].st = "failed"] /\ call[k].st = "waiting"
      BY <1>5 DEF Timeout, GiveUp
    <2>2. k = Loader
      BY <1>0, <1>5, <2>1
    <2> QED  BY <1>0, <2>1, <2>2 DEF View
  <1>6. CASE DeliverToClient \/ Handle
    BY <1>6, HandleIs DEF DeliverToClient, Deliver, Finish
  <1>7. ASSUME NEW s \in Subjects, Reply(s), call'[Loader] # call[Loader]
        PROVE  /\ call[Loader].st # "new" /\ call'[Loader].req = call[Loader].req
               /\ worker[s].pc = "reply" /\ worker[s].k = Loader
               /\ call'[Loader].answer = worker[s].answer
    <2>1. /\ worker[s].pc = "reply"
          /\ call' = [call EXCEPT ![worker[s].k] =
               IF @.st = "waiting" THEN [@ EXCEPT !.st = "answered", !.answer = worker[s].answer]
               ELSE @]
      BY <1>7 DEF Reply
    <2>2. worker[s].k = Loader /\ call[Loader].st = "waiting"
      BY <1>0, <1>7, <2>1
    <2>3. call'[Loader] = [call[Loader] EXCEPT !.st = "answered", !.answer = worker[s].answer]
      BY <1>0, <2>1, <2>2
    <2>4. /\ call'[Loader].req = call[Loader].req
          /\ call'[Loader].answer = worker[s].answer
      BY <1>0, <2>3 DEF View
    <2> QED  BY <2>1, <2>2, <2>4
  <1>8. ASSUME NEW s \in Subjects, Advance(s), ~Reply(s) PROVE UNCHANGED call
    BY <1>8 DEF Advance, Take, ReplyLost, Publish, PublishFails
  <1> QED  BY <1>1, <1>2, <1>3, <1>4, <1>5, <1>6, <1>7, <1>8 DEF SystemNext, Serving

\* The goroutine of list.all answers with all live users, or with an error.
LEMMA ListerAnswers ==
    ASSUME TypeOK, [SystemNext]_sysVars
    PROVE  LET w == worker["listAll"]
           IN  \/ w' = w
               \/ w'.pc # "reply"
               \/ w'.answer.err # "none"
               \/ w'.answer.users = LiveUsers(db)
  <1> DEFINE s == "listAll"
  <1>0. s \in Subjects /\ worker \in [Subjects -> Work]
    BY DEF Subjects, Entries, TypeOK, WorkOK
  <1> SUFFICES ASSUME worker'[s] # worker[s], worker'[s].pc = "reply", worker'[s].answer.err = "none"
               PROVE  worker'[s].answer.users = LiveUsers(db)
    OBVIOUS
  <1> HIDE DEF s
  <1>1. CASE Handle
    <2>1. PICK r \in Subjects : \E o :
            Querying(r) /\ Does(r, Asked(r), o) /\ Finish(r, o, EventOf(r, Asked(r), o))
      BY <1>1, HandleIs
    <2>2. PICK o : Does(r, Asked(r), o) /\ Finish(r, o, EventOf(r, Asked(r), o))
      BY <2>1
    <2>3. r = s
      BY <1>0, <2>2 DEF Finish
    <2>4. worker'[s].answer = [err |-> o.err, users |-> o.users]
      BY <1>0, <2>2, <2>3 DEF Finish, Work
    <2>5. ListDoes(db, {LiveUsers(db)}, o)
      BY <2>2, <2>3 DEF Does, s
    <2> QED  BY <2>4, <2>5 DEF ListDoes
  <1>2. ASSUME NEW r \in Subjects, Take(r) PROVE FALSE
    <2>1. r = s
      BY <1>0, <1>2 DEF Take
    <2>2. \A k : /\ [Idle EXCEPT !.pc = "query", !.k = k].pc = "query"
                 /\ [Idle EXCEPT !.pc = "reply", !.k = k, !.answer = Refusal].answer.err = "validation"
      BY DEF Idle, Refusal
    <2>3. CASE call[Head(inbox[s])].req.valid
      BY <1>0, <1>2, <2>1, <2>2, <2>3 DEF Take
    <2>4. CASE ~call[Head(inbox[s])].req.valid
      BY <1>0, <1>2, <2>1, <2>2, <2>4 DEF Take
    <2> QED  BY <2>3, <2>4
  <1>3. ASSUME NEW r \in Subjects, Reply(r) \/ ReplyLost(r) PROVE FALSE
    <2>1. worker' = [worker EXCEPT ![r] = IF worker[r].todo = {} THEN Idle
                                          ELSE [worker[r] EXCEPT !.pc = "publish"]]
      BY <1>3 DEF Reply, ReplyLost, Replied
    <2>2. [worker[r] EXCEPT !.pc = "publish"].pc = "publish" /\ Idle.pc = "idle"
      BY <1>0 DEF Work, Idle
    <2>3. r = s
      BY <1>0, <2>1
    <2> QED  BY <1>0, <2>1, <2>2, <2>3
  <1>4. ASSUME NEW r \in Subjects, Publish(r) \/ PublishFails(r) PROVE FALSE
    BY <1>0, <1>4 DEF Publish, PublishFails, Idle
  <1>5. CASE Exit
    BY <1>0, <1>5 DEF Exit, Idle
  <1>6. ASSUME [Next]_vars
        PROVE \/ UNCHANGED worker \/ Exit \/ Handle
              \/ \E r \in Subjects : Take(r) \/ Reply(r) \/ ReplyLost(r) \/ Publish(r) \/ PublishFails(r)
    BY <1>6 DEF Next, Caller, GiveUp, Send, Advance, Deliver, Process, Start, Signal, Close, Subscribe,
       Unsubscribe, vars
  <1>7. CASE LoadSends \/ CacheHits
    BY <1>7 DEF LoadSends, Send, CacheHits, CacheAnswers
  <1> QED  BY <1>1, <1>2, <1>3, <1>4, <1>5, <1>6, <1>7, ServiceSide

LEMMA ListedAllStep ==
    ASSUME TypeOK, TableTold, SeededExist, AtWork, ListedAll, [SystemNext]_sysVars
    PROVE  ListedAll'
  <1>1. /\ HasSeeded(IdsOf(LiveUsers(db)))
        /\ \A ids : HasSeeded(ids) => Live(db') \cap Seeded \subseteq ids
    BY SeededStep
  <1>2. LoadRequest.op = "listAll"
    BY LoadRequestType
  <1>3. call'[Loader].st # "new" => call'[Loader].req.op = "listAll"
    BY <1>2, LoaderCall DEF ListedAll
  <1>4. ASSUME worker'["listAll"].pc = "reply", worker'["listAll"].answer.err = "none"
        PROVE  Live(db') \cap Seeded \subseteq IdsOf(worker'["listAll"].answer.users)
    <2>1. \/ worker'["listAll"] = worker["listAll"]
          \/ worker'["listAll"].answer.users = LiveUsers(db)
      BY <1>4, ListerAnswers
    <2> QED  BY <1>1, <1>4, <2>1 DEF ListedAll
  <1>5. ASSUME call'[Loader].st = "answered", call'[Loader].answer.err = "none"
        PROVE  Live(db') \cap Seeded \subseteq IdsOf(call'[Loader].answer.users)
    <2>1. CASE call'[Loader] = call[Loader]
      BY <1>1, <1>5, <2>1 DEF ListedAll
    <2>2. ASSUME NEW s \in Subjects, worker[s].pc = "reply", worker[s].k = Loader,
                 call'[Loader].answer = worker[s].answer, call[Loader].st # "new"
          PROVE  Live(db') \cap Seeded \subseteq IdsOf(call'[Loader].answer.users)
      <3>1. s = "listAll"
        BY <2>2 DEF AtWork, Sent, ListedAll
      <3> QED  BY <1>1, <1>5, <2>2, <3>1 DEF ListedAll
    <2> QED  BY <1>5, <2>1, <2>2, LoaderCall
  <1> QED  BY <1>3, <1>4, <1>5 DEF ListedAll, HasSeeded

LEMMA SeededCachedStep ==
    ASSUME SafeInv, InStep, EventsBacked, SeededExist, ListedAll, SeededCached, [SystemNext]_sysVars
    PROVE  SeededCached'
  <1>1. TypeOK /\ WayType /\ TableTold
    BY DEF SafeInv, ToldInv, ClientInv, CacheInv, CacheTypeOK, WayType
  <1>2. \A ids : HasSeeded(ids) => Live(db') \cap Seeded \subseteq ids
    BY <1>1, SeededStep
  <1> SUFFICES ASSUME fullyLoaded' PROVE Live(db') \cap Seeded \subseteq DOMAIN cache'
    BY DEF SeededCached, HasSeeded
  <1>3. ASSUME NEW users, AnswerLoads(users) PROVE Live(db') \cap Seeded \subseteq DOMAIN cache'
    <2>1. cache' = [id \in {u.id : u \in users} |-> CHOOSE u \in users : u.id = id]
      BY <1>3 DEF AnswerLoads, Loaded
    <2>2. DOMAIN cache' = IdsOf(users)
      BY <2>1 DEF IdsOf
    <2>3. HasSeeded(IdsOf(users))
      BY <1>3 DEF AnswerLoads, ListedAll
    <2> QED  BY <1>2, <2>2, <2>3
  <1>4. ASSUME ~\E users : AnswerLoads(users) PROVE Live(db') \cap Seeded \subseteq DOMAIN cache'
    <2>1. fullyLoaded
      BY <1>4, ClientSide DEF cacheVars, LoadFailed, DeliverToClient, Arrive, AnswerFills, Fill, Client,
         Startup, Pipeline, Shutdown, Listen, Serve, Callback, Forward, Apply, CloseClient, NoticeStop,
         StopProcessor
    <2>2. HasSeeded(DOMAIN cache)
      BY <2>1 DEF SeededCached
    <2>3. Live(db') \cap Seeded \subseteq Live(db) \cap DOMAIN cache
      <3>1. Live(db') \cap Seeded \subseteq DOMAIN cache
        BY <1>2, <2>2
      <3>2. Live(db') \cap Seeded \subseteq Live(db)
        BY <1>1, TableMoves, ServiceAssumption
        DEF SeededExist, Live, Writes, Creates, Updates, Deletes
      <3> QED  BY <3>1, <3>2
    <2> QED  BY <1>1, <1>4, <2>3, CacheKeeps
  <1> QED  BY <1>3, <1>4

-------------------------------------------------------------------------------
(* Nobody is missing from a complete cache.                                 *)

WayInv ==
    /\ OwesLast /\ InStep /\ History /\ SeededExist /\ CreatedFresh
    /\ LiveAnnounced /\ NewestAnnounced
    /\ NotYet /\ CreatedKept /\ ListedAll /\ SeededCached
SystemInv == SafeInv /\ FoundInv /\ AnnounceInv /\ WayInv

LEMMA WayInit == SystemInit => WayInv
  <1> SUFFICES ASSUME SystemInit PROVE WayInv
    OBVIOUS
  <1>1. Init /\ CacheInit
    BY DEF SystemInit
  <1>2. PICK email \in [Seeded -> Emails] :
          /\ db = [id \in Ids |-> IF id \in Seeded THEN LiveRow(email[id], 1) ELSE AbsentRow]
          /\ committed = {[id |-> id, email |-> email[id], rev |-> 1] : id \in Seeded}
    BY <1>1 DEF Init
  <1>3. \A id \in Ids : /\ id \in Seeded => db[id].state = "live" /\ db[id].rev = 1 /\ db[id].email = email[id]
                        /\ id \notin Seeded => db[id].state = "absent"
    BY <1>2 DEF LiveRow, AbsentRow
  <1>4. Seeded \subseteq Ids
    BY ServiceAssumption
  <1>5. OwesLast /\ CreatedFresh
    BY <1>1 DEF Init, Idle, OwesLast, CreatedFresh
  <1>6. InStep /\ NotYet /\ CreatedKept /\ SeededCached
    BY <1>1 DEF Init, CacheInit, InStep, NotYet, CreatedKept, SeededCached, Numbers
  <1>7. History
    <2>1. ASSUME NEW u \in committed
          PROVE  /\ u.id \in Ids /\ 1 <= u.rev /\ u.rev <= db[u.id].rev /\ u = UserOf(db, u.id)
      <3>1. PICK id \in Seeded : u = [id |-> id, email |-> email[id], rev |-> 1]
        BY <1>2
      <3> QED  BY <1>3, <1>4, <3>1 DEF UserOf
    <2> QED  BY <2>1 DEF History
  <1>8. SeededExist /\ LiveAnnounced /\ NewestAnnounced
    BY <1>3, <1>4 DEF SeededExist, LiveAnnounced, NewestAnnounced, Live
  <1>9. ListedAll
    <2>1. Loader \in Calls /\ "listAll" \in Subjects /\ NewCall.st = "new" /\ Idle.pc = "idle"
      BY SystemAssumption DEF Subjects, Entries, NewCall, Idle
    <2> QED  BY <1>1, <2>1 DEF Init, ListedAll
  <1> QED  BY <1>5, <1>6, <1>7, <1>8, <1>9 DEF WayInv

LEMMA WayStep ==
    ASSUME SystemInv, [SystemNext]_sysVars
    PROVE  WayInv'
  <1>1. /\ TypeOK /\ WayType /\ TableTold /\ CommittedExist /\ AtWork /\ EventsBacked
        /\ OwesLast /\ InStep /\ History /\ SeededExist /\ CreatedFresh
        /\ LiveAnnounced /\ NewestAnnounced
        /\ NotYet /\ CreatedKept /\ ListedAll /\ SeededCached
        /\ [OpenNext]_cacheVars
    BY ServiceIsOpen DEF SystemInv, WayInv, SafeInv, ToldInv, ClientInv, CacheInv, CacheTypeOK,
       WayType, FoundInv, AnnounceInv
  <1>2. OwesLast'
    BY <1>1, OwedMoves, QueryAnnounces
  <1>3. WayType'
    <2>1. SafeInv'
      BY SafeStep DEF SystemInv
    <2> QED  BY <2>1 DEF SafeInv, ClientInv, CacheInv, CacheTypeOK, WayType
  <1>4. InStep' /\ History' /\ SeededExist' /\ CreatedFresh'
    BY <1>1, InStepStep, HistoryStep, SeededStep, CreatedFreshStep
  <1>5. LiveAnnounced' /\ NewestAnnounced'
    BY <1>1, LiveAnnouncedStep, NewestAnnouncedStep
  <1>6. NotYet' /\ CreatedKept' /\ ListedAll' /\ SeededCached'
    BY <1>1, <1>3, NotYetStep, CreatedKeptStep, ListedAllStep, SeededCachedStep DEF SystemInv
  <1> QED  BY <1>2, <1>4, <1>5, <1>6 DEF WayInv

LEMMA SystemAlways == SystemSpec => []SystemInv
  <1>1. SystemInit => SystemInv
    BY SafeInit, WayInit, FoundInit, AnnounceInit DEF SystemInv, SystemInit
  <1>2. SystemInv /\ [SystemNext]_sysVars => SystemInv'
    <2> SUFFICES ASSUME SystemInv, [SystemNext]_sysVars PROVE SystemInv'
      OBVIOUS
    <2>1. SafeInv'
      BY SafeStep DEF SystemInv
    <2>2. TypeOK /\ TypeOK'
      BY <2>1 DEF SystemInv, SafeInv
    <2>3. FoundInv' /\ AnnounceInv'
      BY <2>2, FoundSystem, AnnounceSystem DEF SystemInv
    <2> QED  BY <2>1, <2>3, WayStep DEF SystemInv
  <1> QED  BY <1>1, <1>2, PTL DEF SystemSpec

\* Between its commit and the cache an event is in one place: its worker, NATS,
\* or the client's queues.
LEMMA PlacesOf ==
    ASSUME SystemInv, NEW i \in DOMAIN events
    PROVE  \/ i \in delivered + 1 .. Len(events)
           \/ i \in Numbers /\ arrived[i] = events[i] /\ i \in missed
           \/ i \in Numbers /\ arrived[i] = events[i] /\ i \in In(Underway(arrived[i].type))
           \/ i \in Numbers /\ arrived[i] = events[i] /\ Reached(i)
  <1>1. TypeOK /\ WayType /\ InStep /\ OrderInv
    BY DEF SystemInv, WayInv, SafeInv, ClientInv, CacheInv, CacheTypeOK, WayType
  <1>2. i \in 1 .. Len(events) /\ Len(events) \in Nat /\ delivered \in Nat
    BY <1>1 DEF TypeOK, WireOK
  <1>3. CASE i <= delivered
    <2>1. i \in Numbers /\ arrived[i] = events[i]
      BY <1>1, <1>2, <1>3 DEF InStep, Numbers
    <2>2. arrived[i].type \in EventTypes
      BY <1>1, <2>1, ArrivedType
    <2>3. In(Underway(arrived[i].type)) = OnWay(arrived[i].type)
      BY <1>1, <2>2, UnderwayInOrder DEF OrderInv
    <2> QED  BY <2>1, <2>3 DEF Reached
  <1>4. CASE ~(i <= delivered)
    BY <1>2, <1>4
  <1> QED  BY <1>3, <1>4

\* A client that serves lists from its cache misses nobody, unless it missed the very
\* event that tells of the user, or the service ended without announcing it, while no
\* query fails.  (One that fails after its
\* commit leaves a user nobody is told of.)
THEOREM CacheStaysComplete == SystemSpec => [](queryFailed \/ CompleteUnlessMissed)
  <1>1. SystemInv => queryFailed \/ CompleteUnlessMissed
    <2> SUFFICES ASSUME SystemInv, ~queryFailed, fullyLoaded, NEW id \in Live(db) \ DOMAIN cache
                 PROVE  \/ \E e \in worker["create"].todo : Creation(e, id)
                        \/ \E i \in delivered + 1 .. Len(events) : Creation(events[i], id)
                        \/ \E n \in missed \cup In(Underway("created")) : Creation(arrived[n], id)
                        \/ /\ phase = "closing" \/ exits > 0
                           /\ \A i \in DOMAIN events : ~Creation(events[i], id)
      BY DEF CompleteUnlessMissed
    <2>1. id \notin Seeded
      BY DEF SystemInv, WayInv, SeededCached, HasSeeded
    <2>2. \/ Excused
          \/ \E e \in worker["create"].todo : Creation(e, id)
          \/ \E i \in DOMAIN events : Creation(events[i], id)
      BY <2>1 DEF SystemInv, WayInv, LiveAnnounced, Creation
    <2>3. ASSUME NEW i \in DOMAIN events, Creation(events[i], id)
          PROVE  \/ \E j \in delivered + 1 .. Len(events) : Creation(events[j], id)
                 \/ \E n \in missed \cup In(Underway("created")) : Creation(arrived[n], id)
      <3>1. ~(i \in Numbers /\ arrived[i] = events[i] /\ Reached(i))
        BY <2>3 DEF SystemInv, WayInv, CreatedKept, Creation
      <3> QED  BY <2>3, <3>1, PlacesOf DEF Creation
    <2> QED  BY <2>2, <2>3 DEF Excused
  <1> QED  BY <1>1, SystemAlways, PTL

-------------------------------------------------------------------------------
(* The newest version of a cached user, when no read fills the cache.       *)

NothingMissing == missing = {}

LEMMA NothingMissingStep ==
    ASSUME Ops \cap CachedReads = {}, TypeOK, NothingMissing, [SystemNext]_sysVars
    PROVE  NothingMissing'
  <1>1. ASSUME NEW k \in Calls \ {Loader}, Ask(k) PROVE UNCHANGED missing
    <2>1. PICK op \in Ops : \E req \in RequestsOf(op) :
            IF op \in CachedReads \cup {"list"} THEN Hit(k, req) \/ Miss(k, req)
            ELSE Send(k, req) /\ UNCHANGED <<cacheVars, missing>>
      BY <1>1 DEF Ask
    <2>2. PICK req \in RequestsOf(op) : UNCHANGED missing \/ Miss(k, req)
      BY <2>1 DEF Hit
    <2>3. req.op = op
      BY RequestType, OpsAssumption DEF TypeOK
    <2> QED  BY <2>2, <2>3 DEF Miss
  <1>2. ASSUME NEW k \in Calls \ {Loader}, Return(k) PROVE NothingMissing'
    BY <1>2 DEF Return, NothingMissing
  <1>3. CASE Load \/ EndLoad \/ Serving \/ DeliverToClient \/ Restart \/ Client \/ UNCHANGED sysVars
    BY <1>3 DEF Load, EndLoad, Serving, DeliverToClient, Restart, Client, sysVars, NothingMissing
  <1>4. ASSUME NEW k \in Calls, Timeout(k) PROVE UNCHANGED missing
    BY <1>4 DEF Timeout
  <1> QED  BY <1>1, <1>2, <1>3, <1>4 DEF SystemNext, NothingMissing

\* Of the updates of one user, the newest one announced is applied last.
LEMMA NoneNewer ==
    ASSUME SystemInv, Apply, NEW id \in Seeded, NEW n \in Numbers, arrived[n] = NewestEvent(id),
           Reached(n), arrived[Head(updateCh)].type # "deleted"
    PROVE  arrived[Head(updateCh)].id # id
  <1> DEFINE m == Head(updateCh)
  <1>1. TypeOK /\ WayType /\ InStep /\ EventsBacked /\ EventsOrdered /\ OrderInv /\ OnceInv /\ CreatedFresh
    BY DEF SystemInv, WayInv, SafeInv, ClientInv, CacheInv, CacheTypeOK, WayType, AnnounceInv
  <1>2. m \in Numbers /\ m \in In(updateCh)
    BY <1>1, ApplyWay, WayNumbers, InTail DEF Apply
  <1> HIDE DEF m
  <1>3. /\ arrived[m] = events[m] /\ Backed(arrived[m]) /\ arrived[n] = events[n]
        /\ m \in DOMAIN events /\ n \in DOMAIN events
    BY <1>1, <1>2, ArrivedBacked DEF InStep, Numbers, TypeOK, WireOK
  <1>4. /\ arrived[n].type = "updated" /\ arrived[n].id = id /\ arrived[n].user.rev = db[id].rev
        /\ id \in Ids
    BY ServiceAssumption DEF NewestEvent, UserEvent, UserOf
  <1> SUFFICES ASSUME arrived[m].id = id PROVE FALSE
    BY DEF m
  <1>5. arrived[m].type = "updated"
    <2>1. arrived[m].type \in EventTypes
      BY <1>1, <1>2, ArrivedType
    <2>2. arrived[m].type # "created"
      BY <1>1, <1>3 DEF CreatedFresh
    <2> QED  BY <2>1, <2>2 DEF EventTypes, m
  <1>6. latest["updated"] < m
    BY <1>1, <1>2, <1>5 DEF OrderInv, Line, OfType, EventTypes
  <1>7. n <= latest["updated"]
    BY <1>1, <1>4 DEF OnceInv, Reached
  <1>8. n < m
    <2>1. n \in Nat /\ m \in Nat /\ latest["updated"] \in Nat
      BY <1>1, <1>2, WayNumbers, ArrivedType DEF EventTypes
    <2> QED  BY <1>6, <1>7, <2>1
  <1>9. arrived[n].user.rev < arrived[m].user.rev
    BY <1>1, <1>3, <1>4, <1>5, <1>8 DEF EventsOrdered, Follows
  <1>10. arrived[m].user.rev <= db[id].rev
    BY <1>3, <1>4, <1>5 DEF Backed
  <1>11. arrived[m].user.rev \in Nat /\ db[id].rev \in Nat
    BY <1>1, <1>2, <1>3, <1>4, EventsTyped DEF TypeOK, TableOK, Row
  <1> QED  BY <1>4, <1>9, <1>10, <1>11

LEMMA NewestKeptStep ==
    ASSUME SystemInv, NothingMissing, NewestKept, [SystemNext]_sysVars
    PROVE  NewestKept'
  <1>1. /\ TypeOK /\ WayType /\ TableTold /\ InStep /\ EventsBacked /\ SeededExist /\ NotYet
        /\ IdsMatch /\ [OpenNext]_cacheVars
    BY ServiceIsOpen DEF SystemInv, WayInv, SafeInv, ToldInv, ClientInv, CacheInv, CacheTypeOK,
       WayType, AnnounceInv
  <1> SUFFICES ASSUME NEW n \in Numbers', NEW id \in Seeded, id \in DOMAIN cache',
                      arrived'[n] = UserEvent("updated", UserOf(db', id)), Reached(n)'
               PROVE  cache'[id] = UserOf(db', id)
    BY DEF NewestKept, NewestEvent
  <1>2. /\ n \in Numbers /\ arrived'[n] = arrived[n]
        /\ Reached(n) \/ (Apply /\ n = Head(updateCh))
    BY <1>1, ReachedWhen
  <1>3. id \in Ids /\ db[id].state # "absent"
    BY <1>1, ServiceAssumption DEF SeededExist
  <1>4. db'[id].rev = db[id].rev /\ db'[id].email = db[id].email
    <2>1. ASSUME Updates(id) PROVE FALSE
      <3>1. /\ arrived[n].type = "updated" /\ arrived[n].id = id
            /\ arrived[n].user.rev = db[id].rev + 1
        BY <1>2, <2>1 DEF Updates, UserEvent, UserOf
      <3>2. arrived[n].user.rev <= db[id].rev
        BY <1>1, <1>2, <1>3, <3>1, ArrivedBacked DEF Backed
      <3>3. db[id].rev \in Nat
        BY <1>1, <1>3 DEF TypeOK, TableOK, Row
      <3> QED  BY <3>1, <3>2, <3>3
    <2> QED  BY <1>1, <1>3, <2>1, TableMoves DEF Writes, Creates, Deletes
  <1>5. UserOf(db', id) = UserOf(db, id) /\ arrived[n] = NewestEvent(id) /\ UserOf(db, id).id = id
    BY <1>2, <1>4 DEF UserOf, NewestEvent
  <1>6. CASE Apply /\ n = Head(updateCh)
    <2>1. arrived[n].type = "updated" /\ arrived[n].user = UserOf(db, id)
      BY <1>5 DEF NewestEvent, UserEvent
    <2>2. cache' = Put(cache, UserOf(db, id))
      BY <1>6, <2>1 DEF Apply
    <2> QED  BY <1>5, <2>2 DEF Put
  <1>7. ASSUME Reached(n), id \in DOMAIN cache, cache'[id] = cache[id]
        PROVE  cache'[id] = UserOf(db', id)
    BY <1>2, <1>5, <1>7 DEF NewestKept
  <1>8. CASE Reached(n) /\ Apply
    <2> DEFINE e == arrived[Head(updateCh)]
    <2>1. cache' = IF e.type = "deleted" THEN Drop(cache, e.id) ELSE Put(cache, e.user)
      BY <1>8 DEF Apply
    <2>2. CASE e.type = "deleted"
      <3>1. id \in DOMAIN cache /\ cache'[id] = cache[id]
        BY <2>1, <2>2 DEF Drop
      <3> QED  BY <1>7, <1>8, <3>1
    <2>3. CASE e.type # "deleted"
      <3>1. e.id # id
        BY <1>2, <1>5, <1>8, <2>3, NoneNewer
      <3>2. e.user.id = e.id
        BY <1>1, <1>8, <2>3, ApplyWay DEF IdsMatch, AnyEvent
      <3>3. id \in DOMAIN cache /\ cache'[id] = cache[id]
        BY <2>1, <2>3, <3>1, <3>2 DEF Put
      <3> QED  BY <1>7, <1>8, <3>3
    <2> QED  BY <2>2, <2>3
  <1>9. CASE Reached(n) /\ ~Apply
    <2>1. ASSUME NEW users, AnswerLoads(users) PROVE FALSE
      BY <1>1, <1>2, <1>9, <2>1 DEF AnswerLoads, Loaded, NotYet, Reached
    <2>2. ASSUME NEW u, AnswerFills(u) PROVE FALSE
      BY <2>2 DEF AnswerFills, NothingMissing
    <2>3. UNCHANGED cache
      BY <1>9, <2>1, <2>2, ClientSide DEF cacheVars, LoadFailed, DeliverToClient, Arrive, Client,
         Startup, Pipeline, Shutdown, Listen, Serve, Callback, Forward, CloseClient, NoticeStop,
         StopProcessor
    <2> QED  BY <1>7, <1>9, <2>3
  <1> QED  BY <1>2, <1>6, <1>8, <1>9

\* A cached user shows the row's newest version, or the event that makes it so is
\* on its way, unless that very event was lost or a query failed; as long as no
\* read misses the cache, whose answer could bring back an older version.
THEOREM NewestStaysComing ==
    ASSUME Ops \cap CachedReads = {}
    PROVE  SystemSpec => [](queryFailed \/ NewestIsComing)
  <1>1. SystemInit => NothingMissing /\ NewestKept
    BY DEF SystemInit, NothingMissing, CacheInit, NewestKept, Numbers
  <1>2. SystemInv /\ NothingMissing /\ NewestKept /\ [SystemNext]_sysVars => NothingMissing' /\ NewestKept'
    BY NothingMissingStep, NewestKeptStep DEF SystemInv, SafeInv
  <1>3. SystemInv /\ NewestKept => queryFailed \/ NewestIsComing
    <2> SUFFICES ASSUME SystemInv, NewestKept, ~queryFailed, NEW id \in Seeded, id \in DOMAIN cache
                 PROVE  cache[id] = UserOf(db, id) \/ NewestEvent(id) \in Coming \/ id \in Unreliable
      BY DEF NewestIsComing, Settled
    <2>1. NewestEvent(id).type = "updated" /\ NewestEvent(id).id = id /\ id \in Ids
      BY ServiceAssumption DEF NewestEvent, UserEvent, UserOf
    <2>2. ASSUME NEW i \in DOMAIN events, events[i] = NewestEvent(id)
          PROVE  cache[id] = UserOf(db, id) \/ NewestEvent(id) \in Coming \/ id \in Unreliable
      <3>1. CASE i \in delivered + 1 .. Len(events)
        BY <2>2, <3>1 DEF Coming
      <3>2. CASE i \in Numbers /\ arrived[i] = events[i] /\ i \in missed
        BY <2>1, <2>2, <3>2 DEF Unreliable
      <3>3. CASE i \in Numbers /\ arrived[i] = events[i] /\ i \in In(Underway(arrived[i].type))
        BY <2>1, <2>2, <3>3 DEF Coming
      <3>4. CASE i \in Numbers /\ arrived[i] = events[i] /\ Reached(i)
        BY <2>2, <3>4 DEF NewestKept
      <3> QED  BY <3>1, <3>2, <3>3, <3>4, PlacesOf
    <2>3. CASE db[id].rev = 1
      <3>1. cache[id] \in committed /\ cache[id].id = id
        BY DEF SystemInv, SafeInv, CacheTold, Authentic, ClientInv, CacheInv, KeyedById
      <3>2. cache[id].rev \in Nat
        BY <3>1 DEF SystemInv, SafeInv, TypeOK, TableOK, User
      <3> QED  BY <2>3, <3>1, <3>2 DEF SystemInv, WayInv, History
    <2>4. CASE Excused
      BY <2>1, <2>2, <2>4 DEF Excused, Unreliable, Announced
    <2>5. CASE NewestEvent(id) \in worker["update"].todo
      BY <2>5 DEF Coming
    <2> QED  BY <2>2, <2>3, <2>4, <2>5 DEF SystemInv, WayInv, NewestAnnounced
  <1> QED  BY <1>1, <1>2, <1>3, SystemAlways, PTL DEF SystemSpec

===============================================================================
