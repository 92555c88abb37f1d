----------------------------- MODULE GatewayProofs ------------------------------
(***************************************************************************)
(* What TLAPS proves of the gateway, for any number of requests, users and *)
(* operations, and any failures of the service behind it.                  *)
(*                                                                         *)
(* What a peer is told is followed from the query that makes it true:      *)
(* FateInv says that the answer is Honest where the service keeps it, and  *)
(* where the caller has it; CodeInv, that a code is given for an answer    *)
(* or for a request that was never passed on.  DrainInv is the invariant   *)
(* behind OnlyForceCutsHttp.                                               *)
(***************************************************************************)
EXTENDS Gateway, TLAPS

Refusals == {"notFound", "alreadyExists", "validation"}
Telling == [err : Refusals \cup {"none", "internal"}, users : SUBSET User]
RefusalCodes == Codes \ {"none", "OK", "INTERNAL_ERROR"}

CallType ==
    /\ call \in [Calls -> [st : {"new", "waiting", "answered", "failed"},
                           req : Inquiry, answer : Telling]]
    /\ result \in [Calls -> Telling]

TypesOK == CallType /\ GatewayTypeOK

\* An answer that refuses follows no change, a success follows one.
Honest(k, answer) ==
    /\ answer.err \in Refusals => k \notin changed
    /\ answer.err = "none" /\ call[k].req.op \in Mutations =>
         k \in changed \/ (call[k].req.op = "update" /\ answer.users = {ZeroUser})

FateInv ==
    \A k \in Calls :
      /\ call[k].st \in {"new", "answered"} => fate[k] = "none"
      /\ call[k].st = "new" \/ fate[k] = "pending" => k \notin changed
      /\ fate[k] = "performed" => Honest(k, result[k])
      /\ call[k].st = "answered" => Honest(k, call[k].answer)

CodeInv ==
    \A k \in Calls :
      /\ exchange[k].code # "none" => exchange[k].stage = "over"
      /\ exchange[k].code \in RefusalCodes =>
           \/ call[k].st = "new"
           \/ call[k].st = "answered" /\ call[k].answer.err \in Refusals
      /\ exchange[k].code = "OK" => call[k].st = "answered" /\ call[k].answer.err = "none"

DrainInv ==
    /\ OnlyForceCutsHttp
    /\ proc = "closing" /\ ~forced => \A k \in Http : ~Busy(k)

-------------------------------------------------------------------------------
(* What the service may do with a request.                                  *)

\* What may be relied on of one effect of a request: its types; a refusal
\* changes nothing; a successful write changes something, but for the update
\* that failed.
Sound(req, e) ==
    /\ e = Effect(e.users, e.gone, e.answer, e.owed)
    /\ e.users \subseteq User /\ \A u \in e.users : u.id \in Ids
    /\ e.gone \subseteq Ids /\ e.owed \subseteq Event
    /\ e.answer \in Telling
    /\ e.answer.err \in Refusals => e.users = users /\ e.gone = gone
    /\ e.answer.err = "none" /\ req.op \in Mutations =>
         \/ <<e.users, e.gone>> # <<users, gone>>
         \/ req.op = "update" /\ e.answer.users = {ZeroUser}

LEMMA ZeroUserType == ZeroUser \in User /\ {ZeroUser} \in SUBSET User
  BY DEF ZeroUser, User

LEMMA EventsType ==
    /\ \A type \in EventTypes, u \in User : UserEvent(type, u) \in Event
    /\ \A id \in Ids : DeletedEvent(id) \in Event
  <1>1. \A u \in User : u.id \in Ids \cup {NilId}
    BY DEF User
  <1>2. \A id \in Ids : DeletedEvent(id) \in Event
    BY ZeroUserType DEF DeletedEvent, Event, EventTypes
  <1> QED  BY <1>1, <1>2 DEF UserEvent, Event

LEMMA RefusedSound ==
    ASSUME TypeInvariant, NEW req, NEW err \in Refusals
    PROVE  Sound(req, Refused(err))
  BY DEF TypeInvariant, Sound, Refused, Untouched, Effect, Tell, Telling, Refusals

LEMMA ReadSound ==
    ASSUME TypeInvariant, NEW req, req.op \notin Mutations, NEW told \in SUBSET users
    PROVE  Sound(req, Untouched(Tell("none", told)))
  BY DEF TypeInvariant, Sound, Untouched, Effect, Tell, Telling, Refusals

LEMMA CreatingSound ==
    ASSUME TypeInvariant, NEW req \in Inquiry, NEW e \in Creating(req)
    PROVE  Sound(req, e)
  <1>1. CASE Taken(req.email, NilId)
    BY <1>1, RefusedSound DEF Creating, Refusals
  <1>2. CASE ~Taken(req.email, NilId)
    <2>1. PICK u \in [id : Ids \ (gone \cup {v.id : v \in users}), email : {req.email}, rev : {1}] :
            e = Effect(users \cup {u}, gone, Tell("none", {u}), {UserEvent("created", u)})
      BY <1>2 DEF Creating
    <2>2. u \in User /\ u \notin users
      BY <2>1 DEF User, Inquiry
    <2>3. UserEvent("created", u) \in Event
      BY <2>2, EventsType DEF EventTypes
    <2> QED  BY <2>1, <2>2, <2>3 DEF TypeInvariant, Sound, Effect, Tell, Telling, Refusals
  <1> QED  BY <1>1, <1>2

LEMMA UpdatingSound ==
    ASSUME TypeInvariant, NEW req \in Inquiry, NEW e \in Updating(req)
    PROVE  Sound(req, e)
  <1> DEFINE old == {u \in users : u.id = req.id}
  <1>1. CASE old = {} \/ Taken(req.email, req.id)
    BY <1>1, RefusedSound DEF Updating, Refusals
  <1>2. CASE old # {} /\ ~Taken(req.email, req.id)
    <2>1. PICK v \in old : \E u \in {[id |-> req.id, email |-> req.email, rev |-> v.rev + 1]} :
            e = Effect((users \ old) \cup {u}, gone, Tell("none", {u}), {UserEvent("updated", u)})
      BY <1>2 DEF Updating
    <2> DEFINE u == [id |-> req.id, email |-> req.email, rev |-> v.rev + 1]
    <2>2. v \in User /\ v.id \in Ids
      BY DEF TypeInvariant
    <2>6. u \in User
      BY <2>2 DEF User, Inquiry
    <2>7. u.id \in Ids /\ u.rev # v.rev
      BY <2>2 DEF User
    <2>8. e = Effect((users \ old) \cup {u}, gone, Tell("none", {u}), {UserEvent("updated", u)})
      BY <2>1
    <2>3. UserEvent("updated", u) \in Event
      BY <2>6, EventsType DEF EventTypes
    <2>4. v \in users /\ v \notin (users \ old) \cup {u}
      BY <2>7
    <2>5. (users \ old) \cup {u} # users
      BY <2>4
    <2> HIDE DEF u
    <2> QED  BY <2>8, <2>6, <2>7, <2>3, <2>5 DEF TypeInvariant, Sound, Effect, Tell, Telling, Refusals
  <1> QED  BY <1>1, <1>2

LEMMA DeletingSound ==
    ASSUME TypeInvariant, NEW req \in Inquiry, NEW e \in Deleting(req)
    PROVE  Sound(req, e)
  <1> DEFINE old == {u \in users : u.id = req.id}
  <1>1. CASE old = {}
    BY <1>1, RefusedSound DEF Deleting, Refusals
  <1>2. CASE old # {}
    <2>1. PICK v \in old : TRUE
      BY <1>2
    <2>2. e = Effect(users \ old, gone \cup {req.id}, Nothing, {DeletedEvent(req.id)})
      BY <1>2 DEF Deleting
    <2>3. users \ old # users
      BY <2>1
    <2>4. req.id \in Ids
      BY <2>1 DEF TypeInvariant
    <2> QED
      BY <2>2, <2>3, <2>4, EventsType
      DEF TypeInvariant, Sound, Effect, Nothing, Tell, Telling, Refusals
  <1> QED  BY <1>1, <1>2

LEMMA PromisedSound ==
    ASSUME TypeInvariant, NEW req \in Inquiry, NEW e \in Promised(req)
    PROVE  Sound(req, e)
  <1>1. \A found \in SUBSET users : e \in Finding(found) /\ req.op \notin Mutations => Sound(req, e)
    <2> SUFFICES ASSUME NEW found \in SUBSET users, e \in Finding(found), req.op \notin Mutations
                 PROVE  Sound(req, e)
      OBVIOUS
    <2>1. CASE found = {}
      BY <2>1, RefusedSound DEF Finding, Refusals
    <2>2. CASE found # {}
      <3>1. PICK u \in found : e = Untouched(Tell("none", {u}))
        BY <2>2 DEF Finding
      <3> QED  BY <3>1, ReadSound
    <2> QED  BY <2>1, <2>2
  <1>2. CASE req.op = "create"      BY <1>2, CreatingSound DEF Promised
  <1>3. CASE req.op = "getByID"
    <2>1. e \in Finding({u \in users : u.id = req.id})
      BY <1>3 DEF Promised
    <2> QED  BY <2>1, <1>1, <1>3 DEF Mutations
  <1>4. CASE req.op = "getByEmail"
    <2>1. e \in Finding({u \in users : u.email = req.email})
      BY <1>4 DEF Promised
    <2> QED  BY <2>1, <1>1, <1>4 DEF Mutations
  <1>5. CASE req.op = "list"        BY <1>5, ReadSound DEF Promised, Mutations
  <1>6. CASE req.op = "listAll"     BY <1>6, ReadSound DEF Promised, Mutations
  <1>7. CASE req.op = "update"      BY <1>7, UpdatingSound DEF Promised
  <1>8. CASE req.op = "delete"      BY <1>8, DeletingSound DEF Promised
  <1> QED  BY <1>2, <1>3, <1>4, <1>5, <1>6, <1>7, <1>8 DEF Inquiry, Operations

\* A query that failed is as sound as the one that did not.
LEMMA FailedSound ==
    ASSUME TypeInvariant, NEW req \in Inquiry, NEW t \in Failed(req)
    PROVE  Sound(req, t)
  <1> DEFINE told(e) ==
          CASE req.op = "getByID" -> [e EXCEPT !.answer = Tell("none", {ZeroUser}), !.owed = {}]
            [] req.op = "update"  -> [e EXCEPT !.answer = Tell("none", {ZeroUser}),
                                               !.owed = {UserEvent("updated", ZeroUser)}]
            [] OTHER -> [e EXCEPT !.answer = Tell("internal", {}), !.owed = {}]
  <1>1. PICK e \in Promised(req) \cup {Untouched(Nothing)} : t = told(e)
    BY DEF Failed
  <1>2. /\ e = Effect(e.users, e.gone, e.answer, e.owed)
        /\ e.users \subseteq User /\ \A u \in e.users : u.id \in Ids
        /\ e.gone \subseteq Ids
    <2>1. CASE e \in Promised(req)
      BY <2>1, PromisedSound DEF Sound
    <2>2. CASE e = Untouched(Nothing)
      BY <2>2 DEF Untouched, Effect, TypeInvariant
    <2> QED  BY <2>1, <2>2
  <1>3. CASE req.op = "getByID"
    <2>1. t = Effect(e.users, e.gone, Tell("none", {ZeroUser}), {})
      BY <1>1, <1>2, <1>3 DEF Effect
    <2> QED  BY <1>2, <1>3, <2>1, ZeroUserType DEF Sound, Effect, Tell, Telling, Refusals, Mutations
  <1>4. CASE req.op = "update"
    <2>1. t = Effect(e.users, e.gone, Tell("none", {ZeroUser}), {UserEvent("updated", ZeroUser)})
      BY <1>1, <1>2, <1>4 DEF Effect
    <2>2. UserEvent("updated", ZeroUser) \in Event
      BY ZeroUserType, EventsType DEF EventTypes
    <2> QED  BY <1>2, <1>4, <2>1, <2>2, ZeroUserType DEF Sound, Effect, Tell, Telling, Refusals
  <1>5. CASE req.op \notin {"getByID", "update"}
    <2>1. t = Effect(e.users, e.gone, Tell("internal", {}), {})
      BY <1>1, <1>2, <1>5 DEF Effect
    <2> QED  BY <1>2, <2>1 DEF Sound, Effect, Tell, Telling, Refusals
  <1> QED  BY <1>3, <1>4, <1>5

LEMMA EffectsSound ==
    ASSUME TypeInvariant, NEW req \in Inquiry, NEW e \in Effects(req)
    PROVE  Sound(req, e)
  BY PromisedSound, FailedSound, RefusedSound DEF Effects, Refusals

-------------------------------------------------------------------------------
(* Types.                                                                   *)

LEMMA AskedType == \A valid \in BOOLEAN : Asked(valid) \subseteq Inquiry
  BY DEF Asked

LEMMA PrefixType ==
    ASSUME NEW S, NEW q \in Seq(S), NEW n \in 0 .. Len(q)
    PROVE  SubSeq(q, 1, n) \in Seq(S)
  <1>1. \A j \in 1 .. n : q[j] \in S
    OBVIOUS
  <1> QED  BY <1>1

LEMMA CodeType == \A k \in Calls : TypesOK /\ call[k].st # "new" => CodeOf(call[k]) \in Codes
  BY DEF TypesOK, CallType, CodeOf, Code, Codes, Telling, Refusals

LEMMA InitTypes == GatewayInit => TypesOK
  <1> SUFFICES ASSUME GatewayInit PROVE TypesOK
    OBVIOUS
  <1>1. NoInquiry \in Inquiry /\ Nothing \in Telling
    BY DEF NoInquiry, Inquiry, Operations, Nothing, Tell, Telling
  <1>2. CallType
    BY <1>1 DEF GatewayInit, DirectoryInit, CallType
  <1>3. TypeInvariant
    BY DEF GatewayInit, DirectoryInit, TypeInvariant, User
  <1> QED
    BY <1>2, <1>3 DEF GatewayInit, DirectoryInit, TypesOK, GatewayTypeOK, Codes

LEMMA HandlerTypes ==
    ASSUME TypesOK, NEW k \in Calls, Handler(k)
    PROVE  TypesOK'
  <1> USE DEF TypesOK, GatewayTypeOK, CallType, Move
  <1>1. CASE Accept(k)
    BY <1>1 DEF Accept, directoryVars, TypeInvariant, Codes
  <1>2. CASE RefuseHttp(k) \/ RefuseMessage(k)
    <2>1. /\ \E code \in Codes : Move(k, "over", code)
          /\ UNCHANGED <<directoryVars, proc, forced, changed>>
      BY <1>2 DEF RefuseHttp, RefuseMessage, Codes
    <2>2. exchange[k].stage = "reading"
      BY <1>2 DEF RefuseHttp, RefuseMessage
    <2> QED  BY <2>1, <2>2 DEF directoryVars, TypeInvariant
  <1>3. CASE Call(k)
    <2>1. PICK req \in Inquiry :
            \/ /\ call' = [call EXCEPT ![k].st = "waiting", ![k].req = req]
               /\ fate' = [fate EXCEPT ![k] = "pending"]
            \/ /\ call' = [call EXCEPT ![k].st = "failed", ![k].req = req]
               /\ UNCHANGED fate
      BY <1>3, AskedType DEF Call, Request
    <2>2. CallType'
      <3>1. \A st \in {"waiting", "failed"} :
              [call EXCEPT ![k].st = st, ![k].req = req]
                \in [Calls -> [st : {"new", "waiting", "answered", "failed"},
                              req : Inquiry, answer : Telling]]
        OBVIOUS
      <3> QED  BY <1>3, <2>1, <3>1 DEF Call, Request
    <2>3. TypeInvariant'
      BY <1>3, <2>1 DEF Call, Request, TypeInvariant
    <2>4. \A j \in Calls \ {k} : call'[j] = call[j]
      BY <2>1
    <2> QED  BY <1>3, <2>2, <2>3, <2>4 DEF Call, Codes
  <1>4. CASE Timeout(k)
    BY <1>4 DEF Timeout, GiveUp, TypeInvariant
  <1>5. CASE Respond(k)
    <2>1. CodeOf(call[k]) \in Codes
      BY <1>5, CodeType DEF Respond
    <2> QED  BY <1>5, <2>1 DEF Respond, directoryVars, TypeInvariant
  <1> QED  BY <1>1, <1>2, <1>3, <1>4, <1>5 DEF Handler

LEMMA ProcessTypes ==
    ASSUME TypesOK, Process
    PROVE  TypesOK'
  <1> USE DEF TypesOK, GatewayTypeOK, CallType
  <1>1. CASE Signal \/ Drained \/ Deadline
    BY <1>1 DEF Signal, Drained, Deadline, directoryVars, TypeInvariant
  <1>2. CASE Return \/ Kill
    <2>1. Cut /\ forced' \in BOOLEAN
      BY <1>2 DEF Return, Kill
    <2> QED  BY <2>1 DEF Cut, Busy, TypeInvariant
  <1> QED  BY <1>1, <1>2 DEF Process

LEMMA ServiceTypes ==
    ASSUME TypesOK, Service
    PROVE  TypesOK'
  <1> USE DEF TypesOK, GatewayTypeOK, CallType
  <1>1. ASSUME NEW k \in Calls, Serve(k) PROVE TypesOK'
    <2>1. PICK e \in Effects(call[k].req) :
            /\ users' = e.users /\ gone' = e.gone
            /\ result' = [result EXCEPT ![k] = e.answer]
            /\ owed' = [owed EXCEPT ![k] = e.owed]
      BY <1>1 DEF Serve, Perform
    <2>2. Sound(call[k].req, e)
      BY <2>1, EffectsSound
    <2> QED  BY <1>1, <2>1, <2>2 DEF Serve, Perform, Sound, TypeInvariant
  <1>2. ASSUME NEW k \in Calls, Answer(k), UNCHANGED <<exchange, proc, forced, changed>>
        PROVE  TypesOK'
    <2>1. Nothing \in Telling
      BY DEF Nothing, Tell, Telling
    <2>2. CallType'
      BY <1>2, <2>1 DEF Answer
    <2>3. TypeInvariant'
      BY <1>2 DEF Answer, TypeInvariant
    <2>4. \A j \in Calls : call[j].st = "new" => call'[j].st = "new"
      BY <1>2 DEF Answer
    <2> QED  BY <1>2, <2>2, <2>3, <2>4
  <1>3. ASSUME NEW k \in Calls, Publish(k), UNCHANGED <<exchange, proc, forced, changed>>
        PROVE  TypesOK'
    BY <1>3 DEF Publish, TypeInvariant
  <1>4. ASSUME NEW k \in Calls, Withhold(k), UNCHANGED <<exchange, proc, forced, changed>>
        PROVE  TypesOK'
    BY <1>4 DEF Withhold, TypeInvariant
  <1>5. ASSUME NEW K \in SUBSET Calls, Drop(K), UNCHANGED <<exchange, proc, forced, changed>>
        PROVE  TypesOK'
    BY <1>5 DEF Drop, TypeInvariant
  <1>6. ASSUME Die, UNCHANGED <<exchange, proc, forced, changed>> PROVE TypesOK'
    <2>1. Nothing \in Telling
      BY DEF Nothing, Tell, Telling
    <2>2. events' \in Seq(Event)
      BY <1>6, PrefixType DEF Die, TypeInvariant
    <2> QED  BY <1>6, <2>1, <2>2 DEF Die, TypeInvariant
  <1> QED  BY <1>1, <1>2, <1>3, <1>4, <1>5, <1>6 DEF Service

LEMMA StutterTypes == TypesOK /\ UNCHANGED gatewayVars => TypesOK'
  BY DEF TypesOK, GatewayTypeOK, CallType, TypeInvariant, gatewayVars, directoryVars

LEMMA TypesStep == TypesOK /\ [GatewayNext]_gatewayVars => TypesOK'
  BY HandlerTypes, ProcessTypes, ServiceTypes, StutterTypes DEF GatewayNext

-------------------------------------------------------------------------------
(* The shutdown.                                                            *)

LEMMA DrainStep == TypesOK /\ DrainInv /\ [GatewayNext]_gatewayVars => DrainInv'
  <1> SUFFICES ASSUME TypesOK, DrainInv, [GatewayNext]_gatewayVars PROVE DrainInv'
    OBVIOUS
  <1> USE DEF TypesOK, GatewayTypeOK, DrainInv, OnlyForceCutsHttp, Busy, Move
  <1>1. ASSUME NEW k \in Calls, Handler(k) PROVE DrainInv'
    <2>1. CASE Accept(k)
      BY <2>1 DEF Accept
    <2>2. CASE RefuseHttp(k) \/ RefuseMessage(k)
      <3>1. exchange' = [exchange EXCEPT ![k] = exchange'[k]] /\ exchange'[k].stage = "over"
        BY <2>2 DEF RefuseHttp, RefuseMessage
      <3>2. UNCHANGED <<proc, forced>>
        BY <2>2 DEF RefuseHttp, RefuseMessage
      <3>3. \A j \in Calls \ {k} : exchange'[j] = exchange[j]
        BY <3>1
      <3> QED  BY <3>1, <3>2, <3>3, GatewayAssumption
    <2>3. CASE Call(k)
      BY <2>3 DEF Call
    <2>4. CASE Timeout(k)
      BY <2>4 DEF Timeout
    <2>5. CASE Respond(k)
      BY <2>5 DEF Respond
    <2> QED  BY <1>1, <2>1, <2>2, <2>3, <2>4, <2>5 DEF Handler
  <1>2. CASE Signal \/ Drained \/ Deadline
    BY <1>2 DEF Signal, Drained, Deadline
  <1>3. CASE Return
    BY <1>3, GatewayAssumption DEF Return, Cut
  <1>4. CASE Kill
    BY <1>4 DEF Kill, Cut
  <1>5. CASE UNCHANGED <<exchange, proc, forced>>
    BY <1>5
  <1> QED  BY <1>1, <1>2, <1>3, <1>4, <1>5 DEF GatewayNext, Process, Service, Serve, gatewayVars

-------------------------------------------------------------------------------
(* What peers are told.                                                     *)

TruthInv == FateInv /\ CodeInv

LEMMA HandlerTruth ==
    ASSUME TypesOK, TruthInv, NEW k \in Calls, Handler(k)
    PROVE  TruthInv'
  <1> USE DEF TypesOK, GatewayTypeOK, CallType, TypeInvariant, TruthInv, Move
  <1>1. CASE Accept(k) \/ RefuseHttp(k) \/ RefuseMessage(k)
    <2>1. FateInv'
      BY <1>1 DEF Accept, RefuseHttp, RefuseMessage, FateInv, Honest, directoryVars
    <2>2. CodeInv'
      BY <1>1 DEF Accept, RefuseHttp, RefuseMessage, CodeInv, RefusalCodes, Codes, directoryVars
    <2> QED  BY <2>1, <2>2
  <1>2. CASE Call(k)
    <2>1. /\ call[k].st = "new" /\ call'[k].st \in {"waiting", "failed"}
          /\ \A j \in Calls \ {k} : call'[j] = call[j] /\ fate'[j] = fate[j]
          /\ fate'[k] \in {"none", "pending"}
          /\ UNCHANGED <<result, changed>>
      BY <1>2 DEF Call, Request, FateInv
    <2>2. FateInv'
      BY <2>1 DEF FateInv, Honest
    <2>3. CodeInv'
      BY <1>2, <2>1 DEF Call, CodeInv, RefusalCodes
    <2> QED  BY <2>2, <2>3
  <1>3. CASE Timeout(k)
    <2>1. /\ call[k].st = "waiting" /\ call'[k].st = "failed"
          /\ call'[k].req = call[k].req
          /\ \A j \in Calls \ {k} : call'[j] = call[j]
          /\ UNCHANGED <<fate, result, changed, exchange>>
      BY <1>3 DEF Timeout, GiveUp
    <2>2. FateInv'
      BY <2>1 DEF FateInv, Honest
    <2>3. CodeInv'
      BY <2>1 DEF CodeInv, RefusalCodes
    <2> QED  BY <2>2, <2>3
  <1>4. CASE Respond(k)
    <2>1. FateInv'
      BY <1>4 DEF Respond, FateInv, Honest, directoryVars
    <2>2. /\ CodeOf(call[k]) \in RefusalCodes =>
               call[k].st = "answered" /\ call[k].answer.err \in Refusals
          /\ CodeOf(call[k]) = "OK" => call[k].st = "answered" /\ call[k].answer.err = "none"
      BY <1>4 DEF Respond, CodeOf, Code, RefusalCodes, Refusals, Telling
    <2>3. CodeInv'
      BY <1>4, <2>2 DEF Respond, CodeInv, directoryVars
    <2> QED  BY <2>1, <2>3
  <1> QED  BY <1>1, <1>2, <1>3, <1>4 DEF Handler

LEMMA ProcessTruth ==
    ASSUME TypesOK, TruthInv, Process
    PROVE  TruthInv'
  <1> USE DEF TypesOK, GatewayTypeOK, CallType, TypeInvariant, TruthInv
  <1>1. CASE Signal \/ Drained \/ Deadline
    BY <1>1 DEF Signal, Drained, Deadline, directoryVars, FateInv, Honest, CodeInv
  <1>2. CASE Cut
    <2>1. FateInv'
      BY <1>2 DEF Cut, FateInv, Honest
    <2>2. CodeInv'
      BY <1>2 DEF Cut, Busy, CodeInv, RefusalCodes
    <2> QED  BY <2>1, <2>2
  <1> QED  BY <1>1, <1>2 DEF Process, Return, Kill

\* A request that was not performed has changed nothing, and what its query does
\* to the users is what its answer says.
LEMMA ServeTruth ==
    ASSUME TypesOK, TruthInv, NEW k \in Calls, Serve(k)
    PROVE  TruthInv'
  <1> USE DEF TypesOK, GatewayTypeOK, CallType, TypeInvariant, TruthInv
  <1>1. PICK e \in Effects(call[k].req) :
          /\ users' = e.users /\ gone' = e.gone
          /\ result' = [result EXCEPT ![k] = e.answer]
    BY DEF Serve, Perform
  <1>2. Sound(call[k].req, e)
    BY <1>1, EffectsSound
  <1>3. /\ UNCHANGED <<call, exchange>>
        /\ fate[k] = "pending" /\ fate' = [fate EXCEPT ![k] = "performed"]
        /\ changed' = IF <<users, gone>>' = <<users, gone>> THEN changed ELSE changed \cup {k}
    BY DEF Serve, Perform
  <1>4. Honest(k, result[k])'
    BY <1>1, <1>2, <1>3 DEF Honest, Sound, FateInv
  <1>5. \A j \in Calls \ {k} : fate'[j] = fate[j] /\ result'[j] = result[j] /\ (j \in changed' <=> j \in changed)
    BY <1>1, <1>3
  <1>6. FateInv'
    BY <1>3, <1>4, <1>5 DEF FateInv, Honest
  <1>7. CodeInv'
    BY <1>3 DEF CodeInv
  <1> QED  BY <1>6, <1>7

LEMMA ServiceTruth ==
    ASSUME TypesOK, TruthInv, Service
    PROVE  TruthInv'
  <1> USE DEF TypesOK, GatewayTypeOK, CallType, TypeInvariant, TruthInv
  <1>1. ASSUME NEW k \in Calls, Answer(k), UNCHANGED <<exchange, proc, forced, changed>>
        PROVE  TruthInv'
    <2>1. /\ \A j \in Calls \ {k} :
               call'[j] = call[j] /\ fate'[j] = fate[j] /\ result'[j] = result[j]
          /\ fate[k] = "performed" /\ fate'[k] = "none"
          /\ call'[k].req = call[k].req
          /\ \/ call[k].st = "waiting" /\ call'[k].st = "answered" /\ call'[k].answer = result[k]
             \/ call'[k] = call[k]
      BY <1>1 DEF Answer
    <2>2. FateInv'
      BY <1>1, <2>1 DEF FateInv, Honest
    <2>3. CodeInv'
      BY <1>1, <2>1 DEF CodeInv, RefusalCodes
    <2> QED  BY <2>2, <2>3
  <1>2. CASE UNCHANGED <<call, fate, result, exchange, changed>>
    BY <1>2 DEF FateInv, Honest, CodeInv
  <1>3. ASSUME NEW K \in SUBSET Calls, Drop(K), UNCHANGED <<exchange, proc, forced, changed>>
        PROVE  TruthInv'
    BY <1>3 DEF Drop, FateInv, Honest, CodeInv
  <1>4. ASSUME Die, UNCHANGED <<exchange, proc, forced, changed>> PROVE TruthInv'
    BY <1>4 DEF Die, FateInv, Honest, CodeInv
  <1> QED  BY <1>1, <1>2, <1>3, <1>4, ServeTruth DEF Service, Publish, Withhold

LEMMA TruthStep == TypesOK /\ TruthInv /\ [GatewayNext]_gatewayVars => TruthInv'
  <1>1. TruthInv /\ UNCHANGED gatewayVars => TruthInv'
    BY DEF TruthInv, FateInv, Honest, CodeInv, gatewayVars, directoryVars
  <1> QED  BY <1>1, HandlerTruth, ProcessTruth, ServiceTruth DEF GatewayNext

-------------------------------------------------------------------------------
GatewayInv == TypesOK /\ DrainInv /\ TruthInv

LEMMA Inductive == GatewaySpec => []GatewayInv
  <1>1. GatewayInit => GatewayInv
    <2> SUFFICES ASSUME GatewayInit PROVE GatewayInv
      OBVIOUS
    <2>1. TypesOK
      BY InitTypes
    <2>2. DrainInv /\ TruthInv
      BY GatewayAssumption DEF GatewayInit, DirectoryInit, DrainInv, OnlyForceCutsHttp, TruthInv,
         FateInv, CodeInv, RefusalCodes
    <2> QED  BY <2>1, <2>2 DEF GatewayInv
  <1>2. GatewayInv /\ [GatewayNext]_gatewayVars => GatewayInv'
    BY TypesStep, DrainStep, TruthStep DEF GatewayInv
  <1> QED  BY <1>1, <1>2, PTL DEF GatewaySpec

\* Every variable of the gateway and of the directory behind it keeps its type.
THEOREM TypeCorrect == GatewaySpec => []GatewayTypeOK
  <1>1. GatewayInv => GatewayTypeOK
    BY DEF GatewayInv, TypesOK
  <1> QED  BY <1>1, Inductive, PTL

\* A peer that is told of its own mistake may rely on it, whatever fails: the
\* request has changed nothing, and will not.
THEOREM RefusalsAreFinal == GatewaySpec => []RefusedChangedNothing
  <1>1. GatewayInv => RefusedChangedNothing
    BY DEF GatewayInv, TruthInv, FateInv, CodeInv, Honest, RefusalCodes, RefusedChangedNothing
  <1> QED  BY <1>1, Inductive, PTL

\* A peer that is told of a success has had its way, but for the update that
\* failed and was answered with the zero user.
THEOREM SuccessesAreCommitted == GatewaySpec => []SuccessIsCommitted
  <1>1. GatewayInv => SuccessIsCommitted
    BY DEF GatewayInv, TruthInv, FateInv, CodeInv, Honest, SuccessIsCommitted
  <1> QED  BY <1>1, Inductive, PTL

\* An orderly shutdown that meets its deadline cuts off no HTTP request.
THEOREM ShutdownWaitsForHttp == GatewaySpec => []OnlyForceCutsHttp
  <1>1. GatewayInv => OnlyForceCutsHttp
    BY DEF GatewayInv, DrainInv
  <1> QED  BY <1>1, Inductive, PTL

===============================================================================
