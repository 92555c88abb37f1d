----------------------------- MODULE UserDirectory -----------------------------
(***************************************************************************)
(* What the user service promises its callers, without its goroutines,     *)
(* queues, subscriptions and life cycle: a directory of users on which     *)
(* every call is performed at most once, at one instant between its        *)
(* request and its answer, and which owes an event for what it changed.    *)
(*                                                                         *)
(* UserServiceRefinement shows that UserService implements it; Gateway     *)
(* uses it as the service behind the gateway.                              *)
(***************************************************************************)
EXTENDS UserEvents

CONSTANT Calls      \* the requests that can be made

VARIABLES
    users,      \* the live users
    gone,       \* the ids of deleted users
    call,       \* call -> what its caller knows: stage, request, answer
    fate,       \* call -> where the service is with it: "none" before and after
    result,     \* call -> the answer of a call that was performed
    owed,       \* call -> the events it still calls for
    events      \* the events published

directoryVars == <<users, gone, call, fate, result, owed, events>>

Operations == {"create", "getByID", "getByEmail", "list", "listAll", "update", "delete"}
Inquiry == [op : Operations, id : Ids \cup {NilId}, email : Emails \cup {NoEmail},
            valid : BOOLEAN]
NoInquiry == [op |-> "list", id |-> NilId, email |-> NoEmail, valid |-> FALSE]
Tell(err, told) == [err |-> err, users |-> told]
Nothing == Tell("none", {})

TypeInvariant ==
    /\ users \in SUBSET User /\ \A u \in users : u.id \in Ids
    /\ gone \in SUBSET Ids
    /\ fate \in [Calls -> {"none", "pending", "performed"}]
    /\ owed \in [Calls -> SUBSET Event]
    /\ events \in Seq(Event)

DirectoryInit ==
    /\ users \in SUBSET [id : Ids, email : Emails, rev : {1}]
    /\ \A u, v \in users : u.id = v.id \/ u.email = v.email => u = v
    /\ gone = {}
    /\ call = [k \in Calls |-> [st |-> "new", req |-> NoInquiry, answer |-> Nothing]]
    /\ fate = [k \in Calls |-> "none"]
    /\ result = [k \in Calls |-> Nothing]
    /\ owed = [k \in Calls |-> {}]
    /\ events = <<>>

-------------------------------------------------------------------------------
(* What performing a request may do: the users and the ids gone afterwards, *)
(* the answer, the events owed.                                             *)

Effect(live, dead, answer, events_) ==
    [users |-> live, gone |-> dead, answer |-> answer, owed |-> events_]
Untouched(answer) == Effect(users, gone, answer, {})
Refused(err) == Untouched(Tell(err, {}))
Taken(email, id) == \E u \in users : u.email = email /\ u.id # id

Creating(req) ==
    IF Taken(req.email, NilId) THEN {Refused("alreadyExists")}
    ELSE {Effect(users \cup {u}, gone, Tell("none", {u}), {UserEvent("created", u)}) :
            u \in [id : Ids \ (gone \cup {v.id : v \in users}), email : {req.email}, rev : {1}]}

Finding(found) ==
    IF found = {} THEN {Refused("notFound")} ELSE {Untouched(Tell("none", {u})) : u \in found}

Updating(req) ==
    LET old == {u \in users : u.id = req.id}
    IN  IF old = {} THEN {Refused("notFound")}
        ELSE IF Taken(req.email, req.id) THEN {Refused("alreadyExists")}
        ELSE {Effect((users \ old) \cup {u}, gone, Tell("none", {u}), {UserEvent("updated", u)}) :
                u \in {[id |-> req.id, email |-> req.email, rev |-> v.rev + 1] : v \in old}}

Deleting(req) ==
    LET old == {u \in users : u.id = req.id}
    IN  IF old = {} THEN {Refused("notFound")}
        ELSE {Effect(users \ old, gone \cup {req.id}, Nothing, {DeletedEvent(req.id)})}

Promised(req) ==
    CASE req.op = "create"     -> Creating(req)
      [] req.op = "getByID"    -> Finding({u \in users : u.id = req.id})
      [] req.op = "getByEmail" -> Finding({u \in users : u.email = req.email})
      [] req.op = "list"       -> {Untouched(Tell("none", page)) : page \in SUBSET users}
      [] req.op = "listAll"    -> {Untouched(Tell("none", users))}
      [] req.op = "update"     -> Updating(req)
      [] req.op = "delete"     -> Deleting(req)

\* A query may fail, before it did anything or after it committed.  The caller is
\* told of an internal error and no event is owed; but getByID and update take
\* the failure for a success that returned the zero user.
Failed(req) ==
    LET told(e) ==
          CASE req.op = "getByID" -> [e EXCEPT !.answer = Tell("none", {ZeroUser}), !.owed = {}]
            [] req.op = "update"  -> [e EXCEPT !.answer = Tell("none", {ZeroUser}),
                                               !.owed = {UserEvent("updated", ZeroUser)}]
            [] OTHER -> [e EXCEPT !.answer = Tell("internal", {}), !.owed = {}]
    IN  {told(e) : e \in Promised(req) \cup {Untouched(Nothing)}}

Effects(req) ==
    IF req.valid THEN Promised(req) \cup Failed(req) ELSE {Refused("validation")}

-------------------------------------------------------------------------------
\* One of these requests is on its way, or finds nobody that would serve it.
Request(k, inquiries) ==
    /\ call[k].st = "new"
    /\ \E req \in inquiries :
         \/ /\ call' = [call EXCEPT ![k].st = "waiting", ![k].req = req]
            /\ fate' = [fate EXCEPT ![k] = "pending"]
         \/ /\ call' = [call EXCEPT ![k].st = "failed", ![k].req = req]
            /\ UNCHANGED fate
    /\ UNCHANGED <<users, gone, result, owed, events>>

Perform(k) ==
    /\ fate[k] = "pending"
    /\ fate' = [fate EXCEPT ![k] = "performed"]
    /\ \E e \in Effects(call[k].req) :
         /\ users' = e.users /\ gone' = e.gone
         /\ result' = [result EXCEPT ![k] = e.answer]
         /\ owed' = [owed EXCEPT ![k] = e.owed]
    /\ UNCHANGED <<call, events>>

\* The answer leaves the service; it reaches a caller that still waits, or not.
Answer(k) ==
    /\ fate[k] = "performed"
    /\ fate' = [fate EXCEPT ![k] = "none"]
    /\ result' = [result EXCEPT ![k] = Nothing]
    /\ \/ /\ call[k].st = "waiting"
          /\ call' = [call EXCEPT ![k].st = "answered", ![k].answer = result[k]]
       \/ UNCHANGED call
    /\ UNCHANGED <<users, gone, owed, events>>

\* Callers stop waiting; their requests stay where they are.
GiveUp(K) ==
    /\ K # {} /\ \A k \in K : call[k].st = "waiting"
    /\ call' = [k \in Calls |-> IF k \in K THEN [call[k] EXCEPT !.st = "failed"] ELSE call[k]]
    /\ UNCHANGED <<users, gone, fate, result, owed, events>>

\* The event of a call is published once its answer was sent.
Publish(k) ==
    /\ fate[k] = "none"
    /\ \E e \in owed[k] :
         /\ events' = Append(events, e)
         /\ owed' = [owed EXCEPT ![k] = @ \ {e}]
    /\ UNCHANGED <<users, gone, call, fate, result>>

\* The event of a call is not published: the connection is closing.
Withhold(k) ==
    /\ fate[k] = "none" /\ owed[k] # {}
    /\ owed' = [owed EXCEPT ![k] = {}]
    /\ UNCHANGED <<users, gone, call, fate, result, events>>

\* The end of a subscription drops requests that were not performed.
Drop(K) ==
    /\ K # {} /\ \A k \in K : fate[k] = "pending"
    /\ fate' = [k \in Calls |-> IF k \in K THEN "none" ELSE fate[k]]
    /\ UNCHANGED <<users, gone, call, result, owed, events>>

\* The end of the process leaves the users, and the events that left it.
Die ==
    /\ fate' = [k \in Calls |-> "none"]
    /\ result' = [k \in Calls |-> Nothing]
    /\ owed' = [k \in Calls |-> {}]
    /\ \E n \in 0 .. Len(events) : events' = SubSeq(events, 1, n)
    /\ UNCHANGED <<users, gone, call>>

DirectoryNext ==
    \/ \E k \in Calls :
         Request(k, Inquiry) \/ Perform(k) \/ Answer(k) \/ Publish(k) \/ Withhold(k)
    \/ \E K \in SUBSET Calls : GiveUp(K) \/ Drop(K)
    \/ Die

DirectorySpec == DirectoryInit /\ [][DirectoryNext]_directoryVars

===============================================================================
