-------------------------------- MODULE Gateway --------------------------------
(***************************************************************************)
(* The gateway without its cache and its pushes: HTTP requests and         *)
(* WebSocket messages that each become one call to the user service, here  *)
(* its UserDirectory, and the shutdown of the process under them.          *)
(*                                                                         *)
(* An exchange is one request and its response; it has the name of its     *)
(* call.  What the gateway tells a peer depends on an answer that may come *)
(* late or never, while the service goes on with the request.              *)
(***************************************************************************)
EXTENDS UserDirectory

CONSTANTS
    Http,       \* the exchanges over HTTP; the others use a WebSocket
    Offered     \* the operations the peers ask for

ASSUME GatewayAssumption ==
    /\ Http \subseteq Calls
    /\ Offered \subseteq Operations \ {"listAll"}   \* which is the client's own

VARIABLES
    exchange,   \* exchange -> its stage and the code of its response
    proc,       \* of the gateway process
    forced,     \* history: it was killed, or its shutdown hit the deadline
    changed     \* history: the calls that changed the users

gatewayVars == <<directoryVars, exchange, proc, forced, changed>>

WebSocket == Calls \ Http
Codes == {"none", "OK", "BAD_REQUEST", "UNKNOWN_ACTION", "VALIDATION_ERROR",
          "NOT_FOUND", "ALREADY_EXISTS", "INTERNAL_ERROR"}
Mutations == {"create", "update", "delete"}

GatewayInit ==
    /\ DirectoryInit
    /\ exchange = [k \in Calls |-> [stage |-> "new", code |-> "none"]]
    /\ proc = "serving"
    /\ forced = FALSE
    /\ changed = {}

\* What the gateway's operations ask for.
Asked(valid) ==
    {r \in Inquiry :
       /\ r.valid = valid
       /\ r.op \in Offered
       /\ (r.id # NilId) => r.op \in {"getByID", "update", "delete"}
       /\ (r.email # NoEmail) <=> (valid /\ r.op \in {"create", "getByEmail", "update"})}

Move(k, stage, code) == exchange' = [exchange EXCEPT ![k] = [stage |-> stage, code |-> code]]

-------------------------------------------------------------------------------
(* The handlers.                                                            *)

\* A slip: the server goes on accepting when Shutdown has returned.
AcceptAnytime(k) ==
    /\ exchange[k].stage = "new"
    /\ proc # "exited"
    /\ Move(k, "reading", "none")
    /\ UNCHANGED <<directoryVars, proc, forced, changed>>

\* An HTTP request, also on a connection that was accepted before the signal and
\* is still without one; or a message on a WebSocket that was opened before: these
\* are no longer the server's, and Shutdown does not reach them.
Accept(k) ==
    /\ exchange[k].stage = "new"
    /\ proc \in {"serving", "draining"} \cup (IF k \in Http THEN {} ELSE {"closing"})
    /\ Move(k, "reading", "none")
    /\ UNCHANGED <<directoryVars, proc, forced, changed>>

\* The handler does not pass the request on.  HTTP decodes the body, if it ever
\* comes, and checks every field.
RefuseHttp(k) ==
    /\ k \in Http
    /\ exchange[k].stage = "reading"
    /\ \E code \in {"BAD_REQUEST", "VALIDATION_ERROR"} : Move(k, "over", code)
    /\ UNCHANGED <<directoryVars, proc, forced, changed>>

\* A WebSocket handler only looks whether the action is known, the payload decodes
\* and names a user; a message that is not JSON breaks the connection.
RefuseMessage(k) ==
    /\ k \in WebSocket
    /\ exchange[k].stage = "reading"
    /\ \E code \in {"BAD_REQUEST", "UNKNOWN_ACTION", "none"} : Move(k, "over", code)
    /\ UNCHANGED <<directoryVars, proc, forced, changed>>

\* A slip: the handler keeps reading while its request is out.
CallAndReadOn(k) ==
    /\ exchange[k].stage = "reading"
    /\ Request(k, Asked(TRUE) \cup (IF k \in Http THEN {} ELSE Asked(FALSE)))
    /\ UNCHANGED <<exchange, proc, forced, changed>>

\* Client.request: only a WebSocket handler passes fields on that are invalid.
Call(k) ==
    /\ exchange[k].stage = "reading"
    /\ Request(k, Asked(TRUE) \cup (IF k \in Http THEN {} ELSE Asked(FALSE)))
    /\ Move(k, "asking", "none")
    /\ UNCHANGED <<proc, forced, changed>>

\* A slip: only the peer ends the wait, by hanging up.
TimeoutByPeer(k) ==
    /\ k \in Http
    /\ exchange[k].stage = "asking"
    /\ GiveUp({k})
    /\ UNCHANGED <<exchange, proc, forced, changed>>

\* The client's timeout; over HTTP also the peer, who cancels the request's
\* context by hanging up.
Timeout(k) ==
    /\ exchange[k].stage = "asking"
    /\ GiveUp({k})
    /\ UNCHANGED <<exchange, proc, forced, changed>>

Code == [none |-> "OK", notFound |-> "NOT_FOUND", alreadyExists |-> "ALREADY_EXISTS",
         validation |-> "VALIDATION_ERROR", internal |-> "INTERNAL_ERROR"]

\* Slips: an RPC that failed is taken for a missing user; for a success.
MissingOf(view) == IF view.st = "failed" THEN "NOT_FOUND" ELSE Code[view.answer.err]
LenientOf(view) == Code[view.answer.err]

\* mapRPCError, then mapClientError or mapServiceError: the error of a request
\* without an answer is none of those their switches know.
CodeOf(view) == IF view.st = "failed" THEN "INTERNAL_ERROR" ELSE Code[view.answer.err]

Respond(k) ==
    /\ exchange[k].stage = "asking"
    /\ call[k].st \in {"answered", "failed"}
    /\ Move(k, "over", CodeOf(call[k]))
    /\ UNCHANGED <<directoryVars, proc, forced, changed>>

-------------------------------------------------------------------------------
(* The process: main.                                                       *)

Signal ==
    /\ proc = "serving"
    /\ proc' = "draining"
    /\ UNCHANGED <<directoryVars, exchange, forced, changed>>

Busy(k) == exchange[k].stage \in {"reading", "asking"}

\* Shutdown returns when the HTTP requests are answered, and nobody waits for
\* the WebSockets; or after 30 s.
Drained ==
    /\ proc = "draining"
    /\ \A k \in Http : ~Busy(k)
    /\ proc' = "closing"
    /\ UNCHANGED <<directoryVars, exchange, forced, changed>>

\* A slip: Shutdown with a context that never expires.
NoDeadline ==
    /\ proc = "draining"
    /\ \A k \in Http : exchange[k].stage # "reading"
    /\ proc' = "closing"
    /\ forced' = TRUE
    /\ UNCHANGED <<directoryVars, exchange, changed>>

Deadline ==
    /\ proc = "draining"
    /\ proc' = "closing"
    /\ forced' = TRUE
    /\ UNCHANGED <<directoryVars, exchange, changed>>

\* The process ends, and every exchange it was busy with.
Cut ==
    /\ proc' = "exited"
    /\ exchange' = [k \in Calls |-> IF Busy(k) THEN [exchange[k] EXCEPT !.stage = "cut"]
                                    ELSE exchange[k]]
    /\ call' = [k \in Calls |-> IF call[k].st = "waiting" THEN [call[k] EXCEPT !.st = "failed"]
                                ELSE call[k]]
    /\ UNCHANGED <<users, gone, fate, result, owed, events, changed>>

\* client.Close has started to drain the connection, and main returns.
Return == proc = "closing" /\ Cut /\ UNCHANGED forced

Kill == proc # "exited" /\ Cut /\ forced' = TRUE

-------------------------------------------------------------------------------
(* The user service, which may fail and restart at any time.                *)

Serve(k) ==
    /\ Perform(k)
    /\ changed' = IF <<users, gone>>' = <<users, gone>> THEN changed ELSE changed \cup {k}
    /\ UNCHANGED <<exchange, proc, forced>>

Service ==
    \/ \E k \in Calls : Serve(k)
    \/ /\ \/ \E k \in Calls : Answer(k) \/ Publish(k) \/ Withhold(k)
          \/ \E K \in SUBSET Calls : Drop(K)
          \/ Die
       /\ UNCHANGED <<exchange, proc, forced, changed>>

Handler(k) ==
    Accept(k) \/ RefuseHttp(k) \/ RefuseMessage(k) \/ Call(k) \/ Timeout(k) \/ Respond(k)
Process == Signal \/ Drained \/ Deadline \/ Return \/ Kill

GatewayNext == (\E k \in Calls : Handler(k)) \/ Process \/ Service

\* A handler's goroutine is scheduled, its request times out, Shutdown and main
\* return.  Nothing is assumed of the peers, nor of the service.
GatewayFairness ==
    /\ \A k \in Calls : WF_gatewayVars(Timeout(k)) /\ WF_gatewayVars(Respond(k))
    /\ WF_gatewayVars(Drained \/ Deadline) /\ WF_gatewayVars(Return)

GatewaySpec == GatewayInit /\ [][GatewayNext]_gatewayVars /\ GatewayFairness

-------------------------------------------------------------------------------
\* Every variable stays in its type, and a call is only made for an exchange.
GatewayTypeOK ==
    /\ TypeInvariant
    /\ exchange \in [Calls -> [stage : {"new", "reading", "asking", "over", "cut"}, code : Codes]]
    /\ proc \in {"serving", "draining", "closing", "exited"}
    /\ forced \in BOOLEAN
    /\ changed \subseteq Calls
    /\ \A k \in Calls : exchange[k].stage \in {"new", "reading"} => call[k].st = "new"

\* A peer that is told of its own mistake (4xx) may rely on it: its request has
\* changed nothing, and is not still waiting at the service to do so.
RefusedChangedNothing ==
    \A k \in Calls :
      exchange[k].code \in Codes \ {"none", "OK", "INTERNAL_ERROR"} =>
        k \notin changed /\ fate[k] = "none"

\* A peer that is told of a success has had its way, at the database, whatever
\* the service and the gateway went through since; but an update may have failed
\* and answer with the zero user.
SuccessIsCommitted ==
    \A k \in Calls :
      exchange[k].code = "OK" /\ call[k].req.op \in Mutations =>
        k \in changed \/ (call[k].req.op = "update" /\ call[k].answer.users = {ZeroUser})

\* A shutdown that is neither killed nor late cuts off no HTTP request, though
\* requests and the signal race; it does cut off WebSockets.
OnlyForceCutsHttp ==
    \A k \in Http : exchange[k].stage = "cut" => forced

\* Every request the gateway passed on ends in a response, whatever the service
\* does and also while the gateway drains; unless the process ends first.
EveryCallIsAnswered ==
    \A k \in Calls : exchange[k].stage = "asking" ~> exchange[k].stage \in {"over", "cut"}

\* A signal stops the gateway, although a peer may never finish its request and
\* the service may never answer.
SignalStopsIt == proc = "draining" ~> proc = "exited"

===============================================================================
