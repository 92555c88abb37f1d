--------------------------------- MODULE WsHub ---------------------------------
(***************************************************************************)
(* The WebSocket side of the gateway: the hub goroutine, and for every     *)
(* connection a readPump, a writePump and the channel send between them.   *)
(* A subscribe request opens a feed of user events, which broadcasts them  *)
(* to every subscribed client through the hub.                             *)
(*                                                                         *)
(* Events are numbered by their arrival at the gateway; TypeOf gives their *)
(* types.  The messages in a send channel are replies (one value, since    *)
(* nothing depends on which) and pushes, the numbers of the events.        *)
(***************************************************************************)
EXTENDS Naturals, Sequences, FiniteSets

CONSTANTS
    Clients,        \* connections that can be made
    NoClient,       \* the hub has no client in hand
    Events,         \* how many events arrive
    TypeOf,         \* the type of each
    SendCap,        \* SendBufferSize, the capacity of send
    BroadcastCap,   \* capacity of the hub's broadcast channel
    FeedCap,        \* capacity of the event channel of a feed
    MaxRequests     \* requests of one connection

ASSUME HubAssumption ==
    /\ NoClient \notin Clients
    /\ Events \in Nat
    /\ DOMAIN TypeOf = 1 .. Events
    /\ SendCap \in Nat /\ BroadcastCap \in Nat /\ FeedCap \in Nat /\ MaxRequests \in Nat

VARIABLES
    clients,    \* Hub.clients
    send,       \* client -> its channel
    closed,     \* the clients whose channel is closed
    subscribed, \* the clients whose subscription flags are set
    broadcast,  \* Hub.broadcast
    hub,        \* where Hub.Run is
    reader,     \* client -> where its readPump is
    writer,     \* client -> its writePump
    open,       \* the clients whose connection is open
    requests,   \* client -> requests read so far
    feeds,      \* the event channels of the feeds, one per subscribe request
    seen,       \* events arrived so far
    pushes,     \* history: client -> the events pushed into send
    quiet,      \* history: clients told that they are unsubscribed
    late        \* history: client -> pushes since it was told so

connVars == <<reader, writer, open, requests>>
hubVars == <<clients, hub, broadcast>>
feedVars == <<feeds, seen>>
history == <<pushes, quiet, late>>
vars == <<hubVars, send, closed, subscribed, connVars, feedVars, history>>

Numbers == 1 .. Events
Reply == 0
Select == [pc |-> "select", event |-> 0, todo |-> {}, target |-> NoClient]

Init ==
    /\ clients = {} /\ closed = {} /\ subscribed = {} /\ open = {} /\ quiet = {}
    /\ send = [c \in Clients |-> <<>>]
    /\ broadcast = <<>>
    /\ hub = Select
    /\ reader = [c \in Clients |-> "none"]
    /\ writer = [c \in Clients |-> "none"]
    /\ requests = [c \in Clients |-> 0]
    /\ feeds = <<>>
    /\ seen = 0
    /\ pushes = [c \in Clients |-> <<>>]
    /\ late = [c \in Clients |-> 0]

-------------------------------------------------------------------------------
(* Hub.Run: one goroutine, which waits in select with hub.pc = "select".    *)

\* The rendezvous on register: ServeHTTP goes on, and starts the pumps.
Register(c) ==
    /\ hub.pc = "select"
    /\ reader[c] = "register"
    /\ clients' = clients \cup {c}
    /\ reader' = [reader EXCEPT ![c] = "read"]
    /\ writer' = [writer EXCEPT ![c] = "run"]
    /\ UNCHANGED <<hub, broadcast, send, closed, subscribed, open, requests, feedVars, history>>

\* close(c.send): closing it twice, like sending into it then, is a panic that
\* nothing in the hub goroutine recovers, and ends the process.
CloseSend(c, next) ==
    /\ closed' = closed \cup {c}
    /\ hub' = IF c \in closed THEN [hub EXCEPT !.pc = "panicked"] ELSE next

\* Slips: unregister under a lock of its own, beside the hub goroutine; or
\* without closing the channel.
UnregisterAnytime(c) ==
    /\ reader[c] = "unregister"
    /\ clients' = clients \ {c}
    /\ IF c \in clients THEN CloseSend(c, hub) ELSE UNCHANGED <<closed, hub>>
    /\ reader' = [reader EXCEPT ![c] = "done"]
    /\ open' = open \ {c}
    /\ UNCHANGED <<broadcast, send, subscribed, writer, requests, feedVars, history>>

UnregisterUnclosed(c) ==
    /\ hub.pc = "select"
    /\ reader[c] = "unregister"
    /\ clients' = clients \ {c}
    /\ reader' = [reader EXCEPT ![c] = "done"]
    /\ open' = open \ {c}
    /\ UNCHANGED <<hub, broadcast, send, closed, subscribed, writer, requests, feedVars, history>>

\* The rendezvous on unregister: the deferred call of readPump ends, and closes
\* the connection.
Unregister(c) ==
    /\ hub.pc = "select"
    /\ reader[c] = "unregister"
    /\ clients' = clients \ {c}
    /\ IF c \in clients THEN CloseSend(c, hub) ELSE UNCHANGED <<closed, hub>>
    /\ reader' = [reader EXCEPT ![c] = "done"]
    /\ open' = open \ {c}
    /\ UNCHANGED <<broadcast, send, subscribed, writer, requests, feedVars, history>>

FanOut ==
    /\ hub.pc = "select"
    /\ broadcast # <<>>
    /\ broadcast' = Tail(broadcast)
    /\ hub' = [pc |-> "fanout", event |-> Head(broadcast), todo |-> clients, target |-> NoClient]
    /\ UNCHANGED <<clients, send, closed, subscribed, connVars, feedVars, history>>

\* range h.clients, in any order: isSubscribed, under the client's own lock.
Visit(c) ==
    /\ hub.pc = "fanout" /\ hub.target = NoClient
    /\ c \in hub.todo
    /\ hub' = [hub EXCEPT !.todo = @ \ {c},
                          !.target = IF c \in subscribed THEN c ELSE NoClient]
    /\ UNCHANGED <<clients, broadcast, send, closed, subscribed, connVars, feedVars, history>>

\* Slips: a slow client is closed but stays in the map; or is waited for.
PushKeepsSlow(c) ==
    /\ hub.pc = "fanout" /\ hub.target = c
    /\ IF c \in closed
         THEN /\ hub' = [hub EXCEPT !.pc = "panicked"]
              /\ UNCHANGED <<send, closed>>
       ELSE IF Len(send[c]) < SendCap
         THEN /\ send' = [send EXCEPT ![c] = Append(@, hub.event)]
              /\ hub' = [hub EXCEPT !.target = NoClient]
              /\ UNCHANGED closed
         ELSE /\ CloseSend(c, [hub EXCEPT !.target = NoClient])
              /\ UNCHANGED send
    /\ UNCHANGED <<clients, broadcast, subscribed, connVars, feedVars, history>>

PushWaits(c) ==
    /\ hub.pc = "fanout" /\ hub.target = c
    /\ Len(send[c]) < SendCap
    /\ send' = [send EXCEPT ![c] = Append(@, hub.event)]
    /\ hub' = [hub EXCEPT !.target = NoClient]
    /\ UNCHANGED <<clients, broadcast, closed, subscribed, connVars, feedVars, history>>

\* The send that does not block; a client with a full channel is dropped.
Push(c) ==
    /\ hub.pc = "fanout" /\ hub.target = c
    /\ IF c \in closed
         THEN /\ hub' = [hub EXCEPT !.pc = "panicked"]
              /\ UNCHANGED <<clients, send, closed, history>>
       ELSE IF Len(send[c]) < SendCap
         THEN /\ send' = [send EXCEPT ![c] = Append(@, hub.event)]
              /\ pushes' = [pushes EXCEPT ![c] = Append(@, hub.event)]
              /\ late' = [late EXCEPT ![c] = IF c \in quiet THEN @ + 1 ELSE @]
              /\ hub' = [hub EXCEPT !.target = NoClient]
              /\ UNCHANGED <<clients, closed, quiet>>
         ELSE /\ clients' = clients \ {c}
              /\ CloseSend(c, [hub EXCEPT !.target = NoClient])
              /\ UNCHANGED <<send, history>>
    /\ UNCHANGED <<broadcast, subscribed, connVars, feedVars>>

EndFanOut ==
    /\ hub.pc = "fanout" /\ hub.target = NoClient /\ hub.todo = {}
    /\ hub' = Select
    /\ UNCHANGED <<clients, broadcast, send, closed, subscribed, connVars, feedVars, history>>

-------------------------------------------------------------------------------
(* A connection: ServeHTTP, readPump with the handlers it calls, writePump. *)

Connect(c) ==
    /\ reader[c] = "none"
    /\ reader' = [reader EXCEPT ![c] = "register"]
    /\ open' = open \cup {c}
    /\ UNCHANGED <<hubVars, send, closed, subscribed, writer, requests, feedVars, history>>

\* The peer goes away, or no pong comes before the read deadline.
Break(c) ==
    /\ c \in open
    /\ open' = open \ {c}
    /\ UNCHANGED <<hubVars, send, closed, subscribed, reader, writer, requests, feedVars, history>>

\* Any request but subscribe and unsubscribe only asks for a reply; a list
\* request with a negative offset panics in the cache, so that net/http recovers
\* after the deferred call of readPump.
Read(c) ==
    /\ reader[c] = "read" /\ c \in open
    /\ requests[c] < MaxRequests
    /\ requests' = [requests EXCEPT ![c] = @ + 1]
    /\ \E r \in {"subscribe", "unsubscribe", "reply", "unregister"} :
         reader' = [reader EXCEPT ![c] = r]
    /\ UNCHANGED <<hubVars, send, closed, subscribed, writer, open, feedVars, history>>

\* A slip: readPump ends without its deferred unregister.
ReadFailsSilently(c) ==
    /\ reader[c] = "read" /\ c \notin open
    /\ reader' = [reader EXCEPT ![c] = "done"]
    /\ UNCHANGED <<hubVars, send, closed, subscribed, writer, open, requests, feedVars, history>>

ReadFails(c) ==
    /\ reader[c] = "read" /\ c \notin open
    /\ reader' = [reader EXCEPT ![c] = "unregister"]
    /\ UNCHANGED <<hubVars, send, closed, subscribed, writer, open, requests, feedVars, history>>

\* The flags are set first; then a new feed is opened, whether or not the client
\* has one, and its handle is thrown away; or userclient.Subscribe fails, and
\* the flags stay.
HandleSubscribe(c) ==
    /\ reader[c] = "subscribe"
    /\ subscribed' = subscribed \cup {c}
    /\ \/ feeds' = Append(feeds, <<>>)
       \/ UNCHANGED feeds
    /\ quiet' = quiet \ {c}
    /\ late' = [late EXCEPT ![c] = 0]
    /\ reader' = [reader EXCEPT ![c] = "reply"]
    /\ UNCHANGED <<hubVars, send, closed, writer, open, requests, seen, pushes>>

\* A slip: the reply is sent, but the flags stay.
UnsubscribeForgotten(c) ==
    /\ reader[c] = "unsubscribe"
    /\ reader' = [reader EXCEPT ![c] = "ack"]
    /\ UNCHANGED <<hubVars, send, closed, subscribed, writer, open, requests, feedVars, history>>

\* Only the flags are cleared: the feed goes on.
HandleUnsubscribe(c) ==
    /\ reader[c] = "unsubscribe"
    /\ subscribed' = subscribed \ {c}
    /\ reader' = [reader EXCEPT ![c] = "ack"]
    /\ UNCHANGED <<hubVars, send, closed, writer, open, requests, feedVars, history>>

\* A slip: a reply is put into the channel whether or not it has room.
RespondAtOnce(c) ==
    /\ reader[c] \in {"reply", "ack"}
    /\ c \notin closed
    /\ send' = [send EXCEPT ![c] = Append(@, Reply)]
    /\ quiet' = IF reader[c] = "ack" THEN quiet \cup {c} ELSE quiet
    /\ reader' = [reader EXCEPT ![c] = "read"]
    /\ UNCHANGED <<hubVars, closed, subscribed, writer, open, requests, feedVars, pushes, late>>

\* A slip: the panic of the send is recovered around the send, which is tried again.
RespondRetries(c) ==
    /\ reader[c] \in {"reply", "ack"}
    /\ c \notin closed
    /\ Len(send[c]) < SendCap
    /\ send' = [send EXCEPT ![c] = Append(@, Reply)]
    /\ quiet' = IF reader[c] = "ack" THEN quiet \cup {c} ELSE quiet
    /\ reader' = [reader EXCEPT ![c] = "read"]
    /\ UNCHANGED <<hubVars, closed, subscribed, writer, open, requests, feedVars, pushes, late>>

\* c.send <- ..., which blocks while the channel is full, and panics once the hub
\* has closed it; net/http recovers, and the deferred call of readPump runs.
Respond(c) ==
    /\ reader[c] \in {"reply", "ack"}
    /\ \/ /\ c \in closed
          /\ reader' = [reader EXCEPT ![c] = "unregister"]
          /\ UNCHANGED <<send, quiet>>
       \/ /\ c \notin closed
          /\ Len(send[c]) < SendCap
          /\ send' = [send EXCEPT ![c] = Append(@, Reply)]
          /\ quiet' = IF reader[c] = "ack" THEN quiet \cup {c} ELSE quiet
          /\ reader' = [reader EXCEPT ![c] = "read"]
    /\ UNCHANGED <<hubVars, closed, subscribed, writer, open, requests, feedVars, pushes, late>>

\* writePump takes the next message; what was sent before close(c.send) still
\* goes out.
Take(c) ==
    /\ writer[c] = "run"
    /\ send[c] # <<>>
    /\ send' = [send EXCEPT ![c] = Tail(@)]
    /\ writer' = [writer EXCEPT ![c] = "write"]
    /\ UNCHANGED <<hubVars, closed, subscribed, reader, open, requests, feedVars, history>>

Written(c) ==
    /\ writer[c] = "write" /\ c \in open
    /\ writer' = [writer EXCEPT ![c] = "run"]
    /\ UNCHANGED <<hubVars, send, closed, subscribed, reader, open, requests, feedVars, history>>

\* The write fails, after WriteWait when the peer reads nothing, or the ping of
\* an idle writer does: the connection is closed, the channel is left as it is.
WriteFails(c) ==
    /\ writer[c] = "write" \/ (writer[c] = "run" /\ c \notin open)
    /\ writer' = [writer EXCEPT ![c] = "stopped"]
    /\ open' = open \ {c}
    /\ UNCHANGED <<hubVars, send, closed, subscribed, reader, requests, feedVars, history>>

\* The channel is closed and drained: a close frame, and the connection closes.
WriteClose(c) ==
    /\ writer[c] = "run" /\ c \in closed
    /\ send[c] = <<>>
    /\ writer' = [writer EXCEPT ![c] = "stopped"]
    /\ open' = open \ {c}
    /\ UNCHANGED <<hubVars, send, closed, subscribed, reader, requests, feedVars, history>>

-------------------------------------------------------------------------------
(* The feeds: userclient.Subscribe into a channel of their own each.        *)

\* An event reaches every feed; a full one drops it.
Arrive ==
    /\ seen < Events
    /\ seen' = seen + 1
    /\ feeds' = [f \in DOMAIN feeds |->
                   IF Len(feeds[f]) < FeedCap THEN Append(feeds[f], seen') ELSE feeds[f]]
    /\ UNCHANGED <<hubVars, send, closed, subscribed, connVars, history>>

\* A slip: a goroutine per event, which any later one can overtake.
BroadcastUnordered(f) ==
    /\ \E i \in DOMAIN feeds[f] :
         /\ feeds' = [feeds EXCEPT ![f] = SubSeq(@, 1, i - 1) \o SubSeq(@, i + 1, Len(@))]
         /\ broadcast' = IF Len(broadcast) < BroadcastCap
                           THEN Append(broadcast, feeds[f][i]) ELSE broadcast
    /\ UNCHANGED <<clients, hub, send, closed, subscribed, connVars, seen, history>>

\* Hub.Broadcast of the next event.  The three subscriptions of a feed have a
\* goroutine each: an event can overtake those of other types.
Broadcast(f) ==
    /\ \E i \in DOMAIN feeds[f] :
         /\ \A j \in 1 .. i - 1 : TypeOf[feeds[f][j]] # TypeOf[feeds[f][i]]
         /\ feeds' = [feeds EXCEPT ![f] = SubSeq(@, 1, i - 1) \o SubSeq(@, i + 1, Len(@))]
         /\ broadcast' = IF Len(broadcast) < BroadcastCap
                           THEN Append(broadcast, feeds[f][i]) ELSE broadcast
    /\ UNCHANGED <<clients, hub, send, closed, subscribed, connVars, seen, history>>

-------------------------------------------------------------------------------
HubRun ==
    \/ \E c \in Clients : Register(c) \/ Unregister(c) \/ Visit(c) \/ Push(c)
    \/ FanOut \/ EndFanOut

ReadPump(c) ==
    \/ ReadFails(c) \/ HandleSubscribe(c) \/ HandleUnsubscribe(c) \/ Respond(c)

WritePump(c) == Take(c) \/ Written(c) \/ WriteFails(c) \/ WriteClose(c)

Next ==
    \/ HubRun
    \/ \E c \in Clients : Connect(c) \/ Break(c) \/ Read(c) \/ ReadPump(c) \/ WritePump(c)
    \/ Arrive
    \/ \E f \in DOMAIN feeds : Broadcast(f)

Spec == Init /\ [][Next]_vars

\* The goroutines are scheduled: the hub, and for every connection the pumps (a
\* write ends within WriteWait).  Peers owe nothing, and no event must arrive.
Fairness ==
    /\ WF_vars(FanOut) /\ WF_vars(EndFanOut)
    /\ \A c \in Clients :
         /\ WF_vars(Register(c)) /\ WF_vars(Unregister(c))
         /\ WF_vars(Visit(c)) /\ WF_vars(Push(c))
         /\ WF_vars(ReadPump(c)) /\ WF_vars(WritePump(c))

FairSpec == Spec /\ Fairness

-------------------------------------------------------------------------------
(* Properties.                                                              *)

HubType ==
    /\ clients \in SUBSET Clients
    /\ hub \in [pc : {"select", "fanout", "panicked"}, event : Numbers \cup {0},
                todo : SUBSET Clients, target : Clients \cup {NoClient}]
    /\ hub.pc = "fanout" => hub.event \in Numbers
    /\ broadcast \in Seq(Numbers) /\ Len(broadcast) <= BroadcastCap

SendType ==
    /\ closed \in SUBSET Clients /\ subscribed \in SUBSET Clients
    /\ send \in [Clients -> Seq(Numbers \cup {Reply})]
    /\ \A c \in Clients : Len(send[c]) <= SendCap

ConnType ==
    /\ reader \in [Clients -> {"none", "register", "read", "subscribe", "unsubscribe",
                               "reply", "ack", "unregister", "done"}]
    /\ writer \in [Clients -> {"none", "run", "write", "stopped"}]
    /\ open \in SUBSET Clients
    /\ requests \in [Clients -> 0 .. MaxRequests]

FeedType ==
    /\ feeds \in Seq(Seq(Numbers))
    /\ seen \in 0 .. Events

HistoryType ==
    /\ pushes \in [Clients -> Seq(Numbers)]
    /\ quiet \in SUBSET Clients
    /\ late \in [Clients -> Nat]

\* Every variable stays in its type, and no channel holds more than it can.
TypeOK == HubType /\ SendType /\ ConnType /\ FeedType /\ HistoryType

\* The hub goroutine never sends into a closed channel nor closes one twice:
\* slow clients, broken connections and panicking readers race to unregister a
\* client, and only the map decides who closes.  A panic there would end the
\* process, and with it every other connection.
HubNeverPanics == hub.pc # "panicked"

\* The two owners of a client agree: its channel is closed if and only if the
\* hub had it and dropped it; and a readPump that is done left nothing behind.
ClosedIsDropped ==
    \A c \in Clients :
      /\ c \in closed => c \notin clients
      /\ reader[c] \in {"none", "register"} => c \notin clients \cup closed
      /\ reader[c] = "done" => c \in closed /\ c \notin open
      /\ reader[c] \notin {"none", "register"} => c \in clients \cup closed

\* While an event is fanned out nobody else changes the map: whom the hub has
\* still to visit, and whom it is about to push to, is registered.
FanOutIsRegistered ==
    hub.pc = "fanout" =>
      /\ hub.todo \subseteq clients
      /\ hub.target # NoClient => hub.target \in clients \ hub.todo

\* A client that was told it is unsubscribed is pushed at most one event more,
\* the one the hub had already checked it for.
AtMostOneLatePush == \A c \in Clients : late[c] <= 1

\* An event is pushed to a client once per feed at most, and with a single feed
\* the events of one type are pushed in order.
Copies(c, n) == Cardinality({i \in DOMAIN pushes[c] : pushes[c][i] = n})
PushedOncePerFeed ==
    \A c \in Clients :
      /\ \A n \in Numbers : Copies(c, n) <= Len(feeds)
      /\ Len(feeds) = 1 =>
           \A i, j \in DOMAIN pushes[c] :
             i < j /\ TypeOf[pushes[c][i]] = TypeOf[pushes[c][j]] => pushes[c][i] < pushes[c][j]

\* No client, however slow, keeps the hub from going back to its select.
HubNeverBlocks == (hub.pc = "fanout") ~> (hub.pc = "select")

\* A reader waiting for room in a channel that nobody reads any more.
Stuck(c) ==
    /\ reader[c] \in {"reply", "ack"} /\ writer[c] = "stopped"
    /\ c \notin closed /\ Len(send[c]) = SendCap

\* A connection that broke is unregistered in the end, whoever noticed first,
\* unless its reader is stuck.
BrokenIsReaped ==
    \A c \in Clients : (c \in clients /\ c \notin open) ~> (c \notin clients \/ Stuck(c))

\* The way out for a reader that is stuck: the next event its client is subscribed
\* to finds the channel full, so that the hub closes it, the send panics, and the
\* reader unregisters.  Without a subscription, or an event, it waits for ever.
EventFreesReader ==
    \A c \in Clients :
      (Stuck(c) /\ c \in subscribed /\ broadcast # <<>>) ~> (reader[c] = "done")

\* asyncapi.yaml:275-278: a new subscription replaces the old one, so that an
\* event is pushed once.
PushedOnce == \A c \in Clients, n \in Numbers : Copies(c, n) <= 1

===============================================================================
