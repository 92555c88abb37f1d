------------------------------ MODULE WsHubProofs ------------------------------
(***************************************************************************)
(* What TLAPS proves of the hub, for any number of clients, events and     *)
(* requests and any capacity of the channels.                              *)
(*                                                                         *)
(* HubInv is the inductive invariant behind HubNeverPanics: the map        *)
(* decides alone whether a channel is still open (ClosedIsDropped), and    *)
(* what the hub read from the map at the start of a fan-out stays true     *)
(* until it is used (FanOutIsRegistered), since only the hub changes it.   *)
(* LateInv is the one behind AtMostOneLatePush, and PushInv the one behind *)
(* PushedOncePerFeed: it follows every event from the feeds through the    *)
(* broadcast channel and the hub to the client.                            *)
(***************************************************************************)
EXTENDS WsHub, SequenceTheorems, FiniteSetTheorems, TLAPS

HubInv == TypeOK /\ HubNeverPanics /\ ClosedIsDropped /\ FanOutIsRegistered

\* A sequence from which one element is taken is still a sequence of that set.
LEMMA CutType ==
    ASSUME NEW S, NEW q \in Seq(S), NEW i \in 1 .. Len(q)
    PROVE  SubSeq(q, 1, i - 1) \o SubSeq(q, i + 1, Len(q)) \in Seq(S)
  <1>1. SubSeq(q, 1, i - 1) \in Seq(S)
    <2>1. \A j \in 1 .. i - 1 : q[j] \in S
      OBVIOUS
    <2> QED  BY <2>1
  <1>2. SubSeq(q, i + 1, Len(q)) \in Seq(S)
    <2>1. \A j \in i + 1 .. Len(q) : q[j] \in S
      OBVIOUS
    <2> QED  BY <2>1
  <1> QED  BY <1>1, <1>2

\* A channel that takes one element more, or loses its first, keeps its type.
LEMMA ChannelType ==
    ASSUME NEW S, NEW q \in Seq(S)
    PROVE  /\ \A x \in S : Append(q, x) \in Seq(S) /\ Len(Append(q, x)) = Len(q) + 1
           /\ q # <<>> => Tail(q) \in Seq(S) /\ Len(Tail(q)) = Len(q) - 1 /\ Head(q) \in S
  OBVIOUS

\* Each part of TypeOK is about variables of its own.
LEMMA UntouchedType ==
    /\ HubType /\ UNCHANGED hubVars => HubType'
    /\ SendType /\ UNCHANGED <<send, closed, subscribed>> => SendType'
    /\ ConnType /\ UNCHANGED connVars => ConnType'
    /\ FeedType /\ UNCHANGED feedVars => FeedType'
    /\ HistoryType /\ UNCHANGED history => HistoryType'
  BY DEF HubType, SendType, ConnType, FeedType, HistoryType, hubVars, connVars, feedVars, history

\* The steps of the hub goroutine keep the types.
LEMMA HubTypeOK == TypeOK /\ HubRun => TypeOK'
  <1> SUFFICES ASSUME TypeOK, HubRun PROVE TypeOK'
    OBVIOUS
  <1> USE DEF TypeOK
  <1>1. ASSUME NEW c \in Clients, Register(c) PROVE TypeOK'
    <2>1. HubType'   BY <1>1 DEF Register, HubType
    <2>2. ConnType'  BY <1>1 DEF Register, ConnType
    <2> QED  BY <1>1, <2>1, <2>2, UntouchedType DEF Register
  <1>2. ASSUME NEW c \in Clients, Unregister(c) PROVE TypeOK'
    <2>1. HubType'   BY <1>2 DEF Unregister, CloseSend, HubType
    <2>2. ConnType'  BY <1>2 DEF Unregister, ConnType
    <2>3. SendType'  BY <1>2 DEF Unregister, CloseSend, SendType
    <2> QED  BY <1>2, <2>1, <2>2, <2>3, UntouchedType DEF Unregister
  <1>3. ASSUME NEW c \in Clients, Visit(c) PROVE TypeOK'
    <2>1. HubType'   BY <1>3 DEF Visit, HubType
    <2> QED  BY <1>3, <2>1, UntouchedType DEF Visit
  <1>4. ASSUME NEW c \in Clients, Push(c) PROVE TypeOK'
    <2>1. HubType'   BY <1>4 DEF Push, CloseSend, HubType
    <2>2. SendType'
      <3>1. CASE c \notin closed /\ Len(send[c]) < SendCap
        <4>1. hub.event \in Numbers
          BY <1>4 DEF Push, HubType
        <4>2. /\ Append(send[c], hub.event) \in Seq(Numbers \cup {Reply})
              /\ Len(Append(send[c], hub.event)) <= SendCap
          BY <3>1, <4>1, ChannelType, HubAssumption DEF SendType
        <4>3. send' = [send EXCEPT ![c] = Append(send[c], hub.event)]
          BY <1>4, <3>1 DEF Push
        <4> QED  BY <1>4, <3>1, <4>2, <4>3 DEF Push, SendType
      <3> QED  BY <1>4, <3>1 DEF Push, CloseSend, SendType
    <2>3. HistoryType'
      <3>1. hub.event \in Numbers
        BY <1>4 DEF Push, HubType
      <3>2. Append(pushes[c], hub.event) \in Seq(Numbers)
        BY <3>1, ChannelType DEF HistoryType
      <3>3. CASE UNCHANGED history
        BY <3>3, UntouchedType
      <3>4. CASE /\ pushes' = [pushes EXCEPT ![c] = Append(pushes[c], hub.event)]
                 /\ late' = [late EXCEPT ![c] = IF c \in quiet THEN @ + 1 ELSE @]
                 /\ UNCHANGED quiet
        BY <3>2, <3>4 DEF HistoryType
      <3> QED  BY <1>4, <3>3, <3>4 DEF Push
    <2> QED  BY <1>4, <2>1, <2>2, <2>3, UntouchedType DEF Push
  <1>5. CASE FanOut
    <2>1. Head(broadcast) \in Numbers
      BY <1>5, ChannelType DEF FanOut, HubType
    <2>2. HubType'   BY <1>5, <2>1, ChannelType, HubAssumption DEF FanOut, HubType
    <2> QED  BY <1>5, <2>2, UntouchedType DEF FanOut
  <1>6. CASE EndFanOut
    <2>1. HubType'   BY <1>6 DEF EndFanOut, Select, HubType
    <2> QED  BY <1>6, <2>1, UntouchedType DEF EndFanOut
  <1> QED  BY <1>1, <1>2, <1>3, <1>4, <1>5, <1>6 DEF HubRun

\* The steps of a connection and its pumps keep the types.
LEMMA ConnTypeOK ==
    ASSUME TypeOK, NEW c \in Clients,
           Connect(c) \/ Break(c) \/ Read(c) \/ ReadPump(c) \/ WritePump(c)
    PROVE  TypeOK'
  <1> USE DEF TypeOK
  <1>1. CASE Connect(c)
    <2>1. ConnType'  BY <1>1 DEF Connect, ConnType
    <2> QED  BY <1>1, <2>1, UntouchedType DEF Connect
  <1>2. CASE Break(c)
    <2>1. ConnType'  BY <1>2 DEF Break, ConnType
    <2> QED  BY <1>2, <2>1, UntouchedType DEF Break
  <1>3. CASE Read(c)
    <2>1. ConnType'  BY <1>3, HubAssumption DEF Read, ConnType
    <2> QED  BY <1>3, <2>1, UntouchedType DEF Read
  <1>4. CASE ReadFails(c)
    <2>1. ConnType'  BY <1>4 DEF ReadFails, ConnType
    <2> QED  BY <1>4, <2>1, UntouchedType DEF ReadFails
  <1>5. CASE HandleSubscribe(c)
    <2>1. ConnType'  BY <1>5 DEF HandleSubscribe, ConnType
    <2>2. SendType'  BY <1>5 DEF HandleSubscribe, SendType
    <2>3. FeedType'
      <3>1. <<>> \in Seq(Numbers)
        OBVIOUS
      <3> QED  BY <1>5, <3>1, ChannelType DEF HandleSubscribe, FeedType
    <2>4. HistoryType'  BY <1>5 DEF HandleSubscribe, HistoryType
    <2> QED  BY <1>5, <2>1, <2>2, <2>3, <2>4, UntouchedType DEF HandleSubscribe
  <1>6. CASE HandleUnsubscribe(c)
    <2>1. ConnType'  BY <1>6 DEF HandleUnsubscribe, ConnType
    <2>2. SendType'  BY <1>6 DEF HandleUnsubscribe, SendType
    <2> QED  BY <1>6, <2>1, <2>2, UntouchedType DEF HandleUnsubscribe
  <1>7. CASE Respond(c)
    <2>1. ConnType'  BY <1>7 DEF Respond, ConnType
    <2>2. SendType'
      <3>1. CASE c \notin closed /\ Len(send[c]) < SendCap
        <4>1. /\ Append(send[c], Reply) \in Seq(Numbers \cup {Reply})
              /\ Len(Append(send[c], Reply)) <= SendCap
          BY <3>1, ChannelType, HubAssumption DEF SendType
        <4> QED  BY <1>7, <3>1, <4>1 DEF Respond, SendType
      <3> QED  BY <1>7, <3>1 DEF Respond, SendType
    <2>3. HistoryType'  BY <1>7 DEF Respond, HistoryType
    <2> QED  BY <1>7, <2>1, <2>2, <2>3, UntouchedType DEF Respond
  <1>8. CASE Take(c)
    <2>1. ConnType'  BY <1>8 DEF Take, ConnType
    <2>2. SendType'  BY <1>8, HubAssumption, ChannelType DEF Take, SendType
    <2> QED  BY <1>8, <2>1, <2>2, UntouchedType DEF Take
  <1>9. CASE Written(c)
    <2>1. ConnType'  BY <1>9 DEF Written, ConnType
    <2> QED  BY <1>9, <2>1, UntouchedType DEF Written
  <1>10. CASE WriteFails(c)
    <2>1. ConnType'  BY <1>10 DEF WriteFails, ConnType
    <2> QED  BY <1>10, <2>1, UntouchedType DEF WriteFails
  <1>11. CASE WriteClose(c)
    <2>1. ConnType'  BY <1>11 DEF WriteClose, ConnType
    <2> QED  BY <1>11, <2>1, UntouchedType DEF WriteClose
  <1> QED
    BY <1>1, <1>2, <1>3, <1>4, <1>5, <1>6, <1>7, <1>8, <1>9, <1>10, <1>11
    DEF ReadPump, WritePump

\* The steps of the feeds keep the types.
LEMMA FeedTypeOK ==
    ASSUME TypeOK, Arrive \/ \E f \in DOMAIN feeds : Broadcast(f)
    PROVE  TypeOK'
  <1> USE DEF TypeOK
  <1>1. CASE Arrive
    <2>1. seen' \in Numbers /\ seen' \in 0 .. Events
      BY <1>1, HubAssumption DEF Arrive, FeedType, Numbers
    <2>2. \A f \in DOMAIN feeds : feeds[f] \in Seq(Numbers) /\ feeds'[f] \in Seq(Numbers)
      BY <1>1, <2>1, ChannelType DEF Arrive, FeedType
    <2>3. feeds' \in Seq(Seq(Numbers))
      <3>1. feeds' = [f \in 1 .. Len(feeds) |-> feeds'[f]]
        BY <1>1 DEF Arrive, FeedType
      <3>2. Len(feeds) \in Nat /\ DOMAIN feeds = 1 .. Len(feeds)
        BY DEF FeedType
      <3>3. [f \in 1 .. Len(feeds) |-> feeds'[f]] \in [1 .. Len(feeds) -> Seq(Numbers)]
        BY <2>2, <3>2
      <3> QED  BY <3>1, <3>2, <3>3, SeqDef
    <2> QED  BY <1>1, <2>1, <2>3, UntouchedType DEF Arrive, FeedType
  <1>2. ASSUME NEW f \in DOMAIN feeds, Broadcast(f) PROVE TypeOK'
    <2>1. PICK i \in DOMAIN feeds[f] :
            /\ feeds' = [feeds EXCEPT ![f] = SubSeq(@, 1, i - 1) \o SubSeq(@, i + 1, Len(@))]
            /\ broadcast' = IF Len(broadcast) < BroadcastCap
                              THEN Append(broadcast, feeds[f][i]) ELSE broadcast
      BY <1>2 DEF Broadcast
    <2>2. feeds[f] \in Seq(Numbers) /\ i \in 1 .. Len(feeds[f]) /\ feeds[f][i] \in Numbers
      <3>1. feeds \in Seq(Seq(Numbers))
        BY DEF FeedType
      <3>2. feeds[f] \in Seq(Numbers)
        BY <1>2, <3>1
      <3> QED  BY <2>1, <3>2
    <2>3. feeds' \in Seq(Seq(Numbers))
      <3> DEFINE q == SubSeq(feeds[f], 1, i - 1) \o SubSeq(feeds[f], i + 1, Len(feeds[f]))
      <3>1. q \in Seq(Numbers)
        BY <2>2, CutType
      <3>2. feeds' = [feeds EXCEPT ![f] = q]
        BY <2>1
      <3> HIDE DEF q
      <3> QED  BY <3>1, <3>2 DEF FeedType
    <2>4. broadcast' \in Seq(Numbers) /\ Len(broadcast') <= BroadcastCap
      BY <2>1, <2>2, ChannelType, HubAssumption DEF HubType
    <2>5. HubType'
      BY <1>2, <2>4 DEF Broadcast, HubType
    <2> QED  BY <1>2, <2>3, <2>5, UntouchedType DEF Broadcast, FeedType
  <1> QED  BY <1>1, <1>2

LEMMA TypeInit == Init => TypeOK
  BY HubAssumption
  DEF Init, TypeOK, HubType, SendType, ConnType, FeedType, HistoryType, Select, Numbers, Reply

LEMMA TypeStep == TypeOK /\ [Next]_vars => TypeOK'
  <1> SUFFICES ASSUME TypeOK, [Next]_vars PROVE TypeOK'
    OBVIOUS
  <1>1. CASE UNCHANGED vars
    BY <1>1, UntouchedType DEF vars, TypeOK
  <1> QED  BY <1>1, HubTypeOK, ConnTypeOK, FeedTypeOK DEF Next

\* Every variable keeps its type, and no channel ever holds more than its
\* capacity, in every behaviour of the gateway.
THEOREM TypeCorrect == Spec => []TypeOK
  BY TypeInit, TypeStep, PTL DEF Spec

-------------------------------------------------------------------------------
\* A step that touches neither the map, nor the channels, nor where the hub and
\* the readers are, keeps the invariant of the hub.
LEMMA HubInvElsewhere ==
    HubNeverPanics /\ ClosedIsDropped /\ FanOutIsRegistered
    /\ UNCHANGED <<clients, hub, closed, reader>> /\ open' \subseteq open
    => HubNeverPanics' /\ ClosedIsDropped' /\ FanOutIsRegistered'
  BY DEF HubNeverPanics, ClosedIsDropped, FanOutIsRegistered

\* A reader that goes on, before its deferred call, stays known to the hub.
LEMMA HubInvReader ==
    ASSUME HubInv, NEW c \in Clients, NEW to \in {"read", "subscribe", "unsubscribe",
                                               "reply", "ack", "unregister"},
           reader[c] \notin {"none", "register", "done"},
           reader' = [reader EXCEPT ![c] = to],
           UNCHANGED <<clients, hub, closed>>, open' \subseteq open
    PROVE  HubNeverPanics' /\ ClosedIsDropped' /\ FanOutIsRegistered'
  BY DEF HubInv, TypeOK, ConnType, HubNeverPanics, ClosedIsDropped, FanOutIsRegistered

\* The hub goroutine: what is still to visit shrinks, and the client in hand is
\* in the map, so that its channel is open when the hub sends or closes.
LEMMA HubInvHub == HubInv /\ HubRun => HubNeverPanics' /\ ClosedIsDropped' /\ FanOutIsRegistered'
  <1> SUFFICES ASSUME HubInv, HubRun
               PROVE  HubNeverPanics' /\ ClosedIsDropped' /\ FanOutIsRegistered'
    OBVIOUS
  <1> USE HubAssumption DEF HubInv, TypeOK, HubType, HubNeverPanics
  <1>1. ASSUME NEW c \in Clients, Register(c)
        PROVE  HubNeverPanics' /\ ClosedIsDropped' /\ FanOutIsRegistered'
    BY <1>1 DEF Register, ConnType, ClosedIsDropped, FanOutIsRegistered
  <1>2. ASSUME NEW c \in Clients, Unregister(c)
        PROVE  HubNeverPanics' /\ ClosedIsDropped' /\ FanOutIsRegistered'
    <2>1. c \in clients <=> c \notin closed
      BY <1>2 DEF Unregister, ClosedIsDropped
    <2>2. hub' = hub /\ closed' = closed \cup {c}
      BY <1>2, <2>1 DEF Unregister, CloseSend
    <2>3. ClosedIsDropped'
      BY <1>2, <2>2 DEF Unregister, ConnType, SendType, ClosedIsDropped
    <2> QED  BY <1>2, <2>2, <2>3 DEF Unregister, FanOutIsRegistered
  <1>3. ASSUME NEW c \in Clients, Visit(c)
        PROVE  HubNeverPanics' /\ ClosedIsDropped' /\ FanOutIsRegistered'
    <2>1. HubNeverPanics' /\ FanOutIsRegistered'
      BY <1>3 DEF Visit, FanOutIsRegistered
    <2> QED  BY <1>3, <2>1 DEF Visit, connVars, ClosedIsDropped
  <1>4. ASSUME NEW c \in Clients, Push(c)
        PROVE  HubNeverPanics' /\ ClosedIsDropped' /\ FanOutIsRegistered'
    <2>1. c \in clients /\ c \notin closed /\ c \notin hub.todo
      BY <1>4 DEF Push, FanOutIsRegistered, ClosedIsDropped
    <2>2. hub' = [hub EXCEPT !.target = NoClient]
      BY <1>4, <2>1 DEF Push, CloseSend
    <2>3. UNCHANGED <<clients, closed>> \/ (clients' = clients \ {c} /\ closed' = closed \cup {c})
      BY <1>4, <2>1 DEF Push, CloseSend
    <2>4. HubNeverPanics' /\ FanOutIsRegistered'
      BY <1>4, <2>1, <2>2, <2>3 DEF Push, FanOutIsRegistered
    <2>5. UNCHANGED <<reader, open>>
      BY <1>4 DEF Push, connVars
    <2>6. reader[c] \notin {"none", "register"}
      BY <2>1 DEF ClosedIsDropped
    <2>7. ClosedIsDropped'
      BY <2>3, <2>5, <2>6 DEF ClosedIsDropped
    <2> QED  BY <2>4, <2>7
  <1>5. CASE FanOut
    <2>1. HubNeverPanics' /\ FanOutIsRegistered'
      BY <1>5 DEF FanOut, FanOutIsRegistered
    <2> QED  BY <1>5, <2>1 DEF FanOut, connVars, ClosedIsDropped
  <1>6. CASE EndFanOut
    <2>1. HubNeverPanics' /\ FanOutIsRegistered'
      BY <1>6 DEF EndFanOut, Select, FanOutIsRegistered
    <2> QED  BY <1>6, <2>1 DEF EndFanOut, connVars, ClosedIsDropped
  <1> QED  BY <1>1, <1>2, <1>3, <1>4, <1>5, <1>6 DEF HubRun

\* Every other goroutine leaves the map and the channels' ends to the hub.
LEMMA HubInvStep == HubInv /\ [Next]_vars => HubInv'
  <1> SUFFICES ASSUME HubInv, [Next]_vars
               PROVE  HubNeverPanics' /\ ClosedIsDropped' /\ FanOutIsRegistered'
    <2>1. HubInv /\ [Next]_vars => TypeOK'
      BY TypeStep DEF HubInv
    <2> QED  BY <2>1 DEF HubInv
  <1> USE DEF HubInv, hubVars, connVars
  <1>1. CASE HubRun
    BY <1>1, HubInvHub
  <1>2. ASSUME NEW c \in Clients, Connect(c)
        PROVE  HubNeverPanics' /\ ClosedIsDropped' /\ FanOutIsRegistered'
    BY <1>2 DEF Connect, TypeOK, ConnType, HubNeverPanics, ClosedIsDropped, FanOutIsRegistered
  <1>3. ASSUME NEW c \in Clients, Break(c) \/ WritePump(c)
        PROVE  HubNeverPanics' /\ ClosedIsDropped' /\ FanOutIsRegistered'
    BY <1>3, HubInvElsewhere DEF Break, WritePump, Take, Written, WriteFails, WriteClose
  <1>4. ASSUME NEW c \in Clients, Read(c) \/ ReadPump(c)
        PROVE  HubNeverPanics' /\ ClosedIsDropped' /\ FanOutIsRegistered'
    BY <1>4, HubInvReader
    DEF Read, ReadPump, ReadFails, HandleSubscribe, HandleUnsubscribe, Respond
  <1>5. CASE Arrive \/ \E f \in DOMAIN feeds : Broadcast(f)
    BY <1>5, HubInvElsewhere DEF Arrive, Broadcast
  <1>6. CASE UNCHANGED vars
    BY <1>6, HubInvElsewhere DEF vars
  <1> QED  BY <1>1, <1>2, <1>3, <1>4, <1>5, <1>6 DEF Next

LEMMA HubInvariant == Spec => []HubInv
  <1>1. Init => HubInv
    BY TypeInit DEF HubInv, Init, HubNeverPanics, ClosedIsDropped, FanOutIsRegistered, Select
  <1> QED  BY <1>1, HubInvStep, PTL DEF Spec

\* The hub goroutine never sends into a closed channel nor closes one twice,
\* however many clients come, go, stall and break at once.
THEOREM HubSafe == Spec => []HubNeverPanics
  BY HubInvariant, PTL DEF HubInv

\* The map alone says whose channel is closed, and a finished readPump has left
\* nothing behind in the hub.
THEOREM ClosedExactlyWhenDropped == Spec => []ClosedIsDropped
  BY HubInvariant, PTL DEF HubInv

\* Whoever the hub has still to visit, or has in hand, is registered.
THEOREM FanOutStaysRegistered == Spec => []FanOutIsRegistered
  BY HubInvariant, PTL DEF HubInv

-------------------------------------------------------------------------------
\* The hub pushes late only to the one client it had checked, and then has no
\* check of it left.
\* A client that was told it is unsubscribed stays so until its reader subscribes
\* again, and once the push that came late is made the hub holds no check of it.
LateInv ==
    \A c \in Clients :
      /\ late[c] <= 1
      /\ c \in quiet \/ late[c] > 0 \/ reader[c] = "ack" => c \notin subscribed
      /\ late[c] > 0 => hub.target # c

LEMMA LateInvHub ==
    ASSUME TypeOK, LateInv, HubRun
    PROVE  LateInv'
  <1> USE DEF TypeOK, HubType, LateInv
  <1>1. ASSUME NEW c \in Clients, Register(c) \/ Unregister(c) PROVE LateInv'
    BY <1>1, HubAssumption DEF Register, Unregister, CloseSend, ConnType, history
  <1>2. ASSUME NEW c \in Clients, Visit(c) PROVE LateInv'
    BY <1>2, HubAssumption DEF Visit, connVars, history
  <1>3. ASSUME NEW c \in Clients, Push(c) PROVE LateInv'
    <2>1. late[c] = 0 /\ c \in Clients
      BY <1>3 DEF Push, HistoryType
    <2>2. UNCHANGED <<subscribed, reader, quiet>>
      BY <1>3 DEF Push, connVars, history
    <2>3. CASE late' = late
      <3>1. hub'.target \in {NoClient, c}
        BY <1>3 DEF Push, CloseSend
      <3> QED  BY <2>1, <2>2, <2>3, <3>1, HubAssumption
    <2>4. CASE /\ late' = [late EXCEPT ![c] = IF c \in quiet THEN @ + 1 ELSE @]
               /\ hub' = [hub EXCEPT !.target = NoClient]
      BY <2>1, <2>2, <2>4, HubAssumption DEF HistoryType
    <2> QED  BY <1>3, <2>3, <2>4 DEF Push, history
  <1>4. CASE FanOut \/ EndFanOut
    BY <1>4, HubAssumption DEF FanOut, EndFanOut, Select, connVars, history
  <1> QED  BY <1>1, <1>2, <1>3, <1>4 DEF HubRun

LEMMA LateInvStep == TypeOK /\ LateInv /\ [Next]_vars => LateInv'
  <1> SUFFICES ASSUME TypeOK, LateInv, [Next]_vars PROVE LateInv'
    OBVIOUS
  <1> USE DEF TypeOK, ConnType, HistoryType, LateInv, hubVars, feedVars, connVars, history
  <1>1. CASE HubRun
    BY <1>1, LateInvHub
  <1>2. ASSUME NEW c \in Clients, Connect(c) \/ Break(c) \/ Read(c) \/ WritePump(c)
        PROVE  LateInv'
    BY <1>2 DEF Connect, Break, Read, WritePump, Take, Written, WriteFails, WriteClose
  <1>3. ASSUME NEW c \in Clients, ReadPump(c) PROVE LateInv'
    BY <1>3 DEF ReadPump, ReadFails, HandleSubscribe, HandleUnsubscribe, Respond
  <1>4. CASE Arrive \/ \E f \in DOMAIN feeds : Broadcast(f)
    BY <1>4 DEF Arrive, Broadcast
  <1>5. CASE UNCHANGED vars
    BY <1>5 DEF vars
  <1> QED  BY <1>1, <1>2, <1>3, <1>4, <1>5 DEF Next

LEMMA LateAlways == Spec => []LateInv
  <1>1. Init => LateInv
    BY DEF Init, LateInv
  <1> QED  BY <1>1, LateInvStep, TypeCorrect, PTL DEF Spec

\* After the acknowledgement of an unsubscribe at most one more event is pushed,
\* whatever the hub was doing when the flags were cleared.
THEOREM OneLatePush == Spec => []AtMostOneLatePush
  <1>1. LateInv => AtMostOneLatePush
    BY DEF LateInv, AtMostOneLatePush
  <1> QED  BY <1>1, LateAlways, PTL

-------------------------------------------------------------------------------
(* The way of an event to one client: from the feeds through broadcast and  *)
(* the hub's hands into pushes.                                             *)

Elements(q) == {q[i] : i \in DOMAIN q}
Places(q, n) == {i \in DOMAIN q : q[i] = n}
Count(q, n) == Cardinality(Places(q, n))

\* What the fan-out has still to bring to c.
Hand(c) == IF hub.pc = "fanout" /\ (c \in hub.todo \/ hub.target = c) THEN {hub.event} ELSE {}

LEMMA AppendIs ==
    ASSUME NEW S, NEW q \in Seq(S), NEW x \in S
    PROVE  /\ Append(q, x) \in Seq(S) /\ Len(Append(q, x)) = Len(q) + 1
           /\ \A i \in DOMAIN q : i \in DOMAIN Append(q, x) /\ Append(q, x)[i] = q[i]
           /\ Len(q) + 1 \in DOMAIN Append(q, x) /\ Append(q, x)[Len(q) + 1] = x
           /\ \A i \in DOMAIN Append(q, x) : i \in DOMAIN q \/ i = Len(q) + 1
           /\ Len(q) + 1 \notin DOMAIN q
           /\ Elements(Append(q, x)) = Elements(q) \cup {x}
  <1> DEFINE p == Append(q, x)
  <1>1. /\ p \in Seq(S) /\ Len(p) = Len(q) + 1
        /\ \A i \in DOMAIN q : i \in DOMAIN p /\ p[i] = q[i]
        /\ Len(q) + 1 \in DOMAIN p /\ p[Len(q) + 1] = x
        /\ \A i \in DOMAIN p : i \in DOMAIN q \/ i = Len(q) + 1
        /\ Len(q) + 1 \notin DOMAIN q
    OBVIOUS
  <1> HIDE DEF p
  <1>2. Elements(p) = Elements(q) \cup {x}
    BY <1>1 DEF Elements
  <1> QED  BY <1>1, <1>2 DEF p

LEMMA TailIs ==
    ASSUME NEW S, NEW q \in Seq(S), q # <<>>
    PROVE  /\ Tail(q) \in Seq(S) /\ Head(q) = q[1] /\ 1 \in DOMAIN q
           /\ \A i \in DOMAIN Tail(q) : i + 1 \in DOMAIN q /\ Tail(q)[i] = q[i + 1]
           /\ \A i \in DOMAIN q \ {1} : i - 1 \in DOMAIN Tail(q) /\ Tail(q)[i - 1] = q[i]
           /\ DOMAIN Tail(q) \subseteq Nat \ {0} /\ DOMAIN q \subseteq Nat \ {0}
  <1>1. Tail(q) \in Seq(S) /\ Len(Tail(q)) = Len(q) - 1 /\ Len(q) \in Nat \ {0} /\ Head(q) = q[1]
    BY HeadTailProperties
  <1>2. \A i \in 1 .. Len(q) - 1 : Tail(q)[i] = q[i + 1]
    BY HeadTailProperties
  <1>3. DOMAIN Tail(q) = 1 .. Len(q) - 1 /\ DOMAIN q = 1 .. Len(q)
    BY <1>1
  <1>4. \A i \in DOMAIN q \ {1} : i - 1 \in 1 .. Len(q) - 1 /\ (i - 1) + 1 = i
    BY <1>1, <1>3
  <1>5. \A i \in 1 .. Len(q) - 1 : i + 1 \in 1 .. Len(q)
    BY <1>1
  <1> DEFINE p == Tail(q)
  <1>6. /\ \A i \in DOMAIN p : i + 1 \in DOMAIN q /\ p[i] = q[i + 1]
        /\ \A i \in DOMAIN q \ {1} : i - 1 \in DOMAIN p /\ p[i - 1] = q[i]
    BY <1>2, <1>3, <1>4, <1>5
  <1> QED  BY <1>1, <1>3, <1>6

\* One element is cut out of a sequence.
LEMMA CutIs ==
    ASSUME NEW S, NEW q \in Seq(S), NEW i \in 1 .. Len(q)
    PROVE  LET r == SubSeq(q, 1, i - 1) \o SubSeq(q, i + 1, Len(q))
           IN  /\ r \in Seq(S)
               /\ DOMAIN r = 1 .. Len(q) - 1
               /\ \A j \in DOMAIN r : r[j] = IF j < i THEN q[j] ELSE q[j + 1]
  <1> DEFINE a == SubSeq(q, 1, i - 1)
             b == SubSeq(q, i + 1, Len(q))
  <1>1. Len(q) \in Nat /\ i \in Nat /\ i >= 1 /\ i <= Len(q)
    OBVIOUS
  <1>2. a \in Seq(S) /\ Len(a) = i - 1 /\ \A j \in 1 .. i - 1 : a[j] = q[j]
    <2>1. \A j \in 1 .. i - 1 : q[j] \in S
      OBVIOUS
    <2> QED  BY <2>1
  <1>3. b \in Seq(S) /\ Len(b) = Len(q) - i /\ \A j \in 1 .. Len(q) - i : b[j] = q[i + j]
    <2>1. \A j \in i + 1 .. Len(q) : q[j] \in S
      OBVIOUS
    <2> QED  BY <2>1
  <1> HIDE DEF a, b
  <1>4. a \o b \in Seq(S) /\ Len(a \o b) = Len(q) - 1
    <2>1. a \o b \in Seq(S) /\ Len(a \o b) = Len(a) + Len(b)
      BY <1>2, <1>3, ConcatProperties
    <2> QED  BY <1>1, <1>2, <1>3, <2>1
  <1>5. ASSUME NEW j \in 1 .. Len(q) - 1 PROVE (a \o b)[j] = IF j < i THEN q[j] ELSE q[j + 1]
    <2>1. CASE j < i
      <3>1. (a \o b)[j] = a[j]
        BY <1>1, <1>2, <1>3, <2>1
      <3> QED  BY <1>1, <1>2, <2>1, <3>1
    <2>2. CASE ~(j < i)
      <3>1. (a \o b)[j] = b[j - (i - 1)]
        BY <1>1, <1>2, <1>3, <2>2
      <3>2. j - (i - 1) \in 1 .. Len(q) - i /\ i + (j - (i - 1)) = j + 1
        BY <1>1, <2>2
      <3> QED  BY <1>3, <2>2, <3>1, <3>2
    <2> QED  BY <2>1, <2>2
  <1>6. DOMAIN (a \o b) = 1 .. Len(q) - 1
    BY <1>4
  <1> DEFINE r == a \o b
  <1>7. /\ r \in Seq(S) /\ DOMAIN r = 1 .. Len(q) - 1
        /\ \A j \in DOMAIN r : r[j] = IF j < i THEN q[j] ELSE q[j + 1]
    BY <1>4, <1>5, <1>6
  <1> QED  BY <1>7 DEF a, b

\* A sequence holds n so many times.
LEMMA CountIs ==
    ASSUME NEW S, NEW q \in Seq(S), NEW n
    PROVE  IsFiniteSet(Places(q, n)) /\ Count(q, n) \in Nat
  <1>1. Places(q, n) \subseteq 1 .. Len(q) /\ Len(q) \in Nat
    BY DEF Places
  <1>2. IsFiniteSet(1 .. Len(q))
    BY <1>1, FS_Interval
  <1>3. IsFiniteSet(Places(q, n))
    BY <1>1, <1>2, FS_Subset
  <1> QED  BY <1>3, FS_CardinalityType DEF Count

LEMMA CountNone ==
    ASSUME NEW S, NEW q \in Seq(S), NEW n, n \notin Elements(q)
    PROVE  Count(q, n) = 0
  <1>1. Places(q, n) = {}
    BY DEF Places, Elements
  <1> QED  BY <1>1, FS_EmptySet DEF Count

LEMMA CountAppend ==
    ASSUME NEW S, NEW q \in Seq(S), NEW x \in S, NEW n
    PROVE  Count(Append(q, x), n) = Count(q, n) + (IF x = n THEN 1 ELSE 0)
  <1> DEFINE p == Append(q, x)
             l == Len(q) + 1
  <1>1. /\ \A i \in DOMAIN q : i \in DOMAIN p /\ p[i] = q[i]
        /\ l \in DOMAIN p /\ p[l] = x /\ l \notin DOMAIN q
        /\ \A i \in DOMAIN p : i \in DOMAIN q \/ i = l
    BY AppendIs
  <1>2. IsFiniteSet(Places(q, n)) /\ Count(q, n) \in Nat
    BY CountIs
  <1> HIDE DEF p, l
  <1>3. CASE x = n
    <2>1. Places(p, n) = Places(q, n) \cup {l} /\ l \notin Places(q, n)
      BY <1>1, <1>3 DEF Places
    <2> QED  BY <1>2, <1>3, <2>1, FS_AddElement DEF Count, p
  <1>4. CASE x # n
    <2>1. Places(p, n) = Places(q, n)
      BY <1>1, <1>4 DEF Places
    <2> QED  BY <1>2, <1>4, <2>1 DEF Count, p
  <1> QED  BY <1>3, <1>4

LEMMA CountTail ==
    ASSUME NEW S, NEW q \in Seq(S), q # <<>>, NEW n
    PROVE  /\ Count(Tail(q), n) \in Nat
           /\ Count(Tail(q), n) + (IF Head(q) = n THEN 1 ELSE 0) <= Count(q, n)
  <1> DEFINE p == Tail(q)
             R == Places(q, n) \ {1}
             f == [i \in Places(p, n) |-> i + 1]
  <1>1. /\ p \in Seq(S) /\ Head(q) = q[1] /\ 1 \in DOMAIN q
        /\ \A i \in DOMAIN p : i + 1 \in DOMAIN q /\ p[i] = q[i + 1]
        /\ DOMAIN p \subseteq Nat \ {0}
    BY TailIs
  <1>2. /\ IsFiniteSet(Places(q, n)) /\ Count(q, n) \in Nat
        /\ IsFiniteSet(Places(p, n)) /\ Count(p, n) \in Nat
    BY <1>1, CountIs
  <1>3. \A i \in Places(p, n) : i \in Nat \ {0} /\ i + 1 \in R
    <2> HIDE DEF p
    <2> TAKE i \in Places(p, n)
    <2>1. i \in DOMAIN p /\ p[i] = n
      BY DEF Places
    <2>2. i + 1 # 1 /\ i \in Nat \ {0}
      BY <1>1, <2>1
    <2> QED  BY <1>1, <2>1, <2>2 DEF Places
  <1>4. f \in Injection(Places(p, n), R)
    BY <1>3 DEF Injection, IsInjective
  <1>5. IsFiniteSet(R) /\ Cardinality(R) = IF 1 \in Places(q, n) THEN Count(q, n) - 1 ELSE Count(q, n)
    BY <1>2, FS_RemoveElement DEF Count
  <1>6. Count(p, n) <= Cardinality(R)
    <2> HIDE DEF f, R, p
    <2> QED  BY <1>4, <1>5, FS_Injection DEF Count
  <1>7. 1 \in Places(q, n) <=> Head(q) = n
    BY <1>1 DEF Places
  <1> HIDE DEF p, R
  <1>8. Count(p, n) + (IF Head(q) = n THEN 1 ELSE 0) <= Count(q, n)
    BY <1>2, <1>5, <1>6, <1>7
  <1> QED  BY <1>2, <1>8 DEF p

-------------------------------------------------------------------------------
(* How PushedOncePerFeed is kept.  An event is somewhere on the way to c, or *)
(* past it, at most once per feed (CopyInv), for it enters each feed once,   *)
(* and nothing on the way is copied; and as long as there is one feed, what  *)
(* is ahead of an event of the same type is older (LineInv).                 *)

Ascending(q) == \A i, j \in DOMAIN q : i < j => q[i] < q[j]
Sorted(q) == \A i, j \in DOMAIN q : i < j /\ TypeOf[q[i]] = TypeOf[q[j]] => q[i] < q[j]
Before(A, B) == \A x \in A, y \in B : TypeOf[x] = TypeOf[y] => x < y
Holding(n) == {f \in DOMAIN feeds : n \in Elements(feeds[f])}

\* Only events that arrived are on their way, and every feed has them in order.
SeenInv ==
    /\ \A c \in Clients : Elements(pushes[c]) \subseteq 1 .. seen /\ Hand(c) \subseteq 1 .. seen
    /\ Elements(broadcast) \subseteq 1 .. seen
    /\ \A f \in DOMAIN feeds : Elements(feeds[f]) \subseteq 1 .. seen /\ Ascending(feeds[f])

CopyInv ==
    \A c \in Clients, n \in Numbers :
      Count(pushes[c], n) + (IF n \in Hand(c) THEN 1 ELSE 0) + Count(broadcast, n)
        + Cardinality(Holding(n)) <= Len(feeds)

LineInv ==
    Len(feeds) <= 1 =>
      /\ Sorted(broadcast)
      /\ \A f \in DOMAIN feeds : Before(Elements(broadcast), Elements(feeds[f]))
      /\ \A c \in Clients :
           /\ Sorted(pushes[c])
           /\ Before(Elements(pushes[c]), Hand(c))
           /\ Before(Elements(pushes[c]), Elements(broadcast))
           /\ Before(Hand(c), Elements(broadcast))
           /\ \A f \in DOMAIN feeds :
                /\ Before(Elements(pushes[c]), Elements(feeds[f]))
                /\ Before(Hand(c), Elements(feeds[f]))

PushInv == SeenInv /\ CopyInv /\ LineInv

\* The event that leaves a feed, and what stays there.
LEMMA CutOf ==
    ASSUME NEW q \in Seq(Numbers), Ascending(q), NEW i \in DOMAIN q,
           \A j \in 1 .. i - 1 : TypeOf[q[j]] # TypeOf[q[i]]
    PROVE  LET r == SubSeq(q, 1, i - 1) \o SubSeq(q, i + 1, Len(q))
           IN  /\ r \in Seq(Numbers) /\ Ascending(r)
               /\ Elements(r) = Elements(q) \ {q[i]}
               /\ Before({q[i]}, Elements(r))
  <1> DEFINE r == SubSeq(q, 1, i - 1) \o SubSeq(q, i + 1, Len(q))
  <1>1. i \in 1 .. Len(q) /\ DOMAIN q = 1 .. Len(q) /\ Len(q) \in Nat
    OBVIOUS
  <1>2. /\ r \in Seq(Numbers) /\ DOMAIN r = 1 .. Len(q) - 1
        /\ \A j \in DOMAIN r : r[j] = IF j < i THEN q[j] ELSE q[j + 1]
    BY <1>1, CutIs
  <1>3. \A j \in DOMAIN q : q[j] \in Nat
    <2>1. Numbers \subseteq Nat /\ \A j \in DOMAIN q : q[j] \in Numbers
      BY HubAssumption DEF Numbers
    <2> QED  BY <2>1
  <1> HIDE DEF r
  <1> DEFINE at(j) == IF j < i THEN j ELSE j + 1
  <1>4. \A j \in DOMAIN r : at(j) \in DOMAIN q /\ at(j) # i /\ r[j] = q[at(j)] /\ j \in Nat
    BY <1>1, <1>2
  <1>5. \A j, k \in DOMAIN r : j < k => at(j) < at(k)
    BY <1>1, <1>2
  <1>6. \A k \in DOMAIN q \ {i} : \E j \in DOMAIN r : at(j) = k
    <2> TAKE k \in DOMAIN q \ {i}
    <2>1. CASE k < i
      <3>1. k \in DOMAIN r /\ at(k) = k
        BY <1>1, <1>2, <2>1
      <3> QED  BY <3>1
    <2>2. CASE ~(k < i)
      <3>1. k - 1 \in DOMAIN r /\ at(k - 1) = k
        BY <1>1, <1>2, <2>2
      <3> QED  BY <3>1
    <2> QED  BY <2>1, <2>2
  <1>7. \A j \in DOMAIN r : j < i => at(j) \in 1 .. i - 1
    BY <1>1, <1>2
  <1>8. \A j \in DOMAIN r : ~(j < i) => i < at(j)
    BY <1>1, <1>2
  <1> HIDE DEF at
  <1>9. Ascending(r)
    BY <1>4, <1>5 DEF Ascending
  <1>10. \A j, k \in DOMAIN q : j # k => q[j] # q[k]
    BY <1>1, <1>3 DEF Ascending
  <1>11. Elements(r) = Elements(q) \ {q[i]}
    <2>1. Elements(r) \subseteq Elements(q) \ {q[i]}
      BY <1>4, <1>10 DEF Elements
    <2>2. Elements(q) \ {q[i]} \subseteq Elements(r)
      BY <1>4, <1>6 DEF Elements
    <2> QED  BY <2>1, <2>2
  <1>12. Before({q[i]}, Elements(r))
    BY <1>4, <1>7, <1>8 DEF Before, Elements, Ascending
  <1> QED  BY <1>2, <1>9, <1>11, <1>12 DEF r

\* A queue takes an event, or gives its first.
LEMMA JoinKeepsOrder ==
    ASSUME NEW q \in Seq(Numbers), NEW x \in Numbers
    PROVE  /\ Sorted(q) /\ Before(Elements(q), {x}) => Sorted(Append(q, x))
           /\ Ascending(q) /\ (\A y \in Elements(q) : y < x) => Ascending(Append(q, x))
  <1> DEFINE p == Append(q, x)
             l == Len(q) + 1
  <1>1. /\ \A i \in DOMAIN q : i \in DOMAIN p /\ p[i] = q[i] /\ i < l
        /\ p[l] = x
        /\ \A i \in DOMAIN p : i \in DOMAIN q \/ i = l
        /\ \A i \in DOMAIN q : ~(l < i)
        /\ ~(l < l)
    <2>1. l \in Nat /\ \A i \in DOMAIN q : i \in Nat /\ i < l
      OBVIOUS
    <2> QED  BY <2>1, AppendIs
  <1> HIDE DEF p, l
  <1>2. ASSUME Sorted(q), Before(Elements(q), {x}) PROVE Sorted(p)
    BY <1>1, <1>2 DEF Sorted, Before, Elements
  <1>3. ASSUME Ascending(q), \A y \in Elements(q) : y < x PROVE Ascending(p)
    BY <1>1, <1>3 DEF Ascending, Elements
  <1> QED  BY <1>2, <1>3 DEF p

LEMMA LeaveKeepsOrder ==
    ASSUME NEW q \in Seq(Numbers), q # <<>>
    PROVE  /\ Elements(Tail(q)) \subseteq Elements(q) /\ Head(q) \in Elements(q)
           /\ Head(q) \in Numbers /\ Tail(q) \in Seq(Numbers)
           /\ Sorted(q) => Sorted(Tail(q)) /\ Before({Head(q)}, Elements(Tail(q)))
  <1> DEFINE p == Tail(q)
  <1>1. /\ p \in Seq(Numbers) /\ Head(q) = q[1] /\ 1 \in DOMAIN q
        /\ \A i \in DOMAIN p : i + 1 \in DOMAIN q /\ p[i] = q[i + 1]
        /\ DOMAIN p \subseteq Nat \ {0}
    BY TailIs
  <1>2. q[1] \in Numbers
    BY <1>1
  <1> HIDE DEF p
  <1>3. Elements(p) \subseteq Elements(q) /\ Head(q) \in Elements(q)
    BY <1>1 DEF Elements
  <1>4. \A i \in DOMAIN p : 1 < i + 1 /\ \A j \in DOMAIN p : i < j => i + 1 < j + 1
    BY <1>1
  <1>5. ASSUME Sorted(q) PROVE Sorted(p) /\ Before({Head(q)}, Elements(p))
    <2>1. Sorted(p)
      BY <1>1, <1>4, <1>5 DEF Sorted
    <2>2. Before({Head(q)}, Elements(p))
      BY <1>1, <1>4, <1>5 DEF Sorted, Before, Elements
    <2> QED  BY <2>1, <2>2
  <1> QED  BY <1>1, <1>2, <1>3, <1>5 DEF p

\* What a step does to the events on their way.
Rest ==
    /\ UNCHANGED <<pushes, broadcast, feeds, seen>>
    /\ \A c \in Clients : Hand(c)' \subseteq Hand(c)

TakeUp ==
    /\ broadcast # <<>> /\ broadcast' = Tail(broadcast)
    /\ UNCHANGED <<pushes, feeds, seen>>
    /\ \A c \in Clients : Hand(c) = {} /\ Hand(c)' \subseteq {Head(broadcast)}

HandOver(c) ==
    /\ UNCHANGED <<broadcast, feeds, seen>>
    /\ \E x \in Numbers :
         /\ Hand(c) = {x} /\ Hand(c)' = {}
         /\ pushes' = [pushes EXCEPT ![c] = Append(@, x)]
    /\ \A d \in Clients : Hand(d)' \subseteq Hand(d)

OpenFeed ==
    /\ feeds' = Append(feeds, <<>>)
    /\ UNCHANGED <<pushes, broadcast, hub, seen>>

LEMMA HubMoves ==
    ASSUME HubInv, HubRun
    PROVE  Rest \/ TakeUp \/ \E c \in Clients : HandOver(c)
  <1> USE DEF HubInv, TypeOK, HubType
  <1>1. ASSUME NEW c \in Clients, Register(c) PROVE Rest
    BY <1>1 DEF Register, Rest, Hand, feedVars, history
  <1>2. ASSUME NEW c \in Clients, Unregister(c) PROVE Rest
    <2>1. hub.pc = "select" /\ hub'.pc # "fanout"
      BY <1>2 DEF Unregister, CloseSend
    <2> QED  BY <1>2, <2>1 DEF Unregister, Rest, Hand, feedVars, history
  <1>3. ASSUME NEW c \in Clients, Visit(c) PROVE Rest
    <2>1. hub.pc = "fanout" /\ c \in hub.todo /\ hub'.event = hub.event /\ hub'.todo \subseteq hub.todo
          /\ hub'.target \in {c, NoClient}
      BY <1>3 DEF Visit
    <2> QED  BY <1>3, <2>1, HubAssumption DEF Visit, Rest, Hand, feedVars, history
  <1>4. ASSUME NEW c \in Clients, Push(c) PROVE Rest \/ HandOver(c)
    <2>1. /\ hub.pc = "fanout" /\ hub.target = c /\ c \notin hub.todo /\ hub.event \in Numbers
          /\ c \in clients /\ c \notin closed
      BY <1>4, HubAssumption DEF Push, FanOutIsRegistered, ClosedIsDropped
    <2>2. hub'.pc = "fanout" /\ hub'.event = hub.event /\ hub'.todo = hub.todo /\ hub'.target = NoClient
      BY <1>4, <2>1 DEF Push, CloseSend
    <2>3. /\ Hand(c) = {hub.event} /\ Hand(c)' = {}
          /\ \A d \in Clients : Hand(d)' \subseteq Hand(d)
      BY <2>1, <2>2, HubAssumption DEF Hand
    <2>4. UNCHANGED <<broadcast, feeds, seen>>
      BY <1>4 DEF Push, feedVars
    <2>5. CASE Len(send[c]) < SendCap
      <3>1. pushes' = [pushes EXCEPT ![c] = Append(@, hub.event)]
        BY <1>4, <2>1, <2>5 DEF Push
      <3> QED  BY <2>1, <2>3, <2>4, <3>1 DEF HandOver
    <2>6. CASE ~(Len(send[c]) < SendCap)
      <3>1. UNCHANGED pushes
        BY <1>4, <2>1, <2>6 DEF Push, history
      <3> QED  BY <2>3, <2>4, <3>1 DEF Rest
    <2> QED  BY <2>5, <2>6
  <1>5. ASSUME FanOut PROVE TakeUp
    BY <1>5 DEF FanOut, TakeUp, Hand, feedVars, history
  <1>6. ASSUME EndFanOut PROVE Rest
    BY <1>6 DEF EndFanOut, Select, Rest, Hand, feedVars, history
  <1> QED  BY <1>1, <1>2, <1>3, <1>4, <1>5, <1>6 DEF HubRun

LEMMA Moves ==
    ASSUME HubInv, [Next]_vars
    PROVE  \/ Rest \/ TakeUp \/ \E c \in Clients : HandOver(c)
           \/ OpenFeed \/ Arrive \/ \E f \in DOMAIN feeds : Broadcast(f)
  <1>1. ASSUME NEW c \in Clients, Connect(c) \/ Break(c) \/ Read(c) \/ ReadFails(c)
                 \/ HandleUnsubscribe(c) \/ Respond(c) \/ WritePump(c)
        PROVE Rest
    <2>1. UNCHANGED <<hub, broadcast, feeds, seen, pushes>>
      BY <1>1 DEF Connect, Break, Read, ReadFails, HandleUnsubscribe, Respond, WritePump,
                  Take, Written, WriteFails, WriteClose, hubVars, feedVars, history
    <2> QED  BY <2>1 DEF Rest, Hand
  <1>2. ASSUME NEW c \in Clients, HandleSubscribe(c) PROVE Rest \/ OpenFeed
    <2>1. UNCHANGED <<hub, broadcast, seen, pushes>>
      BY <1>2 DEF HandleSubscribe, hubVars
    <2> QED  BY <1>2, <2>1 DEF HandleSubscribe, Rest, OpenFeed, Hand
  <1>3. CASE UNCHANGED vars
    BY <1>3 DEF vars, hubVars, feedVars, history, Rest, Hand
  <1> QED  BY <1>1, <1>2, <1>3, HubMoves DEF Next, ReadPump

LEMMA NothingIn == Elements(<<>>) = {} /\ Ascending(<<>>) /\ Sorted(<<>>) /\ \A n : Count(<<>>, n) = 0
  <1>1. Elements(<<>>) = {} /\ Ascending(<<>>) /\ Sorted(<<>>)
    BY DEF Elements, Ascending, Sorted
  <1>2. \A n : Places(<<>>, n) = {}
    BY DEF Places
  <1> QED  BY <1>1, <1>2, FS_EmptySet DEF Count

LEMMA OpenFeedMoves ==
    ASSUME HubInv, OpenFeed
    PROVE  /\ Len(feeds') = Len(feeds) + 1 /\ Len(feeds) \in Nat
           /\ \E l : /\ l \notin DOMAIN feeds /\ feeds'[l] = <<>>
                     /\ DOMAIN feeds' = DOMAIN feeds \cup {l}
           /\ \A f \in DOMAIN feeds : feeds'[f] = feeds[f]
           /\ UNCHANGED <<pushes, broadcast, seen>>
           /\ \A c \in Clients : Hand(c)' = Hand(c)
  <1>1. feeds \in Seq(Seq(Numbers)) /\ feeds' = Append(feeds, <<>>) /\ <<>> \in Seq(Numbers)
    BY DEF HubInv, TypeOK, FeedType, OpenFeed
  <1>2. Len(feeds') = Len(feeds) + 1 /\ Len(feeds) \in Nat
    BY <1>1
  <1>3. /\ feeds'[Len(feeds) + 1] = <<>> /\ Len(feeds) + 1 \notin DOMAIN feeds
        /\ DOMAIN feeds' = DOMAIN feeds \cup {Len(feeds) + 1}
        /\ \A f \in DOMAIN feeds : feeds'[f] = feeds[f]
    BY <1>1, AppendIs
  <1>4. UNCHANGED <<pushes, broadcast, seen>> /\ \A c \in Clients : Hand(c)' = Hand(c)
    BY DEF OpenFeed, Hand
  <1> QED  BY <1>2, <1>3, <1>4

LEMMA ArriveMoves ==
    ASSUME HubInv, SeenInv, Arrive
    PROVE  /\ seen' = seen + 1 /\ seen' \in Numbers /\ seen \in Nat
           /\ Len(feeds') = Len(feeds) /\ DOMAIN feeds' = DOMAIN feeds
           /\ \A f \in DOMAIN feeds : /\ Elements(feeds'[f]) \subseteq Elements(feeds[f]) \cup {seen'}
                                      /\ Elements(feeds[f]) \subseteq Elements(feeds'[f])
                                      /\ Ascending(feeds'[f])
           /\ UNCHANGED <<pushes, broadcast>>
           /\ \A c \in Clients : Hand(c)' = Hand(c)
  <1>1. feeds \in Seq(Seq(Numbers)) /\ seen \in 0 .. Events
    BY DEF HubInv, TypeOK, FeedType
  <1>2. seen' = seen + 1 /\ seen' \in Numbers /\ seen \in Nat
    BY <1>1, HubAssumption DEF Arrive, Numbers
  <1>3. feeds' = [f \in DOMAIN feeds |->
                    IF Len(feeds[f]) < FeedCap THEN Append(feeds[f], seen') ELSE feeds[f]]
    BY DEF Arrive
  <1>4. feeds' \in Seq(Seq(Numbers)) /\ Len(feeds') = Len(feeds) /\ DOMAIN feeds' = DOMAIN feeds
    <2>1. FeedType'
      BY FeedTypeOK DEF HubInv, TypeOK
    <2>2. feeds' \in Seq(Seq(Numbers)) /\ DOMAIN feeds' = DOMAIN feeds
      BY <1>3, <2>1 DEF FeedType
    <2> QED  BY <1>1, <2>2
  <1>5. ASSUME NEW f \in DOMAIN feeds
        PROVE  /\ Elements(feeds'[f]) \subseteq Elements(feeds[f]) \cup {seen'}
               /\ Elements(feeds[f]) \subseteq Elements(feeds'[f])
               /\ Ascending(feeds'[f])
    <2>1. feeds[f] \in Seq(Numbers) /\ Ascending(feeds[f]) /\ Elements(feeds[f]) \subseteq 1 .. seen
      BY <1>1 DEF SeenInv
    <2>2. feeds'[f] = Append(feeds[f], seen') \/ feeds'[f] = feeds[f]
      BY <1>3
    <2>3. \A y \in Elements(feeds[f]) : y < seen'
      BY <1>2, <2>1
    <2>4. Elements(Append(feeds[f], seen')) = Elements(feeds[f]) \cup {seen'}
      BY <1>2, <2>1, AppendIs
    <2>5. Ascending(Append(feeds[f], seen'))
      BY <1>2, <2>1, <2>3, JoinKeepsOrder
    <2> QED  BY <2>1, <2>2, <2>4, <2>5
  <1>6. UNCHANGED <<pushes, broadcast>> /\ \A c \in Clients : Hand(c)' = Hand(c)
    BY DEF Arrive, Hand, hubVars, history
  <1> QED  BY <1>2, <1>4, <1>5, <1>6

LEMMA BroadcastMoves ==
    ASSUME HubInv, SeenInv, NEW f \in DOMAIN feeds, Broadcast(f)
    PROVE  /\ Len(feeds') = Len(feeds) /\ DOMAIN feeds' = DOMAIN feeds
           /\ \A g \in DOMAIN feeds \ {f} : feeds'[g] = feeds[g]
           /\ \E x \in Numbers :
                /\ x \in Elements(feeds[f])
                /\ Elements(feeds'[f]) = Elements(feeds[f]) \ {x}
                /\ Ascending(feeds'[f]) /\ Before({x}, Elements(feeds'[f]))
                /\ broadcast' = broadcast \/ broadcast' = Append(broadcast, x)
           /\ UNCHANGED <<pushes, seen>>
           /\ \A c \in Clients : Hand(c)' = Hand(c)
  <1>1. feeds \in Seq(Seq(Numbers)) /\ feeds[f] \in Seq(Numbers) /\ Ascending(feeds[f])
    <2>1. feeds \in Seq(Seq(Numbers))
      BY DEF HubInv, TypeOK, FeedType
    <2> QED  BY <2>1 DEF SeenInv
  <1>2. PICK i \in DOMAIN feeds[f] :
           /\ \A j \in 1 .. i - 1 : TypeOf[feeds[f][j]] # TypeOf[feeds[f][i]]
           /\ feeds' = [feeds EXCEPT ![f] = SubSeq(@, 1, i - 1) \o SubSeq(@, i + 1, Len(@))]
           /\ broadcast' = IF Len(broadcast) < BroadcastCap
                             THEN Append(broadcast, feeds[f][i]) ELSE broadcast
    BY DEF Broadcast
  <1> DEFINE r == SubSeq(feeds[f], 1, i - 1) \o SubSeq(feeds[f], i + 1, Len(feeds[f]))
             x == feeds[f][i]
  <1>3. /\ r \in Seq(Numbers) /\ Ascending(r)
        /\ Elements(r) = Elements(feeds[f]) \ {x} /\ Before({x}, Elements(r))
    BY <1>1, <1>2, CutOf
  <1>4. feeds'[f] = r /\ DOMAIN feeds' = DOMAIN feeds /\ \A g \in DOMAIN feeds \ {f} : feeds'[g] = feeds[g]
    BY <1>1, <1>2
  <1>5. x \in Numbers /\ x \in Elements(feeds[f])
    BY <1>1, <1>2 DEF Elements
  <1>6. Len(feeds') = Len(feeds)
    <2>1. FeedType'
      BY FeedTypeOK DEF HubInv, TypeOK
    <2>2. feeds' \in Seq(Seq(Numbers))
      BY <2>1 DEF FeedType
    <2> QED  BY <1>1, <1>4, <2>2
  <1>7. UNCHANGED <<pushes, seen>> /\ \A c \in Clients : Hand(c)' = Hand(c)
    BY DEF Broadcast, Hand, history
  <1>8. broadcast' = broadcast \/ broadcast' = Append(broadcast, x)
    BY <1>2
  <1> HIDE DEF r, x
  <1> QED  BY <1>3, <1>4, <1>5, <1>6, <1>7, <1>8

LEMMA QueueTypes ==
    ASSUME HubInv
    PROVE  /\ broadcast \in Seq(Numbers) /\ pushes \in [Clients -> Seq(Numbers)]
           /\ feeds \in Seq(Seq(Numbers)) /\ seen \in Nat /\ Numbers \subseteq Nat
           /\ Len(feeds) \in Nat /\ DOMAIN feeds = 1 .. Len(feeds)
  <1>1. broadcast \in Seq(Numbers) /\ pushes \in [Clients -> Seq(Numbers)] /\ feeds \in Seq(Seq(Numbers))
    BY DEF HubInv, TypeOK, HubType, HistoryType, FeedType
  <1>2. seen \in Nat /\ Numbers \subseteq Nat
    BY HubAssumption DEF HubInv, TypeOK, FeedType, Numbers
  <1> QED  BY <1>1, <1>2

\* What HandOver(c) does to the pushes of the clients.
LEMMA HandOverMoves ==
    ASSUME HubInv, NEW c \in Clients, HandOver(c)
    PROVE  /\ UNCHANGED <<broadcast, feeds, seen>>
           /\ \A d \in Clients \ {c} : pushes'[d] = pushes[d] /\ Hand(d)' \subseteq Hand(d)
           /\ \E x \in Numbers : /\ Hand(c) = {x} /\ Hand(c)' = {}
                                 /\ pushes'[c] = Append(pushes[c], x)
                                 /\ Elements(pushes'[c]) = Elements(pushes[c]) \cup {x}
  <1>1. PICK x \in Numbers : /\ Hand(c) = {x} /\ Hand(c)' = {}
                             /\ pushes' = [pushes EXCEPT ![c] = Append(@, x)]
    BY DEF HandOver
  <1>2. pushes \in [Clients -> Seq(Numbers)]
    BY QueueTypes
  <1>3. pushes'[c] = Append(pushes[c], x) /\ \A d \in Clients \ {c} : pushes'[d] = pushes[d]
    BY <1>1, <1>2
  <1>4. Elements(pushes'[c]) = Elements(pushes[c]) \cup {x}
    BY <1>2, <1>3, AppendIs
  <1>5. UNCHANGED <<broadcast, feeds, seen>> /\ \A d \in Clients : Hand(d)' \subseteq Hand(d)
    BY DEF HandOver
  <1> QED  BY <1>1, <1>3, <1>4, <1>5

LEMMA TakeUpMoves ==
    ASSUME HubInv, TakeUp
    PROVE  /\ UNCHANGED <<pushes, feeds, seen>>
           /\ Elements(broadcast') \subseteq Elements(broadcast)
           /\ \A n : Count(broadcast', n) + (IF Head(broadcast) = n THEN 1 ELSE 0) <= Count(broadcast, n)
           /\ \A n : Count(broadcast', n) \in Nat
           /\ Head(broadcast) \in Elements(broadcast)
           /\ \A c \in Clients : Hand(c) = {} /\ Hand(c)' \subseteq {Head(broadcast)}
           /\ Sorted(broadcast) => Sorted(broadcast') /\ Before({Head(broadcast)}, Elements(broadcast'))
  <1>1. broadcast \in Seq(Numbers) /\ broadcast # <<>> /\ broadcast' = Tail(broadcast)
    BY QueueTypes DEF TakeUp
  <1>2. /\ Elements(broadcast') \subseteq Elements(broadcast) /\ Head(broadcast) \in Elements(broadcast)
        /\ Sorted(broadcast) => Sorted(broadcast') /\ Before({Head(broadcast)}, Elements(broadcast'))
    BY <1>1, LeaveKeepsOrder
  <1>3. \A n : /\ Count(broadcast', n) \in Nat
               /\ Count(broadcast', n) + (IF Head(broadcast) = n THEN 1 ELSE 0) <= Count(broadcast, n)
    BY <1>1, CountTail
  <1> QED  BY <1>2, <1>3 DEF TakeUp

LEMMA SeenStep ==
    ASSUME HubInv, SeenInv, [Next]_vars
    PROVE  SeenInv'
  <1>1. CASE Rest
    BY <1>1 DEF SeenInv, Rest
  <1>2. CASE TakeUp
    BY <1>2, TakeUpMoves DEF SeenInv
  <1>3. ASSUME NEW c \in Clients, HandOver(c) PROVE SeenInv'
    <2>1. \A d \in Clients : Elements(pushes'[d]) \subseteq 1 .. seen /\ Hand(d)' \subseteq 1 .. seen
      BY <1>3, HandOverMoves DEF SeenInv
    <2> QED  BY <1>3, <2>1, HandOverMoves DEF SeenInv
  <1>4. CASE OpenFeed
    BY <1>4, OpenFeedMoves, NothingIn DEF SeenInv
  <1>5. CASE Arrive
    <2>1. 1 .. seen \subseteq 1 .. seen' /\ seen' \in 1 .. seen'
      BY <1>5, ArriveMoves
    <2> QED  BY <1>5, <2>1, ArriveMoves DEF SeenInv
  <1>6. ASSUME NEW f \in DOMAIN feeds, Broadcast(f) PROVE SeenInv'
    <2>1. PICK x \in Numbers :
                /\ x \in Elements(feeds[f])
                /\ Elements(feeds'[f]) = Elements(feeds[f]) \ {x}
                /\ Ascending(feeds'[f])
                /\ broadcast' = broadcast \/ broadcast' = Append(broadcast, x)
      BY <1>6, BroadcastMoves
    <2>2. Elements(broadcast') \subseteq Elements(broadcast) \cup {x}
      <3>1. broadcast \in Seq(Numbers)
        BY QueueTypes
      <3>2. Elements(Append(broadcast, x)) = Elements(broadcast) \cup {x}
        BY <3>1, AppendIs
      <3> QED  BY <2>1, <3>2
    <2>3. /\ DOMAIN feeds' = DOMAIN feeds /\ \A g \in DOMAIN feeds \ {f} : feeds'[g] = feeds[g]
          /\ UNCHANGED <<pushes, seen>> /\ \A c \in Clients : Hand(c)' = Hand(c)
      BY <1>6, BroadcastMoves
    <2>4. Elements(broadcast') \subseteq 1 .. seen'
      BY <2>1, <2>2, <2>3 DEF SeenInv
    <2>5. \A g \in DOMAIN feeds' : Elements(feeds'[g]) \subseteq 1 .. seen' /\ Ascending(feeds'[g])
      BY <2>1, <2>3 DEF SeenInv
    <2> QED  BY <2>3, <2>4, <2>5 DEF SeenInv
  <1> QED  BY <1>1, <1>2, <1>3, <1>4, <1>5, <1>6, Moves

LEMMA LineStep ==
    ASSUME HubInv, SeenInv, LineInv, [Next]_vars
    PROVE  LineInv'
  <1>1. CASE Rest
    BY <1>1 DEF LineInv, Rest, Before
  <1>2. CASE TakeUp
    BY <1>2, TakeUpMoves DEF LineInv, Before
  <1>3. ASSUME NEW c \in Clients, HandOver(c), Len(feeds') <= 1 PROVE LineInv'
    <2>1. PICK x \in Numbers : /\ Hand(c) = {x} /\ Hand(c)' = {}
                               /\ pushes'[c] = Append(pushes[c], x)
                               /\ Elements(pushes'[c]) = Elements(pushes[c]) \cup {x}
      BY <1>3, HandOverMoves
    <2>2. /\ UNCHANGED <<broadcast, feeds, seen>>
          /\ \A d \in Clients \ {c} : pushes'[d] = pushes[d] /\ Hand(d)' \subseteq Hand(d)
      BY <1>3, HandOverMoves
    <2>3. Sorted(pushes'[c])
      <3>1. pushes[c] \in Seq(Numbers) /\ Sorted(pushes[c]) /\ Before(Elements(pushes[c]), {x})
        BY <1>3, <2>1, <2>2, QueueTypes DEF LineInv
      <3>2. Sorted(Append(pushes[c], x))
        BY <3>1, JoinKeepsOrder
      <3> QED  BY <2>1, <3>2
    <2>4. \A d \in Clients \ {c} :
             /\ Sorted(pushes'[d])
             /\ Before(Elements(pushes'[d]), Hand(d)')
             /\ Before(Elements(pushes'[d]), Elements(broadcast'))
             /\ Before(Hand(d)', Elements(broadcast'))
             /\ \A f \in DOMAIN feeds : /\ Before(Elements(pushes'[d]), Elements(feeds'[f]))
                                      /\ Before(Hand(d)', Elements(feeds'[f]))
      BY <1>3, <2>2 DEF LineInv, Before
    <2>5. /\ Before(Elements(pushes'[c]), Hand(c)') /\ Before(Hand(c)', Elements(broadcast'))
          /\ Before(Elements(pushes'[c]), Elements(broadcast'))
          /\ \A f \in DOMAIN feeds : /\ Before(Elements(pushes'[c]), Elements(feeds'[f]))
                                   /\ Before(Hand(c)', Elements(feeds'[f]))
      BY <1>3, <2>1, <2>2 DEF LineInv, Before
    <2>6. /\ Sorted(broadcast')
          /\ \A f \in DOMAIN feeds : Before(Elements(broadcast'), Elements(feeds'[f]))
      BY <1>3, <2>2 DEF LineInv
    <2> QED  BY <2>2, <2>3, <2>4, <2>5, <2>6 DEF LineInv
  <1>4. CASE OpenFeed
    <2>1. Len(feeds') <= 1 => Len(feeds) <= 1
      BY <1>4, OpenFeedMoves
    <2> QED  BY <1>4, <2>1, OpenFeedMoves, NothingIn DEF LineInv, Before
  <1>5. CASE Arrive
    <2>1. \A y \in 1 .. seen : y < seen'
      BY <1>5, ArriveMoves
    <2> QED  BY <1>5, <2>1, ArriveMoves DEF LineInv, Before, SeenInv
  <1>6. ASSUME NEW f \in DOMAIN feeds, Broadcast(f), Len(feeds') <= 1 PROVE LineInv'
    <2>1. PICK x \in Numbers :
                /\ x \in Elements(feeds[f])
                /\ Elements(feeds'[f]) = Elements(feeds[f]) \ {x}
                /\ Before({x}, Elements(feeds'[f]))
                /\ broadcast' = broadcast \/ broadcast' = Append(broadcast, x)
      BY <1>6, BroadcastMoves
    <2>2. /\ DOMAIN feeds' = DOMAIN feeds /\ Len(feeds') = Len(feeds)
          /\ UNCHANGED <<pushes, seen>> /\ \A c \in Clients : Hand(c)' = Hand(c)
      BY <1>6, BroadcastMoves
    <2>3. DOMAIN feeds = {f}
      BY <1>6, <2>2, QueueTypes
    <2>4. Sorted(broadcast') /\ Elements(broadcast') \subseteq Elements(broadcast) \cup {x}
      <3>1. Sorted(broadcast) /\ Before(Elements(broadcast), {x})
        BY <1>6, <2>1, <2>2 DEF LineInv, Before
      <3>2. broadcast \in Seq(Numbers)
        BY QueueTypes
      <3>3. Elements(Append(broadcast, x)) = Elements(broadcast) \cup {x}
        BY <3>2, AppendIs
      <3>4. Sorted(Append(broadcast, x))
        BY <3>1, <3>2, JoinKeepsOrder
      <3> QED  BY <2>1, <3>1, <3>3, <3>4
    <2> QED  BY <1>6, <2>1, <2>2, <2>3, <2>4 DEF LineInv, Before
  <1> QED  BY <1>1, <1>2, <1>3, <1>4, <1>5, <1>6, Moves DEF LineInv

LEMMA AtMost ==
    ASSUME NEW k \in Nat, NEW T \in SUBSET (1 .. k)
    PROVE  IsFiniteSet(T) /\ Cardinality(T) \in Nat /\ Cardinality(T) <= k
  <1>1. IsFiniteSet(1 .. k) /\ Cardinality(1 .. k) = IF 1 > k THEN 0 ELSE k - 1 + 1
    <2>1. 1 \in Int /\ k \in Int
      OBVIOUS
    <2> QED  BY <2>1, FS_Interval
  <1>2. Cardinality(1 .. k) = k
    BY <1>1
  <1>3. IsFiniteSet(T) /\ Cardinality(T) <= Cardinality(1 .. k)
    BY <1>1, FS_Subset
  <1> QED  BY <1>2, <1>3, FS_CardinalityType

LEMMA HoldingIs ==
    ASSUME HubInv, NEW n
    PROVE  IsFiniteSet(Holding(n)) /\ Cardinality(Holding(n)) \in Nat
  <1>1. Len(feeds) \in Nat /\ Holding(n) \in SUBSET (1 .. Len(feeds))
    BY QueueTypes DEF Holding
  <1> QED  BY <1>1, AtMost

LEMMA CopyStep ==
    ASSUME HubInv, SeenInv, CopyInv, [Next]_vars
    PROVE  CopyInv'
  <1> SUFFICES ASSUME NEW c \in Clients, NEW n \in Numbers
               PROVE  Count(pushes'[c], n) + (IF n \in Hand(c)' THEN 1 ELSE 0) + Count(broadcast', n)
                        + Cardinality(Holding(n)') <= Len(feeds')
    BY DEF CopyInv
  <1> DEFINE p == Count(pushes[c], n)
             h == IF n \in Hand(c) THEN 1 ELSE 0
             b == Count(broadcast, n)
             o == Cardinality(Holding(n))
  <1>1. pushes[c] \in Seq(Numbers) /\ broadcast \in Seq(Numbers)
    BY QueueTypes
  <1>2. p \in Nat /\ b \in Nat /\ o \in Nat /\ h \in 0 .. 1
    BY <1>1, CountIs, HoldingIs
  <1>3. p + h + b + o <= Len(feeds) /\ Len(feeds) \in Nat
    BY QueueTypes DEF CopyInv
  <1>4. CASE Rest
    <2>1. UNCHANGED <<pushes, broadcast, feeds>> /\ Hand(c)' \subseteq Hand(c)
      BY <1>4 DEF Rest
    <2>2. Holding(n)' = Holding(n)
      BY <2>1 DEF Holding
    <2> HIDE DEF p, b, o
    <2>3. p + (IF n \in Hand(c)' THEN 1 ELSE 0) + b + o <= Len(feeds)
      BY <1>2, <1>3, <2>1
    <2> QED  BY <2>1, <2>2, <2>3 DEF p, b, o
  <1>5. CASE TakeUp
    <2>1. /\ UNCHANGED <<pushes, feeds>> /\ Hand(c) = {} /\ Hand(c)' \subseteq {Head(broadcast)}
          /\ Count(broadcast', n) \in Nat
          /\ Count(broadcast', n) + (IF Head(broadcast) = n THEN 1 ELSE 0) <= b
      BY <1>5, TakeUpMoves
    <2>2. Holding(n)' = Holding(n)
      BY <2>1 DEF Holding
    <2> HIDE DEF p, b, o
    <2>3. p + (IF n \in Hand(c)' THEN 1 ELSE 0) + Count(broadcast', n) + o <= Len(feeds)
      BY <1>2, <1>3, <2>1
    <2> QED  BY <2>1, <2>2, <2>3 DEF p, b, o
  <1>6. ASSUME NEW k \in Clients, HandOver(k)
        PROVE  Count(pushes'[c], n) + (IF n \in Hand(c)' THEN 1 ELSE 0) + Count(broadcast', n)
                 + Cardinality(Holding(n)') <= Len(feeds')
    <2>1. UNCHANGED <<broadcast, feeds>> /\ Holding(n)' = Holding(n)
      BY <1>6, HandOverMoves DEF Holding
    <2>2. CASE c = k
      <3>1. PICK x \in Numbers : Hand(c) = {x} /\ Hand(c)' = {} /\ pushes'[c] = Append(pushes[c], x)
        BY <1>6, <2>2, HandOverMoves
      <3>2. Count(pushes'[c], n) = p + (IF x = n THEN 1 ELSE 0)
        BY <1>1, <3>1, CountAppend
      <3>3. Count(pushes'[c], n) = p + h /\ n \notin Hand(c)'
        BY <3>1, <3>2
      <3> HIDE DEF p, h, b, o
      <3>4. p + h + 0 + b + o <= Len(feeds)
        BY <1>2, <1>3
      <3> QED  BY <2>1, <3>3, <3>4 DEF b, o
    <2>3. CASE c # k
      <3>1. pushes'[c] = pushes[c] /\ Hand(c)' \subseteq Hand(c)
        BY <1>6, <2>3, HandOverMoves
      <3> HIDE DEF p, b, o
      <3>2. p + (IF n \in Hand(c)' THEN 1 ELSE 0) + b + o <= Len(feeds)
        BY <1>2, <1>3, <3>1
      <3> QED  BY <2>1, <3>1, <3>2 DEF p, b, o
    <2> QED  BY <2>2, <2>3
  <1>7. CASE OpenFeed
    <2>1. /\ UNCHANGED <<pushes, broadcast>> /\ Hand(c)' = Hand(c) /\ Len(feeds') = Len(feeds) + 1
          /\ \E l : /\ l \notin DOMAIN feeds /\ feeds'[l] = <<>>
                    /\ DOMAIN feeds' = DOMAIN feeds \cup {l}
          /\ \A f \in DOMAIN feeds : feeds'[f] = feeds[f]
      BY <1>7, OpenFeedMoves
    <2>2. Holding(n)' = Holding(n)
      BY <2>1, NothingIn DEF Holding
    <2> HIDE DEF p, h, b, o
    <2>3. p + h + b + o <= Len(feeds')
      BY <1>2, <1>3, <2>1
    <2> QED  BY <2>1, <2>2, <2>3 DEF p, h, b, o
  <1>8. CASE Arrive
    <2>1. /\ UNCHANGED <<pushes, broadcast>> /\ Hand(c)' = Hand(c) /\ Len(feeds') = Len(feeds)
          /\ seen' = seen + 1 /\ seen \in Nat /\ DOMAIN feeds' = DOMAIN feeds
          /\ \A f \in DOMAIN feeds : /\ Elements(feeds'[f]) \subseteq Elements(feeds[f]) \cup {seen'}
                                     /\ Elements(feeds[f]) \subseteq Elements(feeds'[f])
      BY <1>8, ArriveMoves
    <2>2. CASE n = seen'
      <3>1. n \notin 1 .. seen
        BY <2>1, <2>2
      <3>2. n \notin Elements(pushes[c]) /\ n \notin Hand(c) /\ n \notin Elements(broadcast)
        BY <3>1 DEF SeenInv
      <3>3. p = 0 /\ h = 0 /\ b = 0
        BY <1>1, <3>2, CountNone
      <3>4. Cardinality(Holding(n)') <= Len(feeds') /\ Cardinality(Holding(n)') \in Nat
        <4>1. Len(feeds') \in Nat /\ Holding(n)' \in SUBSET (1 .. Len(feeds'))
          BY <2>1, QueueTypes DEF Holding
        <4> QED  BY <4>1, AtMost
      <3> HIDE DEF p, h, b, o
      <3>5. p + h + b + Cardinality(Holding(n)') <= Len(feeds')
        BY <3>3, <3>4
      <3> QED  BY <2>1, <3>5 DEF p, h, b
    <2>3. CASE n # seen'
      <3>1. Holding(n)' = Holding(n)
        BY <2>1, <2>3 DEF Holding
      <3> HIDE DEF p, h, b, o
      <3>2. p + h + b + o <= Len(feeds')
        BY <1>3, <2>1
      <3> QED  BY <2>1, <3>1, <3>2 DEF p, h, b, o
    <2> QED  BY <2>2, <2>3
  <1>9. ASSUME NEW f \in DOMAIN feeds, Broadcast(f)
        PROVE  Count(pushes'[c], n) + (IF n \in Hand(c)' THEN 1 ELSE 0) + Count(broadcast', n)
                 + Cardinality(Holding(n)') <= Len(feeds')
    <2>1. PICK x \in Numbers :
                /\ x \in Elements(feeds[f])
                /\ Elements(feeds'[f]) = Elements(feeds[f]) \ {x}
                /\ broadcast' = broadcast \/ broadcast' = Append(broadcast, x)
      BY <1>9, BroadcastMoves
    <2>2. /\ DOMAIN feeds' = DOMAIN feeds /\ Len(feeds') = Len(feeds)
          /\ \A g \in DOMAIN feeds \ {f} : feeds'[g] = feeds[g]
          /\ UNCHANGED pushes /\ Hand(c)' = Hand(c)
      BY <1>9, BroadcastMoves
    <2>3. Count(Append(broadcast, x), n) = b + (IF x = n THEN 1 ELSE 0)
      BY <1>1, CountAppend
    <2>4. Count(broadcast', n) = b \/ Count(broadcast', n) = b + (IF x = n THEN 1 ELSE 0)
      BY <2>1, <2>3
    <2>5. CASE x = n
      <3>1. Holding(n)' = Holding(n) \ {f} /\ f \in Holding(n)
        BY <2>1, <2>2, <2>5 DEF Holding
      <3>2. Cardinality(Holding(n)') = o - 1
        BY <3>1, HoldingIs, FS_RemoveElement
      <3> HIDE DEF p, h, b, o
      <3>3. p + h + Count(broadcast', n) + Cardinality(Holding(n)') <= Len(feeds')
        BY <1>2, <1>3, <2>2, <2>4, <2>5, <3>2
      <3> QED  BY <2>2, <3>3 DEF p, h
    <2>6. CASE x # n
      <3>1. Holding(n)' = Holding(n)
        BY <2>1, <2>2, <2>6 DEF Holding
      <3> HIDE DEF p, h, b, o
      <3>2. Count(broadcast', n) = b
        BY <1>2, <2>4, <2>6
      <3>3. p + h + b + o <= Len(feeds')
        BY <1>3, <2>2
      <3> QED  BY <2>2, <3>1, <3>2, <3>3 DEF p, h, b, o
    <2> QED  BY <2>5, <2>6
  <1> QED  BY <1>4, <1>5, <1>6, <1>7, <1>8, <1>9, Moves

LEMMA PushInit == Init => PushInv
  <1> SUFFICES ASSUME Init PROVE PushInv
    OBVIOUS
  <1>1. /\ \A c \in Clients : pushes[c] = <<>> /\ Hand(c) = {}
        /\ broadcast = <<>> /\ feeds = <<>> /\ seen = 0
    BY DEF Init, Select, Hand
  <1>2. SeenInv
    BY <1>1, NothingIn DEF SeenInv
  <1>3. LineInv
    BY <1>1, NothingIn DEF LineInv, Before
  <1>4. CopyInv
    <2> SUFFICES ASSUME NEW c \in Clients, NEW n \in Numbers
                 PROVE  Count(pushes[c], n) + (IF n \in Hand(c) THEN 1 ELSE 0) + Count(broadcast, n)
                          + Cardinality(Holding(n)) <= Len(feeds)
      BY DEF CopyInv
    <2>1. Holding(n) = {}
      BY <1>1 DEF Holding
    <2>2. Cardinality(Holding(n)) = 0
      BY <2>1, FS_EmptySet
    <2>3. Count(pushes[c], n) = 0 /\ Count(broadcast, n) = 0 /\ n \notin Hand(c) /\ Len(feeds) = 0
      BY <1>1, NothingIn
    <2> QED  BY <2>2, <2>3
  <1> QED  BY <1>2, <1>3, <1>4 DEF PushInv

\* However the feeds, the broadcast channel and the hub take turns, a client is
\* pushed an event at most once per feed; and as long as there is one feed, the
\* events of a type are pushed in the order they arrived.
THEOREM PushedOncePerFeedAlways == Spec => []PushedOncePerFeed
  <1>1. HubInv /\ PushInv /\ [Next]_vars => PushInv'
    BY SeenStep, CopyStep, LineStep DEF PushInv
  <1>2. ASSUME HubInv, PushInv PROVE PushedOncePerFeed
    <2>1. ASSUME NEW c \in Clients, NEW n \in Numbers PROVE Copies(c, n) <= Len(feeds)
      <3> DEFINE p == Count(pushes[c], n)
                 h == IF n \in Hand(c) THEN 1 ELSE 0
                 b == Count(broadcast, n)
                 o == Cardinality(Holding(n))
      <3>1. pushes[c] \in Seq(Numbers) /\ broadcast \in Seq(Numbers) /\ Len(feeds) \in Nat
        BY <1>2, QueueTypes
      <3>2. p \in Nat /\ b \in Nat /\ o \in Nat /\ h \in 0 .. 1
        BY <1>2, <3>1, CountIs, HoldingIs
      <3>3. p + h + b + o <= Len(feeds)
        BY <1>2 DEF PushInv, CopyInv
      <3>4. Copies(c, n) = p
        BY DEF Copies, Count, Places
      <3> HIDE DEF p, h, b, o
      <3> QED  BY <3>1, <3>2, <3>3, <3>4
    <2>2. ASSUME NEW c \in Clients, Len(feeds) = 1 PROVE Sorted(pushes[c])
      BY <1>2, <2>2 DEF PushInv, LineInv
    <2> QED  BY <2>1, <2>2 DEF PushedOncePerFeed, Sorted
  <1>3. HubInv /\ PushInv => PushedOncePerFeed
    BY <1>2
  <1> QED  BY <1>1, <1>3, PushInit, HubInvariant, PTL DEF Spec

===============================================================================
