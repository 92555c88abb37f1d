---------------------------- MODULE UserCacheProofs -----------------------------
(***************************************************************************)
(* What TLAPS proves of the client's cache, for any capacity of its        *)
(* channels, any traffic and any outages.                                  *)
(*                                                                         *)
(* An event can be in three places: the queue of its subscription, eventCh *)
(* and updateCh.  OrderInv says of each place that events of one type are  *)
(* in the order of their numbers, of each two places that those closer to  *)
(* the cache are older, and of all that they are newer than what the cache *)
(* has applied.  So no number is in two places, which is what              *)
(* EachEventOnce and the refinement of EventFeed stand on.                 *)
(***************************************************************************)
EXTENDS UserCache, SequenceTheorems, TLAPS

\* The steps the client can take in any environment, not only in the one of
\* CacheNext: events that arrive, users that are loaded or read.
AnyEvent == {e \in Event : e.type # "deleted" => e.id = e.user.id}
Distinct(users) == \A u, v \in users : u.id = v.id => u = v
Open ==
    \/ \E e \in AnyEvent : Arrive(e)
    \/ \E users \in SUBSET User : Distinct(users) /\ Loaded(users)
    \/ LoadFailed
    \/ \E u \in User : Fill(u)
OpenNext == Startup \/ Pipeline \/ Shutdown \/ Open

LEMMA TrafficIsOpen == CacheNext => OpenNext
  <1>1. TrafficUsers \subseteq User
    BY CacheAssumption DEF TrafficUsers, Event
  <1>2. Traffic \subseteq AnyEvent
    BY CacheAssumption DEF AnyEvent
  <1>3. Environment => Open
    BY <1>1, <1>2 DEF Environment, Open, Distinct
  <1> QED  BY <1>3 DEF CacheNext, OpenNext

-------------------------------------------------------------------------------
(* Queues of numbers.                                                       *)

\* The members of N are in ascending order in q; all in p come before all in q.
Ascending(q, N) ==
    \A i, j \in DOMAIN q : i < j /\ q[i] \in N /\ q[j] \in N => q[i] < q[j]
Ahead(p, q, N) == \A m \in In(p) \cap N, n \in In(q) \cap N : m < n

LEMMA InEmpty == In(<<>>) = {}
  BY DEF In

LEMMA InType ==
    ASSUME NEW S, NEW q \in Seq(S)
    PROVE  In(q) \subseteq S
  BY DEF In

LEMMA InAppend ==
    ASSUME NEW S, NEW q \in Seq(S), NEW x \in S
    PROVE  In(Append(q, x)) = In(q) \cup {x}
  <1>1. In(Append(q, x)) \subseteq In(q) \cup {x}
    BY DEF In
  <1>2. \A i \in DOMAIN q : i \in DOMAIN Append(q, x) /\ Append(q, x)[i] = q[i]
    OBVIOUS
  <1>3. Len(q) + 1 \in DOMAIN Append(q, x) /\ Append(q, x)[Len(q) + 1] = x
    OBVIOUS
  <1> QED  BY <1>1, <1>2, <1>3 DEF In

LEMMA InTail ==
    ASSUME NEW S, NEW q \in Seq(S), q # <<>>
    PROVE  /\ Head(q) \in S
           /\ In(q) = In(Tail(q)) \cup {Head(q)}
  <1>1. Tail(q) \in Seq(S) /\ Len(Tail(q)) = Len(q) - 1 /\ Len(q) > 0 /\ Head(q) = q[1]
    BY HeadTailProperties
  <1>2. \A i \in 1 .. Len(q) - 1 : Tail(q)[i] = q[i + 1]
    BY HeadTailProperties
  <1>3. In(q) \subseteq In(Tail(q)) \cup {Head(q)}
    <2> SUFFICES ASSUME NEW i \in 1 .. Len(q) PROVE q[i] \in In(Tail(q)) \cup {Head(q)}
      BY DEF In
    <2>1. CASE i = 1
      BY <1>1, <2>1
    <2>2. CASE i > 1
      <3>1. i - 1 \in DOMAIN Tail(q) /\ Tail(q)[i - 1] = q[i]
        BY <1>1, <1>2, <2>2
      <3> QED  BY <3>1 DEF In
    <2> QED  BY <2>1, <2>2
  <1>4. In(Tail(q)) \subseteq In(q)
    <2> SUFFICES ASSUME NEW i \in 1 .. Len(q) - 1 PROVE Tail(q)[i] \in In(q)
      BY <1>1 DEF In
    <2> QED  BY <1>1, <1>2 DEF In
  <1>5. Head(q) \in In(q)
    BY <1>1 DEF In
  <1> QED  BY <1>1, <1>3, <1>4, <1>5

LEMMA AscendingAppend ==
    ASSUME NEW q \in Seq(Nat), NEW x \in Nat, NEW N, Ascending(q, N),
           x \in N => \A m \in In(q) \cap N : m < x
    PROVE  Ascending(Append(q, x), N)
  <1>1. DOMAIN Append(q, x) = 1 .. Len(q) + 1 /\ DOMAIN q = 1 .. Len(q) /\ Len(q) \in Nat
    OBVIOUS
  <1>2. Append(q, x)[Len(q) + 1] = x /\ \A i \in 1 .. Len(q) : Append(q, x)[i] = q[i]
    OBVIOUS
  <1>3. \A i \in 1 .. Len(q) : q[i] \in In(q)
    BY <1>1 DEF In
  <1> QED  BY <1>1, <1>2, <1>3 DEF Ascending

LEMMA AscendingTail ==
    ASSUME NEW q \in Seq(Nat), q # <<>>, NEW N, Ascending(q, N)
    PROVE  /\ Ascending(Tail(q), N)
           /\ Head(q) \in N => \A m \in In(Tail(q)) \cap N : Head(q) < m
  <1>1. DOMAIN Tail(q) = 1 .. Len(q) - 1 /\ DOMAIN q = 1 .. Len(q) /\ Len(q) \in Nat \ {0}
    BY HeadTailProperties
  <1>2. Head(q) = q[1] /\ \A i \in 1 .. Len(q) - 1 : Tail(q)[i] = q[i + 1]
    BY HeadTailProperties
  <1> DEFINE p == Tail(q)
  <1>3. \A i \in 1 .. Len(q) - 1 : p[i] = q[i + 1] /\ i + 1 \in 1 .. Len(q)
    BY <1>1, <1>2
  <1>4. DOMAIN p = 1 .. Len(q) - 1
    BY <1>1
  <1>5. \A i \in DOMAIN q : q[i] \in Nat
    BY <1>1
  <1> HIDE DEF p
  <1>6. Ascending(p, N)
    <2> SUFFICES ASSUME NEW i \in DOMAIN p, NEW j \in DOMAIN p, i < j, p[i] \in N, p[j] \in N
                 PROVE  p[i] < p[j]
      BY DEF Ascending
    <2>1. i + 1 \in DOMAIN q /\ j + 1 \in DOMAIN q /\ i + 1 < j + 1
      BY <1>1, <1>4
    <2> QED  BY <1>3, <1>4, <2>1 DEF Ascending
  <1>7. ASSUME Head(q) \in N, NEW m \in In(p) \cap N PROVE Head(q) < m
    <2>1. PICK i \in 1 .. Len(q) - 1 : m = q[i + 1]
      BY <1>3, <1>4 DEF In
    <2> QED  BY <1>1, <1>2, <1>7, <2>1 DEF Ascending
  <1> QED  BY <1>6, <1>7 DEF p

LEMMA AscendingSubset ==
    ASSUME NEW q, NEW N, NEW M, Ascending(q, N), In(q) \cap M \subseteq N
    PROVE  Ascending(q, M)
  BY DEF Ascending, In

LEMMA AscendingEmpty == \A N : Ascending(<<>>, N)
  BY DEF Ascending

-------------------------------------------------------------------------------
(* Types, and the keys of the cache.                                        *)

\* The cache is keyed by the id of the user in it: what makes a load a map again.
KeyedById == \A id \in DOMAIN cache : cache[id].id = id
CacheInv == CacheTypeOK /\ KeyedById

\* A map of users by their ids.
Keyed(c) ==
    /\ DOMAIN c \subseteq Ids \cup {NilId}
    /\ \A id \in DOMAIN c : c[id] \in User /\ c[id].id = id

LEMMA PutKeyed ==
    ASSUME NEW c, Keyed(c), NEW u \in User
    PROVE  Keyed(Put(c, u))
  <1>1. u.id \in Ids \cup {NilId}
    BY DEF User
  <1> QED  BY <1>1 DEF Keyed, Put

LEMMA DropKeyed ==
    ASSUME NEW c, Keyed(c), NEW id
    PROVE  Keyed(Drop(c, id))
  BY DEF Keyed, Drop

LEMMA LoadedKeyed ==
    ASSUME NEW us \in SUBSET User
    PROVE  Keyed([id \in {u.id : u \in us} |-> CHOOSE u \in us : u.id = id])
  <1>1. \A u \in us : u.id \in Ids \cup {NilId}
    BY DEF User
  <1> QED  BY <1>1 DEF Keyed

LEMMA CacheInvInit == CacheInit => CacheInv
  <1> SUFFICES ASSUME CacheInit PROVE CacheInv
    OBVIOUS
  <1>1. 0 <= Cap /\ Len(<<>>) = 0 /\ <<>> \in Seq(Numbers) /\ <<>> \in Seq(Event)
    BY CacheAssumption
  <1>2. eventCh \in Seq(Numbers) /\ Len(eventCh) <= Cap
    BY <1>1 DEF CacheInit
  <1>3. updateCh \in Seq(Numbers) /\ Len(updateCh) <= Cap
    BY <1>1 DEF CacheInit
  <1>4. subq \in [EventTypes -> Seq(Numbers)]
    BY <1>1 DEF CacheInit
  <1>5. arrived \in Seq(Event) /\ latest \in [EventTypes -> 0 .. Len(arrived)]
    BY <1>1 DEF CacheInit
  <1>6. DOMAIN cache = {}
    BY DEF CacheInit
  <1>7. /\ fullyLoaded \in BOOLEAN
        /\ stage \in {"load", "subscribe", "serving", "closed"}
        /\ listening \in SUBSET EventTypes
        /\ processor \in {"running", "draining", "stopped"}
        /\ missed \in SUBSET Numbers
    BY DEF CacheInit
  <1> QED  BY <1>2, <1>3, <1>4, <1>5, <1>6, <1>7 DEF CacheInv, CacheTypeOK, KeyedById

\* The part of the type that is about the way of the events.
WayType ==
    /\ subq \in [EventTypes -> Seq(Numbers)]
    /\ eventCh \in Seq(Numbers) /\ Len(eventCh) <= Cap
    /\ updateCh \in Seq(Numbers) /\ Len(updateCh) <= Cap
    /\ arrived \in Seq(Event)
    /\ latest \in [EventTypes -> 0 .. Len(arrived)]
    /\ missed \in SUBSET Numbers
wayVars == <<subq, eventCh, updateCh, arrived, latest, missed>>

LEMMA WayUntouched == WayType /\ UNCHANGED wayVars => WayType'
  BY DEF WayType, wayVars, Numbers

LEMMA QueueTypes ==
    ASSUME NEW S, NEW q \in Seq(S)
    PROVE  /\ \A x \in S : Append(q, x) \in Seq(S) /\ Len(Append(q, x)) = Len(q) + 1
           /\ q # <<>> => Tail(q) \in Seq(S) /\ Len(Tail(q)) = Len(q) - 1 /\ Head(q) \in S
           /\ Len(q) \in Nat
  OBVIOUS

LEMMA ArrivedType ==
    ASSUME WayType, NEW n \in Numbers
    PROVE  n \in Nat /\ arrived[n] \in Event /\ arrived[n].type \in EventTypes
  <1>1. arrived \in Seq(Event) /\ n \in 1 .. Len(arrived)
    BY DEF WayType, Numbers
  <1>2. n \in Nat /\ arrived[n] \in Event
    BY <1>1
  <1> QED  BY <1>2 DEF Event

\* An event that arrives leaves the numbers and the types of the others alone.
LEMMA ArrivedKeeps ==
    ASSUME WayType, NEW e \in Event, arrived' = Append(arrived, e)
    PROVE  /\ arrived' \in Seq(Event) /\ Len(arrived') = Len(arrived) + 1
           /\ Numbers' = Numbers \cup {Len(arrived')} /\ Len(arrived') \notin Numbers
           /\ \A n \in Numbers : arrived'[n] = arrived[n] /\ n < Len(arrived')
           /\ arrived'[Len(arrived')] = e
  BY DEF WayType, Numbers

LEMMA ArriveWay ==
    ASSUME WayType, NEW e \in Event, Arrive(e)
    PROVE  WayType'
  <1>1. /\ arrived' \in Seq(Event) /\ Len(arrived') = Len(arrived) + 1
        /\ Numbers \subseteq Numbers' /\ Len(arrived') \in Numbers'
    BY ArrivedKeeps DEF Arrive
  <1>2. \A q \in Seq(Numbers) : q \in Seq(Numbers')
    BY <1>1, SeqMonotonic
  <1>3. eventCh' \in Seq(Numbers') /\ updateCh' \in Seq(Numbers')
    BY <1>2 DEF Arrive, WayType
  <1>4. subq' \in [EventTypes -> Seq(Numbers')]
    <2>1. subq \in [EventTypes -> Seq(Numbers')]
      BY <1>2 DEF WayType
    <2>2. CASE UNCHANGED subq
      BY <2>1, <2>2
    <2>3. CASE subq' = [subq EXCEPT ![e.type] = Append(@, Len(arrived'))]
      <3>1. e.type \in EventTypes
        BY DEF Event
      <3>2. Append(subq[e.type], Len(arrived')) \in Seq(Numbers')
        BY <1>1, <2>1, <3>1, QueueTypes
      <3> QED  BY <2>1, <2>3, <3>2
    <2> QED  BY <2>2, <2>3 DEF Arrive
  <1>5. latest' \in [EventTypes -> 0 .. Len(arrived')]
    <2>1. Len(arrived) \in Nat
      BY DEF WayType
    <2> QED  BY <1>1, <2>1 DEF Arrive, WayType
  <1>6. missed' \in SUBSET (Numbers')
    BY <1>1 DEF Arrive, WayType
  <1> QED  BY <1>1, <1>3, <1>4, <1>5, <1>6 DEF WayType, Arrive

LEMMA CallbackWay ==
    ASSUME WayType, NEW t \in EventTypes, Callback(t)
    PROVE  WayType'
  <1>1. subq[t] \in Seq(Numbers) /\ subq[t] # <<>>
    BY DEF WayType, Callback
  <1>2. Tail(subq[t]) \in Seq(Numbers) /\ Head(subq[t]) \in Numbers
    BY <1>1, QueueTypes
  <1>3. subq' \in [EventTypes -> Seq(Numbers)]
    BY <1>2 DEF WayType, Callback
  <1>4. Append(eventCh, Head(subq[t])) \in Seq(Numbers)
        /\ Len(Append(eventCh, Head(subq[t]))) = Len(eventCh) + 1 /\ Len(eventCh) \in Nat
    BY <1>2, QueueTypes DEF WayType
  <1>5. missed \cup {Head(subq[t])} \in SUBSET Numbers
    BY <1>2 DEF WayType
  <1>6. eventCh' \in Seq(Numbers) /\ Len(eventCh') <= Cap /\ missed' \in SUBSET Numbers
    <2>1. CASE Len(eventCh) < Cap
      <3>1. eventCh' = Append(eventCh, Head(subq[t])) /\ missed' = missed
        BY <2>1 DEF Callback
      <3>2. Len(eventCh) + 1 <= Cap
        BY <1>4, <2>1, CacheAssumption
      <3> QED  BY <1>4, <3>1, <3>2 DEF WayType
    <2>2. CASE ~(Len(eventCh) < Cap)
      BY <1>5, <2>2 DEF WayType, Callback
    <2> QED  BY <2>1, <2>2
  <1> QED  BY <1>3, <1>6 DEF WayType, Callback, Numbers

LEMMA ForwardWay ==
    ASSUME WayType, Forward
    PROVE  WayType'
  <1>1. eventCh \in Seq(Numbers) /\ eventCh # <<>>
    BY DEF WayType, Forward
  <1>2. Tail(eventCh) \in Seq(Numbers) /\ Head(eventCh) \in Numbers
        /\ Len(Tail(eventCh)) = Len(eventCh) - 1 /\ Len(eventCh) \in Nat
    BY <1>1, QueueTypes
  <1>3. Append(updateCh, Head(eventCh)) \in Seq(Numbers)
        /\ Len(Append(updateCh, Head(eventCh))) = Len(updateCh) + 1 /\ Len(updateCh) \in Nat
    BY <1>2, QueueTypes DEF WayType
  <1>4. updateCh' \in Seq(Numbers) /\ Len(updateCh') <= Cap /\ missed' \in SUBSET Numbers
    <2>1. CASE Len(updateCh) < Cap
      <3>1. updateCh' = Append(updateCh, Head(eventCh)) /\ missed' = missed
        BY <2>1 DEF Forward
      <3>2. Len(updateCh) + 1 <= Cap
        BY <1>3, <2>1, CacheAssumption
      <3> QED  BY <1>3, <3>1, <3>2 DEF WayType
    <2>2. CASE ~(Len(updateCh) < Cap)
      <3>1. missed \cup {Head(eventCh)} \in SUBSET Numbers
        BY <1>2 DEF WayType
      <3> QED  BY <2>2, <3>1 DEF WayType, Forward
    <2> QED  BY <2>1, <2>2
  <1>5. eventCh' \in Seq(Numbers) /\ Len(eventCh') <= Cap
    BY <1>2, CacheAssumption DEF WayType, Forward
  <1> QED  BY <1>4, <1>5 DEF WayType, Forward, Numbers

LEMMA ApplyWay ==
    ASSUME WayType, Apply
    PROVE  /\ WayType'
           /\ Head(updateCh) \in Numbers
           /\ arrived[Head(updateCh)] \in Event
  <1>1. updateCh \in Seq(Numbers) /\ updateCh # <<>>
    BY DEF WayType, Apply
  <1>2. Tail(updateCh) \in Seq(Numbers) /\ Head(updateCh) \in Numbers
        /\ Len(Tail(updateCh)) = Len(updateCh) - 1 /\ Len(updateCh) \in Nat
    BY <1>1, QueueTypes
  <1>3. arrived[Head(updateCh)] \in Event
    BY <1>2 DEF WayType, Numbers
  <1>4. updateCh' \in Seq(Numbers) /\ Len(updateCh') <= Cap
    BY <1>2, CacheAssumption DEF WayType, Apply
  <1>5. Head(updateCh) \in 0 .. Len(arrived)
    BY <1>2 DEF Numbers
  <1>6. latest' \in [EventTypes -> 0 .. Len(arrived)]
    BY <1>5 DEF WayType, Apply
  <1> QED  BY <1>2, <1>3, <1>4, <1>6 DEF WayType, Apply, Numbers

LEMMA CloseWay ==
    ASSUME WayType, CloseClient
    PROVE  WayType'
  <1>1. \A t \in EventTypes : In(subq[t]) \subseteq Numbers
    BY InType DEF WayType
  <1>2. missed' \in SUBSET Numbers
    BY <1>1 DEF WayType, CloseClient
  <1>3. subq' \in [EventTypes -> Seq(Numbers)]
    BY DEF CloseClient
  <1> QED  BY <1>2, <1>3 DEF WayType, CloseClient, Numbers

LEMMA OtherWays ==
    ASSUME OpenNext
    PROVE  \/ UNCHANGED wayVars
           \/ \E e \in AnyEvent : Arrive(e)
           \/ \E t \in EventTypes : Callback(t)
           \/ Forward \/ Apply \/ CloseClient
  BY DEF OpenNext, Startup, Pipeline, Shutdown, Open, Listen, Serve, Loaded, LoadFailed, Fill,
     NoticeStop, StopProcessor, wayVars

LEMMA CacheInvStep == CacheInv /\ [OpenNext]_cacheVars => CacheInv'
  <1> SUFFICES ASSUME CacheInv, [OpenNext]_cacheVars PROVE CacheInv'
    OBVIOUS
  <1>1. WayType
    BY DEF CacheInv, CacheTypeOK, WayType
  <1>2. WayType'
    <2>1. AnyEvent \subseteq Event
      BY DEF AnyEvent
    <2>2. CASE UNCHANGED wayVars
      BY <1>1, <2>2, WayUntouched
    <2> QED
      BY <1>1, <2>1, <2>2, OtherWays, ArriveWay, CallbackWay, ForwardWay, ApplyWay, CloseWay
      DEF cacheVars, wayVars
  <1>3. Keyed(cache')
    <2>0. Keyed(cache)
      BY DEF CacheInv, CacheTypeOK, KeyedById, Keyed
    <2>1. CASE UNCHANGED cache
      BY <2>0, <2>1
    <2>2. CASE Apply
      <3>1. arrived[Head(updateCh)].user \in User
        BY <1>1, <2>2, ApplyWay DEF Event
      <3> QED  BY <2>0, <2>2, <3>1, PutKeyed, DropKeyed DEF Apply
    <2>3. ASSUME NEW users \in SUBSET User, Loaded(users) PROVE Keyed(cache')
      BY <2>3, LoadedKeyed DEF Loaded
    <2>4. ASSUME NEW u \in User, Fill(u) PROVE Keyed(cache')
      BY <2>0, <2>4, PutKeyed DEF Fill
    <2> QED
      BY <2>1, <2>2, <2>3, <2>4 DEF OpenNext, Startup, Pipeline, Shutdown, Open, Listen, Serve,
         Callback, Forward, Arrive, LoadFailed, CloseClient, NoticeStop, StopProcessor, cacheVars
  <1>4. /\ fullyLoaded' \in BOOLEAN
        /\ stage' \in {"load", "subscribe", "serving", "closed"}
        /\ listening' \in SUBSET EventTypes
        /\ processor' \in {"running", "draining", "stopped"}
    BY DEF CacheInv, CacheTypeOK, OpenNext, Startup, Pipeline, Shutdown, Open, Listen, Serve,
       Callback, Forward, Apply, Arrive, Loaded, LoadFailed, Fill, CloseClient, NoticeStop,
       StopProcessor, cacheVars
  <1> QED  BY <1>2, <1>3, <1>4 DEF CacheInv, CacheTypeOK, KeyedById, WayType, Keyed


-------------------------------------------------------------------------------
(* The way of the events of one type: updateCh, eventCh and the queue of    *)
(* the subscription, as one line whose head is the next to be applied.      *)

Line(u, e, s, N, last) ==
    /\ Ascending(u, N) /\ Ascending(e, N) /\ Ascending(s, N)
    /\ Ahead(u, e, N) /\ Ahead(u, s, N) /\ Ahead(e, s, N)
    /\ \A n \in (In(u) \cup In(e) \cup In(s)) \cap N : last < n

LEMMA LineOther ==
    ASSUME NEW u, NEW e, NEW s, NEW N, NEW M, NEW last, Line(u, e, s, N, last),
           (In(u) \cup In(e) \cup In(s)) \cap M \subseteq N
    PROVE  Line(u, e, s, M, last)
  <1>1. Ascending(u, M) /\ Ascending(e, M) /\ Ascending(s, M)
    BY AscendingSubset DEF Line
  <1> QED  BY <1>1 DEF Line, Ahead

LEMMA LineArrive ==
    ASSUME NEW u \in Seq(Nat), NEW e \in Seq(Nat), NEW s \in Seq(Nat), NEW N, NEW last \in Nat,
           Line(u, e, s, N, last), NEW x \in Nat,
           \A n \in In(u) \cup In(e) \cup In(s) : n < x, last < x
    PROVE  Line(u, e, Append(s, x), N, last)
  <1>1. In(Append(s, x)) = In(s) \cup {x}
    BY InAppend
  <1>2. Ascending(Append(s, x), N)
    BY AscendingAppend DEF Line
  <1> QED  BY <1>1, <1>2 DEF Line, Ahead

LEMMA LineCallback ==
    ASSUME NEW u \in Seq(Nat), NEW e \in Seq(Nat), NEW s \in Seq(Nat), NEW N, NEW last \in Nat,
           Line(u, e, s, N, last), s # <<>>
    PROVE  /\ Line(u, e, Tail(s), N, last)
           /\ Line(u, Append(e, Head(s)), Tail(s), N, last)
  <1>1. Head(s) \in Nat /\ In(s) = In(Tail(s)) \cup {Head(s)}
    BY InTail
  <1>2. In(Append(e, Head(s))) = In(e) \cup {Head(s)}
    BY <1>1, InAppend
  <1>3. /\ Ascending(Tail(s), N)
        /\ Head(s) \in N => \A m \in In(Tail(s)) \cap N : Head(s) < m
    BY AscendingTail DEF Line
  <1>4. Head(s) \in N => \A m \in In(e) \cap N : m < Head(s)
    BY <1>1 DEF Line, Ahead
  <1>5. Ascending(Append(e, Head(s)), N)
    BY <1>1, <1>4, AscendingAppend DEF Line
  <1> QED  BY <1>1, <1>2, <1>3, <1>5 DEF Line, Ahead

LEMMA LineCallbackOther ==
    ASSUME NEW u \in Seq(Nat), NEW e \in Seq(Nat), NEW s \in Seq(Nat), NEW N, NEW last \in Nat,
           Line(u, e, s, N, last), NEW x \in Nat, x \notin N
    PROVE  Line(u, Append(e, x), s, N, last)
  <1>1. In(Append(e, x)) = In(e) \cup {x}
    BY InAppend
  <1>2. Ascending(Append(e, x), N)
    BY AscendingAppend DEF Line
  <1> QED  BY <1>1, <1>2 DEF Line, Ahead

LEMMA LineForward ==
    ASSUME NEW u \in Seq(Nat), NEW e \in Seq(Nat), NEW s \in Seq(Nat), NEW N, NEW last \in Nat,
           Line(u, e, s, N, last), e # <<>>
    PROVE  /\ Line(u, Tail(e), s, N, last)
           /\ Line(Append(u, Head(e)), Tail(e), s, N, last)
  <1>1. Head(e) \in Nat /\ In(e) = In(Tail(e)) \cup {Head(e)}
    BY InTail
  <1>2. In(Append(u, Head(e))) = In(u) \cup {Head(e)}
    BY <1>1, InAppend
  <1>3. /\ Ascending(Tail(e), N)
        /\ Head(e) \in N => \A m \in In(Tail(e)) \cap N : Head(e) < m
    BY AscendingTail DEF Line
  <1>4. Head(e) \in N => \A m \in In(u) \cap N : m < Head(e)
    BY <1>1 DEF Line, Ahead
  <1>5. Ascending(Append(u, Head(e)), N)
    BY <1>1, <1>4, AscendingAppend DEF Line
  <1> QED  BY <1>1, <1>2, <1>3, <1>5 DEF Line, Ahead

LEMMA LineApply ==
    ASSUME NEW u \in Seq(Nat), NEW e \in Seq(Nat), NEW s \in Seq(Nat), NEW N, NEW last \in Nat,
           Line(u, e, s, N, last), u # <<>>
    PROVE  /\ Line(Tail(u), e, s, N, last)
           /\ Head(u) \in N => Line(Tail(u), e, s, N, Head(u))
  <1>1. Head(u) \in Nat /\ In(u) = In(Tail(u)) \cup {Head(u)}
    BY InTail
  <1>2. /\ Ascending(Tail(u), N)
        /\ Head(u) \in N => \A m \in In(Tail(u)) \cap N : Head(u) < m
    BY AscendingTail DEF Line
  <1> QED  BY <1>1, <1>2 DEF Line, Ahead

LEMMA LineClose ==
    ASSUME NEW u, NEW e, NEW s, NEW N, NEW last, Line(u, e, s, N, last)
    PROVE  Line(u, e, <<>>, N, last)
  BY InEmpty, AscendingEmpty DEF Line, Ahead

-------------------------------------------------------------------------------
(* Order.                                                                   *)

OfType(t) == {n \in Numbers : arrived[n].type = t}
OrderInv ==
    \A t \in EventTypes :
      /\ In(subq[t]) \subseteq OfType(t)
      /\ Line(updateCh, eventCh, subq[t], OfType(t), latest[t])

LEMMA WayNumbers ==
    ASSUME WayType
    PROVE  /\ updateCh \in Seq(Nat) /\ eventCh \in Seq(Nat)
           /\ \A t \in EventTypes : subq[t] \in Seq(Nat) /\ latest[t] \in Nat
           /\ In(updateCh) \subseteq Numbers /\ In(eventCh) \subseteq Numbers
           /\ \A t \in EventTypes : In(subq[t]) \subseteq Numbers
  <1>1. Numbers \subseteq Nat
    BY DEF Numbers
  <1>2. \A q \in Seq(Numbers) : q \in Seq(Nat)
    BY <1>1, SeqMonotonic
  <1> QED  BY <1>2, InType DEF WayType

LEMMA OrderInit == CacheInit => OrderInv
  <1> SUFFICES ASSUME CacheInit, NEW t \in EventTypes
               PROVE  In(subq[t]) \subseteq OfType(t)
                      /\ Line(updateCh, eventCh, subq[t], OfType(t), latest[t])
    BY DEF OrderInv
  <1>1. updateCh = <<>> /\ eventCh = <<>> /\ subq[t] = <<>>
    BY DEF CacheInit
  <1> QED  BY <1>1, InEmpty, AscendingEmpty DEF Line, Ahead

LEMMA OrderUntouched == OrderInv /\ UNCHANGED wayVars => OrderInv'
  <1> SUFFICES ASSUME OrderInv, UNCHANGED wayVars PROVE OrderInv'
    OBVIOUS
  <1>1. UNCHANGED <<subq, eventCh, updateCh, arrived, latest>>
    BY DEF wayVars
  <1>2. \A t \in EventTypes : UNCHANGED OfType(t)
    BY <1>1 DEF OfType, Numbers
  <1> QED  BY <1>1, <1>2 DEF OrderInv

LEMMA OrderArrive ==
    ASSUME WayType, OrderInv, NEW e \in Event, Arrive(e)
    PROVE  OrderInv'
  <1> DEFINE x == Len(arrived')
  <1>1. /\ Numbers' = Numbers \cup {x} /\ x \notin Numbers /\ x \in Nat
        /\ \A n \in Numbers : arrived'[n] = arrived[n] /\ n < x
        /\ arrived'[x] = e
    <2>1. Len(arrived) \in Nat
      BY DEF WayType
    <2>2. arrived' = Append(arrived, e)
      BY DEF Arrive
    <2>3. /\ Len(arrived') = Len(arrived) + 1
          /\ Numbers' = Numbers \cup {x} /\ x \notin Numbers
          /\ \A n \in Numbers : arrived'[n] = arrived[n] /\ n < x
          /\ arrived'[x] = e
      BY <2>2, ArrivedKeeps
    <2> QED  BY <2>1, <2>3
  <1> HIDE DEF x
  <1>2. UNCHANGED <<eventCh, updateCh, latest>>
    BY DEF Arrive
  <1> SUFFICES ASSUME NEW t \in EventTypes
               PROVE  /\ In(subq'[t]) \subseteq OfType(t)'
                      /\ Line(updateCh, eventCh, subq'[t], OfType(t)', latest[t])
    BY <1>2 DEF OrderInv
  <1>3. OfType(t) \subseteq OfType(t)' /\ OfType(t)' \subseteq OfType(t) \cup {x}
    BY <1>1 DEF OfType
  <1>4. /\ In(updateCh) \subseteq Numbers /\ In(eventCh) \subseteq Numbers /\ In(subq[t]) \subseteq Numbers
        /\ updateCh \in Seq(Nat) /\ eventCh \in Seq(Nat) /\ subq[t] \in Seq(Nat) /\ latest[t] \in Nat
    BY WayNumbers
  <1>5. Line(updateCh, eventCh, subq[t], OfType(t)', latest[t])
    BY <1>1, <1>3, <1>4, LineOther DEF OrderInv
  <1>6. CASE subq'[t] = subq[t]
    BY <1>3, <1>5, <1>6 DEF OrderInv
  <1>7. CASE subq'[t] # subq[t]
    <2>1. e.type = t /\ subq'[t] = Append(subq[t], x)
      BY <1>7 DEF Arrive, WayType, x
    <2>2. x \in OfType(t)'
      BY <1>1, <2>1 DEF OfType
    <2>3. In(subq'[t]) \subseteq OfType(t)'
      <3>1. In(subq'[t]) = In(subq[t]) \cup {x}
        <4>1. x \in Nat /\ subq[t] \in Seq(Nat)
          BY <1>1, <1>4
        <4> QED  BY <2>1, <4>1, InAppend
      <3> QED  BY <1>3, <2>2, <3>1 DEF OrderInv
    <2>4. latest[t] \in 0 .. Len(arrived) /\ x = Len(arrived) + 1 /\ Len(arrived) \in Nat
      BY DEF WayType, Arrive, x
    <2>5. latest[t] < x
      BY <2>4
    <2>6. \A n \in In(updateCh) \cup In(eventCh) \cup In(subq[t]) : n < x
      BY <1>1, <1>4
    <2> QED  BY <1>1, <1>4, <1>5, <2>1, <2>3, <2>5, <2>6, LineArrive
  <1> QED  BY <1>6, <1>7

LEMMA OrderCallback ==
    ASSUME WayType, OrderInv, NEW r \in EventTypes, Callback(r)
    PROVE  OrderInv'
  <1> DEFINE x == Head(subq[r])
  <1>1. UNCHANGED <<updateCh, latest, arrived>> /\ eventCh' \in {eventCh, Append(eventCh, x)}
    BY DEF Callback
  <1>2. \A t \in EventTypes : UNCHANGED OfType(t)
    BY <1>1 DEF OfType, Numbers
  <1>3. subq[r] # <<>> /\ subq[r] \in Seq(Nat)
    BY WayNumbers DEF Callback
  <1>4. x \in Nat /\ In(subq[r]) = In(Tail(subq[r])) \cup {x}
    BY <1>3, InTail
  <1>5. x \in OfType(r)
    BY <1>4 DEF OrderInv
  <1> SUFFICES ASSUME NEW t \in EventTypes
               PROVE  /\ In(subq'[t]) \subseteq OfType(t)
                      /\ Line(updateCh, eventCh', subq'[t], OfType(t), latest[t])
    BY <1>1, <1>2 DEF OrderInv
  <1>6. /\ updateCh \in Seq(Nat) /\ eventCh \in Seq(Nat) /\ subq[t] \in Seq(Nat) /\ latest[t] \in Nat
        /\ Line(updateCh, eventCh, subq[t], OfType(t), latest[t])
    BY WayNumbers DEF OrderInv
  <1>7. CASE t = r
    <2>1. subq'[t] = Tail(subq[t])
      BY <1>7 DEF Callback, WayType
    <2>2. In(subq'[t]) \subseteq OfType(t)
      BY <1>4, <1>7, <2>1 DEF OrderInv
    <2> QED  BY <1>1, <1>3, <1>6, <1>7, <2>1, <2>2, LineCallback
  <1>8. CASE t # r
    <2>1. subq'[t] = subq[t]
      BY <1>8 DEF Callback, WayType
    <2>2. x \notin OfType(t)
      BY <1>5, <1>8 DEF OfType
    <2>3. In(subq'[t]) \subseteq OfType(t)
      BY <2>1 DEF OrderInv
    <2> QED  BY <1>1, <1>4, <1>6, <2>1, <2>2, <2>3, LineCallbackOther
  <1> QED  BY <1>7, <1>8

LEMMA OrderForward ==
    ASSUME WayType, OrderInv, Forward
    PROVE  OrderInv'
  <1>1. /\ UNCHANGED <<subq, latest, arrived>> /\ eventCh # <<>> /\ eventCh' = Tail(eventCh)
        /\ updateCh' \in {updateCh, Append(updateCh, Head(eventCh))}
    BY DEF Forward
  <1>2. \A t \in EventTypes : UNCHANGED OfType(t)
    BY <1>1 DEF OfType, Numbers
  <1> SUFFICES ASSUME NEW t \in EventTypes
               PROVE  /\ In(subq[t]) \subseteq OfType(t)
                      /\ Line(updateCh', eventCh', subq[t], OfType(t), latest[t])
    BY <1>1, <1>2 DEF OrderInv
  <1>3. /\ updateCh \in Seq(Nat) /\ eventCh \in Seq(Nat) /\ subq[t] \in Seq(Nat) /\ latest[t] \in Nat
        /\ Line(updateCh, eventCh, subq[t], OfType(t), latest[t])
    BY WayNumbers DEF OrderInv
  <1> QED  BY <1>1, <1>3, LineForward DEF OrderInv

LEMMA OrderApply ==
    ASSUME WayType, OrderInv, Apply
    PROVE  OrderInv'
  <1> DEFINE x == Head(updateCh)
  <1>1. /\ UNCHANGED <<subq, eventCh, arrived>> /\ updateCh # <<>> /\ updateCh' = Tail(updateCh)
        /\ latest' = [latest EXCEPT ![arrived[x].type] = x]
    BY DEF Apply
  <1>2. \A t \in EventTypes : UNCHANGED OfType(t)
    BY <1>1 DEF OfType, Numbers
  <1> SUFFICES ASSUME NEW t \in EventTypes
               PROVE  /\ In(subq[t]) \subseteq OfType(t)
                      /\ Line(updateCh', eventCh, subq[t], OfType(t), latest'[t])
    BY <1>1, <1>2 DEF OrderInv
  <1>3. /\ updateCh \in Seq(Nat) /\ eventCh \in Seq(Nat) /\ subq[t] \in Seq(Nat) /\ latest[t] \in Nat
        /\ Line(updateCh, eventCh, subq[t], OfType(t), latest[t])
    BY WayNumbers DEF OrderInv
  <1>4. CASE arrived[x].type = t
    <2>1. x \in OfType(t) /\ latest'[t] = x
      BY <1>1, <1>4, ApplyWay DEF OfType, WayType
    <2> QED  BY <1>1, <1>3, <2>1, LineApply DEF OrderInv
  <1>5. CASE arrived[x].type # t
    <2>1. latest'[t] = latest[t]
      BY <1>1, <1>5 DEF WayType
    <2> QED  BY <1>1, <1>3, <2>1, LineApply DEF OrderInv
  <1> QED  BY <1>4, <1>5

LEMMA OrderClose ==
    ASSUME OrderInv, CloseClient
    PROVE  OrderInv'
  <1>1. UNCHANGED <<updateCh, eventCh, latest, arrived>> /\ \A t \in EventTypes : subq'[t] = <<>>
    BY DEF CloseClient
  <1>2. \A t \in EventTypes : UNCHANGED OfType(t)
    BY <1>1 DEF OfType, Numbers
  <1> SUFFICES ASSUME NEW t \in EventTypes
               PROVE  In(<<>>) \subseteq OfType(t)
                      /\ Line(updateCh, eventCh, <<>>, OfType(t), latest[t])
    BY <1>1, <1>2 DEF OrderInv
  <1> QED  BY InEmpty, LineClose DEF OrderInv

LEMMA OrderStep == WayType /\ OrderInv /\ [OpenNext]_cacheVars => OrderInv'
  <1>1. AnyEvent \subseteq Event
    BY DEF AnyEvent
  <1>2. UNCHANGED cacheVars => UNCHANGED wayVars
    BY DEF cacheVars, wayVars
  <1> QED
    BY <1>1, <1>2, OtherWays, OrderUntouched, OrderArrive, OrderCallback, OrderForward, OrderApply,
       OrderClose


-------------------------------------------------------------------------------
(* Nothing is forgotten on the way.                                         *)

OnWay(t) == In(updateCh) \cup In(eventCh) \cup In(subq[t])
OnceInv ==
    \A n \in Numbers :
      /\ n \in OnWay(arrived[n].type) => n \notin missed
      /\ n \notin OnWay(arrived[n].type) /\ n \notin missed => n <= latest[arrived[n].type]

LEMMA OnceInit == CacheInit => OnceInv
  BY DEF CacheInit, OnceInv, Numbers

LEMMA OnceUntouched == OnceInv /\ UNCHANGED wayVars => OnceInv'
  <1> SUFFICES ASSUME OnceInv, UNCHANGED wayVars PROVE OnceInv'
    OBVIOUS
  <1>1. UNCHANGED <<subq, eventCh, updateCh, arrived, latest, missed>>
    BY DEF wayVars
  <1> QED  BY <1>1 DEF OnceInv, OnWay, Numbers

LEMMA OnceArrive ==
    ASSUME WayType, OnceInv, NEW e \in Event, Arrive(e)
    PROVE  OnceInv'
  <1> DEFINE x == Len(arrived')
  <1>1. /\ Numbers' = Numbers \cup {x} /\ x \notin Numbers
        /\ \A n \in Numbers : arrived'[n] = arrived[n]
        /\ arrived'[x] = e
    BY ArrivedKeeps DEF Arrive
  <1>2. /\ UNCHANGED <<eventCh, updateCh, latest>>
        /\ \/ /\ subq' = [subq EXCEPT ![e.type] = Append(@, x)]
              /\ missed' = missed
           \/ missed' = missed \cup {x} /\ subq' = subq
    BY DEF Arrive
  <1>3. e.type \in EventTypes /\ \A n \in Numbers : arrived[n].type \in EventTypes
    BY ArrivedType DEF Event
  <1>4. x \in Nat
    BY <1>1 DEF Numbers, WayType, Arrive
  <1> HIDE DEF x
  <1>5. \A t \in EventTypes : subq[t] \in Seq(Nat) /\ In(subq[t]) \subseteq Numbers
    BY WayNumbers
  <1>6. /\ In(updateCh) \subseteq Numbers /\ In(eventCh) \subseteq Numbers
        /\ missed \subseteq Numbers /\ subq \in [EventTypes -> Seq(Numbers)]
    BY WayNumbers DEF WayType
  <1>7. \A t \in EventTypes : In(Append(subq[t], x)) = In(subq[t]) \cup {x}
    BY <1>4, <1>5, InAppend
  <1>8. ASSUME NEW n \in Numbers
        PROVE  /\ n \in OnWay(arrived[n].type)' <=> n \in OnWay(arrived[n].type)
               /\ n \in missed' <=> n \in missed
    <2>1. n # x /\ arrived'[n] = arrived[n] /\ arrived[n].type \in EventTypes
      BY <1>1, <1>3
    <2>2. n \in In(subq'[arrived[n].type]) <=> n \in In(subq[arrived[n].type])
      <3>1. CASE subq' = subq
        BY <3>1
      <3>2. CASE subq' = [subq EXCEPT ![e.type] = Append(@, x)]
        <4>1. CASE arrived[n].type = e.type
          <5>1. subq'[arrived[n].type] = Append(subq[arrived[n].type], x)
            BY <1>3, <1>6, <3>2, <4>1
          <5> QED  BY <1>7, <2>1, <5>1
        <4>2. CASE arrived[n].type # e.type
          BY <1>6, <2>1, <3>2, <4>2
        <4> QED  BY <4>1, <4>2
      <3> QED  BY <1>2, <3>1, <3>2
    <2> QED  BY <1>2, <2>1, <2>2 DEF OnWay
  <1>9. /\ x \in OnWay(e.type)' => x \notin missed'
        /\ x \in OnWay(e.type)' \/ x \in missed'
    <2>1. x \notin In(updateCh) /\ x \notin In(eventCh) /\ x \notin In(subq[e.type]) /\ x \notin missed
      BY <1>1, <1>3, <1>5, <1>6
    <2>2. CASE subq' = [subq EXCEPT ![e.type] = Append(@, x)] /\ missed' = missed
      <3>1. In(subq'[e.type]) = In(subq[e.type]) \cup {x}
        BY <1>3, <1>6, <1>7, <2>2
      <3> QED  BY <1>2, <2>1, <2>2, <3>1 DEF OnWay
    <2>3. CASE missed' = missed \cup {x} /\ subq' = subq
      BY <1>2, <2>1, <2>3 DEF OnWay
    <2> QED  BY <1>2, <2>2, <2>3
  <1> SUFFICES ASSUME NEW n \in Numbers'
               PROVE  /\ n \in OnWay(arrived[n].type)' => n \notin missed'
                      /\ n \notin OnWay(arrived[n].type)' /\ n \notin missed'
                           => n <= latest'[arrived'[n].type]
    BY DEF OnceInv
  <1>10. CASE n = x
    BY <1>1, <1>9, <1>10 DEF OnWay
  <1>11. CASE n \in Numbers
    BY <1>1, <1>2, <1>8, <1>11 DEF OnceInv
  <1> QED  BY <1>1, <1>10, <1>11

LEMMA OnceCallback ==
    ASSUME WayType, OrderInv, OnceInv, NEW r \in EventTypes, Callback(r)
    PROVE  OnceInv'
  <1> DEFINE x == Head(subq[r])
  <1>1. /\ UNCHANGED <<updateCh, latest, arrived>>
        /\ \/ eventCh' = Append(eventCh, x) /\ missed' = missed
           \/ missed' = missed \cup {x} /\ eventCh' = eventCh
        /\ subq' = [subq EXCEPT ![r] = Tail(@)] /\ subq[r] # <<>>
    BY DEF Callback
  <1>2. subq[r] \in Seq(Nat) /\ eventCh \in Seq(Nat)
    BY WayNumbers
  <1>3. x \in Nat /\ In(subq[r]) = In(Tail(subq[r])) \cup {x}
    BY <1>1, <1>2, InTail
  <1>4. In(Append(eventCh, x)) = In(eventCh) \cup {x}
    BY <1>2, <1>3, InAppend
  <1>5. x \in OfType(r) /\ Line(updateCh, eventCh, subq[r], OfType(r), latest[r])
    BY <1>3 DEF OrderInv
  <1>6. x \notin In(Tail(subq[r]))
    <2>1. \A m \in In(Tail(subq[r])) \cap OfType(r) : x < m
      BY <1>1, <1>2, <1>5, AscendingTail DEF Line
    <2> QED  BY <1>3, <1>5, <2>1
  <1>7. x \notin In(updateCh) /\ x \notin In(eventCh)
    BY <1>3, <1>5 DEF Line, Ahead
  <1> HIDE DEF x
  <1> SUFFICES ASSUME NEW n \in Numbers
               PROVE  LET t == arrived[n].type
                      IN  /\ n \in OnWay(t)' => n \notin missed'
                          /\ n \notin OnWay(t)' /\ n \notin missed' => n <= latest[t]
    BY <1>1 DEF OnceInv, Numbers
  <1>8. arrived[n].type \in EventTypes /\ subq \in [EventTypes -> Seq(Numbers)]
    BY ArrivedType DEF WayType
  <1>9. CASE n = x
    <2>1. arrived[n].type = r
      BY <1>5, <1>9 DEF OfType
    <2>2. subq'[r] = Tail(subq[r])
      BY <1>1, <1>8
    <2>3. n \notin missed
      BY <1>3, <1>9, <2>1 DEF OnceInv, OnWay
    <2> QED  BY <1>1, <1>4, <1>6, <1>7, <1>9, <2>1, <2>2, <2>3 DEF OnWay
  <1>10. CASE n # x
    <2>0. n \in In(subq'[arrived[n].type]) <=> n \in In(subq[arrived[n].type])
      BY <1>1, <1>3, <1>8, <1>10
    <2>1. n \in OnWay(arrived[n].type)' <=> n \in OnWay(arrived[n].type)
      BY <1>1, <1>4, <1>10, <2>0 DEF OnWay
    <2> QED  BY <1>1, <1>10, <2>1 DEF OnceInv
  <1> QED  BY <1>9, <1>10

LEMMA OnceForward ==
    ASSUME WayType, OrderInv, OnceInv, Forward
    PROVE  OnceInv'
  <1> DEFINE x == Head(eventCh)
             r == arrived[x].type
  <1>1. /\ UNCHANGED <<subq, latest, arrived>>
        /\ \/ updateCh' = Append(updateCh, x) /\ missed' = missed
           \/ missed' = missed \cup {x} /\ updateCh' = updateCh
        /\ eventCh' = Tail(eventCh) /\ eventCh # <<>>
    BY DEF Forward
  <1>2. updateCh \in Seq(Nat) /\ eventCh \in Seq(Nat) /\ In(eventCh) \subseteq Numbers
    BY WayNumbers
  <1>3. x \in Nat /\ In(eventCh) = In(Tail(eventCh)) \cup {x}
    BY <1>1, <1>2, InTail
  <1>4. In(Append(updateCh, x)) = In(updateCh) \cup {x}
    BY <1>2, <1>3, InAppend
  <1>5. r \in EventTypes /\ x \in OfType(r)
    BY <1>2, <1>3, ArrivedType DEF OfType
  <1>6. Line(updateCh, eventCh, subq[r], OfType(r), latest[r])
    BY <1>5 DEF OrderInv
  <1>7. x \notin In(Tail(eventCh))
    <2>1. \A m \in In(Tail(eventCh)) \cap OfType(r) : x < m
      BY <1>1, <1>2, <1>5, <1>6, AscendingTail DEF Line
    <2> QED  BY <1>3, <1>5, <2>1
  <1>8. x \notin In(updateCh) /\ x \notin In(subq[r])
    BY <1>3, <1>5, <1>6 DEF Line, Ahead
  <1> HIDE DEF x
  <1> SUFFICES ASSUME NEW n \in Numbers
               PROVE  LET t == arrived[n].type
                      IN  /\ n \in OnWay(t)' => n \notin missed'
                          /\ n \notin OnWay(t)' /\ n \notin missed' => n <= latest[t]
    BY <1>1 DEF OnceInv, Numbers
  <1>9. CASE n = x
    <2>1. n \notin missed
      BY <1>3, <1>9 DEF OnceInv, OnWay
    <2> QED  BY <1>1, <1>4, <1>7, <1>8, <1>9, <2>1 DEF OnWay
  <1>10. CASE n # x
    <2>1. n \in OnWay(arrived[n].type)' <=> n \in OnWay(arrived[n].type)
      BY <1>1, <1>3, <1>4, <1>10 DEF OnWay
    <2> QED  BY <1>1, <1>10, <2>1 DEF OnceInv
  <1> QED  BY <1>9, <1>10

LEMMA OnceApply ==
    ASSUME WayType, OrderInv, OnceInv, Apply
    PROVE  OnceInv'
  <1> DEFINE x == Head(updateCh)
             r == arrived[x].type
  <1>1. /\ UNCHANGED <<subq, eventCh, arrived, missed>>
        /\ updateCh' = Tail(updateCh) /\ updateCh # <<>>
        /\ latest' = [latest EXCEPT ![r] = x]
    BY DEF Apply
  <1>2. updateCh \in Seq(Nat) /\ In(updateCh) \subseteq Numbers
    BY WayNumbers
  <1>3. x \in Nat /\ In(updateCh) = In(Tail(updateCh)) \cup {x}
    BY <1>1, <1>2, InTail
  <1>4. r \in EventTypes /\ x \in OfType(r)
    BY <1>2, <1>3, ArrivedType DEF OfType
  <1>5. latest[r] < x
    BY <1>3, <1>4 DEF OrderInv, Line
  <1> HIDE DEF x
  <1> SUFFICES ASSUME NEW n \in Numbers
               PROVE  LET t == arrived[n].type
                      IN  /\ n \in OnWay(t)' => n \notin missed
                          /\ n \notin OnWay(t)' /\ n \notin missed => n <= latest'[t]
    BY <1>1 DEF OnceInv, Numbers
  <1>6. arrived[n].type \in EventTypes /\ n \in Nat
    BY ArrivedType
  <1>7. latest \in [EventTypes -> Nat]
    BY DEF WayType
  <1>8. n \in OnWay(arrived[n].type)' => n \in OnWay(arrived[n].type)
    BY <1>1, <1>3 DEF OnWay
  <1>9. CASE n = x
    <2>1. latest'[arrived[n].type] = x
      BY <1>1, <1>6, <1>7, <1>9
    <2> QED  BY <1>6, <1>8, <1>9, <2>1 DEF OnceInv
  <1>10. CASE n # x
    <2>1. n \in OnWay(arrived[n].type) => n \in OnWay(arrived[n].type)'
      BY <1>1, <1>3, <1>10 DEF OnWay
    <2>2. latest[arrived[n].type] <= latest'[arrived[n].type]
      BY <1>1, <1>3, <1>5, <1>6, <1>7
    <2>3. latest[arrived[n].type] \in Nat /\ latest'[arrived[n].type] \in Nat
      BY <1>1, <1>3, <1>6, <1>7
    <2> QED  BY <1>6, <1>8, <2>1, <2>2, <2>3 DEF OnceInv
  <1> QED  BY <1>9, <1>10

LEMMA OnceClose ==
    ASSUME WayType, OrderInv, OnceInv, CloseClient
    PROVE  OnceInv'
  <1>1. /\ UNCHANGED <<updateCh, eventCh, latest, arrived>>
        /\ \A t \in EventTypes : subq'[t] = <<>>
        /\ missed' = missed \cup UNION {In(subq[t]) : t \in EventTypes}
    BY DEF CloseClient
  <1> SUFFICES ASSUME NEW n \in Numbers
               PROVE  LET t == arrived[n].type
                      IN  /\ n \in OnWay(t)' => n \notin missed'
                          /\ n \notin OnWay(t)' /\ n \notin missed' => n <= latest[t]
    BY <1>1 DEF OnceInv, Numbers
  <1> DEFINE t == arrived[n].type
  <1>2. t \in EventTypes /\ n \in Nat /\ n \in OfType(t)
    BY ArrivedType DEF OfType
  <1>3. OnWay(t)' = In(updateCh) \cup In(eventCh)
    BY <1>1, <1>2, InEmpty DEF OnWay
  <1>4. ASSUME n \in OnWay(t)' PROVE n \notin missed'
    <2>1. n \notin missed
      BY <1>3, <1>4 DEF OnceInv, OnWay
    <2>2. n \notin In(subq[t])
      BY <1>2, <1>3, <1>4 DEF OrderInv, Line, Ahead
    <2>3. \A r \in EventTypes : n \in In(subq[r]) => r = t
      BY DEF OrderInv, OfType
    <2> QED  BY <1>1, <2>1, <2>2, <2>3
  <1>5. ASSUME n \notin OnWay(t)', n \notin missed' PROVE n <= latest[t]
    <2>1. n \notin OnWay(t) /\ n \notin missed
      BY <1>1, <1>2, <1>3, <1>5 DEF OnWay
    <2> QED  BY <2>1 DEF OnceInv
  <1> QED  BY <1>4, <1>5

LEMMA OnceStep == WayType /\ OrderInv /\ OnceInv /\ [OpenNext]_cacheVars => OnceInv'
  <1>1. AnyEvent \subseteq Event
    BY DEF AnyEvent
  <1>2. UNCHANGED cacheVars => UNCHANGED wayVars
    BY DEF cacheVars, wayVars
  <1> QED
    BY <1>1, <1>2, OtherWays, OnceUntouched, OnceArrive, OnceCallback, OnceForward, OnceApply,
       OnceClose

-------------------------------------------------------------------------------
(* The invariant of the client in any environment, and what follows.        *)

\* What arrives is the event of the user in it.
IdsMatch == \A n \in Numbers : arrived[n] \in AnyEvent

ClientInv == CacheInv /\ OrderInv /\ OnceInv /\ IdsMatch

LEMMA ClientInit == CacheInit => ClientInv
  BY CacheInvInit, OrderInit, OnceInit DEF ClientInv, IdsMatch, CacheInit, Numbers

LEMMA ClientStep == ClientInv /\ [OpenNext]_cacheVars => ClientInv'
  <1> SUFFICES ASSUME ClientInv, [OpenNext]_cacheVars PROVE ClientInv'
    OBVIOUS
  <1>1. WayType
    BY DEF ClientInv, CacheInv, CacheTypeOK, WayType
  <1>2. CacheInv' /\ OrderInv' /\ OnceInv'
    BY <1>1, CacheInvStep, OrderStep, OnceStep DEF ClientInv
  <1>3. IdsMatch'
    <2>1. CASE UNCHANGED arrived
      BY <2>1 DEF ClientInv, IdsMatch, Numbers
    <2>2. ASSUME NEW e \in AnyEvent, Arrive(e) PROVE IdsMatch'
      <3>1. e \in Event /\ arrived' = Append(arrived, e)
        BY <2>2 DEF AnyEvent, Arrive
      <3>2. /\ Numbers' = Numbers \cup {Len(arrived')}
            /\ \A n \in Numbers : arrived'[n] = arrived[n]
            /\ arrived'[Len(arrived')] = e
        BY <1>1, <3>1, ArrivedKeeps
      <3> QED  BY <3>2 DEF ClientInv, IdsMatch
    <2>3. UNCHANGED arrived \/ \E e \in AnyEvent : Arrive(e)
      BY OtherWays DEF wayVars, cacheVars, Callback, Forward, Apply, CloseClient
    <2> QED  BY <2>1, <2>2, <2>3
  <1> QED  BY <1>2, <1>3 DEF ClientInv

LEMMA InConcat ==
    ASSUME NEW p \in Seq(Nat), NEW q \in Seq(Nat)
    PROVE  In(p \o q) = In(p) \cup In(q)
  <1>1. Len(p) \in Nat /\ Len(q) \in Nat /\ DOMAIN (p \o q) = 1 .. Len(p) + Len(q)
    OBVIOUS
  <1>2. \A i \in 1 .. Len(p) + Len(q) :
          (p \o q)[i] = IF i <= Len(p) THEN p[i] ELSE q[i - Len(p)]
    OBVIOUS
  <1>3. \A i \in 1 .. Len(q) : i + Len(p) \in DOMAIN (p \o q) /\ (p \o q)[i + Len(p)] = q[i]
    BY <1>1, <1>2
  <1>4. \A i \in 1 .. Len(p) : i \in DOMAIN (p \o q) /\ (p \o q)[i] = p[i]
    BY <1>1, <1>2
  <1>5. In(p) \subseteq In(p \o q) /\ In(q) \subseteq In(p \o q)
    <2> DEFINE w == p \o q
    <2>1. \A i \in DOMAIN p : \E j \in DOMAIN w : w[j] = p[i]
      BY <1>4
    <2>2. ASSUME NEW i \in DOMAIN q PROVE \E j \in DOMAIN w : w[j] = q[i]
      <3>1. i + Len(p) \in DOMAIN w /\ w[i + Len(p)] = q[i]
        BY <1>3
      <3> QED  BY <3>1
    <2> HIDE DEF w
    <2>3. In(p) \subseteq In(w) /\ In(q) \subseteq In(w)
      BY <2>1, <2>2 DEF In
    <2> QED  BY <2>3 DEF w
  <1>6. ASSUME NEW i \in DOMAIN (p \o q) PROVE (p \o q)[i] \in In(p) \cup In(q)
    <2>1. CASE i <= Len(p)
      BY <1>1, <1>2, <2>1 DEF In
    <2>2. CASE ~(i <= Len(p))
      <3>1. i - Len(p) \in 1 .. Len(q) /\ (p \o q)[i] = q[i - Len(p)]
        BY <1>1, <1>2, <2>2
      <3> QED  BY <3>1 DEF In
    <2> QED  BY <2>1, <2>2
  <1> QED  BY <1>5, <1>6 DEF In

LEMMA AscendingConcat ==
    ASSUME NEW p \in Seq(Nat), NEW q \in Seq(Nat), NEW N,
           Ascending(p, N), Ascending(q, N), Ahead(p, q, N)
    PROVE  Ascending(p \o q, N)
  <1>1. Len(p) \in Nat /\ Len(q) \in Nat /\ DOMAIN (p \o q) = 1 .. Len(p) + Len(q)
    OBVIOUS
  <1>2. \A i \in 1 .. Len(p) + Len(q) :
          (p \o q)[i] = IF i <= Len(p) THEN p[i] ELSE q[i - Len(p)]
    OBVIOUS
  <1> DEFINE w == p \o q
  <1> SUFFICES ASSUME NEW i \in DOMAIN w, NEW j \in DOMAIN w, i < j, w[i] \in N, w[j] \in N
               PROVE  w[i] < w[j]
    BY DEF Ascending
  <1>3. CASE j <= Len(p)
    <2>1. i \in DOMAIN p /\ j \in DOMAIN p /\ w[i] = p[i] /\ w[j] = p[j]
      BY <1>1, <1>2, <1>3
    <2> QED  BY <2>1 DEF Ascending
  <1>4. CASE i <= Len(p) /\ ~(j <= Len(p))
    <2>1. i \in DOMAIN p /\ j - Len(p) \in DOMAIN q /\ w[i] = p[i] /\ w[j] = q[j - Len(p)]
      BY <1>1, <1>2, <1>4
    <2> QED  BY <2>1 DEF Ahead, In
  <1>5. CASE ~(i <= Len(p))
    <2>1. /\ i - Len(p) \in DOMAIN q /\ j - Len(p) \in DOMAIN q /\ i - Len(p) < j - Len(p)
          /\ w[i] = q[i - Len(p)] /\ w[j] = q[j - Len(p)]
      BY <1>1, <1>2, <1>5
    <2> QED  BY <2>1 DEF Ascending
  <1> QED  BY <1>1, <1>3, <1>4, <1>5

\* The way of a type, read from its head, as InOrderPerType has it.
LEMMA UnderwayInOrder ==
    ASSUME WayType, NEW t \in EventTypes, Line(updateCh, eventCh, subq[t], OfType(t), latest[t])
    PROVE  /\ Underway(t) \in Seq(Nat)
           /\ In(Underway(t)) = OnWay(t)
           /\ Ascending(Underway(t), OfType(t))
  <1> DEFINE p == updateCh \o eventCh
  <1>1. updateCh \in Seq(Nat) /\ eventCh \in Seq(Nat) /\ subq[t] \in Seq(Nat)
    BY WayNumbers
  <1>2. p \in Seq(Nat) /\ In(p) = In(updateCh) \cup In(eventCh)
    BY <1>1, InConcat
  <1>3. Ascending(p, OfType(t))
    BY <1>1, AscendingConcat DEF Line
  <1>4. Ahead(p, subq[t], OfType(t))
    BY <1>2 DEF Line, Ahead
  <1> HIDE DEF p
  <1>5. p \o subq[t] \in Seq(Nat) /\ In(p \o subq[t]) = In(p) \cup In(subq[t])
    BY <1>1, <1>2, InConcat
  <1>6. Ascending(p \o subq[t], OfType(t))
    BY <1>1, <1>2, <1>3, <1>4, AscendingConcat DEF Line
  <1> QED  BY <1>2, <1>5, <1>6 DEF Underway, OnWay, p

LEMMA ClientFacts ==
    ClientInv => CacheTypeOK /\ InOrderPerType /\ EachEventOnce
  <1> SUFFICES ASSUME ClientInv PROVE InOrderPerType /\ EachEventOnce
    BY DEF ClientInv, CacheInv
  <1>1. WayType
    BY DEF ClientInv, CacheInv, CacheTypeOK, WayType
  <1>2. \A t \in EventTypes : Line(updateCh, eventCh, subq[t], OfType(t), latest[t])
    BY DEF ClientInv, OrderInv
  <1>3. InOrderPerType
    <2> SUFFICES ASSUME NEW t \in EventTypes
                 PROVE  LET w == Underway(t)
                            Of == {i \in DOMAIN w : arrived[w[i]].type = t}
                        IN  /\ \A i \in Of : w[i] > latest[t]
                            /\ \A i, j \in Of : i < j => w[i] < w[j]
      BY DEF InOrderPerType
    <2> DEFINE w == Underway(t)
    <2>1. w \in Seq(Nat) /\ In(w) = OnWay(t) /\ Ascending(w, OfType(t))
      BY <1>1, <1>2, UnderwayInOrder
    <2>2. OnWay(t) \subseteq Numbers /\ latest[t] \in Nat
      BY <1>1, WayNumbers DEF OnWay
    <2>3. \A i \in DOMAIN w : w[i] \in OnWay(t) /\ w[i] \in Nat
      BY <2>1 DEF In
    <2> HIDE DEF w
    <2>4. \A i \in DOMAIN w : arrived[w[i]].type = t => w[i] \in OfType(t)
      BY <2>2, <2>3 DEF OfType
    <2>5. \A i \in DOMAIN w : w[i] \in OfType(t) => latest[t] < w[i]
      BY <1>2, <2>3 DEF Line, OnWay
    <2>6. \A i \in DOMAIN w : w[i] \in OfType(t) => w[i] > latest[t]
      BY <2>2, <2>3, <2>5
    <2> QED  BY <2>1, <2>4, <2>6 DEF Ascending, w
  <1>4. EachEventOnce
    <2>1. \A n \in Numbers : In(Underway(arrived[n].type)) = OnWay(arrived[n].type)
      BY <1>1, <1>2, ArrivedType, UnderwayInOrder
    <2> QED  BY <2>1 DEF EachEventOnce, ClientInv, OnceInv
  <1> QED  BY <1>3, <1>4

LEMMA ClientAlways == CacheSpec => []ClientInv
  <1>1. ClientInv /\ [CacheNext]_cacheVars => ClientInv'
    BY TrafficIsOpen, ClientStep
  <1> QED  BY <1>1, ClientInit, PTL DEF CacheSpec

\* Every variable of the client stays in its type; neither channel outgrows its
\* capacity, whoever fills it.
THEOREM CacheTypeCorrect == CacheSpec => []CacheTypeOK
  BY ClientAlways, ClientFacts, PTL

\* The events of one type reach the cache in the order they arrived, whatever
\* the callbacks, the forwarder, the processor and Close do in between.
THEOREM EventsInOrder == CacheSpec => []InOrderPerType
  BY ClientAlways, ClientFacts, PTL

\* No event is forgotten, or is in two places: it is underway, missed or applied.
THEOREM EventsOnce == CacheSpec => []EachEventOnce
  BY ClientAlways, ClientFacts, PTL

-------------------------------------------------------------------------------
(* The refinement of EventFeed.                                             *)

\* Until the client serves, nothing has been applied; until it has asked for the
\* users, its cache is empty.
StartInv ==
    /\ stage \in {"load", "subscribe"} => updateCh = <<>> /\ \A t \in EventTypes : latest[t] = 0
    /\ stage = "load" => DOMAIN cache = {}

LEMMA StartInit == CacheInit => StartInv
  BY DEF CacheInit, StartInv

LEMMA StartStep == StartInv /\ [CacheNext]_cacheVars => StartInv'
  BY DEF StartInv, CacheNext, Startup, Pipeline, Shutdown, Environment, Listen, Serve, Callback,
     Forward, Apply, Arrive, Loaded, LoadFailed, Fill, CloseClient, NoticeStop, StopProcessor,
     cacheVars

\* What EventFeed calls pending.
Pending == In(eventCh) \cup In(updateCh) \cup UNION {In(subq[t]) : t \in EventTypes}
Stutters == UNCHANGED <<cache, arrived, latest, Pending, processor = "stopped">>
Loses == UNCHANGED <<cache, arrived, latest, processor>> /\ Pending' \subseteq Pending

LEMMA InPending ==
    /\ \A n : n \in Pending <=> n \in In(eventCh) \/ n \in In(updateCh)
                               \/ \E t \in EventTypes : n \in In(subq[t])
    /\ \A n : n \in Pending' <=> n \in In(eventCh') \/ n \in In(updateCh')
                                \/ \E t \in EventTypes : n \in In(subq'[t])
  BY DEF Pending

LEMMA FeedNames ==
    Feed!EventTypes = EventTypes /\ Feed!Event = Event /\ Feed!ZeroUser = ZeroUser
  BY DEF EventTypes, Feed!EventTypes, Event, Feed!Event, User, Feed!User, ZeroUser, Feed!ZeroUser

LEMMA FeedInitially == CacheInit => Feed!FeedInit
  <1> SUFFICES ASSUME CacheInit PROVE Feed!FeedInit
    OBVIOUS
  <1>1. Pending = {}
    BY InEmpty DEF CacheInit, Pending
  <1>2. (processor = "stopped") = FALSE
    BY DEF CacheInit
  <1>3. /\ cache = [id \in {} |-> ZeroUser] /\ arrived = <<>>
        /\ latest = [t \in EventTypes |-> 0]
    BY DEF CacheInit
  <1> QED  BY <1>1, <1>2, <1>3, FeedNames DEF Feed!FeedInit, Pending

LEMMA FeedStutters == Stutters => UNCHANGED Feed!feedVars
  BY DEF Stutters, Feed!feedVars, Pending

LEMMA FeedLoses == Loses => Feed!FeedLose
  <1> SUFFICES ASSUME Loses PROVE Feed!FeedLose
    OBVIOUS
  <1> DEFINE N == Pending \ Pending'
  <1>1. N \in SUBSET Pending /\ Pending' = Pending \ N
    BY DEF Loses
  <1> QED  BY <1>1 DEF Loses, Feed!FeedLose, Pending

LEMMA FeedArrives ==
    ASSUME WayType, NEW e \in Event, Arrive(e)
    PROVE  Feed!FeedArrive
  <1> DEFINE x == Len(arrived')
  <1>1. arrived' = Append(arrived, e) /\ UNCHANGED <<cache, latest, processor, eventCh, updateCh>>
    BY DEF Arrive
  <1>2. /\ Len(arrived') = Len(arrived) + 1 /\ arrived'[x] = e
        /\ arrived \in Seq(Event) /\ Len(arrived) \in Nat
    BY <1>1 DEF WayType
  <1>3. SubSeq(arrived', 1, Len(arrived)) = arrived
    BY <1>1, <1>2
  <1>4. Pending' \in {Pending, Pending \cup {x}}
    <2>1. CASE UNCHANGED subq
      BY <1>1, <2>1 DEF Pending
    <2>2. CASE subq' = [subq EXCEPT ![e.type] = Append(@, x)]
      <3>1. /\ e.type \in EventTypes /\ subq \in [EventTypes -> Seq(Numbers)]
            /\ subq[e.type] \in Seq(Nat) /\ x \in Nat
        BY <1>2, WayNumbers DEF WayType, Event
      <3>2. In(Append(subq[e.type], x)) = In(subq[e.type]) \cup {x}
        BY <3>1, InAppend
      <3>3. subq'[e.type] = Append(subq[e.type], x)
        BY <2>2, <3>1
      <3>4. \A t \in EventTypes \ {e.type} : subq'[t] = subq[t]
        BY <2>2, <3>1
      <3>5. \A t \in EventTypes : In(subq'[t]) \subseteq In(subq[t]) \cup {x}
        BY <3>2, <3>3, <3>4
      <3>6. \A t \in EventTypes : In(subq[t]) \subseteq In(subq'[t])
        BY <3>2, <3>3, <3>4
      <3>7. x \in In(subq'[e.type])
        BY <3>2, <3>3
      <3> HIDE DEF x
      <3>8. Pending' = Pending \cup {x}
        <4>1. \A n : n \in Pending' => n \in Pending \cup {x}
          BY <1>1, <3>5, InPending
        <4>2. \A n : n \in Pending \cup {x} => n \in Pending'
          BY <1>1, <3>1, <3>6, <3>7, InPending
        <4> QED  BY <4>1, <4>2
      <3> QED  BY <3>8
    <2> QED  BY <2>1, <2>2 DEF Arrive
  <1>5. UNCHANGED (processor = "stopped")
    BY <1>1
  <1> QED  BY <1>1, <1>2, <1>3, <1>4, <1>5, FeedNames DEF Feed!FeedArrive, Pending

LEMMA FeedApplies ==
    ASSUME ClientInv, Apply
    PROVE  \E n \in Pending : Feed!FeedApply(n)
  <1> DEFINE x == Head(updateCh)
             e == arrived[x]
             others == In(eventCh) \cup UNION {In(subq[t]) : t \in EventTypes}
  <1>1. WayType
    BY DEF ClientInv, CacheInv, CacheTypeOK, WayType
  <1>2. /\ UNCHANGED <<subq, eventCh, arrived, processor>> /\ processor # "stopped"
        /\ updateCh # <<>> /\ updateCh' = Tail(updateCh)
        /\ latest' = [latest EXCEPT ![e.type] = x]
        /\ cache' = IF e.type = "deleted" THEN Drop(cache, e.id) ELSE Put(cache, e.user)
    BY DEF Apply
  <1>3. updateCh \in Seq(Nat) /\ In(updateCh) \subseteq Numbers
    BY <1>1, WayNumbers
  <1>4. x \in Nat /\ In(updateCh) = In(Tail(updateCh)) \cup {x}
    BY <1>2, <1>3, InTail
  <1>5. x \in Numbers /\ e.type \in EventTypes /\ x \in OfType(e.type)
    BY <1>1, <1>3, <1>4, ArrivedType DEF OfType
  <1>6. e.type # "deleted" => e.id = e.user.id
    BY <1>5 DEF ClientInv, IdsMatch, AnyEvent
  <1> HIDE DEF x
  <1>7. Line(updateCh, eventCh, subq[e.type], OfType(e.type), latest[e.type])
    BY <1>5 DEF ClientInv, OrderInv
  <1>8. \A m \in In(Tail(updateCh)) \cap OfType(e.type) : x < m
    BY <1>2, <1>3, <1>5, <1>7, AscendingTail DEF Line, x
  <1>9. \A m \in others \cap OfType(e.type) : x < m
    <2>1. \A m \in In(eventCh) \cap OfType(e.type) : x < m
      BY <1>4, <1>5, <1>7 DEF Line, Ahead
    <2>2. \A t \in EventTypes : \A m \in In(subq[t]) \cap OfType(e.type) : t = e.type
      BY DEF ClientInv, OrderInv, OfType
    <2>3. \A m \in In(subq[e.type]) \cap OfType(e.type) : x < m
      BY <1>4, <1>5, <1>7 DEF Line, Ahead
    <2> QED  BY <2>1, <2>2, <2>3
  <1>10. x \in Pending /\ Pending = In(Tail(updateCh)) \cup {x} \cup others
    BY <1>4 DEF Pending
  <1>11. x \notin In(Tail(updateCh)) /\ x \notin others
    BY <1>4, <1>5, <1>8, <1>9
  <1>12. Pending' = Pending \ {x}
    BY <1>2, <1>10, <1>11 DEF Pending
  <1>13. x > latest[e.type]
    <2>1. latest[e.type] < x /\ latest[e.type] \in Nat
      BY <1>1, <1>4, <1>5, <1>7, WayNumbers DEF Line
    <2> QED  BY <1>4, <2>1
  <1>14. ASSUME NEW m \in Pending, arrived[m].type = e.type PROVE x <= m
    <2>1. m \in Numbers /\ m \in Nat
      <3>1. Pending \subseteq Numbers
        BY <1>1, WayNumbers DEF Pending
      <3> QED  BY <1>1, <3>1, ArrivedType
    <2>2. m \in OfType(e.type)
      BY <1>14, <2>1 DEF OfType
    <2> QED  BY <1>4, <1>8, <1>9, <1>10, <2>1, <2>2
  <1>15. cache' = [id \in (DOMAIN cache \ {e.id}) \cup (IF e.type = "deleted" THEN {} ELSE {e.id})
                     |-> IF id = e.id THEN e.user ELSE cache[id]]
    <2>1. CASE e.type = "deleted"
      BY <1>2, <2>1 DEF Drop
    <2>2. CASE e.type # "deleted"
      BY <1>2, <1>6, <2>2 DEF Put
    <2> QED  BY <2>1, <2>2
  <1> HIDE DEF e, others
  <1>16. Feed!FeedApply(x)
    BY <1>2, <1>12, <1>13, <1>14, <1>15 DEF Feed!FeedApply, Pending, e
  <1> QED  BY <1>10, <1>16

LEMMA FeedLoads ==
    ASSUME StartInv, NEW us \in SUBSET User, Loaded(us)
    PROVE  Feed!FeedLoad
  <1>1. /\ UNCHANGED <<eventCh, updateCh, subq, arrived, latest, processor>>
        /\ cache' = [id \in {u.id : u \in us} |-> CHOOSE u \in us : u.id = id]
        /\ stage = "load"
    BY DEF Loaded
  <1>2. Keyed(cache')
    BY <1>1, LoadedKeyed
  <1>3. DOMAIN cache = {} /\ \A t \in EventTypes : latest[t] = 0
    BY <1>1 DEF StartInv
  <1>4. UNCHANGED Pending /\ UNCHANGED (processor = "stopped")
    BY <1>1 DEF Pending
  <1> QED  BY <1>1, <1>2, <1>3, <1>4, FeedNames DEF Feed!FeedLoad, Pending, Keyed

LEMMA FeedFills ==
    ASSUME NEW u \in User, Fill(u)
    PROVE  Feed!FeedFill
  <1>1. UNCHANGED <<eventCh, updateCh, subq, arrived, latest, processor>> /\ cache' = Put(cache, u)
    BY DEF Fill
  <1>2. /\ u.id \in DOMAIN cache' /\ DOMAIN cache' = DOMAIN cache \cup {u.id}
        /\ cache'[u.id].id = u.id
        /\ \A other \in DOMAIN cache \ {u.id} : cache'[other] = cache[other]
    BY <1>1 DEF Put
  <1>3. UNCHANGED Pending /\ UNCHANGED (processor = "stopped")
    BY <1>1 DEF Pending
  <1> QED  BY <1>1, <1>2, <1>3 DEF Feed!FeedFill, Pending

\* The hand-overs and Close take events off the way or leave it as it is.
LEMMA PipelineLoses ==
    ASSUME WayType,
           (\E t \in EventTypes : Callback(t)) \/ Forward \/ CloseClient
    PROVE  Loses
  <1>1. UNCHANGED <<cache, arrived, latest, processor>>
    BY DEF Callback, Forward, CloseClient
  <1>2. ASSUME NEW r \in EventTypes, Callback(r) PROVE Pending' \subseteq Pending
    <2>1. /\ subq' = [subq EXCEPT ![r] = Tail(@)] /\ subq[r] # <<>> /\ updateCh' = updateCh
          /\ eventCh' \in {eventCh, Append(eventCh, Head(subq[r]))}
      BY <1>2 DEF Callback
    <2>2. eventCh \in Seq(Nat) /\ subq[r] \in Seq(Nat) /\ subq \in [EventTypes -> Seq(Numbers)]
      BY WayNumbers DEF WayType
    <2>3. Head(subq[r]) \in Nat /\ In(subq[r]) = In(Tail(subq[r])) \cup {Head(subq[r])}
      BY <2>1, <2>2, InTail
    <2>4. In(Append(eventCh, Head(subq[r]))) = In(eventCh) \cup {Head(subq[r])}
      BY <2>2, <2>3, InAppend
    <2>5. \A t \in EventTypes : In(subq'[t]) \subseteq In(subq[t])
      <3>1. subq'[r] = Tail(subq[r]) /\ \A t \in EventTypes \ {r} : subq'[t] = subq[t]
        BY <2>1, <2>2
      <3> QED  BY <2>3, <3>1
    <2>6. In(eventCh') \subseteq In(eventCh) \cup In(subq[r])
      BY <2>1, <2>3, <2>4
    <2> QED  BY <2>1, <2>5, <2>6 DEF Pending
  <1>3. CASE Forward
    <2>1. /\ eventCh' = Tail(eventCh) /\ eventCh # <<>> /\ subq' = subq
          /\ updateCh' \in {updateCh, Append(updateCh, Head(eventCh))}
      BY <1>3 DEF Forward
    <2>2. eventCh \in Seq(Nat) /\ updateCh \in Seq(Nat)
      BY WayNumbers
    <2>3. Head(eventCh) \in Nat /\ In(eventCh) = In(Tail(eventCh)) \cup {Head(eventCh)}
      BY <2>1, <2>2, InTail
    <2>4. In(Append(updateCh, Head(eventCh))) = In(updateCh) \cup {Head(eventCh)}
      BY <2>2, <2>3, InAppend
    <2>5. In(eventCh') \subseteq In(eventCh) /\ In(updateCh') \subseteq In(updateCh) \cup In(eventCh)
      BY <2>1, <2>3, <2>4
    <2>6. \A n : n \in Pending' => n \in Pending
      BY <2>1, <2>5, InPending
    <2> QED  BY <1>1, <2>6 DEF Loses
  <1>4. CASE CloseClient
    <2>1. eventCh' = eventCh /\ updateCh' = updateCh /\ \A t \in EventTypes : subq'[t] = <<>>
      BY <1>4 DEF CloseClient
    <2>2. \A t \in EventTypes : In(subq'[t]) = {}
      BY <2>1, InEmpty
    <2>3. \A n : n \in Pending' => n \in Pending
      BY <2>1, <2>2, InPending
    <2> QED  BY <1>1, <2>3 DEF Loses
  <1> QED  BY <1>1, <1>2, <1>3, <1>4 DEF Loses

LEMMA FeedClosesOrStutters ==
    ASSUME \/ \E t \in EventTypes : Listen(t)
           \/ Serve \/ LoadFailed \/ NoticeStop \/ StopProcessor \/ UNCHANGED cacheVars
    PROVE  Feed!FeedClose \/ Stutters
  <1>1. UNCHANGED <<cache, eventCh, updateCh, subq, arrived, latest>>
    BY DEF Listen, Serve, LoadFailed, NoticeStop, StopProcessor, cacheVars
  <1>2. UNCHANGED Pending
    BY <1>1 DEF Pending
  <1>3. CASE StopProcessor
    <2>1. (processor = "stopped")' = TRUE
      BY <1>3 DEF StopProcessor
    <2> QED  BY <1>1, <1>2, <2>1 DEF Feed!FeedClose, Pending
  <1>4. CASE ~StopProcessor
    <2>1. UNCHANGED (processor = "stopped")
      BY <1>4 DEF Listen, Serve, LoadFailed, NoticeStop, cacheVars
    <2> QED  BY <1>1, <1>2, <2>1 DEF Stutters
  <1> QED  BY <1>3, <1>4

LEMMA FeedStep ==
    ASSUME ClientInv, StartInv, [CacheNext]_cacheVars
    PROVE  [Feed!FeedNext]_Feed!feedVars
  <1>1. WayType
    BY DEF ClientInv, CacheInv, CacheTypeOK, WayType
  <1>2. TrafficUsers \subseteq User /\ Traffic \subseteq Event
    BY CacheAssumption DEF TrafficUsers, Event
  <1>3. CASE \E e \in Traffic : Arrive(e)
    BY <1>1, <1>2, <1>3, FeedArrives DEF Feed!FeedNext
  <1>4. CASE (\E t \in EventTypes : Callback(t)) \/ Forward \/ CloseClient
    BY <1>1, <1>4, PipelineLoses, FeedLoses DEF Feed!FeedNext
  <1>5. CASE Apply
    BY <1>5, FeedApplies DEF Feed!FeedNext, Pending
  <1>6. CASE \E us \in SUBSET TrafficUsers : Loaded(us)
    BY <1>2, <1>6, FeedLoads DEF Feed!FeedNext
  <1>7. CASE \E u \in TrafficUsers : Fill(u)
    BY <1>2, <1>7, FeedFills DEF Feed!FeedNext
  <1>8. CASE \/ \E t \in EventTypes : Listen(t)
             \/ Serve \/ LoadFailed \/ NoticeStop \/ StopProcessor \/ UNCHANGED cacheVars
    BY <1>8, FeedClosesOrStutters, FeedStutters DEF Feed!FeedNext
  <1> QED
    BY <1>3, <1>4, <1>5, <1>6, <1>7, <1>8 DEF CacheNext, Startup, Pipeline, Shutdown, Environment

\* The client's two channels and three goroutines implement a feed without them:
\* the cache shows the load, the reads that missed, and the events applied so far
\* in the order of their types, and nothing reaches it once the client is closed.
THEOREM CacheRefinesFeed == CacheSpec => ImplementsFeed
  <1>1. ClientInv /\ [CacheNext]_cacheVars => ClientInv'
    BY TrafficIsOpen, ClientStep
  <1>2. ClientInv /\ StartInv /\ [CacheNext]_cacheVars => [Feed!FeedNext]_Feed!feedVars
    BY FeedStep
  <1> QED
    BY <1>1, <1>2, ClientInit, StartInit, StartStep, FeedInitially, PTL
    DEF CacheSpec, ImplementsFeed, Feed!FeedSpec

===============================================================================
