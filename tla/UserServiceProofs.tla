--------------------------- MODULE UserServiceProofs ---------------------------
(***************************************************************************)
(* What TLAPS proves of the user service, for any number of users, emails, *)
(* calls and restarts, and with any query failing at any time.             *)
(*                                                                         *)
(* Every argument starts from what a repository call can return, whatever  *)
(* the table is: Sound below, proved once for each of the seven methods.   *)
(* The handlers only carry that result on.                                 *)
(***************************************************************************)
EXTENDS UserService, SequenceTheorems, TLAPS

-------------------------------------------------------------------------------
(* The repository.                                                          *)

Unambiguous(t) == \A a, b \in Live(t) : t[a].email = t[b].email => a = b

\* What may be relied on of an outcome of a repository call on table t.
Sound(t, o) ==
    /\ o.db \in [Ids -> Row]
    /\ o.users \subseteq LiveUsers(o.db) \cup {ZeroUser}
    /\ o.err # "none" => o.users = {}
    /\ \A id \in Ids : t[id].state = "deleted" => o.db[id] = t[id]
    /\ \A id \in Ids : t[id].state # "absent" => o.db[id].state # "absent"
    /\ Unambiguous(t) => Unambiguous(o.db)

\* The same of a query, before the repository looks at its error.
Queried(t, o) ==
    /\ Sound(t, o)
    /\ o.err \in {"none", "noRows", "unique", "failed"}

LEMMA LiveUserType == \A t \in [Ids -> Row] : LiveUsers(t) \subseteq User
  BY DEF LiveUsers, UserOf, User, Row, Live

LEMMA SameTable ==
    ASSUME NEW t \in [Ids -> Row], NEW err, NEW users \in SUBSET LiveUsers(t),
           err # "none" => users = {}
    PROVE  Sound(t, Outcome(t, err, users))
  BY DEF Sound, Outcome, LiveUsers

LEMMA InsertSound ==
    ASSUME NEW t \in [Ids -> Row], NEW email \in Emails \cup {NoEmail}, NEW o \in InsertUser(t, email)
    PROVE  Queried(t, o)
  <1>1. CASE Holders(t, email) # {}
    BY <1>1, SameTable DEF InsertUser, Queried, Outcome
  <1>2. CASE Holders(t, email) = {}
    <2>1. PICK id \in Absent(t) :
            o = Outcome([t EXCEPT ![id] = LiveRow(email, 1)], "none",
                        {UserOf([t EXCEPT ![id] = LiveRow(email, 1)], id)})
      BY <1>2 DEF InsertUser
    <2> DEFINE new == [t EXCEPT ![id] = LiveRow(email, 1)]
    <2>2. id \in Ids /\ t[id].state = "absent"
      BY DEF Absent
    <2>3. new \in [Ids -> Row]
      BY <2>2 DEF LiveRow, Row
    <2>4. new[id] = LiveRow(email, 1) /\ \A i \in Ids \ {id} : new[i] = t[i]
      BY <2>2
    <2>5. Live(new) = Live(t) \cup {id}
      BY <2>2, <2>4 DEF Live, LiveRow
    <2>6. UserOf(new, id) \in LiveUsers(new)
      BY <2>5 DEF LiveUsers
    <2>7. Unambiguous(t) => Unambiguous(new)
      BY <1>2, <2>2, <2>4, <2>5 DEF Unambiguous, Holders, LiveRow, Live
    <2>8. o.db = new /\ o.err = "none" /\ o.users = {UserOf(new, id)}
      BY <2>1 DEF Outcome
    <2> HIDE DEF new
    <2> QED  BY <2>2, <2>3, <2>4, <2>6, <2>7, <2>8 DEF Queried, Sound, LiveRow
  <1> QED  BY <1>1, <1>2

LEMMA SelectSound ==
    ASSUME NEW t \in [Ids -> Row], NEW ids \in SUBSET Live(t), NEW o \in SelectUser(t, ids)
    PROVE  Queried(t, o)
  <1>1. CASE ids = {}
    BY <1>1, SameTable DEF SelectUser, Queried, Outcome
  <1>2. CASE ids # {}
    <2>1. PICK id \in ids : o = Outcome(t, "none", {UserOf(t, id)})
      BY <1>2 DEF SelectUser
    <2>2. {UserOf(t, id)} \subseteq LiveUsers(t)
      BY <2>1 DEF LiveUsers
    <2> QED  BY <2>1, <2>2, SameTable DEF Queried, Outcome
  <1> QED  BY <1>1, <1>2

LEMMA PageSound ==
    ASSUME NEW t \in [Ids -> Row], NEW o \in SelectPage(t) \cup SelectAll(t)
    PROVE  Queried(t, o)
  <1>1. PICK page \in SUBSET LiveUsers(t) : o = Outcome(t, "none", page)
    BY DEF SelectPage, SelectAll
  <1> QED  BY <1>1, SameTable DEF Queried, Outcome

LEMMA SetSound ==
    ASSUME NEW t \in [Ids -> Row], NEW id \in Ids \cup {NilId}, NEW email \in Emails \cup {NoEmail},
           NEW o \in SetUser(t, id, email)
    PROVE  Queried(t, o)
  <1>1. CASE id \notin Live(t)
    BY <1>1, SameTable DEF SetUser, Queried, Outcome
  <1>2. CASE id \in Live(t) /\ Holders(t, email) \ {id} # {}
    BY <1>2, SameTable DEF SetUser, Queried, Outcome
  <1>3. CASE id \in Live(t) /\ Holders(t, email) \ {id} = {}
    <2> DEFINE row == LiveRow(email, t[id].rev + 1)
               new == [t EXCEPT ![id] = row]
    <2>1. o = Outcome(new, "none", {UserOf(new, id)})
      BY <1>3 DEF SetUser
    <2>2. id \in Ids /\ t[id].state = "live"
      BY <1>3 DEF Live
    <2>3. row \in Row /\ row.state = "live" /\ row.email = email
      BY <2>2 DEF LiveRow, Row
    <2> HIDE DEF row
    <2>4. new \in [Ids -> Row] /\ new[id] = row /\ \A i \in Ids \ {id} : new[i] = t[i]
      BY <2>2, <2>3
    <2>5. Live(new) = Live(t)
      BY <2>2, <2>3, <2>4 DEF Live
    <2>6. UserOf(new, id) \in LiveUsers(new)
      BY <1>3, <2>5 DEF LiveUsers
    <2>7. Unambiguous(t) => Unambiguous(new)
      BY <1>3, <2>2, <2>3, <2>4, <2>5 DEF Unambiguous, Holders, Live
    <2>8. o.db = new /\ o.err = "none" /\ o.users = {UserOf(new, id)}
      BY <2>1 DEF Outcome
    <2> HIDE DEF new
    <2> QED  BY <2>2, <2>3, <2>4, <2>6, <2>7, <2>8 DEF Queried, Sound
  <1> QED  BY <1>1, <1>2, <1>3

LEMMA DeleteSound ==
    ASSUME NEW t \in [Ids -> Row], NEW id \in Ids \cup {NilId}, NEW o \in SoftDelete(t, id)
    PROVE  Queried(t, o)
  <1>1. CASE id \notin Live(t)
    BY <1>1, SameTable DEF SoftDelete, Queried, Outcome
  <1>2. CASE id \in Live(t)
    <2> DEFINE new == [t EXCEPT ![id].state = "deleted"]
    <2>1. o.db = new /\ o.err = "none" /\ o.users = {}
      BY <1>2 DEF SoftDelete, Outcome
    <2>2. id \in Ids /\ t[id].state = "live"
      BY <1>2 DEF Live
    <2>3. /\ new \in [Ids -> Row] /\ new[id].state = "deleted"
          /\ \A i \in Ids \ {id} : new[i] = t[i]
      BY <2>2 DEF Row
    <2>4. Live(new) = Live(t) \ {id}
      BY <2>2, <2>3 DEF Live
    <2>5. Unambiguous(t) => Unambiguous(new)
      BY <2>3, <2>4 DEF Unambiguous, Live
    <2> HIDE DEF new
    <2> QED  BY <2>1, <2>2, <2>3, <2>5 DEF Queried, Sound
  <1> QED  BY <1>1, <1>2

\* A failing query changes the table either as the query would have, or not.
LEMMA AttemptSound ==
    ASSUME NEW t \in [Ids -> Row], NEW outcomes, \A o \in outcomes : Queried(t, o),
           NEW h \in Health, NEW o \in Attempt(t, outcomes, h)
    PROVE  Queried(t, o) /\ (o \in outcomes \/ o.err = "failed")
  <1>1. CASE o \in outcomes
    BY <1>1
  <1>2. CASE o = Outcome(t, "failed", {})
    BY <1>2, SameTable DEF Queried, Outcome
  <1>3. ASSUME NEW q \in outcomes, o = Outcome(q.db, "failed", {}) PROVE Queried(t, o) /\ o.err = "failed"
    <2>1. Queried(t, q)
      OBVIOUS
    <2> QED  BY <1>3, <2>1 DEF Queried, Sound, Outcome
  <1> QED  BY <1>1, <1>2, <1>3 DEF Attempt, Health

Cases == {NoCases, NoRows, Unique, Both}

\* The repository changes only the error, and drops what goes with one.
LEMMA MappedSound ==
    ASSUME NEW t \in [Ids -> Row], NEW outcomes, \A o \in outcomes : Queried(t, o),
           NEW errors \in Cases, NEW o \in Mapped(outcomes, errors)
    PROVE  /\ Sound(t, o) /\ o.err \in Errors
           /\ o.err = "notFound" => \E q \in outcomes : q.err = "noRows" /\ q.db = o.db
  <1>1. PICK q \in outcomes :
          o = CASE q.err = "none" -> q
                [] q.err \in DOMAIN errors -> Outcome(q.db, errors[q.err], {})
                [] OTHER -> Outcome(q.db, "internal", {})
    BY DEF Mapped
  <1>2. Queried(t, q)
    OBVIOUS
  <1>3. /\ DOMAIN NoCases = {} /\ DOMAIN NoRows = {"noRows"} /\ DOMAIN Unique = {"unique"}
        /\ DOMAIN Both = {"noRows", "unique"}
        /\ NoRows["noRows"] = "notFound" /\ Unique["unique"] = "alreadyExists"
        /\ Both["noRows"] = "notFound" /\ Both["unique"] = "alreadyExists"
    BY DEF NoCases, NoRows, Unique, Both
  <1>4. q.err \in DOMAIN errors =>
          /\ q.err # "none" /\ errors[q.err] \in {"notFound", "alreadyExists"}
          /\ errors[q.err] = "notFound" => q.err = "noRows"
    BY <1>3 DEF Cases
  <1>5. CASE q.err = "none"
    <2>1. o = q
      BY <1>1, <1>4, <1>5
    <2> QED  BY <1>2, <1>5, <2>1 DEF Queried, Errors
  <1>6. CASE q.err \in DOMAIN errors
    <2>1. o = Outcome(q.db, errors[q.err], {})
      BY <1>1, <1>4, <1>6
    <2> QED  BY <1>2, <1>4, <1>6, <2>1 DEF Queried, Sound, Outcome, Errors
  <1>7. CASE q.err # "none" /\ q.err \notin DOMAIN errors
    <2>1. o = Outcome(q.db, "internal", {})
      BY <1>1, <1>7
    <2> QED  BY <1>2, <2>1 DEF Queried, Sound, Outcome, Errors
  <1> QED  BY <1>5, <1>6, <1>7

LEMMA SwallowedSound ==
    ASSUME NEW t \in [Ids -> Row], NEW outcomes,
           \A o \in outcomes : Sound(t, o) /\ o.err \in Errors,
           NEW o \in Swallowed(outcomes)
    PROVE  Sound(t, o) /\ o.err \in Errors /\ (o.err = "notFound" => o \in outcomes)
  <1>1. PICK q \in outcomes :
          o = IF q.err = "internal" THEN Outcome(q.db, "none", {ZeroUser}) ELSE q
    BY DEF Swallowed
  <1>2. Sound(t, q) /\ q.err \in Errors
    OBVIOUS
  <1> QED  BY <1>1, <1>2 DEF Sound, Outcome, Errors

\* What every method of the repository may return; and that a user it did not
\* find by id is not live.
Returned(t, o) == Sound(t, o) /\ o.err \in Errors

LEMMA CreateReturns ==
    ASSUME NEW t \in [Ids -> Row], NEW email \in Emails \cup {NoEmail}, NEW h \in Health,
           NEW o \in Create(t, email, h)
    PROVE  Returned(t, o)
  <1>1. \A q \in Attempt(t, InsertUser(t, email), h) : Queried(t, q)
    BY InsertSound, AttemptSound
  <1> QED  BY <1>1, MappedSound DEF Create, Cases, Returned

LEMMA GetByIDReturns ==
    ASSUME NEW t \in [Ids -> Row], NEW id \in Ids \cup {NilId}, NEW h \in Health,
           NEW o \in GetByID(t, id, h)
    PROVE  Returned(t, o) /\ (o.err = "notFound" => id \notin Live(o.db))
  <1> DEFINE rows == SelectUser(t, Live(t) \cap {id})
             raw == Attempt(t, rows, h)
  <1>1. \A q \in rows : Queried(t, q)
    BY SelectSound
  <1>2. \A q \in raw : Queried(t, q) /\ (q \in rows \/ q.err = "failed")
    <2> HIDE DEF rows
    <2> QED  BY <1>1, AttemptSound
  <1>3. \A q \in raw : q.err = "noRows" => id \notin Live(q.db)
    <2>1. \A q \in rows : q.err = "noRows" => id \notin Live(q.db)
      BY DEF SelectUser, Outcome
    <2> HIDE DEF rows, raw
    <2> QED  BY <1>2, <2>1
  <1>4. o \in Swallowed(Mapped(raw, NoRows))
    BY DEF GetByID
  <1> HIDE DEF raw
  <1>5. \A q \in Mapped(raw, NoRows) :
          Returned(t, q) /\ (q.err = "notFound" => id \notin Live(q.db))
    BY <1>2, <1>3, MappedSound DEF Cases, Returned
  <1> QED  BY <1>4, <1>5, SwallowedSound DEF Returned

LEMMA GetByEmailReturns ==
    ASSUME NEW t \in [Ids -> Row], NEW email \in Emails \cup {NoEmail}, NEW h \in Health,
           NEW o \in GetByEmail(t, email, h)
    PROVE  Returned(t, o)
  <1>1. Holders(t, email) \in SUBSET Live(t)
    BY DEF Holders
  <1>2. \A q \in Attempt(t, SelectUser(t, Holders(t, email)), h) : Queried(t, q)
    BY <1>1, SelectSound, AttemptSound
  <1> QED  BY <1>2, MappedSound DEF GetByEmail, Cases, Returned

LEMMA ListReturns ==
    ASSUME NEW t \in [Ids -> Row], NEW h \in Health, NEW o \in List(t, h) \cup ListAll(t, h)
    PROVE  Returned(t, o)
  <1>1. \A q \in Attempt(t, SelectPage(t), h) \cup Attempt(t, SelectAll(t), h) : Queried(t, q)
    BY PageSound, AttemptSound
  <1> QED  BY <1>1, MappedSound DEF List, ListAll, Cases, Returned

LEMMA UpdateReturns ==
    ASSUME NEW t \in [Ids -> Row], NEW id \in Ids \cup {NilId}, NEW email \in Emails \cup {NoEmail},
           NEW h \in Health, NEW o \in Update(t, id, email, h)
    PROVE  Returned(t, o) /\ (o.err = "notFound" => id \notin Live(o.db))
  <1> DEFINE rows == SetUser(t, id, email)
             raw == Attempt(t, rows, h)
  <1>1. \A q \in rows : Queried(t, q)
    BY SetSound
  <1>2. \A q \in raw : Queried(t, q) /\ (q \in rows \/ q.err = "failed")
    <2> HIDE DEF rows
    <2> QED  BY <1>1, AttemptSound
  <1>3. \A q \in raw : q.err = "noRows" => id \notin Live(q.db)
    <2>1. \A q \in rows : q.err = "noRows" => id \notin Live(q.db)
      BY DEF SetUser, Outcome
    <2> HIDE DEF rows, raw
    <2> QED  BY <1>2, <2>1
  <1>4. o \in Swallowed(Mapped(raw, Both))
    BY DEF Update
  <1> HIDE DEF raw
  <1>5. \A q \in Mapped(raw, Both) :
          Returned(t, q) /\ (q.err = "notFound" => id \notin Live(q.db))
    BY <1>2, <1>3, MappedSound DEF Cases, Returned
  <1> QED  BY <1>4, <1>5, SwallowedSound DEF Returned

LEMMA DeleteReturns ==
    ASSUME NEW t \in [Ids -> Row], NEW id \in Ids \cup {NilId}, NEW h \in Health,
           NEW o \in Delete(t, id, h)
    PROVE  Returned(t, o) /\ (o.err = "notFound" => id \notin Live(o.db))
  <1> DEFINE rows == SoftDelete(t, id)
             raw == Attempt(t, rows, h)
  <1>1. \A q \in rows : Queried(t, q)
    BY DeleteSound
  <1>2. \A q \in raw : Queried(t, q) /\ (q \in rows \/ q.err = "failed")
    <2> HIDE DEF rows
    <2> QED  BY <1>1, AttemptSound
  <1>3. \A q \in raw : q.err = "noRows" => id \notin Live(q.db)
    <2>1. \A q \in rows : q.err = "noRows" => id \notin Live(q.db)
      BY DEF SoftDelete, Outcome
    <2> HIDE DEF rows, raw
    <2> QED  BY <1>2, <2>1
  <1>4. o \in Mapped(raw, NoRows)
    BY DEF Delete
  <1> HIDE DEF raw
  <1> QED  BY <1>2, <1>3, <1>4, MappedSound DEF Cases, Returned

-------------------------------------------------------------------------------
(* The handlers: every one of them carries a result of the repository on.   *)

AboutId == {"getByID", "update", "delete"}

\* Handler s ends its query with outcome o.
HandledBy(s, o, todo) ==
    /\ Querying(s) /\ Finish(s, o, todo)
    /\ Returned(db, o)
    /\ todo \in SUBSET Event
    /\ \A e \in todo : e.type = "deleted" \/ e.user \in o.users
    /\ s \in AboutId /\ o.err = "notFound" => Asked(s).id \notin Live(o.db)

LEMMA AskedType ==
    ASSUME TypeOK, NEW s \in Subjects, Querying(s)
    PROVE  Asked(s) \in Request /\ worker[s].k \in Calls
  BY DEF TypeOK, WorkOK, CallsOK, Work, View, Querying, Asked

LEMMA ZeroUserType == ZeroUser \in User /\ ZeroUser.id = NilId
  BY DEF ZeroUser, User

LEMMA UserEventType ==
    ASSUME NEW type \in EventTypes, NEW u \in User
    PROVE  UserEvent(type, u) \in Event /\ UserEvent(type, u).user = u
  BY DEF UserEvent, Event, User

LEMMA ReturnedUsers ==
    ASSUME NEW t, NEW o, Returned(t, o)
    PROVE  o.users \in SUBSET User /\ o.db \in [Ids -> Row]
  BY LiveUserType, ZeroUserType DEF Returned, Sound

LEMMA HandleStep ==
    ASSUME TypeOK, Handle
    PROVE  \E s \in Subjects : \E o, todo : HandledBy(s, o, todo)
  <1>1. db \in [Ids -> Row] /\ health \in Health
    BY DEF TypeOK, TableOK, health, Health
  <1>2. /\ "create" \in Subjects /\ "getByID" \in Subjects /\ "getByEmail" \in Subjects
        /\ "list" \in Subjects /\ "listAll" \in Subjects
        /\ "update" \in Subjects /\ "delete" \in Subjects
    BY DEF Subjects, Entries
  <1>3. CASE HandleCreate
    <2>1. PICK o \in Create(db, Asked("create").email, health) :
            Finish("create", o, {UserEvent("created", u) : u \in o.users})
      BY <1>3 DEF HandleCreate
    <2>2. Querying("create") /\ Asked("create") \in Request
      BY <1>2, <1>3, AskedType DEF HandleCreate
    <2>3. Returned(db, o)
      BY <1>1, <2>2, CreateReturns DEF Request
    <2>4. HandledBy("create", o, {UserEvent("created", u) : u \in o.users})
      BY <2>1, <2>2, <2>3, ReturnedUsers, UserEventType DEF HandledBy, AboutId, EventTypes
    <2> QED  BY <1>2, <2>4
  <1>4. CASE HandleGetByID
    <2>1. PICK o \in GetByID(db, Asked("getByID").id, health) : Finish("getByID", o, {})
      BY <1>4 DEF HandleGetByID
    <2>2. Querying("getByID") /\ Asked("getByID") \in Request
      BY <1>2, <1>4, AskedType DEF HandleGetByID
    <2>3. Returned(db, o) /\ (o.err = "notFound" => Asked("getByID").id \notin Live(o.db))
      BY <1>1, <2>2, GetByIDReturns DEF Request
    <2>4. HandledBy("getByID", o, {})
      BY <2>1, <2>2, <2>3 DEF HandledBy
    <2> QED  BY <1>2, <2>4
  <1>5. CASE HandleGetByEmail
    <2>1. PICK o \in GetByEmail(db, Asked("getByEmail").email, health) : Finish("getByEmail", o, {})
      BY <1>5 DEF HandleGetByEmail
    <2>2. Querying("getByEmail") /\ Asked("getByEmail") \in Request
      BY <1>2, <1>5, AskedType DEF HandleGetByEmail
    <2>3. Returned(db, o)
      BY <1>1, <2>2, GetByEmailReturns DEF Request
    <2>4. HandledBy("getByEmail", o, {})
      BY <2>1, <2>2, <2>3 DEF HandledBy, AboutId
    <2> QED  BY <1>2, <2>4
  <1>6. CASE HandleList
    <2>1. PICK o \in List(db, health) : Finish("list", o, {})
      BY <1>6 DEF HandleList
    <2>2. HandledBy("list", o, {})
      BY <1>1, <1>6, <2>1, ListReturns DEF HandleList, HandledBy, AboutId
    <2> QED  BY <1>2, <2>2
  <1>7. CASE HandleListAll
    <2>1. PICK o \in ListAll(db, health) : Finish("listAll", o, {})
      BY <1>7 DEF HandleListAll
    <2>2. HandledBy("listAll", o, {})
      BY <1>1, <1>7, <2>1, ListReturns DEF HandleListAll, HandledBy, AboutId
    <2> QED  BY <1>2, <2>2
  <1>8. CASE HandleUpdate
    <2>1. PICK o \in Update(db, Asked("update").id, Asked("update").email, health) :
            Finish("update", o, {UserEvent("updated", u) : u \in o.users})
      BY <1>8 DEF HandleUpdate
    <2>2. Querying("update") /\ Asked("update") \in Request
      BY <1>2, <1>8, AskedType DEF HandleUpdate
    <2>3. Returned(db, o) /\ (o.err = "notFound" => Asked("update").id \notin Live(o.db))
      BY <1>1, <2>2, UpdateReturns DEF Request
    <2>4. HandledBy("update", o, {UserEvent("updated", u) : u \in o.users})
      BY <2>1, <2>2, <2>3, ReturnedUsers, UserEventType DEF HandledBy, EventTypes
    <2> QED  BY <1>2, <2>4
  <1>9. CASE HandleDelete
    <2>1. PICK o \in Delete(db, Asked("delete").id, health) :
            Finish("delete", o, {DeletedEvent(Asked("delete").id)})
      BY <1>9 DEF HandleDelete
    <2>2. Querying("delete") /\ Asked("delete") \in Request
      BY <1>2, <1>9, AskedType DEF HandleDelete
    <2>3. Returned(db, o) /\ (o.err = "notFound" => Asked("delete").id \notin Live(o.db))
      BY <1>1, <2>2, DeleteReturns DEF Request
    <2>4. /\ DeletedEvent(Asked("delete").id) \in Event
          /\ DeletedEvent(Asked("delete").id).type = "deleted"
      BY <2>2, ZeroUserType DEF DeletedEvent, Event, EventTypes, Request
    <2>5. HandledBy("delete", o, {DeletedEvent(Asked("delete").id)})
      BY <2>1, <2>2, <2>3, <2>4 DEF HandledBy
    <2> QED  BY <1>2, <2>5
  <1> QED  BY <1>3, <1>4, <1>5, <1>6, <1>7, <1>8, <1>9 DEF Handle

-------------------------------------------------------------------------------
(* Types.                                                                   *)

\* Each part of TypeOK is about variables of its own.
LEMMA UntouchedType ==
    /\ TableOK /\ UNCHANGED <<db, committed, queryFailed>> => TableOK'
    /\ WorkOK /\ UNCHANGED <<inbox, worker>> => WorkOK'
    /\ CallsOK /\ UNCHANGED call => CallsOK'
    /\ WireOK /\ UNCHANGED <<events, delivered>> => WireOK'
    /\ ProcessOK /\ UNCHANGED <<phase, subs, exits>> => ProcessOK'
  BY DEF TableOK, WorkOK, CallsOK, WireOK, ProcessOK

LEMMA MalformedType == \A op \in Subjects : Malformed(op) \in Request /\ Malformed(op).op = op
  BY DEF Malformed, Request

LEMMA RequestType ==
    ASSUME TableOK, NEW op \in Subjects, NEW req \in RequestsOf(op)
    PROVE  req \in Request /\ req.op = op
  <1> DEFINE S == IF op \in {"getByID", "update", "delete"}
                    THEN {u.id : u \in committed} \cup {NilId} ELSE {NilId}
             T == IF op \in {"create", "getByEmail", "update"} THEN Emails ELSE {NoEmail}
  <1>1. S \subseteq Ids \cup {NilId} /\ T \subseteq Emails \cup {NoEmail}
    BY DEF TableOK, User
  <1>2. req = Malformed(op) \/ req \in [op : {op}, id : S, email : T, valid : {TRUE}]
    BY DEF RequestsOf
  <1> HIDE DEF S, T
  <1>3. CASE req \in [op : {op}, id : S, email : T, valid : {TRUE}]
    BY <1>1, <1>3 DEF Request
  <1> QED  BY <1>2, <1>3, MalformedType

LEMMA QueueType ==
    ASSUME NEW S, NEW q \in Seq(S)
    PROVE  /\ \A x \in S : Append(q, x) \in Seq(S)
           /\ q # <<>> => Tail(q) \in Seq(S) /\ Head(q) \in S
  OBVIOUS

LEMMA WorkType ==
    /\ Idle \in Work /\ Idle.pc = "idle" /\ Refusal \in Answer /\ NoAnswer \in Answer
    /\ NewCall \in View
  <1>1. "list" \in Subjects
    BY DEF Subjects, Entries
  <1> QED  BY <1>1, MalformedType DEF Idle, Work, Answer, NoAnswer, Refusal, Errors, NewCall, View

LEMMA InitType == Init => TypeOK
  <1> SUFFICES ASSUME Init PROVE TypeOK
    OBVIOUS
  <1>1. TableOK
    <2>1. PICK email \in [Seeded -> Emails] :
            /\ db = [id \in Ids |-> IF id \in Seeded THEN LiveRow(email[id], 1) ELSE AbsentRow]
            /\ committed = {[id |-> id, email |-> email[id], rev |-> 1] : id \in Seeded}
      BY DEF Init
    <2>2. db \in [Ids -> Row]
      BY <2>1 DEF Row, LiveRow, AbsentRow
    <2>3. committed \in SUBSET User
      BY <2>1, ServiceAssumption DEF User
    <2> QED  BY <2>2, <2>3 DEF Init, TableOK
  <1>2. WorkOK /\ CallsOK
    BY WorkType DEF Init, WorkOK, CallsOK
  <1>3. WireOK /\ ProcessOK
    BY ServiceAssumption DEF Init, WireOK, ProcessOK
  <1> QED  BY <1>1, <1>2, <1>3 DEF TypeOK

LEMMA CallerType ==
    ASSUME TypeOK, NEW k \in Calls, Caller(k)
    PROVE  TypeOK'
  <1> USE DEF TypeOK
  <1>1. CASE GiveUp(k)
    <2>1. CallsOK'   BY <1>1 DEF GiveUp, CallsOK, View
    <2> QED  BY <1>1, <2>1, UntouchedType DEF GiveUp
  <1>2. ASSUME NEW op \in Ops, NEW req \in RequestsOf(op), Send(k, req) PROVE TypeOK'
    <2>1. req \in Request /\ req.op \in Subjects
      BY RequestType, OpsAssumption
    <2>2. CallsOK'   BY <1>2, <2>1 DEF Send, CallsOK, View
    <2>3. Append(inbox[req.op], k) \in Seq(Calls)
      BY <2>1, QueueType DEF WorkOK
    <2>4. WorkOK'    BY <1>2, <2>1, <2>3 DEF Send, WorkOK
    <2> QED  BY <1>2, <2>2, <2>4, UntouchedType DEF Send
  <1> QED  BY <1>1, <1>2 DEF Caller

LEMMA HandleType ==
    ASSUME TypeOK, Handle
    PROVE  TypeOK'
  <1> USE DEF TypeOK
  <1>1. PICK s \in Subjects : \E o, todo : HandledBy(s, o, todo)
    BY HandleStep
  <1>2. PICK o, todo : HandledBy(s, o, todo)
    BY <1>1
  <1>3. /\ Finish(s, o, todo) /\ o.err \in Errors /\ o.users \in SUBSET User
        /\ o.db \in [Ids -> Row] /\ todo \in SUBSET Event
    BY <1>2, ReturnedUsers DEF HandledBy, Returned
  <1>4. TableOK'
    BY <1>3, LiveUserType DEF Finish, TableOK
  <1>5. WorkOK'
    <2>1. [err |-> o.err, users |-> o.users] \in Answer
      BY <1>3 DEF Answer
    <2>2. worker[s].pc = "query" /\ worker[s].k \in Calls
      BY <1>2, AskedType DEF HandledBy, Querying
    <2> DEFINE answer == [err |-> o.err, users |-> o.users]
               left == IF o.err = "none" THEN todo ELSE {}
               now == [worker[s] EXCEPT !.pc = "reply", !.answer = answer, !.todo = left]
    <2>3. worker[s] \in Work
      BY DEF WorkOK
    <2>4. left \in SUBSET Event
      BY <1>3
    <2>5. now \in Work /\ now.k = worker[s].k
      <3> HIDE DEF answer, left
      <3> QED  BY <2>1, <2>3, <2>4 DEF answer, Work
    <2>6. worker' = [worker EXCEPT ![s] = now] /\ UNCHANGED inbox
      BY <1>3 DEF Finish
    <2> HIDE DEF now
    <2> QED  BY <2>2, <2>5, <2>6 DEF WorkOK
  <1> QED  BY <1>3, <1>4, <1>5, UntouchedType DEF Finish

LEMMA AdvanceType ==
    ASSUME TypeOK, NEW s \in Subjects, Advance(s)
    PROVE  TypeOK'
  <1> USE DEF TypeOK
  <1>1. CASE Take(s)
    <2>1. Head(inbox[s]) \in Calls /\ Tail(inbox[s]) \in Seq(Calls)
      BY <1>1, QueueType DEF Take, WorkOK
    <2>2. \A k \in Calls : /\ [Idle EXCEPT !.pc = "query", !.k = k] \in Work
                           /\ [Idle EXCEPT !.pc = "reply", !.k = k, !.answer = Refusal] \in Work
      BY WorkType DEF Idle, Work
    <2>3. WorkOK'   BY <1>1, <2>1, <2>2 DEF Take, WorkOK, Idle
    <2> QED  BY <1>1, <2>3, UntouchedType DEF Take
  <1>2. CASE Reply(s) \/ ReplyLost(s)
    <2>1. worker[s] \in Work /\ worker[s].k \in Calls
      BY <1>2 DEF Reply, ReplyLost, WorkOK
    <2>2. WorkOK'
      <3>1. [worker[s] EXCEPT !.pc = "publish"] \in Work
        BY <2>1 DEF Work
      <3>2. worker' = [worker EXCEPT ![s] = IF worker[s].todo = {} THEN Idle
                                            ELSE [worker[s] EXCEPT !.pc = "publish"]]
        BY <1>2 DEF Reply, ReplyLost, Replied
      <3>3. [worker[s] EXCEPT !.pc = "publish"].k = worker[s].k
        BY <2>1 DEF Work
      <3>4. UNCHANGED inbox
        BY <1>2 DEF Reply, ReplyLost
      <3> QED  BY <2>1, <3>1, <3>2, <3>3, <3>4, WorkType DEF WorkOK
    <2>3. CASE Reply(s)
      <3>1. call[worker[s].k] \in View /\ worker[s].answer \in Answer
        BY <2>1 DEF CallsOK, Work
      <3>2. [call[worker[s].k] EXCEPT !.st = "answered", !.answer = worker[s].answer] \in View
        BY <3>1 DEF View
      <3>3. CallsOK'
        BY <2>1, <2>3, <3>1, <3>2 DEF Reply, CallsOK
      <3> QED  BY <2>2, <2>3, <3>3, UntouchedType DEF Reply
    <2>4. CASE ReplyLost(s)
      BY <2>2, <2>4, UntouchedType DEF ReplyLost
    <2> QED  BY <1>2, <2>3, <2>4
  <1>3. CASE Publish(s) \/ PublishFails(s)
    <2>1. WorkOK'   BY <1>3, WorkType DEF Publish, PublishFails, WorkOK
    <2>2. WireOK'
      <3>1. \A e \in worker[s].todo : Append(events, e) \in Seq(Event)
                                      /\ Len(Append(events, e)) = Len(events) + 1
        BY DEF WorkOK, Work, WireOK
      <3> QED  BY <1>3, <3>1 DEF Publish, PublishFails, WireOK
    <2> QED  BY <1>3, <2>1, <2>2, UntouchedType DEF Publish, PublishFails
  <1> QED  BY <1>1, <1>2, <1>3 DEF Advance

LEMMA ProcessType ==
    ASSUME TypeOK, Process \/ Deliver
    PROVE  TypeOK'
  <1> USE DEF TypeOK
  <1>1. CASE Deliver
    <2>1. WireOK'   BY <1>1 DEF Deliver, WireOK
    <2> QED  BY <1>1, <2>1, UntouchedType DEF Deliver
  <1>2. CASE Start \/ Signal \/ Close
    <2>1. ProcessOK'   BY <1>2 DEF Start, Signal, Close, ProcessOK
    <2> QED  BY <1>2, <2>1, UntouchedType DEF Start, Signal, Close
  <1>3. ASSUME NEW s \in Subjects, Subscribe(s) PROVE TypeOK'
    <2>1. ProcessOK'   BY <1>3 DEF Subscribe, ProcessOK
    <2> QED  BY <1>3, <2>1, UntouchedType DEF Subscribe
  <1>4. ASSUME NEW s \in Subjects, Unsubscribe(s) PROVE TypeOK'
    <2>1. ProcessOK'   BY <1>4 DEF Unsubscribe, ProcessOK
    <2>2. <<>> \in Seq(Calls)
      OBVIOUS
    <2>3. WorkOK'   BY <1>4, <2>2 DEF Unsubscribe, WorkOK
    <2> QED  BY <1>4, <2>1, <2>3, UntouchedType DEF Unsubscribe
  <1>5. CASE Exit
    <2>1. ProcessOK'   BY <1>5, ServiceAssumption DEF Exit, ProcessOK
    <2>2. WorkOK'   BY <1>5, WorkType DEF Exit, WorkOK
    <2>3. WireOK'
      <3>1. PICK n \in delivered .. Len(events) : events' = SubSeq(events, 1, n)
        BY <1>5 DEF Exit
      <3>2. SubSeq(events, 1, n) \in Seq(Event) /\ Len(SubSeq(events, 1, n)) = n
        <4>1. \A j \in 1 .. n : events[j] \in Event
          BY DEF WireOK
        <4> QED  BY <4>1 DEF WireOK
      <3> QED  BY <1>5, <3>1, <3>2 DEF Exit, WireOK
    <2> QED  BY <1>5, <2>1, <2>2, <2>3, UntouchedType DEF Exit
  <1> QED  BY <1>1, <1>2, <1>3, <1>4, <1>5 DEF Process

LEMMA StepType == TypeOK /\ [Next]_vars => TypeOK'
  <1> SUFFICES ASSUME TypeOK, [Next]_vars PROVE TypeOK'
    OBVIOUS
  <1>1. CASE UNCHANGED vars
    BY <1>1, UntouchedType DEF vars, TypeOK
  <1> QED  BY <1>1, CallerType, HandleType, AdvanceType, ProcessType DEF Next

\* In every behaviour of the service each variable keeps its type; in
\* particular a handler that is at work always has a request to answer.
THEOREM TypeCorrect == Spec => []TypeOK
  BY InitType, StepType, PTL DEF Spec

-------------------------------------------------------------------------------
(* The table.                                                               *)

\* Only a handler's query writes the table.
LEMMA OnlyHandlersWrite ==
    ASSUME [Next]_vars, ~Handle
    PROVE  UNCHANGED <<db, committed, queryFailed>>
  <1>1. ASSUME NEW k \in Calls, Caller(k) PROVE UNCHANGED <<db, committed, queryFailed>>
    BY <1>1 DEF Caller, GiveUp, Send
  <1>2. ASSUME NEW s \in Subjects, Advance(s) PROVE UNCHANGED <<db, committed, queryFailed>>
    BY <1>2 DEF Advance, Take, Reply, ReplyLost, Publish, PublishFails
  <1>3. CASE Deliver \/ Process
    BY <1>3 DEF Deliver, Process, Start, Signal, Close, Exit, Subscribe, Unsubscribe
  <1>4. CASE UNCHANGED vars
    BY <1>4 DEF vars
  <1> QED  BY <1>1, <1>2, <1>3, <1>4 DEF Next

\* What a step does to the table is what one call of the repository does.
LEMMA TableStep ==
    ASSUME TypeOK, [Next]_vars
    PROVE  \/ UNCHANGED <<db, committed, queryFailed>>
           \/ \E o : Sound(db, o) /\ db' = o.db
  <1>1. CASE Handle
    <2>1. PICK s \in Subjects : \E o, todo : HandledBy(s, o, todo)
      BY <1>1, HandleStep
    <2> QED  BY <2>1 DEF HandledBy, Returned, Finish
  <1> QED  BY <1>1, OnlyHandlersWrite

\* No step of the service ever changes a row that is deleted: neither an update
\* nor a delete that waited behind the delete, nor a create, nor a restart.
THEOREM DeletedStaysDeleted == Spec => DeletedIsFinal
  <1>1. TypeOK /\ [Next]_vars =>
          [\A id \in Ids : db[id].state = "deleted" => db'[id] = db[id]]_vars
    BY TableStep DEF Sound
  <1> QED  BY <1>1, TypeCorrect, PTL DEF Spec, DeletedIsFinal

\* Two live users never share an email, however many creates and updates race:
\* an insert or an update that would make them is refused by the index.
THEOREM EmailsStayUnique == Spec => []UniqueLiveEmails
  <1>1. Init => UniqueLiveEmails
    BY DEF Init, UniqueLiveEmails, Live, LiveRow, AbsentRow
  <1>2. UniqueLiveEmails <=> Unambiguous(db)
    BY DEF UniqueLiveEmails, Unambiguous
  <1>3. TypeOK /\ UniqueLiveEmails /\ [Next]_vars => UniqueLiveEmails'
    <2> SUFFICES ASSUME TypeOK, UniqueLiveEmails, [Next]_vars PROVE UniqueLiveEmails'
      OBVIOUS
    <2>1. CASE UNCHANGED db
      BY <2>1 DEF UniqueLiveEmails, Live
    <2>2. ASSUME NEW o, Sound(db, o), db' = o.db PROVE UniqueLiveEmails'
      BY <1>2, <2>2 DEF Sound, Unambiguous, UniqueLiveEmails, Live
    <2> QED  BY <2>1, <2>2, TableStep
  <1> QED  BY <1>1, <1>3, TypeCorrect, PTL DEF Spec

-------------------------------------------------------------------------------
(* What the service tells.  A user goes from the table to the answer of a   *)
(* worker, from there to the caller, and through todo to the events; the    *)
(* invariant follows it all the way.                                        *)

Authentic(u) == u \in committed \/ (queryFailed /\ u = ZeroUser)
Honest(e) == e.type = "deleted" \/ Authentic(e.user)

TableTold == LiveUsers(db) \subseteq committed
CallsTold == \A k \in Calls : \A u \in call[k].answer.users : Authentic(u)
WorkTold ==
    \A s \in Subjects :
      /\ \A u \in worker[s].answer.users : Authentic(u)
      /\ \A e \in worker[s].todo : Honest(e)
EventsTold == \A i \in DOMAIN events : Honest(events[i])

ToldInv == TableTold /\ CallsTold /\ WorkTold /\ EventsTold

LEMMA ToldUntouched ==
    UNCHANGED <<db, committed, queryFailed>> =>
      /\ TableTold => TableTold'
      /\ CallsTold /\ UNCHANGED call => CallsTold'
      /\ WorkTold /\ UNCHANGED worker => WorkTold'
      /\ EventsTold /\ UNCHANGED events => EventsTold'
      /\ \A u : Authentic(u)' <=> Authentic(u)
      /\ \A e : Honest(e)' <=> Honest(e)
  BY DEF TableTold, CallsTold, WorkTold, EventsTold, Authentic, Honest, LiveUsers, UserOf, Live

LEMMA ToldInit == Init => ToldInv
  <1> SUFFICES ASSUME Init PROVE ToldInv
    OBVIOUS
  <1>1. PICK email \in [Seeded -> Emails] :
          /\ db = [id \in Ids |-> IF id \in Seeded THEN LiveRow(email[id], 1) ELSE AbsentRow]
          /\ committed = {[id |-> id, email |-> email[id], rev |-> 1] : id \in Seeded}
    BY DEF Init
  <1>2. Live(db) \subseteq Seeded
    BY <1>1 DEF Live, AbsentRow
  <1>3. TableTold
    BY <1>1, <1>2, ServiceAssumption DEF TableTold, LiveUsers, UserOf, LiveRow
  <1>4. CallsTold /\ WorkTold /\ EventsTold
    BY DEF Init, CallsTold, WorkTold, EventsTold, NewCall, NoAnswer, Idle
  <1> QED  BY <1>3, <1>4 DEF ToldInv

\* committed only grows, and queryFailed stays true once it is.
LEMMA ToldHandle ==
    ASSUME TypeOK, ToldInv, Handle
    PROVE  ToldInv'
  <1>1. PICK s \in Subjects : \E o, todo : HandledBy(s, o, todo)
    BY HandleStep
  <1>2. PICK o, todo : HandledBy(s, o, todo)
    BY <1>1
  <1>3. Finish(s, o, todo) /\ Sound(db, o)
    BY <1>2 DEF HandledBy, Returned
  <1>4. /\ db' = o.db /\ LiveUsers(o.db) \subseteq committed'
        /\ committed \subseteq committed' /\ (queryFailed => queryFailed')
    BY <1>3 DEF Finish
  <1>5. \A u : Authentic(u) => Authentic(u)'
    BY <1>4 DEF Authentic
  <1>6. \A u \in o.users : Authentic(u)'
    BY <1>3, <1>4 DEF Sound, Finish, Authentic
  <1>7. TableTold'
    BY <1>4 DEF TableTold, LiveUsers, UserOf, Live
  <1>8. CallsTold' /\ EventsTold'
    BY <1>3, <1>5 DEF Finish, ToldInv, CallsTold, EventsTold, Honest
  <1>9. WorkTold'
    <2>1. worker'[s].answer.users = o.users /\ worker'[s].todo \subseteq todo
      BY <1>3 DEF Finish, TypeOK, WorkOK, Work
    <2>2. \A e \in todo : e.type = "deleted" \/ e.user \in o.users
      BY <1>2 DEF HandledBy
    <2>3. \A e \in todo : Honest(e)'
      BY <1>6, <2>2 DEF Honest
    <2>4. \A r \in Subjects \ {s} : worker'[r] = worker[r]
      BY <1>3 DEF Finish, TypeOK, WorkOK
    <2> QED  BY <1>5, <1>6, <2>1, <2>3, <2>4 DEF ToldInv, WorkTold, Honest
  <1> QED  BY <1>7, <1>8, <1>9 DEF ToldInv

LEMMA ToldStep == TypeOK /\ ToldInv /\ [Next]_vars => ToldInv'
  <1> SUFFICES ASSUME TypeOK, ToldInv, [Next]_vars PROVE ToldInv'
    OBVIOUS
  <1>1. CASE Handle
    BY <1>1, ToldHandle
  <1>2. CASE ~Handle
    <2>1. UNCHANGED <<db, committed, queryFailed>>
      BY <1>2, OnlyHandlersWrite
    <2>2. TableTold'
      BY <2>1, ToldUntouched DEF ToldInv
    <2>3. ASSUME NEW k \in Calls, Caller(k) PROVE CallsTold' /\ WorkTold' /\ EventsTold'
      <3>1. \A j \in Calls : call'[j].answer = call[j].answer
        BY <2>3 DEF Caller, GiveUp, Send, TypeOK, CallsOK, View
      <3>2. CallsTold'
        BY <2>1, <3>1, ToldUntouched DEF ToldInv, CallsTold
      <3> QED  BY <2>1, <2>3, <3>2, ToldUntouched DEF Caller, GiveUp, Send, ToldInv
    <2>4. ASSUME NEW s \in Subjects, Advance(s) PROVE CallsTold' /\ WorkTold' /\ EventsTold'
      <3>1. worker[s] \in Work
        BY DEF TypeOK, WorkOK
      <3>2. /\ \A r \in Subjects \ {s} : worker'[r] = worker[r]
            /\ worker'[s].answer.users \subseteq worker[s].answer.users
            /\ worker'[s].todo \subseteq worker[s].todo
        <4>1. Idle.answer.users = {} /\ Idle.todo = {} /\ Refusal.users = {}
          BY DEF Idle, NoAnswer, Refusal
        <4>2. CASE Take(s)
          <5>1. \A k : /\ [Idle EXCEPT !.pc = "query", !.k = k].answer.users = {}
                       /\ [Idle EXCEPT !.pc = "query", !.k = k].todo = {}
                       /\ [Idle EXCEPT !.pc = "reply", !.k = k, !.answer = Refusal].answer.users = {}
                       /\ [Idle EXCEPT !.pc = "reply", !.k = k, !.answer = Refusal].todo = {}
            BY <4>1 DEF Idle
          <5>2. \E w : worker' = [worker EXCEPT ![s] = w] /\ w.answer.users = {} /\ w.todo = {}
            <6>1. CASE call[Head(inbox[s])].req.valid
              BY <4>2, <5>1, <6>1 DEF Take
            <6>2. CASE ~call[Head(inbox[s])].req.valid
              BY <4>2, <5>1, <6>2 DEF Take
            <6> QED  BY <6>1, <6>2
          <5> QED  BY <5>2 DEF TypeOK, WorkOK
        <4>3. CASE Reply(s) \/ ReplyLost(s)
          <5>1. worker' = [worker EXCEPT ![s] = IF worker[s].todo = {} THEN Idle
                                                ELSE [worker[s] EXCEPT !.pc = "publish"]]
            BY <4>3 DEF Reply, ReplyLost, Replied
          <5>2. /\ [worker[s] EXCEPT !.pc = "publish"].answer = worker[s].answer
                /\ [worker[s] EXCEPT !.pc = "publish"].todo = worker[s].todo
            BY <3>1 DEF Work
          <5> QED  BY <4>1, <5>1, <5>2 DEF TypeOK, WorkOK
        <4>4. CASE Publish(s) \/ PublishFails(s)
          <5>1. worker' = [worker EXCEPT ![s] = Idle]
            BY <4>4 DEF Publish, PublishFails
          <5> QED  BY <4>1, <5>1 DEF TypeOK, WorkOK
        <4> QED  BY <2>4, <4>2, <4>3, <4>4 DEF Advance
      <3>3. WorkTold'
        BY <2>1, <3>2, ToldUntouched DEF ToldInv, WorkTold
      <3>4. CallsTold'
        <4>1. UNCHANGED call \/ Reply(s)
          BY <2>4 DEF Advance, Take, ReplyLost, Publish, PublishFails
        <4>2. ASSUME Reply(s), NEW k \in Calls
              PROVE  call'[k].answer \in {call[k].answer, worker[s].answer}
          BY <4>2 DEF Reply, TypeOK, CallsOK, View
        <4>3. CASE Reply(s)
          BY <2>1, <4>2, <4>3, ToldUntouched DEF ToldInv, CallsTold, WorkTold
        <4> QED  BY <2>1, <4>1, <4>3, ToldUntouched DEF ToldInv
      <3>5. EventsTold'
        <4>1. UNCHANGED events \/ \E e \in worker[s].todo : events' = Append(events, e)
          BY <2>4 DEF Advance, Take, Reply, ReplyLost, Publish, PublishFails
        <4>2. ASSUME NEW e \in worker[s].todo, events' = Append(events, e)
              PROVE  EventsTold'
          <5>1. \A i \in DOMAIN events' : events'[i] = e \/ (i \in DOMAIN events /\ events'[i] = events[i])
            BY <3>1, <4>2 DEF TypeOK, WireOK, Work
          <5> QED  BY <2>1, <4>2, <5>1, ToldUntouched DEF ToldInv, EventsTold, WorkTold
        <4> QED  BY <2>1, <4>1, <4>2, ToldUntouched DEF ToldInv
      <3> QED  BY <3>3, <3>4, <3>5
    <2>5. CASE Deliver \/ Process \/ UNCHANGED vars
      <3>1. UNCHANGED call /\ (UNCHANGED worker \/ worker' = [s \in Subjects |-> Idle])
        BY <2>5 DEF Deliver, Process, Start, Signal, Close, Exit, Subscribe, Unsubscribe, vars
      <3>2. CallsTold'
        BY <2>1, <3>1, ToldUntouched DEF ToldInv
      <3>3. WorkTold'
        <4>1. CASE worker' = [s \in Subjects |-> Idle]
          BY <4>1 DEF WorkTold, Idle, NoAnswer
        <4> QED  BY <2>1, <3>1, <4>1, ToldUntouched DEF ToldInv
      <3>4. UNCHANGED events \/ \E n \in delivered .. Len(events) : events' = SubSeq(events, 1, n)
        BY <2>5 DEF Deliver, Process, Start, Signal, Close, Exit, Subscribe, Unsubscribe, vars
      <3>5. ASSUME NEW n \in delivered .. Len(events), events' = SubSeq(events, 1, n)
            PROVE  EventsTold'
        <4>1. \A i \in DOMAIN events' : i \in DOMAIN events /\ events'[i] = events[i]
          BY <3>5 DEF TypeOK, WireOK
        <4> QED  BY <2>1, <4>1, ToldUntouched DEF ToldInv, EventsTold
      <3>6. EventsTold'
        BY <2>1, <3>4, <3>5, ToldUntouched DEF ToldInv
      <3> QED  BY <2>2, <3>2, <3>3, <3>6 DEF ToldInv
    <2> QED  BY <1>2, <2>2, <2>3, <2>4, <2>5 DEF Next, ToldInv
  <1> QED  BY <1>1, <1>2

\* Every user in an answer or an event was live in exactly that version at some
\* time, whatever was created, updated and deleted meanwhile, and across
\* restarts; the one exception is the zero user of a failed query.
THEOREM OnlyCommittedIsTold == Spec => []ToldIsCommitted
  <1>1. ToldInv => ToldIsCommitted
    <2> SUFFICES ASSUME ToldInv, NEW u \in Told PROVE Authentic(u)
      BY DEF ToldIsCommitted, Authentic
    <2>1. CASE \E k \in Calls : u \in call[k].answer.users
      BY <2>1 DEF ToldInv, CallsTold
    <2>2. CASE \E s \in Subjects : u \in worker[s].answer.users
      BY <2>2 DEF ToldInv, WorkTold
    <2>3. CASE \E i \in DOMAIN events : events[i].type # "deleted" /\ u = events[i].user
      BY <2>3 DEF ToldInv, EventsTold, Honest
    <2>4. CASE u \in {events[i].user : i \in {n \in DOMAIN events : events[n].type # "deleted"}}
      <3>1. PICK i \in DOMAIN events : events[i].type # "deleted" /\ u = events[i].user
        BY <2>4
      <3> QED  BY <2>3, <3>1
    <2>5. CASE u \in UNION {call[k].answer.users : k \in Calls}
      BY <2>1, <2>5
    <2>6. CASE u \in UNION {worker[s].answer.users : s \in Subjects}
      BY <2>2, <2>6
    <2> QED  BY <2>4, <2>5, <2>6 DEF Told
  <1> QED  BY <1>1, ToldInit, ToldStep, TypeCorrect, PTL DEF Spec

-------------------------------------------------------------------------------
(* NOT_FOUND.  A handler that finds no live row with the requested id has   *)
(* seen a deleted one, since callers only know ids that were once in the    *)
(* table; and rows stay deleted.  What has to be followed is the request:   *)
(* the call a worker is at is in its own inbox's operation, and is no       *)
(* longer new, so that its request does not change under the answer.        *)

Exists(id) == id \in Ids => db[id].state # "absent"
Gone(id) == id \in Ids => db[id].state = "deleted"

CommittedExist == \A u \in committed : Exists(u.id)
Sent(k, s) == call[k].st # "new" /\ call[k].req.op = s
Queued == \A s \in Subjects : \A i \in DOMAIN inbox[s] : Sent(inbox[s][i], s)
AtWork ==
    \A s \in Subjects : worker[s].pc # "idle" =>
      /\ Sent(worker[s].k, s)
      /\ worker[s].answer.err = "notFound" => Gone(call[worker[s].k].req.id)
CallsAnswered ==
    \A k \in Calls :
      /\ call[k].st = "new" => call[k].answer.err = "none"
      /\ call[k].req.id \in Ids => call[k].req.op \in AboutId
      /\ Exists(call[k].req.id)
      /\ call[k].answer.err = "notFound" => Gone(call[k].req.id)

FoundInv == CommittedExist /\ Queued /\ AtWork /\ CallsAnswered

LEMMA FoundUntouched ==
    UNCHANGED <<db, committed, queryFailed>> =>
      /\ CommittedExist => CommittedExist'
      /\ Queued /\ UNCHANGED <<call, inbox>> => Queued'
      /\ AtWork /\ UNCHANGED <<call, worker>> => AtWork'
      /\ CallsAnswered /\ UNCHANGED call => CallsAnswered'
      /\ \A id : (Exists(id)' <=> Exists(id)) /\ (Gone(id)' <=> Gone(id))
  <1> SUFFICES ASSUME UNCHANGED <<db, committed, queryFailed>>
               PROVE  /\ CommittedExist => CommittedExist'
                      /\ Queued /\ UNCHANGED <<call, inbox>> => Queued'
                      /\ AtWork /\ UNCHANGED <<call, worker>> => AtWork'
                      /\ CallsAnswered /\ UNCHANGED call => CallsAnswered'
                      /\ \A id : (Exists(id)' <=> Exists(id)) /\ (Gone(id)' <=> Gone(id))
    OBVIOUS
  <1>1. \A id : (Exists(id)' <=> Exists(id)) /\ (Gone(id)' <=> Gone(id))
    BY DEF Exists, Gone
  <1>2. CommittedExist => CommittedExist'
    BY DEF CommittedExist, Exists
  <1>3. Queued /\ UNCHANGED <<call, inbox>> => Queued'
    BY DEF Queued, Sent
  <1>4. AtWork /\ UNCHANGED <<call, worker>> => AtWork'
    BY DEF AtWork, Sent, Gone
  <1>5. CallsAnswered /\ UNCHANGED call => CallsAnswered'
    BY DEF CallsAnswered, Exists, Gone
  <1> QED  BY <1>1, <1>2, <1>3, <1>4, <1>5

LEMMA FoundInit == Init => FoundInv
  <1> SUFFICES ASSUME Init PROVE FoundInv
    OBVIOUS
  <1>1. PICK email \in [Seeded -> Emails] :
          /\ db = [id \in Ids |-> IF id \in Seeded THEN LiveRow(email[id], 1) ELSE AbsentRow]
          /\ committed = {[id |-> id, email |-> email[id], rev |-> 1] : id \in Seeded}
    BY DEF Init
  <1>2. CommittedExist
    BY <1>1 DEF CommittedExist, Exists, LiveRow
  <1>3. Queued /\ AtWork
    BY DEF Init, Queued, AtWork, Idle
  <1>4. CallsAnswered
    BY StoreAssumption DEF Init, CallsAnswered, NewCall, NoAnswer, Malformed, Exists
  <1> QED  BY <1>2, <1>3, <1>4 DEF FoundInv

LEMMA FoundHandle ==
    ASSUME TypeOK, FoundInv, Handle
    PROVE  FoundInv'
  <1>1. PICK s \in Subjects : \E o, todo : HandledBy(s, o, todo)
    BY HandleStep
  <1>2. PICK o, todo : HandledBy(s, o, todo)
    BY <1>1
  <1>3. /\ Finish(s, o, todo) /\ Sound(db, o) /\ worker[s].pc = "query"
        /\ worker[s].k \in Calls /\ UNCHANGED <<call, inbox>>
    BY <1>2, AskedType DEF HandledBy, Returned, Finish, Querying
  <1>4. db' = o.db /\ committed' = committed \cup LiveUsers(o.db)
    BY <1>3 DEF Finish
  <1>5. \A id : (Exists(id) => Exists(id)') /\ (Gone(id) => Gone(id)')
    BY <1>3, <1>4 DEF Sound, Exists, Gone
  <1>6. CommittedExist'
    <2>1. \A u \in LiveUsers(o.db) : Exists(u.id)'
      BY <1>4 DEF LiveUsers, UserOf, Live, Exists
    <2> QED  BY <1>4, <1>5, <2>1 DEF FoundInv, CommittedExist
  <1>7. Queued' /\ CallsAnswered'
    BY <1>3, <1>5 DEF FoundInv, Queued, CallsAnswered, Sent
  <1>8. AtWork'
    <2>1. /\ worker'[s].k = worker[s].k /\ worker'[s].answer.err = o.err
          /\ \A r \in Subjects \ {s} : worker'[r] = worker[r]
      BY <1>3 DEF Finish, TypeOK, WorkOK, Work
    <2>2. Sent(worker[s].k, s)
      BY <1>3 DEF FoundInv, AtWork
    <2>3. ASSUME o.err = "notFound", call[worker[s].k].req.id \in Ids
          PROVE  db'[call[worker[s].k].req.id].state = "deleted"
      <3> DEFINE id == call[worker[s].k].req.id
      <3>1. s \in AboutId /\ db[id].state # "absent"
        BY <1>3, <2>2, <2>3 DEF FoundInv, CallsAnswered, Sent, Exists
      <3>2. id \notin Live(o.db)
        BY <1>2, <2>3, <3>1 DEF HandledBy, Asked
      <3>3. o.db[id] \in Row /\ o.db[id].state # "absent"
        BY <1>3, <2>3, <3>1 DEF Sound
      <3> QED  BY <1>4, <2>3, <3>2, <3>3 DEF Live, Row
    <2>4. ASSUME NEW r \in Subjects, worker'[r].pc # "idle"
          PROVE  (/\ Sent(worker[r].k, r)
                  /\ worker[r].answer.err = "notFound" => Gone(call[worker[r].k].req.id))'
      <3>1. CASE r = s
        <4>1. Sent(worker[s].k, s)'
          BY <1>3, <2>1, <2>2 DEF Sent
        <4> QED  BY <1>3, <2>1, <2>3, <3>1, <4>1 DEF Gone
      <3>2. CASE r # s
        <4>1. worker'[r] = worker[r]
          BY <2>1, <3>2
        <4>2. /\ Sent(worker[r].k, r)
              /\ worker[r].answer.err = "notFound" => Gone(call[worker[r].k].req.id)
          BY <2>4, <4>1 DEF FoundInv, AtWork
        <4>3. Sent(worker[r].k, r)'
          BY <1>3, <4>1, <4>2 DEF Sent
        <4> QED  BY <1>3, <1>5, <4>1, <4>2, <4>3
      <3> QED  BY <3>1, <3>2
    <2> QED  BY <2>4 DEF AtWork
  <1> QED  BY <1>6, <1>7, <1>8 DEF FoundInv

\* Sending is the only step that changes a request, and only that of a new call.
LEMMA FoundCaller ==
    ASSUME TypeOK, FoundInv, NEW k \in Calls, Caller(k), UNCHANGED <<db, committed, queryFailed>>
    PROVE  FoundInv'
  <1>1. CommittedExist'
    BY FoundUntouched DEF FoundInv
  <1>2. CASE GiveUp(k)
    <2>1. /\ \A j \in Calls : call'[j].req = call[j].req /\ call'[j].answer = call[j].answer
          /\ \A j \in Calls : call[j].st # "new" => call'[j].st # "new"
          /\ \A j \in Calls : call'[j].st = "new" => call[j].st = "new"
      BY <1>2 DEF GiveUp, TypeOK, CallsOK, View
    <2>2. CallsAnswered'
      BY <2>1, FoundUntouched DEF FoundInv, CallsAnswered
    <2>3. UNCHANGED <<inbox, worker>>
      BY <1>2 DEF GiveUp
    <2>4. Queued'
      BY <2>1, <2>3 DEF FoundInv, Queued, Sent, TypeOK, WorkOK
    <2>5. AtWork'
      BY <2>1, <2>3, FoundUntouched DEF FoundInv, AtWork, Sent, TypeOK, WorkOK
    <2> QED  BY <1>1, <2>2, <2>4, <2>5 DEF FoundInv
  <1>3. ASSUME NEW op \in Ops, NEW req \in RequestsOf(op), Send(k, req) PROVE FoundInv'
    <2>1. req \in Request /\ req.op = op /\ op \in Subjects
      BY RequestType, OpsAssumption DEF TypeOK
    <2>2. req.id \in Ids => op \in AboutId /\ \E u \in committed : u.id = req.id
      <3> DEFINE S == IF op \in {"getByID", "update", "delete"}
                        THEN {u.id : u \in committed} \cup {NilId} ELSE {NilId}
                 T == IF op \in {"create", "getByEmail", "update"} THEN Emails ELSE {NoEmail}
      <3>1. req = Malformed(op) \/ req \in [op : {op}, id : S, email : T, valid : {TRUE}]
        BY DEF RequestsOf
      <3>2. req.id \in S
        <4>1. Malformed(op).id \in S
          BY DEF Malformed
        <4> HIDE DEF S, T
        <4> QED  BY <3>1, <4>1
      <3> QED  BY <3>2, StoreAssumption DEF AboutId
    <2>3. Exists(req.id)
      BY <2>2 DEF FoundInv, CommittedExist, Exists
    <2>4. /\ call[k].st = "new" /\ call'[k].req = req /\ call'[k].st # "new"
          /\ call'[k].answer = call[k].answer
          /\ \A j \in Calls \ {k} : call'[j] = call[j]
      BY <1>3 DEF Send, TypeOK, CallsOK, View
    <2>5. CallsAnswered'
      BY <2>1, <2>2, <2>3, <2>4, FoundUntouched DEF FoundInv, CallsAnswered
    <2>6. \A j \in Calls, s \in Subjects : Sent(j, s) => j # k /\ call'[j] = call[j] /\ Sent(j, s)'
      BY <2>4 DEF Sent
    <2>7. Queued'
      <3>1. CASE inbox' = inbox
        BY <2>6, <3>1 DEF FoundInv, Queued, TypeOK, WorkOK, Sent
      <3>2. CASE inbox' = [inbox EXCEPT ![op] = Append(@, k)]
        <4>1. \A s \in Subjects \ {op} : inbox'[s] = inbox[s]
          BY <2>1, <3>2 DEF TypeOK, WorkOK
        <4>2. \A i \in DOMAIN inbox'[op] :
                \/ inbox'[op][i] = k
                \/ i \in DOMAIN inbox[op] /\ inbox'[op][i] = inbox[op][i]
          BY <2>1, <3>2 DEF TypeOK, WorkOK
        <4>3. Sent(k, op)'
          BY <2>1, <2>4 DEF Sent
        <4>4. \A s \in Subjects : \A i \in DOMAIN inbox[s] : Sent(inbox[s][i], s)'
          BY <2>6, <3>2 DEF FoundInv, Queued, TypeOK, WorkOK, Sent
        <4> QED  BY <2>1, <4>1, <4>2, <4>3, <4>4 DEF Queued, Sent
      <3> QED  BY <1>3, <2>1, <3>1, <3>2 DEF Send
    <2>8. AtWork'
      <3>1. UNCHANGED worker
        BY <1>3 DEF Send
      <3>2. ASSUME NEW s \in Subjects, worker[s].pc # "idle"
            PROVE  /\ call'[worker[s].k] = call[worker[s].k] /\ Sent(worker[s].k, s)'
                   /\ worker[s].answer.err = "notFound" => Gone(call[worker[s].k].req.id)
        <4>1. worker[s].k \in Calls
          BY <3>2 DEF TypeOK, WorkOK
        <4>2. /\ Sent(worker[s].k, s)
              /\ worker[s].answer.err = "notFound" => Gone(call[worker[s].k].req.id)
          BY <3>2 DEF FoundInv, AtWork
        <4> QED  BY <2>6, <3>1, <4>1, <4>2 DEF Sent
      <3> QED  BY <3>1, <3>2, FoundUntouched DEF AtWork, Sent
    <2> QED  BY <1>1, <2>5, <2>7, <2>8 DEF FoundInv
  <1> QED  BY <1>2, <1>3 DEF Caller

LEMMA FoundAdvance ==
    ASSUME TypeOK, FoundInv, NEW s \in Subjects, Advance(s), UNCHANGED <<db, committed, queryFailed>>
    PROVE  FoundInv'
  <1>1. CommittedExist'
    BY FoundUntouched DEF FoundInv
  <1>2. CASE Take(s)
    <2>1. UNCHANGED call /\ inbox[s] # <<>> /\ inbox' = [inbox EXCEPT ![s] = Tail(@)]
      BY <1>2 DEF Take
    <2>2. /\ Sent(Head(inbox[s]), s)
          /\ \A i \in DOMAIN Tail(inbox[s]) : Sent(Tail(inbox[s])[i], s)
      BY <2>1 DEF FoundInv, Queued, TypeOK, WorkOK
    <2>3. Queued'
      BY <2>1, <2>2 DEF FoundInv, Queued, TypeOK, WorkOK, Sent
    <2>4. /\ worker'[s].k = Head(inbox[s]) /\ worker'[s].answer.err # "notFound"
          /\ \A r \in Subjects \ {s} : worker'[r] = worker[r]
      <3>1. worker' = [worker EXCEPT ![s] =
              IF call[Head(inbox[s])].req.valid
                THEN [Idle EXCEPT !.pc = "query", !.k = Head(inbox[s])]
                ELSE [Idle EXCEPT !.pc = "reply", !.k = Head(inbox[s]), !.answer = Refusal]]
        BY <1>2 DEF Take
      <3>2. \A k : /\ [Idle EXCEPT !.pc = "query", !.k = k].k = k
                   /\ [Idle EXCEPT !.pc = "query", !.k = k].answer.err = "none"
                   /\ [Idle EXCEPT !.pc = "reply", !.k = k, !.answer = Refusal].k = k
                   /\ [Idle EXCEPT !.pc = "reply", !.k = k, !.answer = Refusal].answer.err = "validation"
        BY DEF Idle, NoAnswer, Refusal
      <3> QED  BY <3>1, <3>2 DEF TypeOK, WorkOK
    <2>5. AtWork'
      BY <2>1, <2>2, <2>4, FoundUntouched DEF FoundInv, AtWork, Sent
    <2> QED  BY <1>1, <2>1, <2>3, <2>5, FoundUntouched DEF FoundInv
  <1>3. ASSUME Reply(s) \/ ReplyLost(s) \/ Publish(s) \/ PublishFails(s)
        PROVE  FoundInv'
    <2>1. worker[s] \in Work /\ worker[s].pc # "idle" /\ worker[s].k \in Calls
      BY <1>3 DEF Reply, ReplyLost, Publish, PublishFails, TypeOK, WorkOK
    <2>2. Sent(worker[s].k, s) /\ (worker[s].answer.err = "notFound" => Gone(call[worker[s].k].req.id))
      BY <2>1 DEF FoundInv, AtWork
    <2>3. \/ UNCHANGED call
          \/ call' = [call EXCEPT ![worker[s].k] =
                        IF @.st = "waiting" THEN [@ EXCEPT !.st = "answered", !.answer = worker[s].answer]
                        ELSE @]
      BY <1>3 DEF Reply, ReplyLost, Publish, PublishFails
    <2>4. \A j \in Calls : /\ call'[j].req = call[j].req
                           /\ call'[j].st = "new" <=> call[j].st = "new"
                           /\ \/ call'[j].answer = call[j].answer
                              \/ /\ j = worker[s].k /\ call'[j].answer = worker[s].answer
                                 /\ call[j].st # "new"
      <3>1. call[worker[s].k] \in View /\ call[worker[s].k].st # "new"
        BY <2>1, <2>2 DEF TypeOK, CallsOK, Sent
      <3> DEFINE v == [call[worker[s].k] EXCEPT !.st = "answered", !.answer = worker[s].answer]
      <3>2. v.req = call[worker[s].k].req /\ v.st = "answered" /\ v.answer = worker[s].answer
        BY <3>1 DEF View
      <3>3. UNCHANGED call \/ call' = [call EXCEPT ![worker[s].k] = v]
        BY <2>1, <2>3 DEF TypeOK, CallsOK
      <3> HIDE DEF v
      <3> QED  BY <2>1, <3>1, <3>2, <3>3 DEF TypeOK, CallsOK
    <2>5. CallsAnswered'
      BY <2>2, <2>4, FoundUntouched DEF FoundInv, CallsAnswered
    <2>6. Queued'
      <3>1. UNCHANGED inbox
        BY <1>3 DEF Reply, ReplyLost, Publish, PublishFails
      <3> QED  BY <2>4, <3>1 DEF FoundInv, Queued, Sent, TypeOK, WorkOK
    <2>7. /\ \A r \in Subjects \ {s} : worker'[r] = worker[r]
          /\ worker'[s].pc = "idle" \/ (worker'[s].k = worker[s].k /\ worker'[s].answer = worker[s].answer)
      <3>1. worker' = [worker EXCEPT ![s] = Idle]
            \/ worker' = [worker EXCEPT ![s] = [worker[s] EXCEPT !.pc = "publish"]]
        BY <1>3 DEF Reply, ReplyLost, Replied, Publish, PublishFails
      <3>2. Idle.pc = "idle" /\ [worker[s] EXCEPT !.pc = "publish"].k = worker[s].k
            /\ [worker[s] EXCEPT !.pc = "publish"].answer = worker[s].answer
        BY <2>1 DEF Idle, Work
      <3> QED  BY <3>1, <3>2 DEF TypeOK, WorkOK
    <2>8. AtWork'
      <3>1. \A r \in Subjects : worker'[r].pc # "idle" =>
              /\ worker[r].pc # "idle" /\ worker[r].k \in Calls
              /\ worker'[r].k = worker[r].k /\ worker'[r].answer = worker[r].answer
        BY <2>1, <2>7 DEF TypeOK, WorkOK
      <3> QED  BY <2>4, <3>1, FoundUntouched DEF FoundInv, AtWork, Sent
    <2> QED  BY <1>1, <2>5, <2>6, <2>8 DEF FoundInv
  <1> QED  BY <1>2, <1>3 DEF Advance

LEMMA FoundProcess ==
    ASSUME TypeOK, FoundInv, Deliver \/ Process \/ UNCHANGED vars, UNCHANGED <<db, committed, queryFailed>>
    PROVE  FoundInv'
  <1>1. UNCHANGED call
    BY DEF Deliver, Process, Start, Signal, Close, Exit, Subscribe, Unsubscribe, vars
  <1>2. UNCHANGED worker \/ worker' = [s \in Subjects |-> Idle]
    BY DEF Deliver, Process, Start, Signal, Close, Exit, Subscribe, Unsubscribe, vars
  <1>3. \/ UNCHANGED inbox \/ inbox' = [s \in Subjects |-> <<>>]
        \/ \E s \in Subjects : inbox' = [inbox EXCEPT ![s] = <<>>]
    BY DEF Deliver, Process, Start, Signal, Close, Exit, Subscribe, Unsubscribe, vars
  <1>4. Queued'
    <2>1. \A s \in Subjects : inbox'[s] = inbox[s] \/ inbox'[s] = <<>>
      BY <1>3 DEF TypeOK, WorkOK
    <2> QED  BY <1>1, <2>1 DEF FoundInv, Queued, Sent
  <1>5. AtWork'
    <2>1. CASE worker' = [s \in Subjects |-> Idle]
      BY <2>1 DEF AtWork, Idle
    <2> QED  BY <1>1, <1>2, <2>1, FoundUntouched DEF FoundInv
  <1> QED  BY <1>1, <1>4, <1>5, FoundUntouched DEF FoundInv

LEMMA FoundStep == TypeOK /\ FoundInv /\ [Next]_vars => FoundInv'
  <1> SUFFICES ASSUME TypeOK, FoundInv, [Next]_vars PROVE FoundInv'
    OBVIOUS
  <1>1. CASE Handle
    BY <1>1, FoundHandle
  <1>2. CASE ~Handle
    BY <1>2, OnlyHandlersWrite, FoundCaller, FoundAdvance, FoundProcess DEF Next
  <1> QED  BY <1>1, <1>2

\* Whoever is told NOT_FOUND about an id that was ever handed out may forget it:
\* the row is deleted, and stays so.
THEOREM NotFoundStaysTrue == Spec => []NotFoundIsFinal
  <1>1. FoundInv => NotFoundIsFinal
    BY DEF FoundInv, CallsAnswered, Gone, NotFoundIsFinal
  <1> QED  BY <1>1, FoundInit, FoundStep, TypeCorrect, PTL DEF Spec

===============================================================================
