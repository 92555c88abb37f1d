------------------------- MODULE UserServiceOrderProofs -------------------------
(***************************************************************************)
(* What TLAPS proves of the events of the user service: no commit is       *)
(* announced twice, and the updates of a user are announced in the order   *)
(* they were committed, none of them passed over.                          *)
(*                                                                         *)
(* Every event, announced or still owed, is backed by the row it tells of: *)
(* the row exists, is deleted if the event says so, and has at least the   *)
(* revision the event tells.  A handler that commits changes the row, so   *)
(* that its event can not have been announced before; and since the one    *)
(* goroutine of the subject commits and announces, nothing newer can be    *)
(* announced before it.  Read the other way: an update that is not yet     *)
(* announced is newer than all that were (UpdatesTold).                    *)
(***************************************************************************)
EXTENDS UserServiceProofs

-------------------------------------------------------------------------------
(* What each method of the repository does, exactly.                        *)

\* How a query that can end in outcomes leaves the repository.
LeavesAs(t, outcomes, errors, o) ==
    \/ o \in outcomes /\ o.err = "none"
    \/ \E q \in outcomes : /\ q.err \in DOMAIN errors
                           /\ o = Outcome(q.db, errors[q.err], {})
    \/ /\ o.err = "internal" /\ o.users = {}
       /\ o.db = t \/ \E q \in outcomes : o.db = q.db

LEMMA CasesAre ==
    /\ DOMAIN NoCases = {} /\ DOMAIN NoRows = {"noRows"} /\ DOMAIN Unique = {"unique"}
    /\ DOMAIN Both = {"noRows", "unique"}
    /\ NoRows["noRows"] = "notFound" /\ Unique["unique"] = "alreadyExists"
    /\ Both["noRows"] = "notFound" /\ Both["unique"] = "alreadyExists"
  BY DEF NoCases, NoRows, Unique, Both

LEMMA MappedLeavesAs ==
    ASSUME NEW t, NEW outcomes, NEW h \in Health, NEW errors \in Cases,
           \A q \in outcomes : q.err \in {"none", "noRows", "unique"},
           NEW o \in Mapped(Attempt(t, outcomes, h), errors)
    PROVE  LeavesAs(t, outcomes, errors, o)
  <1> DEFINE raw == Attempt(t, outcomes, h)
  <1>1. \A q \in raw : q \in outcomes \/ (q.err = "failed" /\ (q.db = t \/ \E p \in outcomes : q.db = p.db))
    BY DEF Attempt, Health, Outcome
  <1> HIDE DEF raw
  <1>2. PICK q \in raw :
          o = CASE q.err = "none" -> q
                [] q.err \in DOMAIN errors -> Outcome(q.db, errors[q.err], {})
                [] OTHER -> Outcome(q.db, "internal", {})
    BY DEF Mapped, raw
  <1>3. "none" \notin DOMAIN errors /\ "failed" \notin DOMAIN errors
    BY CasesAre DEF Cases
  <1>4. CASE q.err = "none"
    <2>1. o = q
      BY <1>2, <1>3, <1>4
    <2> QED  BY <1>1, <1>4, <2>1 DEF LeavesAs
  <1>5. CASE q.err \in DOMAIN errors
    <2>1. o = Outcome(q.db, errors[q.err], {})
      BY <1>2, <1>3, <1>5
    <2>2. q \in outcomes
      BY <1>1, <1>3, <1>5
    <2> QED  BY <1>5, <2>1, <2>2 DEF LeavesAs
  <1>6. CASE q.err # "none" /\ q.err \notin DOMAIN errors
    <2>1. o = Outcome(q.db, "internal", {})
      BY <1>2, <1>6
    <2>2. o.err = "internal" /\ o.users = {} /\ o.db = q.db
      BY <2>1 DEF Outcome
    <2> QED  BY <1>1, <2>2 DEF LeavesAs
  <1> QED  BY <1>4, <1>5, <1>6

LEMMA SwallowedLeavesAs ==
    ASSUME NEW outcomes, NEW o \in Swallowed(outcomes)
    PROVE  \/ o \in outcomes /\ o.err # "internal"
           \/ /\ o.err = "none" /\ o.users = {ZeroUser}
              /\ \E q \in outcomes : q.err = "internal" /\ q.db = o.db
  <1>1. PICK q \in outcomes :
          o = IF q.err = "internal" THEN Outcome(q.db, "none", {ZeroUser}) ELSE q
    BY DEF Swallowed
  <1> QED  BY <1>1 DEF Outcome

Inserted(t, id, email) == [t EXCEPT ![id] = LiveRow(email, 1)]
Written(t, id, email) == [t EXCEPT ![id] = LiveRow(email, t[id].rev + 1)]
Removed(t, id) == [t EXCEPT ![id].state = "deleted"]
NewUser(id, email, rev) == [id |-> id, email |-> email, rev |-> rev]

CreateDoes(t, email, o) ==
    \/ \E id \in Absent(t) :
         /\ Holders(t, email) = {}
         /\ o.db = Inserted(t, id, email)
         /\ \/ o.err = "none" /\ o.users = {NewUser(id, email, 1)}
            \/ o.err = "internal" /\ o.users = {}
    \/ /\ o.db = t /\ o.users = {}
       /\ o.err = "internal" \/ (o.err = "alreadyExists" /\ Holders(t, email) # {})

GetByIDDoes(t, id, o) ==
    /\ o.db = t
    /\ \/ o.err = "none" /\ id \in Live(t) /\ o.users = {UserOf(t, id)}
       \/ o.err = "none" /\ o.users = {ZeroUser}
       \/ o.err = "notFound" /\ id \notin Live(t) /\ o.users = {}

GetByEmailDoes(t, email, o) ==
    /\ o.db = t
    /\ \/ o.err = "none" /\ \E id \in Holders(t, email) : o.users = {UserOf(t, id)}
       \/ o.err = "notFound" /\ Holders(t, email) = {} /\ o.users = {}
       \/ o.err = "internal" /\ o.users = {}

ListDoes(t, pages, o) ==
    /\ o.db = t
    /\ \/ o.err = "none" /\ o.users \in pages
       \/ o.err = "internal" /\ o.users = {}

UpdateDoes(t, id, email, o) ==
    \/ /\ id \in Live(t) /\ Holders(t, email) \ {id} = {}
       /\ o.db = Written(t, id, email)
       /\ o.err = "none"
       /\ o.users = {NewUser(id, email, t[id].rev + 1)} \/ o.users = {ZeroUser}
    \/ /\ o.db = t
       /\ \/ o.err = "none" /\ o.users = {ZeroUser}
          \/ o.err = "notFound" /\ id \notin Live(t) /\ o.users = {}
          \/ o.err = "alreadyExists" /\ id \in Live(t) /\ Holders(t, email) \ {id} # {} /\ o.users = {}

DeleteDoes(t, id, o) ==
    /\ o.users = {}
    /\ \/ id \in Live(t) /\ o.db = Removed(t, id) /\ o.err \in {"none", "internal"}
       \/ o.db = t /\ o.err = "internal"
       \/ o.db = t /\ id \notin Live(t) /\ o.err = "notFound"

LEMMA CreateIs ==
    ASSUME NEW t \in [Ids -> Row], NEW email, NEW h \in Health, NEW o \in Create(t, email, h)
    PROVE  CreateDoes(t, email, o)
  <1> DEFINE outcomes == InsertUser(t, email)
  <1>1. \A q \in outcomes :
          \/ Holders(t, email) # {} /\ q = Outcome(t, "unique", {})
          \/ /\ Holders(t, email) = {}
             /\ \E id \in Absent(t) : q = Outcome(Inserted(t, id, email), "none", {NewUser(id, email, 1)})
    BY DEF InsertUser, Inserted, NewUser, UserOf, LiveRow, Absent
  <1>2. o \in Mapped(Attempt(t, outcomes, h), Unique)
    BY DEF Create
  <1> HIDE DEF outcomes
  <1>3. \A q \in outcomes :
          \/ Holders(t, email) # {} /\ q.err = "unique" /\ q.db = t
          \/ /\ Holders(t, email) = {} /\ q.err = "none"
             /\ \E id \in Absent(t) : q.db = Inserted(t, id, email) /\ q.users = {NewUser(id, email, 1)}
    BY <1>1 DEF Outcome
  <1>4. LeavesAs(t, outcomes, Unique, o)
    BY <1>2, <1>3, MappedLeavesAs DEF Cases
  <1>5. CASE o \in outcomes /\ o.err = "none"
    BY <1>3, <1>5 DEF CreateDoes
  <1>6. ASSUME NEW q \in outcomes, q.err \in DOMAIN Unique, o = Outcome(q.db, Unique[q.err], {})
        PROVE  CreateDoes(t, email, o)
    BY <1>3, <1>6, CasesAre DEF CreateDoes, Outcome
  <1>7. ASSUME o.err = "internal", o.users = {}, o.db = t \/ \E q \in outcomes : o.db = q.db
        PROVE  CreateDoes(t, email, o)
    BY <1>3, <1>7 DEF CreateDoes
  <1> QED  BY <1>4, <1>5, <1>6, <1>7 DEF LeavesAs

LEMMA GetByIDIs ==
    ASSUME NEW t, NEW id, NEW h \in Health, NEW o \in GetByID(t, id, h)
    PROVE  GetByIDDoes(t, id, o)
  <1> DEFINE outcomes == SelectUser(t, Live(t) \cap {id})
  <1>1. \A q \in outcomes :
          \/ id \notin Live(t) /\ q.err = "noRows" /\ q.db = t
          \/ id \in Live(t) /\ q.err = "none" /\ q.db = t /\ q.users = {UserOf(t, id)}
    BY DEF SelectUser, Outcome
  <1> DEFINE left == Mapped(Attempt(t, outcomes, h), NoRows)
  <1>2. o \in Swallowed(left)
    BY DEF GetByID
  <1> HIDE DEF outcomes
  <1>3. \A q \in left : LeavesAs(t, outcomes, NoRows, q)
    BY <1>1, MappedLeavesAs DEF Cases
  <1> HIDE DEF left
  <1>4. \A q \in left :
          \/ q.db = t /\ q.err = "none" /\ id \in Live(t) /\ q.users = {UserOf(t, id)}
          \/ q.db = t /\ q.err = "notFound" /\ id \notin Live(t) /\ q.users = {}
          \/ q.db = t /\ q.err = "internal"
    BY <1>1, <1>3, CasesAre DEF LeavesAs, Outcome
  <1> QED  BY <1>2, <1>4, SwallowedLeavesAs DEF GetByIDDoes

LEMMA GetByEmailIs ==
    ASSUME NEW t, NEW email, NEW h \in Health, NEW o \in GetByEmail(t, email, h)
    PROVE  GetByEmailDoes(t, email, o)
  <1> DEFINE outcomes == SelectUser(t, Holders(t, email))
  <1>1. \A q \in outcomes :
          \/ Holders(t, email) = {} /\ q.err = "noRows" /\ q.db = t
          \/ \E id \in Holders(t, email) : q.err = "none" /\ q.db = t /\ q.users = {UserOf(t, id)}
    BY DEF SelectUser, Outcome
  <1>2. o \in Mapped(Attempt(t, outcomes, h), NoRows)
    BY DEF GetByEmail
  <1> HIDE DEF outcomes
  <1>3. LeavesAs(t, outcomes, NoRows, o)
    BY <1>1, <1>2, MappedLeavesAs DEF Cases
  <1> QED  BY <1>1, <1>3, CasesAre DEF LeavesAs, Outcome, GetByEmailDoes

LEMMA ListIs ==
    ASSUME NEW t, NEW h \in Health
    PROVE  /\ \A o \in List(t, h) : ListDoes(t, SUBSET LiveUsers(t), o)
           /\ \A o \in ListAll(t, h) : ListDoes(t, {LiveUsers(t)}, o)
  <1> DEFINE some == SelectPage(t)
             all == SelectAll(t)
  <1>1. \A q \in some : q.err = "none" /\ q.db = t /\ q.users \in SUBSET LiveUsers(t)
    BY DEF SelectPage, Outcome
  <1>2. \A q \in all : q.err = "none" /\ q.db = t /\ q.users = LiveUsers(t)
    BY DEF SelectAll, Outcome
  <1>3. /\ \A o \in List(t, h) : o \in Mapped(Attempt(t, some, h), NoCases)
        /\ \A o \in ListAll(t, h) : o \in Mapped(Attempt(t, all, h), NoCases)
    BY DEF List, ListAll
  <1> HIDE DEF some, all
  <1>4. /\ \A o \in List(t, h) : LeavesAs(t, some, NoCases, o)
        /\ \A o \in ListAll(t, h) : LeavesAs(t, all, NoCases, o)
    BY <1>1, <1>2, <1>3, MappedLeavesAs DEF Cases
  <1>5. ASSUME NEW o \in List(t, h) PROVE ListDoes(t, SUBSET LiveUsers(t), o)
    <2>1. LeavesAs(t, some, NoCases, o)
      BY <1>4
    <2> QED  BY <1>1, <2>1, CasesAre DEF LeavesAs, ListDoes
  <1>6. ASSUME NEW o \in ListAll(t, h) PROVE ListDoes(t, {LiveUsers(t)}, o)
    <2>1. LeavesAs(t, all, NoCases, o)
      BY <1>4
    <2> QED  BY <1>2, <2>1, CasesAre DEF LeavesAs, ListDoes
  <1> QED  BY <1>5, <1>6

LEMMA UpdateIs ==
    ASSUME NEW t \in [Ids -> Row], NEW id, NEW email, NEW h \in Health, NEW o \in Update(t, id, email, h)
    PROVE  UpdateDoes(t, id, email, o)
  <1> DEFINE outcomes == SetUser(t, id, email)
  <1>1. \A q \in outcomes :
          \/ id \notin Live(t) /\ q.err = "noRows" /\ q.db = t
          \/ id \in Live(t) /\ Holders(t, email) \ {id} # {} /\ q.err = "unique" /\ q.db = t
          \/ /\ id \in Live(t) /\ Holders(t, email) \ {id} = {} /\ q.err = "none"
             /\ q.db = Written(t, id, email) /\ q.users = {NewUser(id, email, t[id].rev + 1)}
    <2>1. CASE id \notin Live(t)
      BY <2>1 DEF SetUser, Outcome
    <2>2. CASE id \in Live(t) /\ Holders(t, email) \ {id} # {}
      BY <2>2 DEF SetUser, Outcome
    <2>3. CASE id \in Live(t) /\ Holders(t, email) \ {id} = {}
      <3> DEFINE new == Written(t, id, email)
      <3>1. outcomes = {Outcome(new, "none", {UserOf(new, id)})}
        BY <2>3 DEF SetUser, Written
      <3>2. new[id] = LiveRow(email, t[id].rev + 1)
        BY <2>3 DEF Written, Live
      <3>3. UserOf(new, id) = NewUser(id, email, t[id].rev + 1)
        BY <3>2 DEF UserOf, NewUser, LiveRow
      <3> HIDE DEF new
      <3> QED  BY <2>3, <3>1, <3>3 DEF Outcome, new
    <2> QED  BY <2>1, <2>2, <2>3
  <1> DEFINE left == Mapped(Attempt(t, outcomes, h), Both)
  <1>2. o \in Swallowed(left)
    BY DEF Update
  <1> HIDE DEF outcomes
  <1>3. \A q \in left : LeavesAs(t, outcomes, Both, q)
    BY <1>1, MappedLeavesAs DEF Cases
  <1> HIDE DEF left
  <1>4. \A q \in left :
          \/ /\ q.db = Written(t, id, email) /\ id \in Live(t) /\ Holders(t, email) \ {id} = {}
             /\ \/ q.err = "none" /\ q.users = {NewUser(id, email, t[id].rev + 1)}
                \/ q.err = "internal"
          \/ q.db = t /\ q.err = "notFound" /\ id \notin Live(t) /\ q.users = {}
          \/ /\ q.db = t /\ q.err = "alreadyExists" /\ id \in Live(t)
             /\ Holders(t, email) \ {id} # {} /\ q.users = {}
          \/ q.db = t /\ q.err = "internal"
    BY <1>1, <1>3, CasesAre DEF LeavesAs, Outcome
  <1> QED  BY <1>2, <1>4, SwallowedLeavesAs DEF UpdateDoes

LEMMA DeleteIs ==
    ASSUME NEW t, NEW id, NEW h \in Health, NEW o \in Delete(t, id, h)
    PROVE  DeleteDoes(t, id, o)
  <1> DEFINE outcomes == SoftDelete(t, id)
  <1>1. \A q \in outcomes :
          \/ id \notin Live(t) /\ q.err = "noRows" /\ q.db = t /\ q.users = {}
          \/ id \in Live(t) /\ q.err = "none" /\ q.db = Removed(t, id) /\ q.users = {}
    BY DEF SoftDelete, Outcome, Removed
  <1>2. o \in Mapped(Attempt(t, outcomes, h), NoRows)
    BY DEF Delete
  <1> HIDE DEF outcomes
  <1>3. LeavesAs(t, outcomes, NoRows, o)
    BY <1>1, <1>2, MappedLeavesAs DEF Cases
  <1> QED  BY <1>1, <1>3, CasesAre DEF LeavesAs, Outcome, DeleteDoes

-------------------------------------------------------------------------------
(* The handlers, exactly: what one of them does with the outcome of its     *)
(* query, for the table and for the event it then owes.                     *)

\* The outcomes of the query of handler s, asked for req.
Does(s, req, o) ==
    CASE s = "create"     -> CreateDoes(db, req.email, o)
      [] s = "getByID"    -> GetByIDDoes(db, req.id, o)
      [] s = "getByEmail" -> GetByEmailDoes(db, req.email, o)
      [] s = "list"       -> ListDoes(db, SUBSET LiveUsers(db), o)
      [] s = "listAll"    -> ListDoes(db, {LiveUsers(db)}, o)
      [] s = "update"     -> UpdateDoes(db, req.id, req.email, o)
      [] s = "delete"     -> DeleteDoes(db, req.id, o)

\* The event that goes with outcome o, if it is a success.
EventOf(s, req, o) ==
    CASE s = "create" -> {UserEvent("created", u) : u \in o.users}
      [] s = "update" -> {UserEvent("updated", u) : u \in o.users}
      [] s = "delete" -> {DeletedEvent(req.id)}
      [] OTHER -> {}

LEMMA HandleIs ==
    ASSUME TypeOK, Handle
    PROVE  \E s \in Subjects : \E o :
             Querying(s) /\ Does(s, Asked(s), o) /\ Finish(s, o, EventOf(s, Asked(s), o))
  <1>1. db \in [Ids -> Row] /\ health \in Health
    BY DEF TypeOK, TableOK, health, Health
  <1>2. /\ "create" \in Subjects /\ "getByID" \in Subjects /\ "getByEmail" \in Subjects
        /\ "list" \in Subjects /\ "listAll" \in Subjects
        /\ "update" \in Subjects /\ "delete" \in Subjects
    BY DEF Subjects, Entries
  <1>3. CASE HandleCreate
    BY <1>1, <1>2, <1>3, CreateIs DEF HandleCreate, Does, EventOf
  <1>4. CASE HandleGetByID
    BY <1>1, <1>2, <1>4, GetByIDIs DEF HandleGetByID, Does, EventOf
  <1>5. CASE HandleGetByEmail
    BY <1>1, <1>2, <1>5, GetByEmailIs DEF HandleGetByEmail, Does, EventOf
  <1>6. CASE HandleList
    BY <1>1, <1>2, <1>6, ListIs DEF HandleList, Does, EventOf
  <1>7. CASE HandleListAll
    BY <1>1, <1>2, <1>7, ListIs DEF HandleListAll, Does, EventOf
  <1>8. CASE HandleUpdate
    BY <1>1, <1>2, <1>8, UpdateIs DEF HandleUpdate, Does, EventOf
  <1>9. CASE HandleDelete
    BY <1>1, <1>2, <1>9, DeleteIs DEF HandleDelete, Does, EventOf
  <1> QED  BY <1>3, <1>4, <1>5, <1>6, <1>7, <1>8, <1>9 DEF Handle

\* The kind of event a subject owes.
OwedBy(s, e) ==
    \/ s = "create" /\ e.type = "created"
    \/ s = "update" /\ e.type = "updated"
    \/ s = "delete" /\ e.type = "deleted"

\* The row an event of handler s tells of was just written.
Commits(s, e) ==
    e.id \in Ids =>
      \/ s = "create" /\ db[e.id].state = "absent" /\ db'[e.id].state = "live"
      \/ /\ s = "update" /\ db[e.id].state = "live" /\ db'[e.id].state = "live"
         /\ e.user.rev = db'[e.id].rev /\ db[e.id].rev < db'[e.id].rev
      \/ s = "delete" /\ db[e.id].state = "live" /\ db'[e.id].state = "deleted"

\* Rows are never taken back.
RowsGo(t, new) ==
    \A id \in Ids : t[id].state # "absent" =>
      /\ new[id].state # "absent" /\ t[id].rev <= new[id].rev
      /\ t[id].state = "deleted" => new[id].state = "deleted"

LEMMA HandleCommits ==
    ASSUME TypeOK, NEW s \in Subjects, NEW o, Querying(s), Does(s, Asked(s), o),
           Finish(s, o, EventOf(s, Asked(s), o))
    PROVE  /\ RowsGo(db, db')
           /\ \A e \in worker'[s].todo : OwedBy(s, e) /\ Commits(s, e)
           /\ \A e, f \in worker'[s].todo : e = f
           /\ \A r \in Subjects \ {s} : worker'[r] = worker[r]
           /\ UNCHANGED events
  <1> DEFINE req == Asked(s)
             todo == EventOf(s, req, o)
  <1>1. /\ db' = o.db /\ UNCHANGED events
        /\ worker'[s].todo = IF o.err = "none" THEN todo ELSE {}
        /\ \A r \in Subjects \ {s} : worker'[r] = worker[r]
    BY DEF Finish, TypeOK, WorkOK, Work
  <1>2. db \in [Ids -> Row] /\ \A id \in Ids : db[id].rev \in Nat
    BY DEF TypeOK, TableOK, Row
  <1>3. req.id \in Ids \cup {NilId} /\ NilId \notin Ids /\ ZeroUser.id = NilId
    BY AskedType, ZeroUserType, StoreAssumption DEF Request
  <1> HIDE DEF req
  <1> SUFFICES /\ RowsGo(db, o.db)
               /\ o.err = "none" => /\ \A e \in todo : OwedBy(s, e) /\ Commits(s, e)
                                    /\ \A e, f \in todo : e = f
    BY <1>1
  <1>4. RowsGo(db, db)
    BY <1>2 DEF RowsGo
  <1>5. CASE s = "create"
    <2>1. CreateDoes(db, req.email, o) /\ todo = {UserEvent("created", u) : u \in o.users}
      BY <1>5 DEF Does, EventOf, req
    <2>2. CASE o.db = db /\ o.users = {} /\ o.err # "none"
      BY <1>4, <2>2
    <2>3. ASSUME NEW id \in Absent(db), o.db = Inserted(db, id, req.email),
                 o.err = "none" => o.users = {NewUser(id, req.email, 1)}
          PROVE  /\ RowsGo(db, o.db)
                 /\ o.err = "none" => /\ \A e \in todo : OwedBy(s, e) /\ Commits(s, e)
                                      /\ \A e, f \in todo : e = f
      <3>1. id \in Ids /\ db[id].state = "absent"
        BY DEF Absent
      <3>2. o.db[id].state = "live" /\ \A i \in Ids \ {id} : o.db[i] = db[i]
        BY <1>2, <2>3, <3>1 DEF Inserted, LiveRow
      <3>3. RowsGo(db, o.db)
        BY <1>2, <3>1, <3>2 DEF RowsGo
      <3>4. ASSUME o.err = "none" PROVE todo = {UserEvent("created", NewUser(id, req.email, 1))}
        BY <2>1, <2>3, <3>4
      <3>5. LET e == UserEvent("created", NewUser(id, req.email, 1)) IN e.id = id /\ e.type = "created"
        BY DEF UserEvent, NewUser
      <3>6. ASSUME o.err = "none", NEW e \in todo PROVE OwedBy(s, e) /\ Commits(s, e)
        BY <1>1, <1>5, <3>1, <3>2, <3>4, <3>5, <3>6 DEF OwedBy, Commits
      <3> QED  BY <3>3, <3>4, <3>6
    <2> QED  BY <2>1, <2>2, <2>3 DEF CreateDoes
  <1>6. CASE s = "update"
    <2>1. UpdateDoes(db, req.id, req.email, o) /\ todo = {UserEvent("updated", u) : u \in o.users}
      BY <1>6 DEF Does, EventOf, req
    <2>2. /\ UserEvent("updated", ZeroUser).id = NilId /\ UserEvent("updated", ZeroUser).type = "updated"
      BY <1>3 DEF UserEvent
    <2>3. CASE o.users = {ZeroUser}
      <3>1. todo = {UserEvent("updated", ZeroUser)}
        BY <2>1, <2>3
      <3>2. /\ \A e \in todo : OwedBy(s, e) /\ Commits(s, e)
            /\ \A e, f \in todo : e = f
        BY <1>3, <1>6, <2>2, <3>1 DEF OwedBy, Commits
      <3>3. RowsGo(db, o.db)
        <4>1. CASE o.db = db
          BY <1>4, <4>1
        <4>2. CASE req.id \in Live(db) /\ o.db = Written(db, req.id, req.email)
          <5>1. req.id \in Ids /\ db[req.id].state = "live"
            BY <4>2 DEF Live
          <5>2. /\ o.db[req.id].state = "live" /\ o.db[req.id].rev = db[req.id].rev + 1
                /\ \A i \in Ids \ {req.id} : o.db[i] = db[i]
            BY <1>2, <4>2, <5>1 DEF Written, LiveRow
          <5> QED  BY <1>2, <5>1, <5>2 DEF RowsGo
        <4> QED  BY <2>1, <4>1, <4>2 DEF UpdateDoes
      <3> QED  BY <3>2, <3>3
    <2>4. CASE /\ req.id \in Live(db) /\ o.db = Written(db, req.id, req.email)
               /\ o.users = {NewUser(req.id, req.email, db[req.id].rev + 1)}
      <3>1. req.id \in Ids /\ db[req.id].state = "live"
        BY <2>4 DEF Live
      <3>2. /\ o.db[req.id].state = "live" /\ o.db[req.id].rev = db[req.id].rev + 1
            /\ \A i \in Ids \ {req.id} : o.db[i] = db[i]
        BY <1>2, <2>4, <3>1 DEF Written, LiveRow
      <3>3. RowsGo(db, o.db)
        BY <1>2, <3>1, <3>2 DEF RowsGo
      <3> DEFINE u == NewUser(req.id, req.email, db[req.id].rev + 1)
      <3>4. todo = {UserEvent("updated", u)}
        BY <2>1, <2>4
      <3>5. /\ UserEvent("updated", u).id = req.id /\ UserEvent("updated", u).type = "updated"
            /\ UserEvent("updated", u).user.rev = db[req.id].rev + 1
        BY DEF UserEvent, NewUser
      <3> HIDE DEF u
      <3>6. \A e \in todo : OwedBy(s, e) /\ Commits(s, e)
        BY <1>1, <1>2, <1>6, <3>1, <3>2, <3>4, <3>5 DEF OwedBy, Commits
      <3> QED  BY <3>3, <3>4, <3>6
    <2>5. CASE o.db = db /\ o.users = {} /\ o.err # "none"
      BY <1>4, <2>5
    <2> QED  BY <2>1, <2>3, <2>4, <2>5 DEF UpdateDoes
  <1>7. CASE s = "delete"
    <2>1. DeleteDoes(db, req.id, o) /\ todo = {DeletedEvent(req.id)}
      BY <1>7 DEF Does, EventOf, req
    <2>2. CASE o.db = db /\ o.err # "none"
      BY <1>4, <2>2
    <2>3. CASE req.id \in Live(db) /\ o.db = Removed(db, req.id)
      <3>1. req.id \in Ids /\ db[req.id].state = "live"
        BY <2>3 DEF Live
      <3>2. /\ o.db[req.id].state = "deleted" /\ o.db[req.id].rev = db[req.id].rev
            /\ \A i \in Ids \ {req.id} : o.db[i] = db[i]
        BY <1>2, <2>3, <3>1 DEF Removed, Row
      <3>3. RowsGo(db, o.db)
        BY <1>2, <3>1, <3>2 DEF RowsGo
      <3>4. DeletedEvent(req.id).id = req.id /\ DeletedEvent(req.id).type = "deleted"
        BY DEF DeletedEvent
      <3>5. \A e \in todo : OwedBy(s, e) /\ Commits(s, e)
        BY <1>1, <1>7, <2>1, <3>1, <3>2, <3>4 DEF OwedBy, Commits
      <3> QED  BY <2>1, <3>3, <3>5
    <2> QED  BY <2>1, <2>2, <2>3 DEF DeleteDoes
  <1>8. CASE s \notin {"create", "update", "delete"}
    <2>1. todo = {}
      BY <1>8 DEF EventOf
    <2>2. s \in {"getByID", "getByEmail", "list", "listAll"}
      BY <1>8 DEF Subjects, Entries
    <2>3. o.db = db
      BY <2>2 DEF Does, GetByIDDoes, GetByEmailDoes, ListDoes
    <2> QED  BY <1>4, <2>1, <2>3
  <1> QED  BY <1>5, <1>6, <1>7, <1>8

-------------------------------------------------------------------------------
(* Announcements.                                                           *)

\* What the other steps do to the events, owed and announced.
LEMMA WireSteps ==
    ASSUME TypeOK, [Next]_vars, ~Handle
    PROVE  \/ UNCHANGED events /\ \A r \in Subjects : worker'[r].todo \subseteq worker[r].todo
           \/ \E s \in Subjects : \E e \in worker[s].todo :
                /\ events' = Append(events, e) /\ worker'[s].todo = {}
                /\ \A r \in Subjects \ {s} : worker'[r] = worker[r]
           \/ \E n \in 0 .. Len(events) :
                events' = SubSeq(events, 1, n) /\ \A r \in Subjects : worker'[r].todo = {}
  <1>0. Idle.todo = {}
    BY DEF Idle
  <1>1. ASSUME NEW s \in Subjects, Take(s)
        PROVE  UNCHANGED events /\ \A r \in Subjects : worker'[r].todo \subseteq worker[r].todo
    <2>1. \A k : /\ [Idle EXCEPT !.pc = "query", !.k = k].todo = {}
                 /\ [Idle EXCEPT !.pc = "reply", !.k = k, !.answer = Refusal].todo = {}
      BY DEF Idle
    <2>2. \E w : worker' = [worker EXCEPT ![s] = w] /\ w.todo = {}
      <3>1. CASE call[Head(inbox[s])].req.valid
        BY <1>1, <2>1, <3>1 DEF Take
      <3>2. CASE ~call[Head(inbox[s])].req.valid
        BY <1>1, <2>1, <3>2 DEF Take
      <3> QED  BY <3>1, <3>2
    <2> QED  BY <1>1, <2>2 DEF Take, TypeOK, WorkOK
  <1>2. ASSUME NEW s \in Subjects, Reply(s) \/ ReplyLost(s)
        PROVE  UNCHANGED events /\ \A r \in Subjects : worker'[r].todo \subseteq worker[r].todo
    <2>1. worker' = [worker EXCEPT ![s] = IF worker[s].todo = {} THEN Idle
                                          ELSE [worker[s] EXCEPT !.pc = "publish"]]
      BY <1>2 DEF Reply, ReplyLost, Replied
    <2>2. [worker[s] EXCEPT !.pc = "publish"].todo = worker[s].todo
      BY DEF TypeOK, WorkOK, Work
    <2> QED  BY <1>0, <1>2, <2>1, <2>2 DEF Reply, ReplyLost, TypeOK, WorkOK
  <1>3. ASSUME NEW s \in Subjects, Publish(s)
        PROVE  \E e \in worker[s].todo :
                 /\ events' = Append(events, e) /\ worker'[s].todo = {}
                 /\ \A r \in Subjects \ {s} : worker'[r] = worker[r]
    BY <1>0, <1>3 DEF Publish, TypeOK, WorkOK
  <1>4. ASSUME NEW s \in Subjects, PublishFails(s)
        PROVE  UNCHANGED events /\ \A r \in Subjects : worker'[r].todo \subseteq worker[r].todo
    BY <1>0, <1>4 DEF PublishFails, TypeOK, WorkOK
  <1>5. CASE Exit
    <2>1. PICK n \in delivered .. Len(events) : events' = SubSeq(events, 1, n)
      BY <1>5 DEF Exit
    <2>2. n \in 0 .. Len(events)
      BY DEF TypeOK, WireOK
    <2> QED  BY <1>0, <1>5, <2>1, <2>2 DEF Exit
  <1>6. ASSUME UNCHANGED <<events, worker>>
        PROVE  UNCHANGED events /\ \A r \in Subjects : worker'[r].todo \subseteq worker[r].todo
    BY <1>6
  <1>7. \/ UNCHANGED <<events, worker>> \/ Exit
        \/ \E s \in Subjects : Take(s) \/ Reply(s) \/ ReplyLost(s) \/ Publish(s) \/ PublishFails(s)
    BY DEF Next, Caller, GiveUp, Send, Advance, Deliver, Process, Start, Signal, Close, Subscribe,
       Unsubscribe, vars
  <1> QED  BY <1>1, <1>2, <1>3, <1>4, <1>5, <1>6, <1>7

\* The row an event tells of is there.
Backed(e) ==
    e.id \in Ids =>
      /\ db[e.id].state # "absent"
      /\ e.type = "updated" => e.user.rev <= db[e.id].rev
      /\ e.type = "deleted" => db[e.id].state = "deleted"

\* Of one user, at most updates are announced more than once, and then in order.
Follows(e, f) ==
    e.id = f.id /\ e.type = f.type /\ e.id \in Ids =>
      e.type = "updated" /\ e.user.rev < f.user.rev

EventsBacked == \A i \in DOMAIN events : Backed(events[i])
EventsOrdered == \A i, j \in DOMAIN events : i < j => Follows(events[i], events[j])
OwedFollow ==
    \A s \in Subjects : \A e \in worker[s].todo :
      /\ OwedBy(s, e) /\ Backed(e)
      /\ \A i \in DOMAIN events : Follows(events[i], e)

AnnounceInv == EventsBacked /\ EventsOrdered /\ OwedFollow

LEMMA AnnounceInit == Init => AnnounceInv
  BY DEF Init, AnnounceInv, EventsBacked, EventsOrdered, OwedFollow, Idle

LEMMA EventsTyped ==
    ASSUME TypeOK
    PROVE  /\ \A i \in DOMAIN events : events[i] \in Event
           /\ \A s \in Subjects : worker[s].todo \in SUBSET Event
           /\ \A e \in Event : e.user.rev \in Nat /\ e.id \in Ids \cup {NilId}
  <1>1. \A i \in DOMAIN events : events[i] \in Event
    BY DEF TypeOK, WireOK
  <1>2. \A w \in Work : w.todo \in SUBSET Event
    BY DEF Work
  <1>3. \A s \in Subjects : worker[s].todo \in SUBSET Event
    BY <1>2 DEF TypeOK, WorkOK
  <1>4. \A e \in Event : e.user \in User /\ e.id \in Ids \cup {NilId}
    BY DEF Event
  <1>5. \A u \in User : u.rev \in Nat
    BY DEF User
  <1> QED  BY <1>1, <1>3, <1>4, <1>5

LEMMA AnnounceHandle ==
    ASSUME TypeOK, TypeOK', AnnounceInv, Handle
    PROVE  AnnounceInv'
  <1>1. PICK s \in Subjects : \E o :
          Querying(s) /\ Does(s, Asked(s), o) /\ Finish(s, o, EventOf(s, Asked(s), o))
    BY HandleIs
  <1>2. /\ RowsGo(db, db') /\ UNCHANGED events
        /\ \A e \in worker'[s].todo : OwedBy(s, e) /\ Commits(s, e)
        /\ \A r \in Subjects \ {s} : worker'[r] = worker[r]
    BY <1>1, HandleCommits
  <1>3. \A id \in Ids : db[id].rev \in Nat /\ db'[id].rev \in Nat
    BY DEF TypeOK, TableOK, Row
  <1>4. ASSUME NEW e \in Event, Backed(e) PROVE Backed(e)'
    <2>1. e.user.rev \in Nat
      BY EventsTyped
    <2> QED  BY <1>2, <1>3, <1>4, <2>1 DEF RowsGo, Backed
  <1>5. EventsBacked'
    BY <1>2, <1>4, EventsTyped DEF AnnounceInv, EventsBacked
  <1>6. EventsOrdered'
    BY <1>2 DEF AnnounceInv, EventsOrdered
  <1>7. ASSUME NEW e \in worker'[s].todo
        PROVE  Backed(e)' /\ \A i \in DOMAIN events : Follows(events[i], e)
    <2>1. OwedBy(s, e) /\ Commits(s, e)
      BY <1>2
    <2>2. Backed(e)'
      BY <1>3, <2>1 DEF OwedBy, Commits, Backed
    <2>3. ASSUME NEW i \in DOMAIN events, events[i].id = e.id, events[i].type = e.type, e.id \in Ids
          PROVE  e.type = "updated" /\ events[i].user.rev < e.user.rev
      <3>1. Backed(events[i]) /\ events[i].user.rev \in Nat
        BY EventsTyped DEF AnnounceInv, EventsBacked
      <3>2. CASE s = "create"
        BY <2>1, <2>3, <3>1, <3>2 DEF Commits, Backed
      <3>3. CASE s = "update"
        <4>1. /\ e.type = "updated" /\ db[e.id].rev < e.user.rev /\ e.user.rev = db'[e.id].rev
          BY <2>1, <2>3, <3>3 DEF Commits, OwedBy
        <4>2. events[i].user.rev <= db[e.id].rev
          BY <2>3, <3>1, <4>1 DEF Backed
        <4> QED  BY <1>3, <2>3, <3>1, <4>1, <4>2
      <3>4. CASE s = "delete"
        BY <2>1, <2>3, <3>1, <3>4 DEF Commits, OwedBy, Backed
      <3> QED  BY <2>1, <2>3, <3>2, <3>3, <3>4 DEF Commits
    <2> QED  BY <2>2, <2>3 DEF Follows
  <1>8. OwedFollow'
    <2> SUFFICES ASSUME NEW r \in Subjects, NEW e \in worker'[r].todo
                 PROVE  OwedBy(r, e) /\ Backed(e)' /\ \A i \in DOMAIN events : Follows(events[i], e)
      BY <1>2 DEF OwedFollow
    <2>1. CASE r = s
      BY <1>2, <1>7, <2>1
    <2>2. CASE r # s
      <3>1. e \in worker[r].todo /\ e \in Event
        BY <1>2, <2>2, EventsTyped
      <3> QED  BY <1>4, <3>1 DEF AnnounceInv, OwedFollow
    <2> QED  BY <2>1, <2>2
  <1> QED  BY <1>5, <1>6, <1>8 DEF AnnounceInv

LEMMA AnnounceOther ==
    ASSUME TypeOK, AnnounceInv, [Next]_vars, ~Handle
    PROVE  AnnounceInv'
  <1>1. UNCHANGED db
    BY OnlyHandlersWrite
  <1>2. \A e : Backed(e)' <=> Backed(e)
    BY <1>1 DEF Backed
  <1>3. ASSUME UNCHANGED events, \A r \in Subjects : worker'[r].todo \subseteq worker[r].todo
        PROVE  AnnounceInv'
    BY <1>2, <1>3 DEF AnnounceInv, EventsBacked, EventsOrdered, OwedFollow
  <1>4. ASSUME NEW s \in Subjects, NEW e \in worker[s].todo,
               events' = Append(events, e), worker'[s].todo = {},
               \A r \in Subjects \ {s} : worker'[r] = worker[r]
        PROVE  AnnounceInv'
    <2>1. /\ DOMAIN events' = DOMAIN events \cup {Len(events) + 1}
          /\ Len(events) \in Nat /\ DOMAIN events = 1 .. Len(events)
          /\ \A i \in DOMAIN events : events'[i] = events[i]
          /\ events'[Len(events) + 1] = e
      BY <1>4, EventsTyped DEF TypeOK, WireOK
    <2>2. /\ OwedBy(s, e) /\ Backed(e) /\ \A i \in DOMAIN events : Follows(events[i], e)
      BY DEF AnnounceInv, OwedFollow
    <2>3. EventsBacked'
      BY <1>2, <2>1, <2>2 DEF AnnounceInv, EventsBacked
    <2>4. EventsOrdered'
      <3> SUFFICES ASSUME NEW i \in DOMAIN events', NEW j \in DOMAIN events', i < j
                   PROVE  Follows(events'[i], events'[j])
        BY DEF EventsOrdered
      <3>1. i \in DOMAIN events
        BY <2>1
      <3>2. CASE j \in DOMAIN events
        BY <2>1, <3>1, <3>2 DEF AnnounceInv, EventsOrdered
      <3>3. CASE j = Len(events) + 1
        BY <2>1, <2>2, <3>1, <3>3
      <3> QED  BY <2>1, <3>2, <3>3
    <2>5. OwedFollow'
      <3> SUFFICES ASSUME NEW r \in Subjects, NEW f \in worker'[r].todo
                   PROVE  /\ OwedBy(r, f) /\ Backed(f)
                          /\ \A i \in DOMAIN events' : Follows(events'[i], f)
        BY <1>2 DEF OwedFollow
      <3>1. r # s /\ f \in worker[r].todo
        BY <1>4
      <3>2. OwedBy(r, f) /\ Backed(f) /\ \A i \in DOMAIN events : Follows(events[i], f)
        BY <3>1 DEF AnnounceInv, OwedFollow
      <3>3. e.type # f.type
        BY <2>2, <3>1, <3>2 DEF OwedBy
      <3>4. Follows(e, f)
        BY <3>3 DEF Follows
      <3> QED  BY <2>1, <3>2, <3>4
    <2> QED  BY <2>3, <2>4, <2>5 DEF AnnounceInv
  <1>5. ASSUME NEW n \in 0 .. Len(events), events' = SubSeq(events, 1, n),
               \A r \in Subjects : worker'[r].todo = {}
        PROVE  AnnounceInv'
    <2>1. \A i \in DOMAIN events' : i \in DOMAIN events /\ events'[i] = events[i]
      BY <1>5 DEF TypeOK, WireOK
    <2> QED  BY <1>2, <1>5, <2>1 DEF AnnounceInv, EventsBacked, EventsOrdered, OwedFollow
  <1> QED  BY <1>3, <1>4, <1>5, WireSteps

LEMMA AnnounceStep == TypeOK /\ TypeOK' /\ AnnounceInv /\ [Next]_vars => AnnounceInv'
  BY AnnounceHandle, AnnounceOther

\* No commit is announced twice, nor owed when it was already announced, across
\* racing handlers, failing queries and restarts.
THEOREM CommitsAnnouncedOnce == Spec => []AnnouncedOnce
  <1>1. TypeOK /\ AnnounceInv => AnnouncedOnce
    <2> SUFFICES ASSUME TypeOK, AnnounceInv PROVE AnnouncedOnce
      OBVIOUS
    <2>1. \A i \in DOMAIN events : i \in Nat
      BY DEF TypeOK, WireOK
    <2>2. ASSUME NEW i \in DOMAIN events, NEW j \in DOMAIN events,
                 events[i] = events[j], events[i].id # NilId
          PROVE  i = j
      <3>1. events[i].id \in Ids /\ events[i].user.rev \in Nat /\ events[j].user.rev \in Nat
        BY <2>2, EventsTyped
      <3>2. ~(i < j) /\ ~(j < i)
        BY <2>2, <3>1 DEF AnnounceInv, EventsOrdered, Follows
      <3> QED  BY <2>1, <3>2
    <2>3. ASSUME NEW s \in Subjects, NEW e \in worker[s].todo, Announced(e) PROVE e.id = NilId
      <3>1. PICK i \in DOMAIN events : events[i] = e
        BY <2>3 DEF Announced
      <3>2. Follows(e, e)
        BY <3>1 DEF AnnounceInv, OwedFollow
      <3>3. e.id \in Ids \cup {NilId} /\ e.user.rev \in Nat
        BY EventsTyped
      <3> QED  BY <3>2, <3>3 DEF Follows
    <2> QED  BY <2>2, <2>3 DEF AnnouncedOnce
  <1> QED  BY <1>1, AnnounceInit, AnnounceStep, TypeCorrect, PTL DEF Spec

\* The updates of one user are announced in the order of their commits, whatever
\* the other handlers announce in between.
THEOREM UpdatesStayInOrder == Spec => []UpdatesInCommitOrder
  <1>1. TypeOK /\ AnnounceInv => UpdatesInCommitOrder
    BY EventsTyped DEF AnnounceInv, EventsOrdered, Follows, UpdatesInCommitOrder
  <1> QED  BY <1>1, AnnounceInit, AnnounceStep, TypeCorrect, PTL DEF Spec

-------------------------------------------------------------------------------
(* The table: one row at a time, with the event that tells of it.           *)

Creates(id) ==
    /\ db[id].state = "absent" /\ db'[id].state = "live" /\ db'[id].rev = 1
    /\ queryFailed' \/ \E e \in worker'["create"].todo : e.type = "created" /\ e.id = id
Updates(id) ==
    /\ Querying("update")
    /\ db[id].state = "live" /\ db'[id].state = "live" /\ db'[id].rev = db[id].rev + 1
    /\ queryFailed' \/ NewestEvent(id)' \in worker'["update"].todo
Deletes(id) ==
    /\ db[id].state = "live" /\ db'[id].state = "deleted"
    /\ db'[id].rev = db[id].rev /\ db'[id].email = db[id].email
Writes(id) ==
    /\ \A i \in Ids \ {id} : db'[i] = db[i]
    /\ committed' = committed \cup LiveUsers(db')
    /\ Creates(id) \/ Updates(id) \/ Deletes(id)

LEMMA QueryWrites ==
    ASSUME TypeOK, TableTold, NEW s \in Subjects, NEW o, Querying(s), Does(s, Asked(s), o),
           Finish(s, o, EventOf(s, Asked(s), o))
    PROVE  UNCHANGED <<db, committed>> \/ \E id \in Ids : Writes(id)
  <1> DEFINE req == Asked(s)
             todo == EventOf(s, req, o)
  <1>1. /\ db' = o.db /\ committed' = committed \cup LiveUsers(db')
        /\ worker'[s].todo = IF o.err = "none" THEN todo ELSE {}
        /\ o.err = "internal" \/ ZeroUser \in o.users => queryFailed'
    BY DEF Finish, TypeOK, WorkOK, Work
  <1>2. db \in [Ids -> Row] /\ \A id \in Ids : db[id] \in Row /\ db[id].rev \in Nat
    BY DEF TypeOK, TableOK, Row
  <1>3. CASE o.db = db
    <2>1. LiveUsers(db') = LiveUsers(db)
      BY <1>1, <1>3
    <2> QED  BY <1>1, <1>3, <2>1 DEF TableTold
  <1> HIDE DEF req
  <1>4. CASE s = "create"
    <2>1. CreateDoes(db, req.email, o) /\ todo = {UserEvent("created", u) : u \in o.users}
      BY <1>4 DEF Does, EventOf, req
    <2>2. ASSUME NEW id \in Absent(db), o.db = Inserted(db, id, req.email),
                 \/ o.err = "none" /\ o.users = {NewUser(id, req.email, 1)}
                 \/ o.err = "internal"
          PROVE  id \in Ids /\ Writes(id)
      <3>1. id \in Ids /\ db[id].state = "absent"
        BY DEF Absent
      <3>2. /\ o.db[id].state = "live" /\ o.db[id].rev = 1
            /\ \A i \in Ids \ {id} : o.db[i] = db[i]
        BY <1>2, <2>2, <3>1 DEF Inserted, LiveRow
      <3>3. ASSUME o.err = "none" PROVE \E e \in worker'[s].todo : e.type = "created" /\ e.id = id
        <4> DEFINE e == UserEvent("created", NewUser(id, req.email, 1))
        <4>1. e.type = "created" /\ e.id = id
          BY DEF UserEvent, NewUser
        <4>2. worker'[s].todo = {e}
          BY <1>1, <2>1, <2>2, <3>3
        <4> HIDE DEF e
        <4> QED  BY <4>1, <4>2
      <3> QED  BY <1>1, <1>4, <2>2, <3>1, <3>2, <3>3 DEF Writes, Creates
    <2> QED  BY <1>3, <2>1, <2>2 DEF CreateDoes
  <1>5. CASE s = "update"
    <2>1. UpdateDoes(db, req.id, req.email, o) /\ todo = {UserEvent("updated", u) : u \in o.users}
      BY <1>5 DEF Does, EventOf, req
    <2>2. ASSUME req.id \in Live(db), o.db = Written(db, req.id, req.email), o.err = "none",
                 o.users = {NewUser(req.id, req.email, db[req.id].rev + 1)} \/ o.users = {ZeroUser}
          PROVE  req.id \in Ids /\ Writes(req.id)
      <3>1. req.id \in Ids /\ db[req.id].state = "live"
        BY <2>2 DEF Live
      <3>2. /\ o.db[req.id] = LiveRow(req.email, db[req.id].rev + 1)
            /\ \A i \in Ids \ {req.id} : o.db[i] = db[i]
        BY <1>2, <2>2, <3>1 DEF Written
      <3>3. UserOf(o.db, req.id) = NewUser(req.id, req.email, db[req.id].rev + 1)
        BY <3>2 DEF UserOf, NewUser, LiveRow
      <3>4. queryFailed' \/ UserEvent("updated", UserOf(o.db, req.id)) \in worker'[s].todo
        BY <1>1, <2>1, <2>2, <3>3
      <3>5. UserEvent("updated", UserOf(o.db, req.id)) = UserEvent("updated", UserOf(db', req.id))
        BY <1>1
      <3>6. ASSUME NEW id, id = req.id PROVE NewestEvent(id)' = UserEvent("updated", UserOf(db', id))
        BY DEF NewestEvent
      <3>7. ASSUME NEW id, id = req.id PROVE Updates(id)
        BY <1>1, <1>5, <3>1, <3>2, <3>4, <3>5, <3>6, <3>7 DEF Updates, LiveRow
      <3> QED  BY <1>1, <3>1, <3>2, <3>7 DEF Writes
    <2> QED  BY <1>3, <2>1, <2>2 DEF UpdateDoes
  <1>6. CASE s = "delete"
    <2>1. DeleteDoes(db, req.id, o)
      BY <1>6 DEF Does, req
    <2>2. ASSUME req.id \in Live(db), o.db = Removed(db, req.id) PROVE req.id \in Ids /\ Writes(req.id)
      <3>1. req.id \in Ids /\ db[req.id].state = "live"
        BY <2>2 DEF Live
      <3>2. /\ o.db[req.id].state = "deleted" /\ o.db[req.id].rev = db[req.id].rev
            /\ o.db[req.id].email = db[req.id].email
            /\ \A i \in Ids \ {req.id} : o.db[i] = db[i]
        BY <1>2, <2>2, <3>1 DEF Removed, Row
      <3> QED  BY <1>1, <3>1, <3>2 DEF Writes, Deletes
    <2> QED  BY <1>3, <2>1, <2>2 DEF DeleteDoes
  <1>7. CASE s \notin {"create", "update", "delete"}
    <2>1. s \in {"getByID", "getByEmail", "list", "listAll"}
      BY <1>7 DEF Subjects, Entries
    <2>2. o.db = db
      BY <2>1 DEF Does, GetByIDDoes, GetByEmailDoes, ListDoes
    <2> QED  BY <1>3, <2>2
  <1> QED  BY <1>4, <1>5, <1>6, <1>7

\* A worker owes at most one event, and none while it queries.
OwesLast ==
    \A s \in Subjects :
      /\ worker[s].pc \in {"idle", "query"} => worker[s].todo = {}
      /\ \A e, f \in worker[s].todo : e = f

\* What a query does to the events owed.
LEMMA OwedQuery ==
    ASSUME TypeOK, OwesLast, NEW s \in Subjects, NEW o, Querying(s), Does(s, Asked(s), o),
           Finish(s, o, EventOf(s, Asked(s), o))
    PROVE  OwesLast' /\ worker[s].todo = {}
  <1>1. /\ worker'[s].pc = "reply" /\ \A r \in Subjects \ {s} : worker'[r] = worker[r]
    BY DEF Finish, TypeOK, WorkOK, Work
  <1>2. \A e, f \in worker'[s].todo : e = f
    BY HandleCommits
  <1> QED  BY <1>1, <1>2 DEF OwesLast, Querying

\* What is owed stays so.
LEMMA QueryAnnounces ==
    ASSUME TypeOK, OwesLast, Handle
    PROVE  /\ OwesLast' /\ UNCHANGED events
           /\ \A r \in Subjects : worker[r].todo \subseteq worker'[r].todo
           /\ \A r \in Subjects : \A e \in worker'[r].todo :
                e \in worker[r].todo \/ (OwedBy(r, e) /\ Commits(r, e))
  <1>1. PICK s \in Subjects : \E o :
          Querying(s) /\ Does(s, Asked(s), o) /\ Finish(s, o, EventOf(s, Asked(s), o))
    BY HandleIs
  <1>2. PICK o : Querying(s) /\ Does(s, Asked(s), o) /\ Finish(s, o, EventOf(s, Asked(s), o))
    BY <1>1
  <1>3. OwesLast' /\ worker[s].todo = {}
    BY <1>2, OwedQuery
  <1>4. /\ UNCHANGED events /\ \A r \in Subjects \ {s} : worker'[r] = worker[r]
        /\ \A e \in worker'[s].todo : OwedBy(s, e) /\ Commits(s, e)
    BY <1>2, HandleCommits
  <1> QED  BY <1>3, <1>4

\* What was committed is older than the row, or is what the row shows.
History ==
    \A u \in committed :
      /\ u.id \in Ids
      /\ 1 <= u.rev /\ u.rev <= db[u.id].rev
      /\ u.rev = db[u.id].rev => u = UserOf(db, u.id)

LEMMA HandleWrites ==
    ASSUME TypeOK, TableTold, [Next]_vars
    PROVE  UNCHANGED <<db, committed>> \/ (Handle /\ \E id \in Ids : Writes(id))
  <1>1. CASE Handle
    <2>1. PICK s \in Subjects : \E o :
            Querying(s) /\ Does(s, Asked(s), o) /\ Finish(s, o, EventOf(s, Asked(s), o))
      BY <1>1, HandleIs
    <2> QED  BY <1>1, <2>1, QueryWrites
  <1> QED  BY <1>1, OnlyHandlersWrite

LEMMA HistoryWrites ==
    ASSUME TypeOK, TableTold, CommittedExist, History,
           UNCHANGED <<db, committed>> \/ \E id \in Ids : Writes(id)
    PROVE  History'
  <1>1. CASE UNCHANGED <<db, committed>>
    BY <1>1 DEF History, UserOf
  <1>2. ASSUME NEW id \in Ids, Writes(id) PROVE History'
    <2>1. \A i \in Ids : db[i].rev \in Nat /\ db'[i].rev \in Nat
      <3>1. \A i \in Ids : db[i].rev \in Nat
        BY DEF TypeOK, TableOK, Row
      <3> QED  BY <1>2, <3>1 DEF Writes, Creates, Updates, Deletes
    <2>2. \A u \in committed : u.rev \in Nat
      BY DEF TypeOK, TableOK, User
    <2>3. ASSUME NEW u \in committed
          PROVE  /\ u.id \in Ids /\ 1 <= u.rev /\ u.rev <= db'[u.id].rev
                 /\ u.rev = db'[u.id].rev => u = UserOf(db', u.id)
      <3>1. /\ u.id \in Ids /\ 1 <= u.rev /\ u.rev <= db[u.id].rev /\ db[u.id].state # "absent"
            /\ u.rev = db[u.id].rev => u = UserOf(db, u.id)
        BY DEF History, CommittedExist, Exists
      <3>2. CASE db'[u.id].rev = db[u.id].rev /\ db'[u.id].email = db[u.id].email
        BY <3>1, <3>2 DEF UserOf
      <3>3. CASE db'[u.id].rev = db[u.id].rev + 1
        <4>1. db[u.id].rev \in Nat /\ u.rev \in Nat
          BY <2>1, <2>2, <3>1
        <4> QED  BY <3>1, <3>3, <4>1
      <3> QED  BY <1>2, <3>1, <3>2, <3>3 DEF Writes, Creates, Updates, Deletes
    <2>4. ASSUME NEW i \in Ids, db'[i].state = "live"
          PROVE  LET u == UserOf(db', i)
                 IN  /\ u.id \in Ids /\ 1 <= u.rev /\ u.rev <= db'[u.id].rev
                     /\ u.rev = db'[u.id].rev => u = UserOf(db', u.id)
      <3>1. 1 <= db'[i].rev
        <4>1. CASE i = id
          <5>1. CASE Updates(id)
            BY <2>1, <4>1, <5>1 DEF Updates
          <5> QED  BY <1>2, <2>4, <4>1, <5>1 DEF Writes, Creates, Deletes
        <4>2. CASE i # id
          <5>1. db'[i] = db[i]
            BY <1>2, <4>2 DEF Writes
          <5>2. UserOf(db, i) \in committed
            BY <2>4, <5>1 DEF TableTold, LiveUsers, Live
          <5>3. 1 <= UserOf(db, i).rev
            BY <5>2 DEF History
          <5> QED  BY <5>1, <5>3 DEF UserOf
        <4> QED  BY <4>1, <4>2
      <3>2. UserOf(db', i).id = i /\ UserOf(db', i).rev = db'[i].rev
        BY DEF UserOf
      <3> QED  BY <2>1, <3>1, <3>2
    <2>5. \A u \in committed' : u \in committed \/ \E i \in Ids : db'[i].state = "live" /\ u = UserOf(db', i)
      BY <1>2 DEF Writes, LiveUsers, Live
    <2> QED  BY <2>3, <2>4, <2>5 DEF History
  <1> QED  BY <1>1, <1>2

-------------------------------------------------------------------------------
(* No update is passed over.                                                *)

\* A service that unsubscribed from a subject has none of its requests left.
Unsubscribed ==
    /\ \A s \in Subjects \ subs : inbox[s] = <<>>
    /\ phase = "closing" => subs = {}

LEMMA UnsubscribedStep ==
    ASSUME TypeOK, Unsubscribed, [Next]_vars
    PROVE  Unsubscribed'
  <1>1. inbox \in [Subjects -> Seq(Calls)]
    BY DEF TypeOK, WorkOK
  <1>2. ASSUME NEW k \in Calls, Caller(k) PROVE Unsubscribed'
    <2>1. CASE GiveUp(k)
      BY <2>1 DEF GiveUp, Unsubscribed
    <2>2. ASSUME NEW req, Send(k, req) PROVE Unsubscribed'
      <3>1. CASE req.op \in subs
        BY <1>1, <2>2, <3>1 DEF Send, Unsubscribed
      <3>2. CASE req.op \notin subs
        BY <2>2, <3>2 DEF Send, Unsubscribed
      <3> QED  BY <3>1, <3>2
    <2> QED  BY <1>2, <2>1, <2>2 DEF Caller
  <1>3. CASE Handle
    BY <1>3, HandleIs DEF Finish, Unsubscribed
  <1>4. ASSUME NEW s \in Subjects, Advance(s) PROVE Unsubscribed'
    <2>1. CASE Take(s)
      <3>1. s \in subs
        BY <2>1 DEF Take, Unsubscribed
      <3> QED  BY <1>1, <2>1, <3>1 DEF Take, Unsubscribed
    <2> QED  BY <1>4, <2>1 DEF Advance, Reply, ReplyLost, Publish, PublishFails, Unsubscribed
  <1>5. ASSUME NEW s \in Subjects, Subscribe(s) \/ Unsubscribe(s) PROVE Unsubscribed'
    BY <1>1, <1>5 DEF Subscribe, Unsubscribe, Unsubscribed
  <1>6. CASE Start \/ Signal \/ Close \/ Exit
    BY <1>6 DEF Start, Signal, Close, Exit, Unsubscribed
  <1>7. CASE Deliver \/ UNCHANGED vars
    BY <1>7 DEF Deliver, vars, Unsubscribed
  <1> QED  BY <1>2, <1>3, <1>4, <1>5, <1>6, <1>7 DEF Next, Process

\* What the goroutine of a subject can do after a query, or without one.
Takes(s) ==
    /\ worker[s].pc = "idle" /\ inbox[s] # <<>>
    /\ worker'[s].todo = {} /\ UNCHANGED events
Replies(s) ==
    /\ worker[s].pc = "reply"
    /\ worker'[s].todo = worker[s].todo /\ UNCHANGED events
    /\ worker'[s].todo = {} \/ worker'[s].pc = "publish"
Publishes(s) ==
    /\ worker[s].pc = "publish"
    /\ \E e \in worker[s].todo : events' = Append(events, e)
    /\ worker'[s].todo = {}
Abandons(s) ==
    /\ worker[s].pc = "publish" /\ phase = "closing"
    /\ worker'[s].todo = {} /\ worker'[s].pc = "idle" /\ UNCHANGED events

LEMMA WorkerMoves ==
    ASSUME TypeOK, [Next]_vars, ~Handle, ~Exit
    PROVE  \/ UNCHANGED <<events, worker>>
           \/ \E s \in Subjects :
                /\ Takes(s) \/ Replies(s) \/ Publishes(s) \/ Abandons(s)
                /\ \A r \in Subjects \ {s} : worker'[r] = worker[r]
                /\ UNCHANGED <<phase, exits>>
  <1>0. Idle.todo = {} /\ Idle.pc = "idle"
    BY DEF Idle
  <1>1. ASSUME NEW s \in Subjects, Take(s)
        PROVE  Takes(s) /\ \A r \in Subjects \ {s} : worker'[r] = worker[r]
    <2>1. \A k : /\ [Idle EXCEPT !.pc = "query", !.k = k].todo = {}
                 /\ [Idle EXCEPT !.pc = "reply", !.k = k, !.answer = Refusal].todo = {}
      BY DEF Idle
    <2>2. \E w : worker' = [worker EXCEPT ![s] = w] /\ w.todo = {}
      <3>1. CASE call[Head(inbox[s])].req.valid
        BY <1>1, <2>1, <3>1 DEF Take
      <3>2. CASE ~call[Head(inbox[s])].req.valid
        BY <1>1, <2>1, <3>2 DEF Take
      <3> QED  BY <3>1, <3>2
    <2> QED  BY <1>1, <2>2 DEF Take, Takes, TypeOK, WorkOK
  <1>2. ASSUME NEW s \in Subjects, Reply(s) \/ ReplyLost(s)
        PROVE  Replies(s) /\ \A r \in Subjects \ {s} : worker'[r] = worker[r]
    <2>1. worker' = [worker EXCEPT ![s] = IF worker[s].todo = {} THEN Idle
                                          ELSE [worker[s] EXCEPT !.pc = "publish"]]
      BY <1>2 DEF Reply, ReplyLost, Replied
    <2>2. /\ [worker[s] EXCEPT !.pc = "publish"].todo = worker[s].todo
          /\ [worker[s] EXCEPT !.pc = "publish"].pc = "publish"
      BY DEF TypeOK, WorkOK, Work
    <2>3. /\ worker'[s].todo = worker[s].todo
          /\ worker'[s].todo = {} \/ worker'[s].pc = "publish"
          /\ \A r \in Subjects \ {s} : worker'[r] = worker[r]
      BY <1>0, <2>1, <2>2 DEF TypeOK, WorkOK
    <2> QED  BY <1>2, <2>3 DEF Reply, ReplyLost, Replies
  <1>3. ASSUME NEW s \in Subjects, Publish(s)
        PROVE  Publishes(s) /\ \A r \in Subjects \ {s} : worker'[r] = worker[r]
    BY <1>0, <1>3 DEF Publish, Publishes, TypeOK, WorkOK
  <1>4. ASSUME NEW s \in Subjects, PublishFails(s)
        PROVE  Abandons(s) /\ \A r \in Subjects \ {s} : worker'[r] = worker[r]
    BY <1>0, <1>4 DEF PublishFails, Abandons, TypeOK, WorkOK
  <1>5. \/ UNCHANGED <<events, worker>>
        \/ \E s \in Subjects : Take(s) \/ Reply(s) \/ ReplyLost(s) \/ Publish(s) \/ PublishFails(s)
    BY DEF Next, Caller, GiveUp, Send, Advance, Deliver, Process, Start, Signal, Close, Subscribe,
       Unsubscribe, vars
  <1>6. ASSUME NEW s \in Subjects, Take(s) \/ Reply(s) \/ ReplyLost(s) \/ Publish(s) \/ PublishFails(s)
        PROVE  UNCHANGED <<phase, exits>>
    BY <1>6 DEF Take, Reply, ReplyLost, Publish, PublishFails
  <1> QED  BY <1>1, <1>2, <1>3, <1>4, <1>5, <1>6

LEMMA OwesLastStep ==
    ASSUME TypeOK, OwesLast, [Next]_vars
    PROVE  OwesLast'
  <1>1. CASE Handle
    BY <1>1, QueryAnnounces
  <1>2. CASE Exit
    <2>1. \A s \in Subjects : worker'[s].todo = {}
      BY <1>2 DEF Exit, Idle
    <2> QED  BY <2>1 DEF OwesLast
  <1>3. CASE ~Handle /\ ~Exit
    BY <1>3, WorkerMoves DEF OwesLast, Takes, Replies, Publishes, Abandons
  <1> QED  BY <1>1, <1>2, <1>3

\* The update is in the hands of its worker, or was lost by the last one that was
\* ever handled: either way it is the newest, and nothing was committed after it.
InHand(u) ==
    /\ u.rev = db[u.id].rev
    /\ \/ UserEvent("updated", u) \in worker["update"].todo
       \/ phase = "closing" /\ worker["update"].pc = "idle"
UpdatesTold ==
    exits = 0 /\ ~queryFailed =>
      \A u \in committed : 1 < u.rev => Announced(UserEvent("updated", u)) \/ InHand(u)

LEMMA UpdatesToldHandle ==
    ASSUME TypeOK, TableTold, CommittedExist, OwesLast, History, UpdatesTold, Handle
    PROVE  UpdatesTold'
  <1>1. PICK s \in Subjects : \E o :
          Querying(s) /\ Does(s, Asked(s), o) /\ Finish(s, o, EventOf(s, Asked(s), o))
    BY HandleIs
  <1>2. PICK o : Querying(s) /\ Does(s, Asked(s), o) /\ Finish(s, o, EventOf(s, Asked(s), o))
    BY <1>1
  <1>3. /\ UNCHANGED <<events, phase, exits>> /\ (queryFailed => queryFailed')
        /\ \A r \in Subjects \ {s} : worker'[r] = worker[r]
    BY <1>2 DEF Finish, TypeOK, WorkOK
  <1>4. UNCHANGED <<db, committed>> \/ \E id \in Ids : Writes(id)
    BY <1>2, QueryWrites
  <1>5. \A e : Announced(e)' <=> Announced(e)
    BY <1>3 DEF Announced
  <1> SUFFICES ASSUME exits = 0, ~(queryFailed'), NEW u \in committed', 1 < u.rev
               PROVE  Announced(UserEvent("updated", u)) \/ InHand(u)'
    BY <1>3, <1>5 DEF UpdatesTold
  <1>6. ~queryFailed /\ "update" \in Subjects
    BY <1>3 DEF Subjects, Entries
  \* Where an update was, it stays, as long as no other update commits; that one
  \* takes a worker with empty hands.
  <1>7. ASSUME u \in committed, UNCHANGED db \/ \E id \in Ids : Writes(id) /\ ~Updates(id)
        PROVE  Announced(UserEvent("updated", u)) \/ InHand(u)'
    <2>1. Announced(UserEvent("updated", u)) \/ InHand(u)
      BY <1>6, <1>7 DEF UpdatesTold
    <2>2. u.id \in Ids /\ db[u.id].state # "absent"
      BY <1>7 DEF History, CommittedExist, Exists
    <2>3. db'[u.id].rev = db[u.id].rev
      BY <1>7, <2>2 DEF Writes, Creates, Deletes
    <2>4. CASE s = "update"
      BY <1>2, <2>1, <2>4 DEF InHand, OwesLast, Querying
    <2>5. CASE s # "update"
      BY <1>3, <1>6, <2>1, <2>3, <2>5 DEF InHand
    <2> QED  BY <2>4, <2>5
  <1>8. ASSUME u \in committed, NEW id \in Ids, Updates(id)
        PROVE  Announced(UserEvent("updated", u))
    BY <1>6, <1>8 DEF UpdatesTold, Updates, Querying, InHand, OwesLast
  <1>9. ASSUME u \notin committed, NEW id \in Ids, Writes(id)
        PROVE  InHand(u)'
    <2>1. PICK i \in Ids : db'[i].state = "live" /\ u = UserOf(db', i)
      BY <1>9 DEF Writes, LiveUsers, Live
    <2>2. i = id
      BY <1>9, <2>1 DEF Writes, TableTold, LiveUsers, Live, UserOf
    <2>3. u.id = i /\ u.rev = db'[i].rev
      BY <2>1 DEF UserOf
    <2>4. Updates(id)
      BY <1>9, <2>1, <2>2, <2>3 DEF Writes, Creates, Deletes
    <2>5. NewestEvent(id)' = UserEvent("updated", u)
      BY <2>1, <2>2 DEF NewestEvent
    <2> QED  BY <2>2, <2>3, <2>4, <2>5 DEF Updates, InHand
  <1>10. u \in committed \/ \E id \in Ids : Writes(id)
    BY <1>4
  <1> QED  BY <1>4, <1>7, <1>8, <1>9, <1>10

LEMMA UpdatesToldOther ==
    ASSUME TypeOK, OwesLast, Unsubscribed, UpdatesTold, [Next]_vars, ~Handle
    PROVE  UpdatesTold'
  <1>1. UNCHANGED <<db, committed, queryFailed>>
    <2>1. ASSUME NEW k \in Calls, Caller(k) PROVE UNCHANGED <<db, committed, queryFailed>>
      BY <2>1 DEF Caller, GiveUp, Send
    <2>2. ASSUME NEW s \in Subjects, Advance(s) PROVE UNCHANGED <<db, committed, queryFailed>>
      BY <2>2 DEF Advance, Take, Reply, ReplyLost, Publish, PublishFails
    <2>3. CASE Process
      BY <2>3 DEF Process, Start, Signal, Close, Exit, Subscribe, Unsubscribe
    <2>4. CASE Deliver \/ UNCHANGED vars
      BY <2>4 DEF Deliver, vars
    <2> QED  BY <2>1, <2>2, <2>3, <2>4 DEF Next
  <1>2. exits \in Nat /\ "update" \in Subjects
    BY DEF TypeOK, ProcessOK, Subjects, Entries
  <1>3. exits <= exits' /\ (phase = "closing" => phase' = "closing" \/ Exit)
    <2>1. CASE UNCHANGED <<phase, exits>>
      BY <1>2, <2>1
    <2>2. CASE Process /\ ~Exit
      BY <1>2, <2>2 DEF Process, Start, Signal, Close, Subscribe, Unsubscribe
    <2>3. CASE Exit
      BY <1>2, <2>3 DEF Exit
    <2>4. ASSUME NEW k \in Calls, Caller(k) PROVE UNCHANGED <<phase, exits>>
      BY <2>4 DEF Caller, GiveUp, Send
    <2>5. ASSUME NEW s \in Subjects, Advance(s) PROVE UNCHANGED <<phase, exits>>
      BY <2>5 DEF Advance, Take, Reply, ReplyLost, Publish, PublishFails
    <2>6. CASE Deliver \/ UNCHANGED vars
      BY <2>1, <2>6 DEF Deliver, vars
    <2> QED  BY <2>1, <2>2, <2>3, <2>4, <2>5, <2>6 DEF Next
  <1> SUFFICES ASSUME exits' = 0, ~queryFailed, NEW u \in committed, 1 < u.rev
               PROVE  Announced(UserEvent("updated", u))' \/ InHand(u)'
    BY <1>1 DEF UpdatesTold, Announced
  <1>4. ~Exit /\ exits = 0
    BY <1>2, <1>3 DEF Exit
  <1> DEFINE e == UserEvent("updated", u)
  <1>5. Announced(e) \/ InHand(u)
    BY <1>4 DEF UpdatesTold
  <1>6. CASE UNCHANGED <<events, worker>>
    BY <1>1, <1>3, <1>4, <1>5, <1>6 DEF Announced, InHand
  <1>7. ASSUME NEW s \in Subjects, Takes(s) \/ Replies(s) \/ Abandons(s),
               \A r \in Subjects \ {s} : worker'[r] = worker[r], UNCHANGED <<phase, exits>>
        PROVE  Announced(e)' \/ InHand(u)'
    <2>1. UNCHANGED events
      BY <1>7 DEF Takes, Replies, Abandons
    <2>2. CASE Announced(e) \/ s # "update"
      BY <1>1, <1>2, <1>5, <1>7, <2>1, <2>2 DEF Announced, InHand
    <2>3. CASE InHand(u) /\ s = "update" /\ Takes(s)
      BY <1>2, <2>3 DEF InHand, Takes, OwesLast, Unsubscribed
    <2>4. CASE InHand(u) /\ s = "update" /\ (Replies(s) \/ Abandons(s))
      BY <1>1, <1>7, <2>4 DEF InHand, Replies, Abandons
    <2> QED  BY <1>5, <1>7, <2>2, <2>3, <2>4
  <1>8. ASSUME NEW s \in Subjects, Publishes(s),
               \A r \in Subjects \ {s} : worker'[r] = worker[r], UNCHANGED <<phase, exits>>
        PROVE  Announced(e)' \/ InHand(u)'
    <2>1. PICK f \in worker[s].todo : events' = Append(events, f)
      BY <1>8 DEF Publishes
    <2>2. /\ \A i \in DOMAIN events : i \in DOMAIN events' /\ events'[i] = events[i]
          /\ Len(events) + 1 \in DOMAIN events' /\ events'[Len(events) + 1] = f
      BY <2>1, EventsTyped DEF TypeOK, WireOK
    <2>3. CASE Announced(e)
      BY <2>2, <2>3 DEF Announced
    <2>4. CASE InHand(u) /\ s = "update"
      <3>1. e \in worker[s].todo
        BY <1>8, <2>4 DEF InHand, Publishes
      <3>2. e = f
        BY <2>1, <3>1 DEF OwesLast
      <3> QED  BY <2>2, <3>2 DEF Announced
    <2>5. CASE InHand(u) /\ s # "update"
      BY <1>1, <1>2, <1>8, <2>5 DEF InHand
    <2> QED  BY <1>5, <2>3, <2>4, <2>5
  <1> QED  BY <1>4, <1>6, <1>7, <1>8, WorkerMoves

\* Nobody is told of an update while an earlier one of the same user was passed
\* over, unless the process ended or a query failed after its commit: what was not
\* announced yet is newer than all that was.
THEOREM NoUpdatePassedOver == Spec => []UpdatesWithoutGaps
  <1> DEFINE Inv == TypeOK /\ ToldInv /\ FoundInv /\ AnnounceInv
                    /\ OwesLast /\ Unsubscribed /\ History /\ UpdatesTold
  <1>1. Init => OwesLast /\ Unsubscribed /\ UpdatesTold
    BY DEF Init, Idle, OwesLast, Unsubscribed, UpdatesTold
  <1>2. Init => History
    <2> SUFFICES ASSUME Init PROVE History
      OBVIOUS
    <2>1. PICK email \in [Seeded -> Emails] :
            /\ db = [id \in Ids |-> IF id \in Seeded THEN LiveRow(email[id], 1) ELSE AbsentRow]
            /\ committed = {[id |-> id, email |-> email[id], rev |-> 1] : id \in Seeded}
      BY DEF Init
    <2>2. ASSUME NEW id \in Seeded
          PROVE  id \in Ids /\ db[id].rev = 1 /\ UserOf(db, id) = [id |-> id, email |-> email[id], rev |-> 1]
      BY <2>1, ServiceAssumption DEF LiveRow, UserOf
    <2> QED  BY <2>1, <2>2 DEF History
  <1>3. Inv /\ [Next]_vars => Inv'
    <2> SUFFICES ASSUME Inv, [Next]_vars PROVE Inv'
      OBVIOUS
    <2>1. TypeOK' /\ ToldInv' /\ FoundInv' /\ OwesLast' /\ Unsubscribed'
      BY StepType, ToldStep, FoundStep, OwesLastStep, UnsubscribedStep
    <2>2. AnnounceInv'
      BY <2>1, AnnounceStep
    <2>3. History'
      BY HandleWrites, HistoryWrites DEF ToldInv, FoundInv
    <2>4. UpdatesTold'
      BY UpdatesToldHandle, UpdatesToldOther DEF ToldInv, FoundInv
    <2> QED  BY <2>1, <2>2, <2>3, <2>4
  <1>4. Inv => UpdatesWithoutGaps
    <2> SUFFICES ASSUME Inv, exits = 0, ~queryFailed, NEW u \in committed, NEW v \in committed,
                        u.id = v.id, 1 < u.rev, u.rev < v.rev, Announced(UserEvent("updated", v))
                 PROVE  Announced(UserEvent("updated", u))
      BY DEF UpdatesWithoutGaps
    <2>1. PICK i \in DOMAIN events : events[i] = UserEvent("updated", v)
      BY DEF Announced
    <2>2. Backed(UserEvent("updated", v))
      BY <2>1 DEF AnnounceInv, EventsBacked
    <2>3. v.id \in Ids /\ u.rev \in Nat /\ v.rev \in Nat /\ db[v.id].rev \in Nat
      BY DEF History, TypeOK, TableOK, User, Row
    <2>4. v.rev <= db[u.id].rev
      BY <2>2, <2>3 DEF Backed, UserEvent
    <2> QED  BY <2>3, <2>4 DEF UpdatesTold, InHand
  <1>5. Init => Inv
    BY <1>1, <1>2, InitType, ToldInit, FoundInit, AnnounceInit
  <1> QED  BY <1>3, <1>4, <1>5, PTL DEF Spec

===============================================================================
