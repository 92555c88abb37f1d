---------------------- MODULE UserServiceRefinementProofs ----------------------
(***************************************************************************)
(* The proof that UserService implements UserDirectory: however many calls *)
(* there are, whatever its queues, goroutines and subscriptions do, and    *)
(* wherever the process ends, each step of the service is one step of the  *)
(* directory or none.                                                      *)
(*                                                                         *)
(* The mapping looks up a call in the inbox and the worker of its subject. *)
(* It is right because a call is there at most once: KeptInv, which also   *)
(* says what a worker holds at each point of its handler.                  *)
(***************************************************************************)
EXTENDS UserServiceRefinement, UserServiceOrderProofs

-------------------------------------------------------------------------------
(* What a query does to the table, for one who sees only the live users and *)
(* the deleted ids.                                                         *)

Dead(t) == {id \in Ids : t[id].state = "deleted"}

\* What a handler asked for req promises to do when its query has outcome o.
Shown(s, req, o) ==
    [users |-> LiveUsers(o.db), gone |-> Dead(o.db),
     answer |-> [err |-> o.err, users |-> o.users],
     owed |-> IF o.err = "none" THEN EventOf(s, req, o) ELSE {}]

LEMMA DirectoryNames ==
    /\ Directory!Inquiry = Request /\ Directory!NoInquiry = Malformed("list")
    /\ Directory!Nothing = NoAnswer /\ Directory!ZeroUser = ZeroUser
    /\ \A err, told : Directory!Tell(err, told) = [err |-> err, users |-> told]
    /\ \A type, u : Directory!UserEvent(type, u) = UserEvent(type, u)
    /\ \A id : Directory!DeletedEvent(id) = DeletedEvent(id)
    /\ \A live, dead, answer, owing : Directory!Effect(live, dead, answer, owing) =
         [users |-> live, gone |-> dead, answer |-> answer, owed |-> owing]
  <1>1. Directory!Operations = Subjects
    BY DEF Directory!Operations, Subjects, Entries
  <1> QED
    BY <1>1 DEF Directory!Inquiry, Request, Directory!NoInquiry, Malformed, Directory!Nothing,
       NoAnswer, Directory!ZeroUser, ZeroUser, Directory!Tell, Directory!UserEvent, UserEvent,
       Directory!DeletedEvent, DeletedEvent, Directory!Effect

\* The live users are known by their ids.
LEMMA UsersAre ==
    ASSUME NEW t
    PROVE  /\ \A u \in LiveUsers(t) : u.id \in Live(t) /\ u = UserOf(t, u.id)
           /\ \A id \in Live(t) : UserOf(t, id) \in LiveUsers(t) /\ UserOf(t, id).id = id
  <1>1. \A id : UserOf(t, id).id = id
    BY DEF UserOf
  <1> QED  BY <1>1 DEF LiveUsers

LEMMA TakenIs ==
    ASSUME NEW email, NEW id
    PROVE  /\ Directory!Taken(email, id) <=> Holders(db, email) \ {id} # {}
           /\ {u \in LiveUsers(db) : u.email = email} = {UserOf(db, i) : i \in Holders(db, email)}
  <1>1. \A i : UserOf(db, i).email = db[i].email
    BY DEF UserOf
  <1> QED  BY <1>1, UsersAre DEF Directory!Taken, Holders

LEMMA OldIs ==
    ASSUME NEW id
    PROVE  {u \in LiveUsers(db) : u.id = id} = IF id \in Live(db) THEN {UserOf(db, id)} ELSE {}
  BY UsersAre

LEMMA InsertedUsers ==
    ASSUME NEW t \in [Ids -> Row], NEW id \in Absent(t), NEW email
    PROVE  /\ LiveUsers(Inserted(t, id, email)) = LiveUsers(t) \cup {NewUser(id, email, 1)}
           /\ Dead(Inserted(t, id, email)) = Dead(t)
  <1> DEFINE new == Inserted(t, id, email)
  <1>1. id \in Ids /\ t[id].state = "absent"
    BY DEF Absent
  <1>2. /\ new[id] = LiveRow(email, 1) /\ \A i \in Ids \ {id} : new[i] = t[i]
    BY <1>1 DEF Inserted
  <1>3. Live(new) = Live(t) \cup {id}
    BY <1>1, <1>2 DEF Live, LiveRow
  <1>4. UserOf(new, id) = NewUser(id, email, 1) /\ \A i \in Live(t) : UserOf(new, i) = UserOf(t, i)
    BY <1>1, <1>2 DEF UserOf, NewUser, LiveRow, Live
  <1>5. Dead(new) = Dead(t)
    BY <1>1, <1>2 DEF Dead, LiveRow
  <1> HIDE DEF new
  <1>6. LiveUsers(new) = LiveUsers(t) \cup {NewUser(id, email, 1)}
    BY <1>3, <1>4 DEF LiveUsers
  <1> QED  BY <1>5, <1>6 DEF new

LEMMA WrittenUsers ==
    ASSUME NEW t \in [Ids -> Row], NEW id \in Live(t), NEW email
    PROVE  /\ LiveUsers(Written(t, id, email)) =
                (LiveUsers(t) \ {UserOf(t, id)}) \cup {NewUser(id, email, t[id].rev + 1)}
           /\ Dead(Written(t, id, email)) = Dead(t)
  <1> DEFINE new == Written(t, id, email)
             u == NewUser(id, email, t[id].rev + 1)
  <1>1. id \in Ids /\ t[id].state = "live"
    BY DEF Live
  <1>2. /\ new[id] = LiveRow(email, t[id].rev + 1) /\ \A i \in Ids \ {id} : new[i] = t[i]
    BY <1>1 DEF Written
  <1>3. Live(new) = Live(t)
    BY <1>1, <1>2 DEF Live, LiveRow
  <1>4. UserOf(new, id) = u /\ \A i \in Live(t) \ {id} : UserOf(new, i) = UserOf(t, i)
    BY <1>1, <1>2 DEF UserOf, NewUser, LiveRow, Live
  <1>5. Dead(new) = Dead(t)
    BY <1>1, <1>2 DEF Dead, LiveRow
  <1>6. \A i \in Live(t) \ {id} : UserOf(t, i) # UserOf(t, id)
    BY DEF UserOf
  <1> HIDE DEF new, u
  <1>7. LiveUsers(new) = (LiveUsers(t) \ {UserOf(t, id)}) \cup {u}
    BY <1>3, <1>4, <1>6 DEF LiveUsers
  <1> QED  BY <1>5, <1>7 DEF new, u

LEMMA RemovedUsers ==
    ASSUME NEW t \in [Ids -> Row], NEW id \in Live(t)
    PROVE  /\ LiveUsers(Removed(t, id)) = LiveUsers(t) \ {UserOf(t, id)}
           /\ Dead(Removed(t, id)) = Dead(t) \cup {id}
  <1> DEFINE new == Removed(t, id)
  <1>1. id \in Ids /\ t[id].state = "live"
    BY DEF Live
  <1>2. /\ new[id].state = "deleted" /\ \A i \in Ids \ {id} : new[i] = t[i]
    BY <1>1 DEF Removed, Row
  <1>3. Live(new) = Live(t) \ {id}
    BY <1>1, <1>2 DEF Live
  <1>4. \A i \in Live(t) \ {id} : UserOf(new, i) = UserOf(t, i) /\ UserOf(t, i) # UserOf(t, id)
    BY <1>1, <1>2 DEF UserOf, Live
  <1>5. Dead(new) = Dead(t) \cup {id}
    BY <1>1, <1>2 DEF Dead
  <1> HIDE DEF new
  <1>6. LiveUsers(new) = LiveUsers(t) \ {UserOf(t, id)}
    BY <1>3, <1>4 DEF LiveUsers
  <1> QED  BY <1>5, <1>6 DEF new

-------------------------------------------------------------------------------
(* Every outcome is one the directory promises, or a failure it allows.     *)

LEMMA Fails ==
    ASSUME NEW req, NEW e, e \in Directory!Promised(req) \cup {Directory!Untouched(NoAnswer)},
           NEW users, NEW gone, NEW owing, NEW answer,
           e = [users |-> users, gone |-> gone, answer |-> answer, owed |-> owing]
    PROVE  /\ req.op = "getByID" =>
                [users |-> users, gone |-> gone, answer |-> [err |-> "none", users |-> {ZeroUser}],
                 owed |-> {}] \in Directory!Failed(req)
           /\ req.op = "update" =>
                [users |-> users, gone |-> gone, answer |-> [err |-> "none", users |-> {ZeroUser}],
                 owed |-> {UserEvent("updated", ZeroUser)}] \in Directory!Failed(req)
           /\ req.op \notin {"getByID", "update"} =>
                [users |-> users, gone |-> gone, answer |-> [err |-> "internal", users |-> {}],
                 owed |-> {}] \in Directory!Failed(req)
  <1>1. ASSUME NEW a, NEW w
        PROVE  [e EXCEPT !.answer = a, !.owed = w] =
                 [users |-> users, gone |-> gone, answer |-> a, owed |-> w]
    <2> DEFINE r == [e EXCEPT !.answer = a]
    <2>1. r = [users |-> users, gone |-> gone, answer |-> a, owed |-> owing]
      OBVIOUS
    <2> HIDE DEF r
    <2>2. [r EXCEPT !.owed = w] = [users |-> users, gone |-> gone, answer |-> a, owed |-> w]
      BY <2>1
    <2> QED  BY <2>2 DEF r
  <1>2. CASE req.op = "getByID"
    BY <1>1, <1>2, DirectoryNames DEF Directory!Failed
  <1>3. CASE req.op = "update"
    BY <1>1, <1>3, DirectoryNames DEF Directory!Failed
  <1>4. CASE req.op \notin {"getByID", "update"}
    BY <1>1, <1>4, DirectoryNames DEF Directory!Failed
  <1> QED  BY <1>2, <1>3, <1>4

LEMMA UntouchedIs ==
    \A answer : Directory!Untouched(answer) =
      [users |-> LiveUsers(db), gone |-> Dead(db), answer |-> answer, owed |-> {}]
  BY DirectoryNames DEF Directory!Untouched, Dead

\* A failed query that changed nothing.
LEMMA FailsIdle ==
    ASSUME NEW req
    PROVE  /\ req.op = "getByID" =>
                [users |-> LiveUsers(db), gone |-> Dead(db),
                 answer |-> [err |-> "none", users |-> {ZeroUser}],
                 owed |-> {}] \in Directory!Failed(req)
           /\ req.op = "update" =>
                [users |-> LiveUsers(db), gone |-> Dead(db),
                 answer |-> [err |-> "none", users |-> {ZeroUser}],
                 owed |-> {UserEvent("updated", ZeroUser)}] \in Directory!Failed(req)
           /\ req.op \notin {"getByID", "update"} =>
                [users |-> LiveUsers(db), gone |-> Dead(db),
                 answer |-> [err |-> "internal", users |-> {}],
                 owed |-> {}] \in Directory!Failed(req)
  BY UntouchedIs, Fails

LEMMA CreatePromised ==
    ASSUME TypeOK, NEW req \in Request, req.op = "create", NEW o, CreateDoes(db, req.email, o)
    PROVE  Shown("create", req, o) \in Directory!Promised(req) \cup Directory!Failed(req)
  <1>1. db \in [Ids -> Row]
    BY DEF TypeOK, TableOK
  <1>2. Directory!Promised(req) = Directory!Creating(req)
    BY DEF Directory!Promised
  <1>3. Directory!Taken(req.email, NilId) <=> Holders(db, req.email) # {}
    BY TakenIs, StoreAssumption DEF Holders, Live
  <1>4. EventOf("create", req, o) = {UserEvent("created", u) : u \in o.users}
    BY DEF EventOf
  <1>5. ASSUME NEW id \in Absent(db), Holders(db, req.email) = {}, o.db = Inserted(db, id, req.email)
        PROVE  [users |-> LiveUsers(o.db), gone |-> Dead(o.db),
                answer |-> [err |-> "none", users |-> {NewUser(id, req.email, 1)}],
                owed |-> {UserEvent("created", NewUser(id, req.email, 1))}] \in Directory!Promised(req)
    <2> DEFINE u == NewUser(id, req.email, 1)
    <2>1. u \in [id : Ids \ (Dead(db) \cup {v.id : v \in LiveUsers(db)}), email : {req.email}, rev : {1}]
      BY UsersAre DEF NewUser, Absent, Dead, Live
    <2>2. LiveUsers(o.db) = LiveUsers(db) \cup {u} /\ Dead(o.db) = Dead(db)
      BY <1>1, <1>5, InsertedUsers
    <2> HIDE DEF u
    <2>3. Directory!Effect(LiveUsers(db) \cup {u}, Dead(db), Directory!Tell("none", {u}),
                           {Directory!UserEvent("created", u)}) \in Directory!Creating(req)
      BY <1>3, <1>5, <2>1 DEF Directory!Creating, Dead
    <2> QED  BY <1>2, <1>5, <2>2, <2>3, DirectoryNames DEF u
  <1>6. CASE o.err = "none"
    <2>1. PICK id \in Absent(db) :
            /\ Holders(db, req.email) = {} /\ o.db = Inserted(db, id, req.email)
            /\ o.users = {NewUser(id, req.email, 1)}
      BY <1>6 DEF CreateDoes
    <2> QED  BY <1>4, <1>5, <1>6, <2>1 DEF Shown
  <1>7. CASE o.err = "internal"
    <2>1. CASE o.db = db /\ o.users = {}
      BY <1>7, <2>1, FailsIdle DEF Shown
    <2>2. CASE o.db # db
      <3>1. PICK id \in Absent(db) :
              Holders(db, req.email) = {} /\ o.db = Inserted(db, id, req.email) /\ o.users = {}
        BY <1>7, <2>2 DEF CreateDoes
      <3> QED  BY <1>5, <1>7, <3>1, Fails DEF Shown
    <2> QED  BY <1>7, <2>1, <2>2 DEF CreateDoes
  <1>8. CASE o.err = "alreadyExists"
    <2>1. o.db = db /\ o.users = {} /\ Holders(db, req.email) # {}
      BY <1>8 DEF CreateDoes
    <2> QED  BY <1>2, <1>3, <1>8, <2>1, UntouchedIs, DirectoryNames
             DEF Directory!Creating, Directory!Refused, Shown
  <1> QED  BY <1>6, <1>7, <1>8 DEF CreateDoes

LEMMA FindPromised ==
    ASSUME NEW req, NEW found, Directory!Promised(req) = Directory!Finding(found)
    PROVE  /\ found = {} =>
                [users |-> LiveUsers(db), gone |-> Dead(db),
                 answer |-> [err |-> "notFound", users |-> {}],
                 owed |-> {}] \in Directory!Promised(req)
           /\ \A u \in found :
                [users |-> LiveUsers(db), gone |-> Dead(db),
                 answer |-> [err |-> "none", users |-> {u}],
                 owed |-> {}] \in Directory!Promised(req)
  <1>1. CASE found = {}
    <2>1. Directory!Refused("notFound") \in Directory!Promised(req)
      BY <1>1 DEF Directory!Finding
    <2>2. Directory!Refused("notFound") =
            [users |-> LiveUsers(db), gone |-> Dead(db),
             answer |-> [err |-> "notFound", users |-> {}], owed |-> {}]
      BY UntouchedIs, DirectoryNames DEF Directory!Refused
    <2> QED  BY <1>1, <2>1, <2>2
  <1>2. ASSUME NEW u \in found
        PROVE  [users |-> LiveUsers(db), gone |-> Dead(db),
                answer |-> [err |-> "none", users |-> {u}],
                owed |-> {}] \in Directory!Promised(req)
    <2>1. Directory!Untouched(Directory!Tell("none", {u})) \in Directory!Promised(req)
      BY <1>2 DEF Directory!Finding
    <2> QED  BY <2>1, UntouchedIs, DirectoryNames
  <1> QED  BY <1>1, <1>2

LEMMA GetByIDPromised ==
    ASSUME NEW req \in Request, req.op = "getByID", NEW o, GetByIDDoes(db, req.id, o)
    PROVE  Shown("getByID", req, o) \in Directory!Promised(req) \cup Directory!Failed(req)
  <1> DEFINE found == {u \in LiveUsers(db) : u.id = req.id}
  <1>1. Directory!Promised(req) = Directory!Finding(found)
    BY DEF Directory!Promised
  <1>2. found = IF req.id \in Live(db) THEN {UserOf(db, req.id)} ELSE {}
    BY OldIs
  <1> HIDE DEF found
  <1>3. EventOf("getByID", req, o) = {} /\ o.db = db
    BY DEF EventOf, GetByIDDoes
  <1>4. CASE o.err = "none" /\ req.id \in Live(db) /\ o.users = {UserOf(db, req.id)}
    BY <1>1, <1>2, <1>3, <1>4, FindPromised DEF Shown
  <1>5. CASE o.err = "none" /\ o.users = {ZeroUser}
    BY <1>3, <1>5, FailsIdle DEF Shown
  <1>6. CASE o.err = "notFound" /\ req.id \notin Live(db) /\ o.users = {}
    BY <1>1, <1>2, <1>3, <1>6, FindPromised DEF Shown
  <1> QED  BY <1>4, <1>5, <1>6 DEF GetByIDDoes

LEMMA GetByEmailPromised ==
    ASSUME NEW req \in Request, req.op = "getByEmail", NEW o, GetByEmailDoes(db, req.email, o)
    PROVE  Shown("getByEmail", req, o) \in Directory!Promised(req) \cup Directory!Failed(req)
  <1> DEFINE found == {u \in LiveUsers(db) : u.email = req.email}
  <1>1. Directory!Promised(req) = Directory!Finding(found)
    BY DEF Directory!Promised
  <1>2. found = {UserOf(db, id) : id \in Holders(db, req.email)}
    BY TakenIs
  <1> HIDE DEF found
  <1>3. EventOf("getByEmail", req, o) = {} /\ o.db = db
    BY DEF EventOf, GetByEmailDoes
  <1>4. ASSUME NEW id \in Holders(db, req.email), o.err = "none", o.users = {UserOf(db, id)}
        PROVE  Shown("getByEmail", req, o) \in Directory!Promised(req)
    BY <1>1, <1>2, <1>3, <1>4, FindPromised DEF Shown
  <1>5. CASE o.err = "internal" /\ o.users = {}
    BY <1>3, <1>5, FailsIdle DEF Shown
  <1>6. CASE o.err = "notFound" /\ Holders(db, req.email) = {} /\ o.users = {}
    BY <1>1, <1>2, <1>3, <1>6, FindPromised DEF Shown
  <1> QED  BY <1>4, <1>5, <1>6 DEF GetByEmailDoes

LEMMA ListPromised ==
    ASSUME NEW s \in {"list", "listAll"}, NEW req \in Request, req.op = s, NEW pages, NEW o,
           pages = IF s = "list" THEN SUBSET LiveUsers(db) ELSE {LiveUsers(db)},
           ListDoes(db, pages, o)
    PROVE  Shown(s, req, o) \in Directory!Promised(req) \cup Directory!Failed(req)
  <1>1. Directory!Promised(req) = {Directory!Untouched(Directory!Tell("none", page)) : page \in pages}
    BY DEF Directory!Promised
  <1>2. EventOf(s, req, o) = {} /\ o.db = db
    BY DEF EventOf, ListDoes
  <1>3. CASE o.err = "none" /\ o.users \in pages
    <2>1. Directory!Untouched(Directory!Tell("none", o.users)) \in Directory!Promised(req)
      BY <1>1, <1>3
    <2> QED  BY <1>2, <1>3, <2>1, UntouchedIs, DirectoryNames DEF Shown
  <1>4. CASE o.err = "internal" /\ o.users = {}
    BY <1>2, <1>4, FailsIdle DEF Shown
  <1> QED  BY <1>3, <1>4 DEF ListDoes

LEMMA UpdatePromised ==
    ASSUME TypeOK, NEW req \in Request, req.op = "update", NEW o,
           UpdateDoes(db, req.id, req.email, o)
    PROVE  Shown("update", req, o) \in Directory!Promised(req) \cup Directory!Failed(req)
  <1> DEFINE old == {u \in LiveUsers(db) : u.id = req.id}
             new == NewUser(req.id, req.email, db[req.id].rev + 1)
  <1>1. db \in [Ids -> Row]
    BY DEF TypeOK, TableOK
  <1>2. Directory!Promised(req) = Directory!Updating(req)
    BY DEF Directory!Promised
  <1>3. old = IF req.id \in Live(db) THEN {UserOf(db, req.id)} ELSE {}
    BY OldIs
  <1>4. Directory!Taken(req.email, req.id) <=> Holders(db, req.email) \ {req.id} # {}
    BY TakenIs
  <1>5. EventOf("update", req, o) = {UserEvent("updated", u) : u \in o.users}
    BY DEF EventOf
  <1>6. ASSUME req.id \in Live(db), Holders(db, req.email) \ {req.id} = {},
               o.db = Written(db, req.id, req.email)
        PROVE  [users |-> LiveUsers(o.db), gone |-> Dead(o.db),
                answer |-> [err |-> "none", users |-> {new}],
                owed |-> {UserEvent("updated", new)}] \in Directory!Promised(req)
    <2>1. /\ LiveUsers(o.db) = (LiveUsers(db) \ old) \cup {new} /\ Dead(o.db) = Dead(db)
      BY <1>1, <1>3, <1>6, WrittenUsers
    <2>2. new \in {[id |-> req.id, email |-> req.email, rev |-> v.rev + 1] : v \in old}
      <3>1. UserOf(db, req.id) \in old /\ UserOf(db, req.id).rev = db[req.id].rev
        BY <1>3, <1>6 DEF UserOf
      <3> QED  BY <3>1 DEF NewUser
    <2>3. old # {}
      BY <1>3, <1>6
    <2>4. Directory!Effect((LiveUsers(db) \ old) \cup {new}, Dead(db), Directory!Tell("none", {new}),
                           {Directory!UserEvent("updated", new)}) \in Directory!Updating(req)
      <3> HIDE DEF new
      <3> QED  BY <1>4, <1>6, <2>2, <2>3 DEF Directory!Updating, Dead
    <2> QED  BY <1>2, <2>1, <2>4, DirectoryNames
  <1> HIDE DEF old, new
  <1>7. CASE /\ req.id \in Live(db) /\ Holders(db, req.email) \ {req.id} = {}
             /\ o.db = Written(db, req.id, req.email) /\ o.err = "none"
             /\ o.users = {new} \/ o.users = {ZeroUser}
    <2>1. CASE o.users = {new}
      BY <1>5, <1>6, <1>7, <2>1 DEF Shown
    <2>2. CASE o.users = {ZeroUser}
      <3>1. EventOf("update", req, o) = {UserEvent("updated", ZeroUser)}
        BY <1>5, <2>2
      <3>2. [users |-> LiveUsers(o.db), gone |-> Dead(o.db),
             answer |-> [err |-> "none", users |-> {ZeroUser}],
             owed |-> {UserEvent("updated", ZeroUser)}] \in Directory!Failed(req)
        BY <1>6, <1>7, Fails
      <3> QED  BY <1>7, <2>2, <3>1, <3>2 DEF Shown
    <2> QED  BY <1>7, <2>1, <2>2
  <1>8. CASE o.db = db /\ o.err = "none" /\ o.users = {ZeroUser}
    <2>1. EventOf("update", req, o) = {UserEvent("updated", ZeroUser)}
      BY <1>5, <1>8
    <2> QED  BY <1>8, <2>1, FailsIdle DEF Shown
  <1>9. CASE o.db = db /\ o.err = "notFound" /\ req.id \notin Live(db) /\ o.users = {}
    <2>1. Directory!Refused("notFound") \in Directory!Updating(req)
      BY <1>3, <1>9 DEF Directory!Updating, old
    <2> QED  BY <1>2, <1>9, <2>1, UntouchedIs, DirectoryNames DEF Directory!Refused, Shown
  <1>10. CASE /\ o.db = db /\ o.err = "alreadyExists" /\ req.id \in Live(db)
              /\ Holders(db, req.email) \ {req.id} # {} /\ o.users = {}
    <2>1. Directory!Refused("alreadyExists") \in Directory!Updating(req)
      BY <1>3, <1>4, <1>10 DEF Directory!Updating, old
    <2> QED  BY <1>2, <1>10, <2>1, UntouchedIs, DirectoryNames DEF Directory!Refused, Shown
  <1> QED  BY <1>7, <1>8, <1>9, <1>10 DEF UpdateDoes, new

LEMMA DeletePromised ==
    ASSUME TypeOK, NEW req \in Request, req.op = "delete", NEW o, DeleteDoes(db, req.id, o)
    PROVE  Shown("delete", req, o) \in Directory!Promised(req) \cup Directory!Failed(req)
  <1> DEFINE old == {u \in LiveUsers(db) : u.id = req.id}
  <1>1. db \in [Ids -> Row]
    BY DEF TypeOK, TableOK
  <1>2. Directory!Promised(req) = Directory!Deleting(req)
    BY DEF Directory!Promised
  <1>3. old = IF req.id \in Live(db) THEN {UserOf(db, req.id)} ELSE {}
    BY OldIs
  <1>4. EventOf("delete", req, o) = {DeletedEvent(req.id)} /\ o.users = {}
    BY DEF EventOf, DeleteDoes
  <1>5. ASSUME req.id \in Live(db), o.db = Removed(db, req.id)
        PROVE  [users |-> LiveUsers(o.db), gone |-> Dead(o.db), answer |-> NoAnswer,
                owed |-> {DeletedEvent(req.id)}] \in Directory!Promised(req)
    <2>1. /\ LiveUsers(o.db) = LiveUsers(db) \ old /\ Dead(o.db) = Dead(db) \cup {req.id}
      BY <1>1, <1>3, <1>5, RemovedUsers
    <2>2. Directory!Effect(LiveUsers(db) \ old, Dead(db) \cup {req.id}, Directory!Nothing,
                           {Directory!DeletedEvent(req.id)}) \in Directory!Deleting(req)
      BY <1>3, <1>5 DEF Directory!Deleting, Dead
    <2> QED  BY <1>2, <2>1, <2>2, DirectoryNames
  <1> HIDE DEF old
  <1>6. CASE req.id \in Live(db) /\ o.db = Removed(db, req.id) /\ o.err = "none"
    BY <1>4, <1>5, <1>6 DEF Shown, NoAnswer
  <1>7. CASE req.id \in Live(db) /\ o.db = Removed(db, req.id) /\ o.err = "internal"
    BY <1>4, <1>5, <1>7, Fails DEF Shown
  <1>8. CASE o.db = db /\ o.err = "internal"
    BY <1>4, <1>8, FailsIdle DEF Shown
  <1>9. CASE o.db = db /\ req.id \notin Live(db) /\ o.err = "notFound"
    <2>1. Directory!Refused("notFound") \in Directory!Deleting(req)
      BY <1>3, <1>9 DEF Directory!Deleting, old
    <2> QED  BY <1>2, <1>4, <1>9, <2>1, UntouchedIs, DirectoryNames DEF Directory!Refused, Shown
  <1> QED  BY <1>6, <1>7, <1>8, <1>9 DEF DeleteDoes

\* Whatever the query of a handler ends with, the directory allows.
LEMMA OutcomeAllowed ==
    ASSUME TypeOK, NEW s \in Subjects, NEW req \in Request, req.op = s, req.valid, NEW o,
           Does(s, req, o)
    PROVE  Shown(s, req, o) \in Directory!Effects(req)
  <1>1. Directory!Effects(req) = Directory!Promised(req) \cup Directory!Failed(req)
    BY DEF Directory!Effects
  <1>2. CASE s = "create"
    BY <1>1, <1>2, CreatePromised DEF Does
  <1>3. CASE s = "getByID"
    BY <1>1, <1>3, GetByIDPromised DEF Does
  <1>4. CASE s = "getByEmail"
    BY <1>1, <1>4, GetByEmailPromised DEF Does
  <1>5. CASE s = "list"
    BY <1>1, <1>5, ListPromised DEF Does
  <1>6. CASE s = "listAll"
    BY <1>1, <1>6, ListPromised DEF Does
  <1>7. CASE s = "update"
    BY <1>1, <1>7, UpdatePromised DEF Does
  <1>8. CASE s = "delete"
    BY <1>1, <1>8, DeletePromised DEF Does
  <1> QED  BY <1>2, <1>3, <1>4, <1>5, <1>6, <1>7, <1>8 DEF Subjects, Entries

-------------------------------------------------------------------------------
(* Where a call is: at most once in the inbox of its subject, and not there *)
(* while its worker is at it.                                               *)

Job(pc, k, answer, todo) == [pc |-> pc, k |-> k, answer |-> answer, todo |-> todo]
Holds(q, k) == \E i \in DOMAIN q : q[i] = k
Distinct(q) == \A i, j \in DOMAIN q : q[i] = q[j] => i = j

OneCopy == \A s \in Subjects : Distinct(inbox[s]) /\ ~Holds(inbox[s], worker[s].k)

\* What a worker holds at each point of its handler.
InShape(w) ==
    /\ w.pc = "idle" => w = Idle
    /\ w.pc = "query" => w = Job("query", w.k, NoAnswer, {})
    /\ w.pc = "publish" => w.todo # {}
    /\ \A e, f \in w.todo : e = f
WorkShape == \A s \in Subjects : InShape(worker[s])
Validated == \A s \in Subjects : Querying(s) => Asked(s).valid

KeptInv == OneCopy /\ WorkShape /\ Validated

LEMMA IdleShape ==
    /\ Idle = Job("idle", NoCall, NoAnswer, {})
    /\ Idle.pc = "idle" /\ Idle.k = NoCall /\ Idle.answer = NoAnswer /\ Idle.todo = {}
    /\ \A pc, k, answer, todo :
         LET w == Job(pc, k, answer, todo)
         IN  w.pc = pc /\ w.k = k /\ w.answer = answer /\ w.todo = todo
  BY DEF Idle, Job

LEMMA TailHolds ==
    ASSUME NEW S, NEW q \in Seq(S), q # <<>>, Distinct(q)
    PROVE  /\ Head(q) \in S /\ Holds(q, Head(q))
           /\ Distinct(Tail(q)) /\ \A k : Holds(Tail(q), k) <=> Holds(q, k) /\ k # Head(q)
  <1>1. /\ Len(q) \in Nat /\ Len(q) >= 1 /\ DOMAIN q = 1 .. Len(q)
        /\ DOMAIN Tail(q) = 1 .. Len(q) - 1
        /\ \A i \in 1 .. Len(q) - 1 : Tail(q)[i] = q[i + 1]
        /\ Head(q) = q[1] /\ q[1] \in S
    OBVIOUS
  <1>2. \A i \in 1 .. Len(q) : i = 1 \/ (i - 1 \in 1 .. Len(q) - 1 /\ (i - 1) + 1 = i)
    BY <1>1
  <1>3. Distinct(Tail(q))
    BY <1>1 DEF Distinct
  <1>4. ASSUME NEW k, Holds(Tail(q), k) PROVE Holds(q, k) /\ k # Head(q)
    BY <1>1, <1>4 DEF Holds, Distinct
  <1>5. ASSUME NEW k, Holds(q, k), k # Head(q) PROVE Holds(Tail(q), k)
    <2>1. PICK i \in 1 .. Len(q) : q[i] = k
      BY <1>1, <1>5 DEF Holds
    <2>2. i - 1 \in DOMAIN Tail(q) /\ Tail(q)[i - 1] = k
      BY <1>1, <1>2, <1>5, <2>1
    <2> QED  BY <2>2 DEF Holds
  <1>6. Holds(q, Head(q))
    BY <1>1 DEF Holds
  <1> QED  BY <1>1, <1>3, <1>4, <1>5, <1>6

LEMMA AppendHolds ==
    ASSUME NEW S, NEW q \in Seq(S), NEW x \in S
    PROVE  /\ \A k : Holds(Append(q, x), k) <=> Holds(q, k) \/ k = x
           /\ Distinct(q) /\ ~Holds(q, x) => Distinct(Append(q, x))
  <1>1. /\ Len(q) \in Nat /\ DOMAIN q = 1 .. Len(q) /\ DOMAIN Append(q, x) = 1 .. Len(q) + 1
        /\ \A i \in 1 .. Len(q) : Append(q, x)[i] = q[i]
        /\ Append(q, x)[Len(q) + 1] = x
    OBVIOUS
  <1> DEFINE r == Append(q, x)
  <1> HIDE DEF r
  <1>2. /\ DOMAIN r = 1 .. Len(q) + 1 /\ r[Len(q) + 1] = x
        /\ \A i \in 1 .. Len(q) + 1 : i \in 1 .. Len(q) \/ i = Len(q) + 1
        /\ \A i \in 1 .. Len(q) : r[i] = q[i]
    BY <1>1 DEF r
  <1>3. \A k : Holds(r, k) <=> Holds(q, k) \/ k = x
    BY <1>1, <1>2 DEF Holds
  <1>4. ASSUME Distinct(q), ~Holds(q, x) PROVE Distinct(r)
    BY <1>1, <1>2, <1>4 DEF Holds, Distinct
  <1> QED  BY <1>3, <1>4 DEF r

LEMMA EmptyHolds == Distinct(<<>>) /\ \A k : ~Holds(<<>>, k)
  BY DEF Distinct, Holds

\* Only worker s does something.
Moves(s, w) == worker'[s] = w /\ \A r \in Subjects \ {s} : worker'[r] = worker[r]

LEMMA TakeIs ==
    ASSUME TypeOK, NEW s \in Subjects, Take(s)
    PROVE  LET k == Head(inbox[s])
           IN  /\ worker[s].pc = "idle" /\ inbox[s] # <<>> /\ inbox[s] \in Seq(Calls) /\ k \in Calls
               /\ Moves(s, IF call[k].req.valid THEN Job("query", k, NoAnswer, {})
                                                ELSE Job("reply", k, Refusal, {}))
               /\ inbox'[s] = Tail(inbox[s]) /\ \A r \in Subjects \ {s} : inbox'[r] = inbox[r]
               /\ UNCHANGED <<db, call, events>>
  <1> DEFINE k == Head(inbox[s])
  <1>1. /\ inbox[s] \in Seq(Calls) /\ inbox[s] # <<>> /\ k \in Calls
        /\ inbox'[s] = Tail(inbox[s]) /\ \A r \in Subjects \ {s} : inbox'[r] = inbox[r]
    BY DEF Take, TypeOK, WorkOK
  <1> HIDE DEF k
  <1>2. /\ [Idle EXCEPT !.pc = "query", !.k = k] = Job("query", k, NoAnswer, {})
        /\ [Idle EXCEPT !.pc = "reply", !.k = k, !.answer = Refusal] = Job("reply", k, Refusal, {})
    <2> DEFINE query == [Idle EXCEPT !.pc = "query"]
               reply == [Idle EXCEPT !.pc = "reply"]
               mine == [reply EXCEPT !.k = k]
    <2>1. query = Job("query", NoCall, NoAnswer, {}) /\ reply = Job("reply", NoCall, NoAnswer, {})
      BY DEF Idle, Job
    <2> HIDE DEF query, reply
    <2>2. [query EXCEPT !.k = k] = Job("query", k, NoAnswer, {}) /\ mine = Job("reply", k, NoAnswer, {})
      BY <2>1 DEF Job
    <2> HIDE DEF mine
    <2>3. [mine EXCEPT !.answer = Refusal] = Job("reply", k, Refusal, {})
      BY <2>2 DEF Job
    <2> QED  BY <2>2, <2>3 DEF query, reply, mine
  <1>3. worker' = [worker EXCEPT ![s] = IF call[k].req.valid THEN Job("query", k, NoAnswer, {})
                                                             ELSE Job("reply", k, Refusal, {})]
    BY <1>2 DEF Take, k
  <1>4. Moves(s, IF call[k].req.valid THEN Job("query", k, NoAnswer, {})
                                      ELSE Job("reply", k, Refusal, {}))
    BY <1>3 DEF TypeOK, WorkOK, Moves
  <1> QED  BY <1>1, <1>4 DEF Take, k

LEMMA FinishIs ==
    ASSUME TypeOK, NEW s \in Subjects, NEW o, NEW todo, Finish(s, o, todo)
    PROVE  /\ Moves(s, Job("reply", worker[s].k, [err |-> o.err, users |-> o.users],
                           IF o.err = "none" THEN todo ELSE {}))
           /\ db' = o.db /\ UNCHANGED <<inbox, call, events>>
  <1> DEFINE answer == [err |-> o.err, users |-> o.users]
             left == IF o.err = "none" THEN todo ELSE {}
  <1> HIDE DEF answer, left
  <1>1. worker[s] \in Work /\ worker \in [Subjects -> Work]
    BY DEF TypeOK, WorkOK
  <1>2. worker' = [worker EXCEPT ![s].pc = "reply", ![s].answer = answer, ![s].todo = left]
    BY DEF Finish, answer, left
  <1>3. /\ worker'[s].pc = "reply" /\ worker'[s].k = worker[s].k /\ worker'[s].answer = answer
        /\ worker'[s].todo = left /\ \A r \in Subjects \ {s} : worker'[r] = worker[r]
        /\ worker'[s] \in [pc : {"reply"}, k : {worker[s].k}, answer : {answer}, todo : {left}]
    BY <1>1, <1>2 DEF Work
  <1>4. worker'[s] = Job("reply", worker[s].k, answer, left)
    BY <1>3 DEF Job
  <1> QED  BY <1>3, <1>4 DEF Finish, Moves, answer, left

LEMMA RepliedIs ==
    ASSUME TypeOK, NEW s \in Subjects, Replied(s)
    PROVE  Moves(s, IF worker[s].todo = {} THEN Idle
                    ELSE Job("publish", worker[s].k, worker[s].answer, worker[s].todo))
  <1>1. worker[s] \in Work /\ worker \in [Subjects -> Work]
    BY DEF TypeOK, WorkOK
  <1>2. [worker[s] EXCEPT !.pc = "publish"] =
          Job("publish", worker[s].k, worker[s].answer, worker[s].todo)
    BY <1>1 DEF Work, Job
  <1>3. worker' = [worker EXCEPT ![s] = IF worker[s].todo = {} THEN Idle
                                        ELSE [worker[s] EXCEPT !.pc = "publish"]]
    BY <1>1 DEF Replied
  <1> QED  BY <1>1, <1>2, <1>3 DEF Moves

LEMMA KeptInit == Init => KeptInv
  BY EmptyHolds, IdleShape DEF Init, KeptInv, OneCopy, WorkShape, InShape, Validated, Querying

\* Every call the service has is one that was sent to its subject.
LEMMA KnownCalls ==
    ASSUME TypeOK, FoundInv, WorkShape
    PROVE  /\ \A s \in Subjects : \A k : Holds(inbox[s], k) => k \in Calls /\ Sent(k, s)
           /\ \A s \in Subjects : worker[s].k \in Calls \/ worker[s].k = NoCall
           /\ \A s \in Subjects : worker[s].k \in Calls <=> worker[s].pc # "idle"
           /\ \A s \in Subjects : worker[s].k \in Calls => Sent(worker[s].k, s)
  <1>1. ASSUME NEW s \in Subjects, NEW k, Holds(inbox[s], k) PROVE k \in Calls /\ Sent(k, s)
    BY <1>1 DEF TypeOK, WorkOK, FoundInv, Queued, Holds
  <1>2. ASSUME NEW s \in Subjects, worker[s].pc # "idle"
        PROVE  worker[s].k \in Calls /\ Sent(worker[s].k, s)
    BY <1>2 DEF TypeOK, WorkOK, FoundInv, AtWork
  <1>3. ASSUME NEW s \in Subjects, worker[s].pc = "idle"
        PROVE  worker[s].k = NoCall /\ worker[s].k \notin Calls
    BY <1>3, ServiceAssumption, IdleShape DEF WorkShape, InShape
  <1> QED  BY <1>1, <1>2, <1>3

LEMMA KeptSend ==
    ASSUME TypeOK, FoundInv, KeptInv, NEW k \in Calls, NEW req \in Request, Send(k, req)
    PROVE  KeptInv'
  <1>1. /\ UNCHANGED worker /\ call[k].st = "new" /\ req.op \in Subjects
        /\ \A j \in Calls \ {k} : call'[j] = call[j]
    BY DEF Send, TypeOK, CallsOK, Request
  <1>2. /\ \A s \in Subjects : ~Holds(inbox[s], k) /\ worker[s].k # k
        /\ \A s \in Subjects : worker[s].pc # "idle" => worker[s].k \in Calls \ {k}
    BY <1>1, KnownCalls DEF KeptInv, Sent
  <1>3. WorkShape'
    BY <1>1 DEF KeptInv, WorkShape
  <1>4. Validated'
    BY <1>1, <1>2 DEF KeptInv, Validated, Querying, Asked
  <1>5. OneCopy'
    <2>1. CASE UNCHANGED inbox
      BY <1>1, <2>1 DEF KeptInv, OneCopy
    <2>2. CASE inbox' = [inbox EXCEPT ![req.op] = Append(@, k)]
      <3>1. /\ inbox'[req.op] = Append(inbox[req.op], k) /\ inbox[req.op] \in Seq(Calls)
            /\ \A s \in Subjects \ {req.op} : inbox'[s] = inbox[s]
        BY <1>1, <2>2 DEF TypeOK, WorkOK
      <3>2. Distinct(inbox'[req.op]) /\ ~Holds(inbox'[req.op], worker[req.op].k)
        BY <1>1, <1>2, <3>1, AppendHolds DEF KeptInv, OneCopy
      <3> QED  BY <1>1, <3>1, <3>2 DEF KeptInv, OneCopy
    <2> QED  BY <2>1, <2>2 DEF Send
  <1> QED  BY <1>3, <1>4, <1>5 DEF KeptInv

\* Unless a request is sent, what was asked stays.
LEMMA AskedStays ==
    ASSUME TypeOK, [Next]_vars, \A k \in Calls : ~\E op \in Ops : \E req \in RequestsOf(op) : Send(k, req)
    PROVE  \A j \in Calls : call'[j].req = call[j].req
  <1>1. ASSUME NEW k \in Calls, GiveUp(k) PROVE \A j \in Calls : call'[j].req = call[j].req
    BY <1>1 DEF GiveUp, TypeOK, CallsOK, View
  <1>2. ASSUME NEW s \in Subjects, Reply(s) PROVE \A j \in Calls : call'[j].req = call[j].req
    <2>1. worker[s].k \in Calls
      BY <1>2 DEF Reply, TypeOK, WorkOK
    <2> DEFINE v == [call[worker[s].k] EXCEPT !.st = "answered", !.answer = worker[s].answer]
    <2>2. call[worker[s].k] \in View
      BY <2>1 DEF TypeOK, CallsOK
    <2>3. v.req = call[worker[s].k].req
      BY <2>2 DEF View
    <2>4. UNCHANGED call \/ call' = [call EXCEPT ![worker[s].k] = v]
      BY <1>2, <2>1 DEF Reply, TypeOK, CallsOK
    <2> HIDE DEF v
    <2> QED  BY <2>1, <2>3, <2>4 DEF TypeOK, CallsOK
  <1>3. UNCHANGED call \/ (\E k \in Calls : GiveUp(k)) \/ (\E s \in Subjects : Reply(s))
    BY DEF Next, Caller, Handle, HandleCreate, HandleGetByID, HandleGetByEmail, HandleList,
       HandleListAll, HandleUpdate, HandleDelete, Finish, Advance, Take, ReplyLost, Publish,
       PublishFails, Deliver, Process, Start, Signal, Close, Exit, Subscribe, Unsubscribe, vars
  <1> QED  BY <1>1, <1>2, <1>3

\* A worker that goes on with its request, or is done with it.
LEMMA KeptMove ==
    ASSUME TypeOK, FoundInv, KeptInv, NEW s \in Subjects, NEW w, Moves(s, w), InShape(w),
           w.pc # "query", w.k \in {worker[s].k, NoCall}, UNCHANGED inbox,
           \A j \in Calls : call'[j].req = call[j].req
    PROVE  KeptInv'
  <1>1. WorkShape'
    BY DEF Moves, KeptInv, WorkShape
  <1>2. Validated'
    <2>1. \A r \in Subjects : worker'[r].pc = "query" =>
            worker'[r] = worker[r] /\ worker[r].k \in Calls /\ call[worker[r].k].req.valid
      BY KnownCalls DEF Moves, KeptInv, Validated, Querying, Asked
    <2> QED  BY <2>1 DEF Validated, Querying, Asked
  <1>3. OneCopy'
    <2>1. ~Holds(inbox[s], NoCall)
      BY KnownCalls, ServiceAssumption DEF KeptInv
    <2> QED  BY <2>1 DEF Moves, KeptInv, OneCopy
  <1> QED  BY <1>1, <1>2, <1>3 DEF KeptInv

LEMMA KeptTake ==
    ASSUME TypeOK, FoundInv, KeptInv, NEW s \in Subjects, Take(s)
    PROVE  KeptInv'
  <1> DEFINE k == Head(inbox[s])
             w == IF call[k].req.valid THEN Job("query", k, NoAnswer, {})
                                       ELSE Job("reply", k, Refusal, {})
  <1>1. /\ inbox[s] # <<>> /\ inbox[s] \in Seq(Calls) /\ k \in Calls /\ Moves(s, w)
        /\ inbox'[s] = Tail(inbox[s]) /\ \A r \in Subjects \ {s} : inbox'[r] = inbox[r]
        /\ UNCHANGED call
    BY TakeIs
  <1>2. InShape(w) /\ w.k = k /\ (w.pc = "query" => call[k].req.valid)
    BY IdleShape DEF InShape
  <1>3. WorkShape'
    BY <1>1, <1>2 DEF Moves, KeptInv, WorkShape
  <1>4. Validated'
    BY <1>1, <1>2 DEF Moves, KeptInv, Validated, Querying, Asked
  <1>5. OneCopy'
    <2>1. Distinct(Tail(inbox[s])) /\ ~Holds(Tail(inbox[s]), k)
      BY <1>1, TailHolds DEF KeptInv, OneCopy
    <2> HIDE DEF k, w
    <2> QED  BY <1>1, <1>2, <2>1 DEF Moves, KeptInv, OneCopy
  <1> QED  BY <1>3, <1>4, <1>5 DEF KeptInv

\* Queues and workers are dropped.
LEMMA KeptDrop ==
    ASSUME KeptInv, UNCHANGED call, \A s \in Subjects : inbox'[s] \in {inbox[s], <<>>},
           \A s \in Subjects : worker'[s] = worker[s] \/ (worker'[s] = Idle /\ inbox'[s] = <<>>)
    PROVE  KeptInv'
  <1>1. InShape(Idle)
    BY IdleShape DEF InShape
  <1>2. WorkShape'
    BY <1>1 DEF KeptInv, WorkShape
  <1>3. Validated'
    BY IdleShape DEF KeptInv, Validated, Querying, Asked
  <1>4. OneCopy'
    BY EmptyHolds, IdleShape DEF KeptInv, OneCopy
  <1> QED  BY <1>2, <1>3, <1>4 DEF KeptInv

LEMMA KeptStep ==
    ASSUME TypeOK, FoundInv, KeptInv, [Next]_vars
    PROVE  KeptInv'
  <1>1. ASSUME NEW k \in Calls, NEW op \in Ops, NEW req \in RequestsOf(op), Send(k, req)
        PROVE  KeptInv'
    <2>1. req \in Request
      BY RequestType, OpsAssumption DEF TypeOK
    <2> QED  BY <1>1, <2>1, KeptSend
  <1>2. CASE \A k \in Calls : ~\E op \in Ops : \E req \in RequestsOf(op) : Send(k, req)
    <2>1. \A j \in Calls : call'[j].req = call[j].req
      BY <1>2, AskedStays
    <2>2. ASSUME NEW k \in Calls, GiveUp(k) PROVE KeptInv'
      <3>1. UNCHANGED <<inbox, worker>>
        BY <2>2 DEF GiveUp
      <3>2. Validated'
        BY <2>1, <3>1, KnownCalls DEF KeptInv, Validated, Querying, Asked
      <3> QED  BY <3>1, <3>2 DEF KeptInv, OneCopy, WorkShape
    <2>3. CASE Handle
      <3>1. PICK s \in Subjects : \E o :
              Querying(s) /\ Does(s, Asked(s), o) /\ Finish(s, o, EventOf(s, Asked(s), o))
        BY <2>3, HandleIs
      <3>2. PICK o : Querying(s) /\ Does(s, Asked(s), o) /\ Finish(s, o, EventOf(s, Asked(s), o))
        BY <3>1
      <3> DEFINE w == Job("reply", worker[s].k, [err |-> o.err, users |-> o.users],
                          IF o.err = "none" THEN EventOf(s, Asked(s), o) ELSE {})
      <3>3. Moves(s, w) /\ UNCHANGED inbox
        BY <3>2, FinishIs
      <3>4. \A e, f \in worker'[s].todo : e = f
        BY <3>2, HandleCommits
      <3>5. InShape(w) /\ w.pc # "query" /\ w.k = worker[s].k
        BY <3>3, <3>4, IdleShape DEF InShape, Moves
      <3> HIDE DEF w
      <3> QED  BY <2>1, <3>3, <3>5, KeptMove
    <2>4. ASSUME NEW s \in Subjects, Take(s) PROVE KeptInv'
      BY <2>4, KeptTake
    <2>5. ASSUME NEW s \in Subjects, Reply(s) \/ ReplyLost(s) PROVE KeptInv'
      <3> DEFINE w == IF worker[s].todo = {} THEN Idle
                      ELSE Job("publish", worker[s].k, worker[s].answer, worker[s].todo)
      <3>1. Moves(s, w) /\ UNCHANGED inbox
        BY <2>5, RepliedIs DEF Reply, ReplyLost
      <3>2. InShape(w) /\ w.pc # "query" /\ w.k \in {worker[s].k, NoCall}
        BY IdleShape DEF InShape, KeptInv, WorkShape
      <3> HIDE DEF w
      <3> QED  BY <2>1, <3>1, <3>2, KeptMove
    <2>6. ASSUME NEW s \in Subjects, Publish(s) \/ PublishFails(s) PROVE KeptInv'
      <3>1. Moves(s, Idle) /\ UNCHANGED inbox
        BY <2>6 DEF Publish, PublishFails, Moves, TypeOK, WorkOK
      <3>2. InShape(Idle) /\ Idle.pc # "query" /\ Idle.k \in {worker[s].k, NoCall}
        BY IdleShape DEF InShape
      <3> QED  BY <2>1, <3>1, <3>2, KeptMove
    <2>7. CASE Deliver \/ Process \/ UNCHANGED vars
      <3>1. UNCHANGED call
        BY <2>7 DEF Deliver, Process, Start, Signal, Close, Exit, Subscribe, Unsubscribe, vars
      <3>2. CASE Exit
        <4>1. \A s \in Subjects : worker'[s] = Idle /\ inbox'[s] = <<>>
          BY <3>2 DEF Exit
        <4> QED  BY <3>1, <4>1, KeptDrop
      <3>3. ASSUME NEW s \in Subjects, Unsubscribe(s) PROVE KeptInv'
        <4>1. worker' = worker /\ \A r \in Subjects : inbox'[r] \in {inbox[r], <<>>}
          BY <3>3 DEF Unsubscribe, TypeOK, WorkOK
        <4> QED  BY <3>1, <4>1, KeptDrop
      <3>4. ASSUME UNCHANGED <<inbox, worker>> PROVE KeptInv'
        BY <3>1, <3>4, KeptDrop
      <3>5. Exit \/ (\E s \in Subjects : Unsubscribe(s)) \/ UNCHANGED <<inbox, worker>>
        BY <2>7 DEF Deliver, Process, Start, Signal, Close, Subscribe, vars
      <3> QED  BY <3>2, <3>3, <3>4, <3>5
    <2> QED  BY <1>2, <2>2, <2>3, <2>4, <2>5, <2>6, <2>7 DEF Next, Caller, Advance
  <1> QED  BY <1>1, <1>2

-------------------------------------------------------------------------------
(* The mapping.  What the directory sees of a call is a function of the     *)
(* inbox q and the work w of its subject.                                   *)

ServiceInv == TypeOK /\ FoundInv /\ KeptInv

FateIn(q, w, k) ==
    IF Holds(q, k) \/ (w.k = k /\ w.pc = "query") THEN "pending"
    ELSE IF w.k = k /\ w.pc = "reply" THEN "performed" ELSE "none"
ResultIn(q, w, k) == IF FateIn(q, w, k) = "performed" THEN w.answer ELSE NoAnswer
OwedIn(w, k) == IF w.k = k THEN w.todo ELSE {}

Fates == [k \in Calls |-> FateOf(k)]
Results == [k \in Calls |-> ResultOf(k)]
Debts == [k \in Calls |-> WorkFor(k).todo]

LEMMA SeenAs ==
    ASSUME NEW k, NEW s, s = call[k].req.op
    PROVE  /\ FateOf(k) = FateIn(inbox[s], worker[s], k)
           /\ ResultOf(k) = ResultIn(inbox[s], worker[s], k)
           /\ WorkFor(k).todo = OwedIn(worker[s], k)
  <1>1. WorkFor(k) = IF worker[s].k = k THEN worker[s] ELSE Idle
    BY DEF WorkFor
  <1>2. (\E i \in DOMAIN Queue(k) : Queue(k)[i] = k) <=> Holds(inbox[s], k)
    BY DEF Queue, Holds
  <1>3. FateOf(k) = FateIn(inbox[s], worker[s], k)
    BY <1>1, <1>2, IdleShape DEF FateOf, FateIn
  <1>4. FateOf(k) = "performed" => worker[s].k = k
    BY <1>3 DEF FateIn
  <1> QED  BY <1>1, <1>3, <1>4, IdleShape DEF ResultOf, ResultIn, OwedIn

LEMMA SeenNextAs ==
    ASSUME NEW k, NEW s, s = call'[k].req.op
    PROVE  /\ FateOf(k)' = FateIn(inbox'[s], worker'[s], k)
           /\ ResultOf(k)' = ResultIn(inbox'[s], worker'[s], k)
           /\ (WorkFor(k).todo)' = OwedIn(worker'[s], k)
  <1>1. WorkFor(k)' = IF worker'[s].k = k THEN worker'[s] ELSE Idle
    BY DEF WorkFor
  <1>2. (\E i \in DOMAIN Queue(k) : Queue(k)[i] = k)' <=> Holds(inbox'[s], k)
    BY DEF Queue, Holds
  <1>3. FateOf(k)' = FateIn(inbox'[s], worker'[s], k)
    BY <1>1, <1>2, IdleShape DEF FateOf, FateIn
  <1>4. FateOf(k)' = "performed" => worker'[s].k = k
    BY <1>3 DEF FateIn
  <1> QED  BY <1>1, <1>3, <1>4, IdleShape DEF ResultOf, ResultIn, OwedIn

Unseen(k) ==
    UNCHANGED FateOf(k) /\ UNCHANGED ResultOf(k) /\ UNCHANGED WorkFor(k).todo

\* A step of worker s with call k, or of its queue, shows in no other call.
LEMMA OthersUnseen ==
    ASSUME TypeOK, NEW s \in Subjects, NEW k,
           \A j \in Calls \ {k} : call'[j].req = call[j].req,
           \A r \in Subjects \ {s} : worker'[r] = worker[r] /\ inbox'[r] = inbox[r],
           \A j \in Calls \ {k} : Holds(inbox'[s], j) <=> Holds(inbox[s], j),
           \/ worker'[s] = worker[s]
           \/ worker[s].k \in {k, NoCall} /\ worker'[s].k \in {k, NoCall}
    PROVE  \A j \in Calls \ {k} : Unseen(j)
  <1> SUFFICES ASSUME NEW j \in Calls \ {k} PROVE Unseen(j)
    OBVIOUS
  <1> DEFINE r == call[j].req.op
  <1>1. r \in Subjects /\ call'[j].req.op = r
    BY DEF TypeOK, CallsOK, View, Request
  <1> HIDE DEF r
  <1>2. Holds(inbox'[r], j) <=> Holds(inbox[r], j)
    BY <1>1
  <1>3. worker'[r] = worker[r] \/ (worker[r].k # j /\ worker'[r].k # j)
    BY <1>1, ServiceAssumption
  <1>4. /\ FateIn(inbox'[r], worker'[r], j) = FateIn(inbox[r], worker[r], j)
        /\ OwedIn(worker'[r], j) = OwedIn(worker[r], j)
    BY <1>2, <1>3 DEF FateIn, OwedIn
  <1>5. ResultIn(inbox'[r], worker'[r], j) = ResultIn(inbox[r], worker[r], j)
    <2>1. FateIn(inbox[r], worker[r], j) = "performed" => worker[r].k = j
      BY DEF FateIn
    <2> QED  BY <1>3, <1>4, <2>1 DEF ResultIn
  <1> QED  BY <1>1, <1>4, <1>5, SeenAs, SeenNextAs DEF Unseen, r

LEMMA OneSeen ==
    ASSUME NEW k \in Calls, \A j \in Calls \ {k} : Unseen(j)
    PROVE  /\ Fates' = [Fates EXCEPT ![k] = FateOf(k)']
           /\ Results' = [Results EXCEPT ![k] = ResultOf(k)']
           /\ Debts' = [Debts EXCEPT ![k] = (WorkFor(k).todo)']
  <1>1. Fates' = [j \in Calls |-> FateOf(j)'] /\ Fates' = [Fates EXCEPT ![k] = FateOf(k)']
    BY DEF Unseen, Fates
  <1>2. Results' = [Results EXCEPT ![k] = ResultOf(k)']
    BY DEF Unseen, Results
  <1>3. Debts' = [Debts EXCEPT ![k] = (WorkFor(k).todo)']
    BY DEF Unseen, Debts
  <1> QED  BY <1>1, <1>2, <1>3

LEMMA NoneSeen ==
    ASSUME \A j \in Calls : Unseen(j)
    PROVE  UNCHANGED <<Fates, Results, Debts>>
  BY DEF Unseen, Fates, Results, Debts

\* A call in the queue of its subject, and one its worker is at.
LEMMA QueuedIs ==
    ASSUME ServiceInv, NEW s \in Subjects, NEW k, Holds(inbox[s], k)
    PROVE  /\ k \in Calls /\ call[k].req.op = s /\ worker[s].k # k
           /\ FateOf(k) = "pending" /\ ResultOf(k) = NoAnswer /\ WorkFor(k).todo = {}
  <1>1. k \in Calls /\ call[k].req.op = s /\ worker[s].k # k
    BY KnownCalls DEF ServiceInv, KeptInv, OneCopy, Sent
  <1> QED  BY <1>1, SeenAs DEF FateIn, ResultIn, OwedIn

LEMMA WorkedIs ==
    ASSUME ServiceInv, NEW s \in Subjects, NEW k \in Calls, worker[s].k = k
    PROVE  /\ call[k].req.op = s /\ ~Holds(inbox[s], k)
           /\ FateOf(k) = CASE worker[s].pc = "query" -> "pending"
                            [] worker[s].pc = "reply" -> "performed"
                            [] OTHER -> "none"
           /\ ResultOf(k) = IF worker[s].pc = "reply" THEN worker[s].answer ELSE NoAnswer
           /\ WorkFor(k).todo = worker[s].todo
  <1>1. call[k].req.op = s /\ ~Holds(inbox[s], k)
    BY KnownCalls DEF ServiceInv, KeptInv, OneCopy, Sent
  <1> QED  BY <1>1, SeenAs DEF FateIn, ResultIn, OwedIn

LEMMA NewIs ==
    ASSUME ServiceInv, NEW k \in Calls, call[k].st = "new"
    PROVE  /\ \A s \in Subjects : ~Holds(inbox[s], k) /\ worker[s].k # k
           /\ FateOf(k) = "none" /\ ResultOf(k) = NoAnswer /\ WorkFor(k).todo = {}
  <1>1. \A s \in Subjects : ~Holds(inbox[s], k) /\ worker[s].k # k
    BY KnownCalls DEF ServiceInv, KeptInv, Sent
  <1>2. call[k].req.op \in Subjects
    BY DEF ServiceInv, TypeOK, CallsOK, View, Request
  <1> QED  BY <1>1, <1>2, SeenAs DEF FateIn, ResultIn, OwedIn

LEMMA MapsInit == Init => Directory!DirectoryInit
  <1> SUFFICES ASSUME Init PROVE Directory!DirectoryInit
    OBVIOUS
  <1>1. PICK email \in [Seeded -> Emails] :
          /\ \A a, b \in Seeded : email[a] = email[b] => a = b
          /\ db = [id \in Ids |-> IF id \in Seeded THEN LiveRow(email[id], 1) ELSE AbsentRow]
    BY DEF Init
  <1>2. /\ Live(db) = Seeded /\ Dead(db) = {}
        /\ \A id \in Seeded : UserOf(db, id) = NewUser(id, email[id], 1)
    BY <1>1, ServiceAssumption DEF Live, Dead, LiveRow, AbsentRow, UserOf, NewUser
  <1>3. \A u \in LiveUsers(db) : u.id \in Seeded /\ u = NewUser(u.id, email[u.id], 1)
    BY <1>2, UsersAre
  <1>4. LiveUsers(db) \in SUBSET [id : Ids, email : Emails, rev : {1}]
    BY <1>3, ServiceAssumption DEF NewUser
  <1>5. \A u, v \in LiveUsers(db) : u.id = v.id \/ u.email = v.email => u = v
    <2> SUFFICES ASSUME NEW u \in LiveUsers(db), NEW v \in LiveUsers(db),
                        u.id = v.id \/ u.email = v.email
                 PROVE  u = v
      OBVIOUS
    <2>1. u.email = email[u.id] /\ v.email = email[v.id]
      BY <1>3 DEF NewUser
    <2>2. u.id = v.id
      BY <1>1, <1>3, <2>1
    <2> QED  BY <1>3, <2>2
  <1>6. \A k \in Calls : FateOf(k) = "none" /\ ResultOf(k) = NoAnswer /\ WorkFor(k).todo = {}
    <2>1. \A k \in Calls : call[k] = NewCall /\ NewCall.req.op \in Subjects
      BY DEF Init, NewCall, Malformed, Subjects, Entries
    <2>2. \A s \in Subjects : inbox[s] = <<>> /\ worker[s] = Idle
      BY DEF Init
    <2> QED  BY <2>1, <2>2, EmptyHolds, IdleShape, ServiceAssumption, SeenAs
             DEF FateIn, ResultIn, OwedIn
  <1>7. call = [k \in Calls |-> [st |-> "new", req |-> Directory!NoInquiry,
                                 answer |-> Directory!Nothing]]
    BY DirectoryNames DEF Init, NewCall
  <1>8. events = <<>>
    BY DEF Init
  <1>9. /\ Fates = [k \in Calls |-> "none"] /\ Results = [k \in Calls |-> Directory!Nothing]
        /\ Debts = [k \in Calls |-> {}]
    BY <1>6, DirectoryNames DEF Fates, Results, Debts
  <1> QED
    BY <1>2, <1>4, <1>5, <1>7, <1>8, <1>9 DEF Directory!DirectoryInit, Dead, Fates, Results, Debts

LEMMA TableUnseen == UNCHANGED db => UNCHANGED <<LiveUsers(db), Dead(db)>>
  BY DEF LiveUsers, UserOf, Live, Dead

LEMMA MapsSend ==
    ASSUME ServiceInv, NEW k \in Calls, NEW req \in Request, Send(k, req)
    PROVE  Directory!Request(k, Directory!Inquiry)
  <1> DEFINE s == req.op
  <1>1. /\ UNCHANGED <<db, worker, events>> /\ call[k].st = "new" /\ s \in Subjects
        /\ \A j \in Calls \ {k} : call'[j] = call[j]
        /\ call'[k].req = req
    BY DEF Send, ServiceInv, TypeOK, CallsOK, View, Request
  <1>2. inbox \in [Subjects -> Seq(Calls)]
    BY DEF ServiceInv, TypeOK, WorkOK
  <1>3. /\ ~Holds(inbox[s], k) /\ worker[s].k # k
        /\ FateOf(k) = "none" /\ ResultOf(k) = NoAnswer /\ WorkFor(k).todo = {}
    BY <1>1, NewIs
  <1> DEFINE GoesOut == /\ inbox' = [inbox EXCEPT ![s] = Append(@, k)]
                      /\ call' = [call EXCEPT ![k].st = "waiting", ![k].req = req]
             NotSent == /\ UNCHANGED inbox
                      /\ call' = [call EXCEPT ![k].st = "failed", ![k].req = req]
  <1>4. GoesOut \/ NotSent
    BY DEF Send
  <1>5. /\ \A r \in Subjects \ {s} : inbox'[r] = inbox[r]
        /\ \A j \in Calls \ {k} : Holds(inbox'[s], j) <=> Holds(inbox[s], j)
        /\ GoesOut => Holds(inbox'[s], k)
        /\ NotSent => ~Holds(inbox'[s], k)
    <2>1. CASE GoesOut
      <3>1. inbox'[s] = Append(inbox[s], k) /\ inbox[s] \in Seq(Calls)
        BY <1>1, <1>2, <2>1
      <3>2. \A j : Holds(inbox'[s], j) <=> Holds(inbox[s], j) \/ j = k
        BY <3>1, AppendHolds
      <3>3. inbox'[s] # inbox[s]
        BY <1>3, <3>2
      <3> QED  BY <1>2, <2>1, <3>2, <3>3
    <2>2. CASE NotSent /\ ~GoesOut
      BY <1>3, <2>2
    <2> QED  BY <1>4, <2>1, <2>2
  <1>6. \A j \in Calls \ {k} : Unseen(j)
    BY <1>1, <1>5, OthersUnseen DEF ServiceInv
  <1>7. /\ FateOf(k)' = IF Holds(inbox'[s], k) THEN "pending" ELSE "none"
        /\ ResultOf(k)' = NoAnswer /\ (WorkFor(k).todo)' = {}
    BY <1>1, <1>3, SeenNextAs DEF FateIn, ResultIn, OwedIn
  <1>8. UNCHANGED <<Results, Debts>> /\ Fates' = [Fates EXCEPT ![k] = FateOf(k)']
    BY <1>3, <1>6, <1>7, OneSeen DEF Results, Debts
  <1>9. CASE GoesOut
    <2>1. Fates' = [Fates EXCEPT ![k] = "pending"]
      BY <1>5, <1>7, <1>8, <1>9
    <2> QED  BY <1>1, <1>8, <1>9, <2>1, TableUnseen, DirectoryNames
             DEF Directory!Request, Fates, Results, Debts, Dead
  <1>10. CASE NotSent
    <2>1. UNCHANGED Fates
      BY <1>3, <1>5, <1>7, <1>8, <1>10 DEF Fates
    <2> QED  BY <1>1, <1>8, <1>10, <2>1, TableUnseen, DirectoryNames
             DEF Directory!Request, Fates, Results, Debts, Dead
  <1> QED  BY <1>4, <1>9, <1>10

LEMMA MapsGiveUp ==
    ASSUME ServiceInv, NEW k \in Calls, GiveUp(k)
    PROVE  Directory!GiveUp({k})
  <1>1. /\ UNCHANGED <<db, inbox, worker, events>> /\ call[k].st = "waiting"
        /\ call' = [call EXCEPT ![k].st = "failed"]
    BY DEF GiveUp
  <1>2. call \in [Calls -> View]
    BY DEF ServiceInv, TypeOK, CallsOK
  <1>3. \A j \in Calls : call'[j].req = call[j].req
    BY <1>1, <1>2 DEF View
  <1>4. \A j \in Calls : call[j].req.op \in Subjects
    BY <1>2 DEF View, Request
  <1>5. \A j \in Calls : Unseen(j)
    BY <1>1, <1>3, <1>4, SeenAs, SeenNextAs DEF Unseen
  <1>6. call' = [j \in Calls |-> IF j \in {k} THEN [call[j] EXCEPT !.st = "failed"] ELSE call[j]]
    BY <1>1, <1>2
  <1> QED  BY <1>1, <1>5, <1>6, NoneSeen, TableUnseen
           DEF Directory!GiveUp, Fates, Results, Debts, Dead

\* A call whose query ends, or that is refused, is performed.
LEMMA MapsPerform ==
    ASSUME NEW k \in Calls, \A j \in Calls \ {k} : Unseen(j),
           FateOf(k) = "pending", FateOf(k)' = "performed",
           UNCHANGED <<call, events>>,
           NEW e, e \in Directory!Effects(call[k].req),
           e = [users |-> LiveUsers(db)', gone |-> Dead(db)', answer |-> ResultOf(k)',
                owed |-> (WorkFor(k).todo)']
    PROVE  Directory!Perform(k)
  <1>1. /\ Fates' = [Fates EXCEPT ![k] = "performed"]
        /\ Results' = [Results EXCEPT ![k] = e.answer]
        /\ Debts' = [Debts EXCEPT ![k] = e.owed]
    BY OneSeen
  <1>2. Fates[k] = "pending"
    BY DEF Fates
  <1>3. LiveUsers(db)' = e.users /\ Dead(db)' = e.gone
    OBVIOUS
  <1> QED  BY <1>1, <1>2, <1>3 DEF Directory!Perform, Fates, Results, Debts, Dead

LEMMA MapsTake ==
    ASSUME ServiceInv, NEW s \in Subjects, Take(s)
    PROVE  \/ UNCHANGED Directory!directoryVars
           \/ \E k \in Calls : Directory!Perform(k)
  <1>0. PICK k \in Calls : k = Head(inbox[s])
    BY TakeIs DEF ServiceInv
  <1> DEFINE w == IF call[k].req.valid THEN Job("query", k, NoAnswer, {})
                                      ELSE Job("reply", k, Refusal, {})
  <1>1. /\ worker[s].pc = "idle" /\ inbox[s] # <<>> /\ inbox[s] \in Seq(Calls) /\ k \in Calls
        /\ Moves(s, w)
        /\ inbox'[s] = Tail(inbox[s]) /\ \A r \in Subjects \ {s} : inbox'[r] = inbox[r]
        /\ UNCHANGED <<db, call, events>>
    BY <1>0, TakeIs DEF ServiceInv
  <1>2. /\ Holds(inbox[s], k) /\ \A j : Holds(inbox'[s], j) <=> Holds(inbox[s], j) /\ j # k
    BY <1>0, <1>1, TailHolds DEF ServiceInv, KeptInv, OneCopy
  <1>3. /\ call[k].req.op = s /\ FateOf(k) = "pending" /\ ResultOf(k) = NoAnswer
        /\ WorkFor(k).todo = {}
    BY <1>2, QueuedIs
  <1>4. worker'[s] = w /\ w.k = k /\ worker[s].k = NoCall
    BY <1>1, IdleShape DEF Moves, ServiceInv, KeptInv, WorkShape, InShape
  <1>5. \A j \in Calls \ {k} : Unseen(j)
    BY <1>1, <1>2, <1>4, OthersUnseen DEF ServiceInv, Moves
  <1>6. CASE call[k].req.valid
    <2>1. w.pc = "query" /\ w.todo = {}
      BY <1>6, IdleShape
    <2>2. FateOf(k)' = "pending" /\ ResultOf(k)' = NoAnswer /\ (WorkFor(k).todo)' = {}
      BY <1>1, <1>3, <1>4, <2>1, SeenNextAs DEF FateIn, ResultIn, OwedIn
    <2>3. \A j \in Calls : Unseen(j)
      BY <1>3, <1>5, <2>2 DEF Unseen
    <2> QED  BY <1>1, <2>3, NoneSeen, TableUnseen
             DEF Directory!directoryVars, Fates, Results, Debts, Dead
  <1>7. CASE ~call[k].req.valid
    <2>1. w.pc = "reply" /\ w.todo = {} /\ w.answer = Refusal
      BY <1>7, IdleShape
    <2>2. FateOf(k)' = "performed" /\ ResultOf(k)' = Refusal /\ (WorkFor(k).todo)' = {}
      BY <1>1, <1>2, <1>3, <1>4, <2>1, SeenNextAs DEF FateIn, ResultIn, OwedIn
    <2> DEFINE e == [users |-> LiveUsers(db), gone |-> Dead(db), answer |-> Refusal, owed |-> {}]
    <2>3. e = Directory!Refused("validation")
      BY UntouchedIs, DirectoryNames DEF Directory!Refused, Refusal
    <2>4. e \in Directory!Effects(call[k].req)
      BY <1>7, <2>3 DEF Directory!Effects
    <2>5. e = [users |-> LiveUsers(db)', gone |-> Dead(db)', answer |-> ResultOf(k)',
               owed |-> (WorkFor(k).todo)']
      BY <1>1, <2>2, TableUnseen
    <2> HIDE DEF e
    <2> QED  BY <1>1, <1>3, <1>5, <2>2, <2>4, <2>5, MapsPerform
  <1> QED  BY <1>6, <1>7

LEMMA MapsHandle ==
    ASSUME ServiceInv, Handle
    PROVE  \E k \in Calls : Directory!Perform(k)
  <1>1. PICK s \in Subjects : \E o :
          Querying(s) /\ Does(s, Asked(s), o) /\ Finish(s, o, EventOf(s, Asked(s), o))
    BY HandleIs DEF ServiceInv
  <1>2. PICK o : Querying(s) /\ Does(s, Asked(s), o) /\ Finish(s, o, EventOf(s, Asked(s), o))
    BY <1>1
  <1>0. PICK k \in Calls : k = worker[s].k
    BY <1>2, AskedType DEF ServiceInv
  <1> DEFINE answer == [err |-> o.err, users |-> o.users]
             todo == IF o.err = "none" THEN EventOf(s, Asked(s), o) ELSE {}
  <1>3. /\ Asked(s) \in Request /\ Asked(s) = call[k].req /\ worker[s].pc = "query"
    BY <1>0, <1>2, AskedType DEF ServiceInv, Asked, Querying
  <1>4. Asked(s).valid
    BY <1>2 DEF ServiceInv, KeptInv, Validated
  <1>5. /\ call[k].req.op = s /\ ~Holds(inbox[s], k) /\ FateOf(k) = "pending"
    BY <1>0, <1>3, WorkedIs
  <1>6. Moves(s, Job("reply", k, answer, todo)) /\ db' = o.db /\ UNCHANGED <<inbox, call, events>>
    BY <1>0, <1>2, FinishIs DEF ServiceInv
  <1> HIDE DEF answer, todo
  <1>7. worker'[s].pc = "reply" /\ worker'[s].k = k /\ worker'[s].answer = answer /\ worker'[s].todo = todo
    BY <1>6, IdleShape DEF Moves
  <1>8. FateOf(k)' = "performed" /\ ResultOf(k)' = answer /\ (WorkFor(k).todo)' = todo
    BY <1>5, <1>6, <1>7, SeenNextAs DEF FateIn, ResultIn, OwedIn
  <1>9. \A j \in Calls \ {k} : Unseen(j)
    BY <1>0, <1>6, <1>7, OthersUnseen DEF ServiceInv, Moves
  <1> DEFINE e == Shown(s, Asked(s), o)
  <1>10. e \in Directory!Effects(call[k].req)
    BY <1>2, <1>3, <1>4, <1>5, OutcomeAllowed DEF ServiceInv
  <1>11. LiveUsers(db)' = LiveUsers(o.db) /\ Dead(db)' = Dead(o.db)
    BY <1>6 DEF LiveUsers, UserOf, Live, Dead
  <1>12. e = [users |-> LiveUsers(db)', gone |-> Dead(db)', answer |-> ResultOf(k)',
              owed |-> (WorkFor(k).todo)']
    BY <1>8, <1>11 DEF Shown, answer, todo
  <1> HIDE DEF e
  <1>13. Directory!Perform(k)
    BY <1>3, <1>5, <1>6, <1>8, <1>9, <1>10, <1>12, MapsPerform
  <1> QED  BY <1>13

LEMMA MapsReply ==
    ASSUME ServiceInv, NEW s \in Subjects, Reply(s) \/ ReplyLost(s)
    PROVE  \E k \in Calls : Directory!Answer(k)
  <1>1. worker[s].pc = "reply" /\ Replied(s) /\ UNCHANGED <<db, inbox, events>>
    BY DEF Reply, ReplyLost
  <1>2. PICK k \in Calls : k = worker[s].k
    BY <1>1 DEF ServiceInv, TypeOK, WorkOK
  <1>3. /\ call[k].req.op = s /\ ~Holds(inbox[s], k) /\ FateOf(k) = "performed"
        /\ ResultOf(k) = worker[s].answer /\ WorkFor(k).todo = worker[s].todo
    BY <1>1, <1>2, WorkedIs
  <1>4. Moves(s, IF worker[s].todo = {} THEN Idle
                 ELSE Job("publish", worker[s].k, worker[s].answer, worker[s].todo))
    BY <1>1, RepliedIs DEF ServiceInv
  <1>5. /\ worker'[s].pc \notin {"query", "reply"} /\ worker'[s].k \in {k, NoCall}
        /\ worker'[s].todo = worker[s].todo /\ (worker'[s].k = k \/ worker[s].todo = {})
    <2>1. CASE worker[s].todo = {}
      BY <1>4, <2>1, IdleShape DEF Moves
    <2>2. CASE worker[s].todo # {}
      <3>1. worker'[s] = Job("publish", k, worker[s].answer, worker[s].todo)
        BY <1>2, <1>4, <2>2 DEF Moves
      <3> QED  BY <3>1, IdleShape
    <2> QED  BY <2>1, <2>2
  <1>6. call[k] \in View /\ call \in [Calls -> View]
    BY DEF ServiceInv, TypeOK, CallsOK
  <1>7. \/ UNCHANGED call
        \/ /\ call[k].st = "waiting"
           /\ call' = [call EXCEPT ![k].st = "answered", ![k].answer = worker[s].answer]
    BY <1>2, <1>6 DEF Reply, ReplyLost
  <1>8. \A j \in Calls : call'[j].req = call[j].req
    BY <1>6, <1>7 DEF View
  <1>9. FateOf(k)' = "none" /\ ResultOf(k)' = NoAnswer /\ (WorkFor(k).todo)' = worker[s].todo
    <2>1. call'[k].req.op = s /\ inbox'[s] = inbox[s]
      BY <1>1, <1>3, <1>8
    <2>2. FateOf(k)' = "none"
      BY <1>3, <1>5, <2>1, SeenNextAs DEF FateIn
    <2>3. ResultOf(k)' = NoAnswer
      BY <2>1, <2>2, SeenNextAs DEF ResultIn
    <2>4. OwedIn(worker'[s], k) = worker[s].todo
      BY <1>5 DEF OwedIn
    <2> QED  BY <2>1, <2>2, <2>3, <2>4, SeenNextAs
  <1>10. \A j \in Calls \ {k} : Unseen(j)
    BY <1>1, <1>2, <1>4, <1>5, <1>8, OthersUnseen DEF ServiceInv, Moves
  <1>11. /\ Fates' = [Fates EXCEPT ![k] = "none"]
         /\ Results' = [Results EXCEPT ![k] = Directory!Nothing]
         /\ UNCHANGED Debts
    BY <1>3, <1>9, <1>10, OneSeen, DirectoryNames DEF Debts
  <1>12. Fates[k] = "performed" /\ Results[k] = worker[s].answer
    BY <1>3 DEF Fates, Results
  <1>13. UNCHANGED <<LiveUsers(db), Dead(db)>>
    BY <1>1, TableUnseen
  <1>14. Directory!Answer(k)
    BY <1>1, <1>7, <1>11, <1>12, <1>13 DEF Directory!Answer, Fates, Results, Debts, Dead
  <1> QED  BY <1>14

LEMMA MapsPublish ==
    ASSUME ServiceInv, NEW s \in Subjects, Publish(s) \/ PublishFails(s)
    PROVE  \E k \in Calls : Directory!Publish(k) \/ Directory!Withhold(k)
  <1>1. worker[s].pc = "publish" /\ UNCHANGED <<db, inbox, call>>
    BY DEF Publish, PublishFails
  <1>2. PICK k \in Calls : k = worker[s].k
    BY <1>1 DEF ServiceInv, TypeOK, WorkOK
  <1>3. /\ call[k].req.op = s /\ ~Holds(inbox[s], k) /\ FateOf(k) = "none"
        /\ ResultOf(k) = NoAnswer /\ WorkFor(k).todo = worker[s].todo
    BY <1>1, <1>2, WorkedIs
  <1>4. PICK e : worker[s].todo = {e}
    <2>1. worker[s].todo # {} /\ \A f, g \in worker[s].todo : f = g
      BY <1>1 DEF ServiceInv, KeptInv, WorkShape, InShape
    <2>2. PICK f \in worker[s].todo : TRUE
      BY <2>1
    <2>3. worker[s].todo = {f}
      BY <2>1
    <2> QED  BY <2>3
  <1>5. Moves(s, Idle)
    BY DEF Publish, PublishFails, Moves, ServiceInv, TypeOK, WorkOK
  <1>6. worker'[s].k = NoCall /\ NoCall # k
    BY <1>5, IdleShape, ServiceAssumption DEF Moves
  <1>7. FateOf(k)' = "none" /\ ResultOf(k)' = NoAnswer /\ (WorkFor(k).todo)' = {}
    BY <1>1, <1>3, <1>6, SeenNextAs DEF FateIn, ResultIn, OwedIn
  <1>8. \A j \in Calls \ {k} : Unseen(j)
    BY <1>1, <1>2, <1>5, <1>6, OthersUnseen DEF ServiceInv, Moves
  <1>9. UNCHANGED <<Fates, Results>> /\ Debts' = [Debts EXCEPT ![k] = {}]
    BY <1>3, <1>7, <1>8, OneSeen DEF Fates, Results
  <1>10. Fates[k] = "none" /\ Debts[k] = {e}
    BY <1>3, <1>4 DEF Fates, Debts
  <1>11. UNCHANGED <<LiveUsers(db), Dead(db)>>
    BY <1>1, TableUnseen
  <1>12. CASE Publish(s)
    <2>1. events' = Append(events, e)
      BY <1>4, <1>12 DEF Publish
    <2>2. Debts' = [Debts EXCEPT ![k] = @ \ {e}]
      BY <1>9, <1>10 DEF Debts
    <2>3. Directory!Publish(k)
      BY <1>1, <1>9, <1>10, <1>11, <2>1, <2>2 DEF Directory!Publish, Fates, Results, Debts, Dead
    <2> QED  BY <2>3
  <1>13. CASE PublishFails(s)
    <2>1. UNCHANGED events
      BY <1>13 DEF PublishFails
    <2>2. Directory!Withhold(k)
      BY <1>1, <1>9, <1>10, <1>11, <2>1 DEF Directory!Withhold, Fates, Results, Debts, Dead
    <2> QED  BY <2>2
  <1> QED  BY <1>12, <1>13

LEMMA MapsUnsubscribe ==
    ASSUME ServiceInv, NEW s \in Subjects, Unsubscribe(s)
    PROVE  \/ UNCHANGED Directory!directoryVars
           \/ \E K \in SUBSET Calls : Directory!Drop(K)
  <1>1. PICK K \in SUBSET Calls : \A k : k \in K <=> Holds(inbox[s], k)
    <2> DEFINE L == {k \in Calls : Holds(inbox[s], k)}
    <2>1. L \in SUBSET Calls /\ \A k : k \in L <=> Holds(inbox[s], k)
      BY KnownCalls DEF ServiceInv, KeptInv
    <2> QED  BY <2>1
  <1>2. /\ UNCHANGED <<db, worker, call, events>> /\ inbox'[s] = <<>>
        /\ \A r \in Subjects \ {s} : inbox'[r] = inbox[r]
    BY DEF Unsubscribe, ServiceInv, TypeOK, WorkOK
  <1>3. ASSUME NEW k \in Calls
        PROVE  /\ FateOf(k)' = IF k \in K THEN "none" ELSE FateOf(k)
               /\ k \in K => FateOf(k) = "pending"
               /\ UNCHANGED ResultOf(k) /\ UNCHANGED WorkFor(k).todo
    <2> DEFINE r == call[k].req.op
    <2>1. r \in Subjects /\ call'[k].req.op = r
      BY <1>2 DEF ServiceInv, TypeOK, CallsOK, View, Request
    <2>2. CASE k \in K
      <3>1. /\ r = s /\ worker[s].k # k /\ FateOf(k) = "pending" /\ ResultOf(k) = NoAnswer
            /\ WorkFor(k).todo = {}
        BY <1>1, <2>2, QueuedIs
      <3>2. FateOf(k)' = "none" /\ ResultOf(k)' = NoAnswer /\ (WorkFor(k).todo)' = {}
        BY <1>2, <3>1, SeenNextAs, EmptyHolds DEF FateIn, ResultIn, OwedIn
      <3> QED  BY <2>2, <3>1, <3>2
    <2>3. CASE k \notin K
      <3>1. Holds(inbox'[r], k) <=> Holds(inbox[r], k)
        BY <1>1, <1>2, <2>1, <2>3, EmptyHolds
      <3>2. FateIn(inbox'[r], worker'[r], k) = FateIn(inbox[r], worker[r], k)
        BY <1>2, <3>1 DEF FateIn
      <3> HIDE DEF r
      <3>3. UNCHANGED FateOf(k) /\ UNCHANGED ResultOf(k) /\ UNCHANGED WorkFor(k).todo
        BY <1>2, <2>1, <3>2, SeenAs, SeenNextAs DEF ResultIn, r
      <3> QED  BY <2>3, <3>3
    <2> QED  BY <2>2, <2>3
  <1>4. UNCHANGED <<Results, Debts>>
    BY <1>3 DEF Results, Debts
  <1>5. /\ Fates' = [k \in Calls |-> IF k \in K THEN "none" ELSE Fates[k]]
        /\ \A k \in K : Fates[k] = "pending"
    BY <1>3 DEF Fates
  <1>6. UNCHANGED <<LiveUsers(db), Dead(db)>>
    BY <1>2, TableUnseen
  <1>7. CASE K = {}
    <2>1. UNCHANGED Fates
      BY <1>3, <1>7 DEF Fates
    <2> QED  BY <1>2, <1>4, <1>6, <2>1 DEF Directory!directoryVars, Fates, Results, Debts, Dead
  <1>8. CASE K # {}
    <2>1. Directory!Drop(K)
      BY <1>2, <1>4, <1>5, <1>6, <1>8 DEF Directory!Drop, Fates, Results, Debts, Dead
    <2> QED  BY <2>1
  <1> QED  BY <1>7, <1>8

LEMMA MapsExit ==
    ASSUME ServiceInv, Exit
    PROVE  Directory!Die
  <1>1. /\ UNCHANGED <<db, call>> /\ \A s \in Subjects : inbox'[s] = <<>> /\ worker'[s] = Idle
    BY DEF Exit
  <1>2. \A k \in Calls : call'[k].req.op \in Subjects
    BY <1>1 DEF ServiceInv, TypeOK, CallsOK, View, Request
  <1>3. \A k \in Calls : FateOf(k)' = "none" /\ ResultOf(k)' = NoAnswer /\ (WorkFor(k).todo)' = {}
    BY <1>1, <1>2, SeenNextAs, EmptyHolds, IdleShape, ServiceAssumption DEF FateIn, ResultIn, OwedIn
  <1>4. /\ Fates' = [k \in Calls |-> "none"] /\ Results' = [k \in Calls |-> Directory!Nothing]
        /\ Debts' = [k \in Calls |-> {}]
    BY <1>3, DirectoryNames DEF Fates, Results, Debts
  <1>5. PICK n \in delivered .. Len(events) : events' = SubSeq(events, 1, n)
    BY DEF Exit
  <1>6. n \in 0 .. Len(events)
    BY DEF ServiceInv, TypeOK, WireOK
  <1>7. UNCHANGED <<LiveUsers(db), Dead(db)>>
    BY <1>1, TableUnseen
  <1> QED  BY <1>1, <1>4, <1>5, <1>6, <1>7 DEF Directory!Die, Fates, Results, Debts, Dead

\* Starting, signalling, subscribing, closing and delivering do not show.
LEMMA MapsQuiet ==
    ASSUME UNCHANGED <<db, inbox, worker, call, events>>
    PROVE  UNCHANGED Directory!directoryVars
  <1>1. \A k \in Calls : Unseen(k)
    BY SeenAs, SeenNextAs DEF Unseen
  <1> QED  BY <1>1, NoneSeen, TableUnseen
           DEF Directory!directoryVars, Fates, Results, Debts, Dead

LEMMA MapsStep ==
    ASSUME ServiceInv, [Next]_vars
    PROVE  [Directory!DirectoryNext]_Directory!directoryVars
  <1>1. ASSUME NEW k \in Calls, Caller(k)
        PROVE  Directory!DirectoryNext
    <2>1. CASE GiveUp(k)
      BY <2>1, MapsGiveUp DEF Directory!DirectoryNext
    <2>2. ASSUME NEW op \in Ops, NEW req \in RequestsOf(op), Send(k, req)
          PROVE  Directory!DirectoryNext
      <3>1. req \in Request
        BY RequestType, OpsAssumption DEF ServiceInv, TypeOK
      <3> QED  BY <2>2, <3>1, MapsSend DEF Directory!DirectoryNext
    <2> QED  BY <1>1, <2>1, <2>2 DEF Caller
  <1>2. CASE Handle
    BY <1>2, MapsHandle DEF Directory!DirectoryNext
  <1>3. ASSUME NEW s \in Subjects, Advance(s)
        PROVE  Directory!DirectoryNext \/ UNCHANGED Directory!directoryVars
    BY <1>3, MapsTake, MapsReply, MapsPublish DEF Advance, Directory!DirectoryNext
  <1>4. CASE Exit
    BY <1>4, MapsExit DEF Directory!DirectoryNext
  <1>5. ASSUME NEW s \in Subjects, Unsubscribe(s)
        PROVE  Directory!DirectoryNext \/ UNCHANGED Directory!directoryVars
    BY <1>5, MapsUnsubscribe DEF Directory!DirectoryNext
  <1>6. CASE UNCHANGED <<db, inbox, worker, call, events>>
    BY <1>6, MapsQuiet
  <1>7. \/ \E k \in Calls : Caller(k)
        \/ Handle \/ Exit
        \/ \E s \in Subjects : Advance(s) \/ Unsubscribe(s)
        \/ UNCHANGED <<db, inbox, worker, call, events>>
    BY DEF Next, Deliver, Process, Start, Signal, Close, Subscribe, vars
  <1> QED  BY <1>1, <1>2, <1>3, <1>4, <1>5, <1>6, <1>7

\* A request is performed at most once, and in one step: whatever is queued,
\* taken, answered, given up, unsubscribed or killed, the answer of a call, the
\* change of the users and the event that is owed belong together.
THEOREM ServiceRefinesDirectory == Spec => ImplementsDirectory
  <1>1. TypeOK /\ FoundInv /\ KeptInv /\ [Next]_vars => KeptInv'
    BY KeptStep
  <1>2. TypeOK /\ FoundInv /\ KeptInv /\ [Next]_vars => [Directory!DirectoryNext]_Directory!directoryVars
    BY MapsStep DEF ServiceInv
  <1> QED
    BY <1>1, <1>2, KeptInit, FoundInit, FoundStep, MapsInit, TypeCorrect, PTL
    DEF Spec, ImplementsDirectory, Directory!DirectorySpec

===============================================================================
