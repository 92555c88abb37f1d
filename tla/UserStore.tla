------------------------------- MODULE UserStore -------------------------------
(***************************************************************************)
(* The users table and the repository in front of it: what each query does *)
(* to the table, and what PostgresUserRepository makes of its result.      *)
(*                                                                         *)
(* A row keeps only what the properties tell apart: whether it exists, is  *)
(* live or soft-deleted (deleted_at), its email, and a revision that       *)
(* stands for every other column and grows with every write of the row     *)
(* (updated_at = NOW()).  A repository call is a set of possible outcomes; *)
(* the caller picks one.                                                   *)
(***************************************************************************)
EXTENDS Naturals

CONSTANTS
    Ids,        \* the UUIDs gen_random_uuid() can hand out
    Emails,     \* well-formed email addresses
    NilId,      \* the zero UUID: no row has it
    NoEmail     \* the empty string: no row has it

ASSUME StoreAssumption == NilId \notin Ids /\ NoEmail \notin Emails

AbsentRow == [state |-> "absent", email |-> NoEmail, rev |-> 0]
LiveRow(email, rev) == [state |-> "live", email |-> email, rev |-> rev]

Row == [state : {"absent", "live", "deleted"},
        email : Emails \cup {NoEmail},
        rev   : Nat]

User == [id : Ids \cup {NilId}, email : Emails \cup {NoEmail}, rev : Nat]

\* domain.User{}: what the repository returns beside every error.
ZeroUser == [id |-> NilId, email |-> NoEmail, rev |-> 0]

UserOf(db, id) == [id |-> id, email |-> db[id].email, rev |-> db[id].rev]
Live(db) == {id \in Ids : db[id].state = "live"}
LiveUsers(db) == {UserOf(db, id) : id \in Live(db)}
Absent(db) == {id \in Ids : db[id].state = "absent"}
Holders(db, email) == {id \in Live(db) : db[id].email = email}

Outcome(db, err, users) == [db |-> db, err |-> err, users |-> users]

-------------------------------------------------------------------------------
(* The queries (db/queries/users.sql).  err is what the driver reports:     *)
(* "none", "noRows" (also a DELETE that matched nothing), "unique" (23505   *)
(* of the partial index on email WHERE deleted_at IS NULL).                 *)

InsertUser(db, email) ==
    IF Holders(db, email) # {} THEN {Outcome(db, "unique", {})}
    ELSE {LET new == [db EXCEPT ![id] = LiveRow(email, 1)]
          IN  Outcome(new, "none", {UserOf(new, id)}) : id \in Absent(db)}

SelectUser(db, ids) ==
    IF ids = {} THEN {Outcome(db, "noRows", {})}
    ELSE {Outcome(db, "none", {UserOf(db, id)}) : id \in ids}

\* LIMIT, OFFSET and the status filter make the page some set of live rows.
SelectPage(db) == {Outcome(db, "none", page) : page \in SUBSET LiveUsers(db)}

SelectAll(db) == {Outcome(db, "none", LiveUsers(db))}

\* Slips in the UPDATE: without the index it races with; without its
\* deleted_at IS NULL; answering from a row read before instead of RETURNING.
SetUserUnindexed(db, id, email) ==
    IF id \notin Live(db) THEN {Outcome(db, "noRows", {})}
    ELSE LET new == [db EXCEPT ![id] = LiveRow(email, db[id].rev + 1)]
         IN  {Outcome(new, "none", {UserOf(new, id)})}

SetUserAnyState(db, id, email) ==
    IF id \in {NilId} \cup Absent(db) THEN {Outcome(db, "noRows", {})}
    ELSE IF Holders(db, email) \ {id} # {} THEN {Outcome(db, "unique", {})}
    ELSE LET new == [db EXCEPT ![id] = LiveRow(email, db[id].rev + 1)]
         IN  {Outcome(new, "none", {UserOf(new, id)})}

SetUserStale(db, id, email) ==
    IF id \notin Live(db) THEN {Outcome(db, "noRows", {})}
    ELSE IF Holders(db, email) \ {id} # {} THEN {Outcome(db, "unique", {})}
    ELSE LET new == [db EXCEPT ![id] = LiveRow(email, db[id].rev + 1)]
         IN  {Outcome(new, "none", {[UserOf(new, id) EXCEPT !.rev = db[id].rev]})}

SetUser(db, id, email) ==
    IF id \notin Live(db) THEN {Outcome(db, "noRows", {})}
    ELSE IF Holders(db, email) \ {id} # {} THEN {Outcome(db, "unique", {})}
    ELSE LET new == [db EXCEPT ![id] = LiveRow(email, db[id].rev + 1)]
         IN  {Outcome(new, "none", {UserOf(new, id)})}

\* A slip in the soft delete: without its deleted_at IS NULL.
SoftDeleteAgain(db, id) ==
    IF id \in {NilId} \cup Absent(db) THEN {Outcome(db, "noRows", {})}
    ELSE {Outcome([db EXCEPT ![id].state = "deleted"], "none", {})}

SoftDelete(db, id) ==
    IF id \notin Live(db) THEN {Outcome(db, "noRows", {})}
    ELSE {Outcome([db EXCEPT ![id].state = "deleted"], "none", {})}

-------------------------------------------------------------------------------
(* A query may fail otherwise: the connection breaks or the handler's       *)
(* context expires before the statement reached the server, or after it     *)
(* committed ("flaky"); or the pool was closed by the shutdown of the       *)
(* service, which fails new queries ("closed").                             *)

Health == {"sound", "flaky", "closed"}

Attempt(db, outcomes, health) ==
    outcomes \cup
    CASE health = "sound"  -> {}
      [] health = "closed" -> {Outcome(db, "failed", {})}
      [] health = "flaky"  -> {Outcome(o.db, "failed", {}) : o \in outcomes}
                                \cup {Outcome(db, "failed", {})}

\* How an error of the driver leaves the repository: errors is a function of
\* the cases the method handles; anything else falls through to "internal".
Mapped(outcomes, errors) ==
    {CASE o.err = "none" -> o
       [] o.err \in DOMAIN errors -> Outcome(o.db, errors[o.err], {})
       [] OTHER -> Outcome(o.db, "internal", {}) : o \in outcomes}

NoCases == [e \in {} |-> e]
NoRows == [noRows |-> "notFound"]
Unique == [unique |-> "alreadyExists"]
\* A slip: every expected error of Update taken for a missing row.
BothNotFound == [noRows |-> "notFound", unique |-> "notFound"]
Both == [noRows |-> "notFound", unique |-> "alreadyExists"]

\* GetByID and Update have no final "return err": an error they do not
\* recognise is dropped, and the zero user goes out with a nil error.
Swallowed(outcomes) ==
    {IF o.err = "internal" THEN Outcome(o.db, "none", {ZeroUser}) ELSE o : o \in outcomes}

Create(db, email, health) == Mapped(Attempt(db, InsertUser(db, email), health), Unique)
GetByID(db, id, health) ==
    Swallowed(Mapped(Attempt(db, SelectUser(db, Live(db) \cap {id}), health), NoRows))
GetByEmail(db, email, health) ==
    Mapped(Attempt(db, SelectUser(db, Holders(db, email)), health), NoRows)
List(db, health) == Mapped(Attempt(db, SelectPage(db), health), NoCases)
ListAll(db, health) == Mapped(Attempt(db, SelectAll(db), health), NoCases)
Update(db, id, email, health) ==
    Swallowed(Mapped(Attempt(db, SetUser(db, id, email), health), Both))
Delete(db, id, health) == Mapped(Attempt(db, SoftDelete(db, id), health), NoRows)

===============================================================================
