------------------------- MODULE UserServiceRefinement -------------------------
(***************************************************************************)
(* UserService implements UserDirectory: whatever its queues, goroutines,  *)
(* subscriptions and restarts do, every call takes effect at most once,    *)
(* and at the one instant its query commits.                               *)
(***************************************************************************)
EXTENDS UserService

\* What the service has of a call is in the subscription of its subject: a
\* message in the queue, or the work of the goroutine.
Queue(k) == inbox[call[k].req.op]
WorkFor(k) == LET w == worker[call[k].req.op] IN IF w.k = k THEN w ELSE Idle

FateOf(k) ==
    IF (\E i \in DOMAIN Queue(k) : Queue(k)[i] = k) \/ WorkFor(k).pc = "query" THEN "pending"
    ELSE IF WorkFor(k).pc = "reply" THEN "performed" ELSE "none"
ResultOf(k) == IF FateOf(k) = "performed" THEN WorkFor(k).answer ELSE NoAnswer

Directory == INSTANCE UserDirectory WITH
    users  <- LiveUsers(db),
    gone   <- {id \in Ids : db[id].state = "deleted"},
    fate   <- [k \in Calls |-> FateOf(k)],
    result <- [k \in Calls |-> ResultOf(k)],
    owed   <- [k \in Calls |-> WorkFor(k).todo]

\* A request is performed at most once, and in one step: the answer its caller
\* gets, the change of the users and the event that is owed belong together,
\* though reply and event leave later, or never when a subscription, the
\* connection or the process ends in between.
ImplementsDirectory == Directory!DirectorySpec

===============================================================================
