------------------------------ MODULE MCUserCache ------------------------------
(* The instance of UserCache that TLC checks: one user of two versions and   *)
(* another one, events of every type for the first.                          *)
EXTENDS UserCache

CONSTANTS i1, i2, e1

U(id, rev) == [id |-> id, email |-> e1, rev |-> rev]
MCTraffic == {UserEvent("created", U(i1, 1)), UserEvent("updated", U(i1, 2)),
              DeletedEvent(i1), UserEvent("created", U(i2, 1))}

===============================================================================
