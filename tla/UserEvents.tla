------------------------------ MODULE UserEvents -------------------------------
(***************************************************************************)
(* The events of pkg/userclient, which the user service publishes and its  *)
(* clients receive: created and updated carry the user, deleted only the   *)
(* id of the request.                                                      *)
(***************************************************************************)
EXTENDS UserStore, Sequences

EventTypes == {"created", "updated", "deleted"}
Event == [type : EventTypes, id : Ids \cup {NilId}, user : User]
UserEvent(type, user) == [type |-> type, id |-> user.id, user |-> user]
DeletedEvent(id) == [type |-> "deleted", id |-> id, user |-> ZeroUser]

===============================================================================
