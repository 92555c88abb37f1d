-------------------------------- MODULE MCWsHub --------------------------------
(* The instances of WsHub that TLC checks.                                   *)
EXTENDS WsHub, TLC

CONSTANTS a, b

\* The types of the events.
MCTypeOf == <<"updated", "updated">>

Symmetry == Permutations(Clients)

===============================================================================
