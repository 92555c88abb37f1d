------------------------------- MODULE MCGateway -------------------------------
(* The instance of Gateway that TLC checks.                                  *)
EXTENDS Gateway

CONSTANTS i1, i2, e1, e2, h1, h2, w1

===============================================================================
