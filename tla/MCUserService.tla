----------------------------- MODULE MCUserService -----------------------------
(* The instances of UserService that TLC checks.                             *)
EXTENDS UserServiceRefinement, TLC

CONSTANTS i1, i2, i3, e1, e2, c1, c2, c3

Reads == {"getByID", "getByEmail", "list", "listAll"}
Writes == {"create", "update", "delete"}
AllOps == Reads \cup Writes

\* Calls are interchangeable, and so are the ids not in the table at the start.
Symmetry == Permutations(Calls) \cup Permutations(Ids \ Seeded)

===============================================================================
