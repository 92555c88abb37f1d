----------------------------- MODULE MCUserSystem ------------------------------
(* The instances of UserSystem that TLC checks.                              *)
EXTENDS UserSystem, TLC

CONSTANTS i1, i2, i3, e1, e2, c0, c1, c2, c3

\* The requests other than the loader's are interchangeable, and so are the ids
\* not in the table at the start.
Symmetry == Permutations(Calls \ {Loader}) \cup Permutations(Ids \ Seeded)

===============================================================================
