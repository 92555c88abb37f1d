----------------------------- MODULE MCListPaging ------------------------------
(* The instance of ListPaging that TLC checks.                               *)
EXTENDS ListPaging

MCRequested == {-1, 0, 1, 2, 3, 5}
MCFrom == {-1, 0, 1, 4}

===============================================================================
