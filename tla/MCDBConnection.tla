--------------------------- MODULE MCDBConnection ----------------------------
(* Instances of DBConnection for TLC. *)
EXTENDS DBConnection, TLC

CONSTANTS c1, c2, c3, x1, x2, x3

ThreeCallers == {c1, c2, c3}
Txns         == {x1, x2, x3}

(* A statement fails in the middle of x2, as the duplicate key of            *)
(* test_transactions.cpp, and at once in x3, as the demo query on a table    *)
(* that does not exist.                                                      *)
SomeRejected == x1 :> <<TRUE, TRUE>> @@ x2 :> <<TRUE, FALSE>> @@ x3 :> <<FALSE>>
==============================================================================
