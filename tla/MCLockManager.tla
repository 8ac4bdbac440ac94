---------------------------- MODULE MCLockManager ----------------------------
(* Instances of LockManager for TLC. *)
EXTENDS LockManager

(* The ids of tests/test_race_conditions.cpp start at 0, the value that     *)
(* operator[] enters for a missing key.                                     *)
Threads  == 0..2
OnlyZero == {0}
==============================================================================
