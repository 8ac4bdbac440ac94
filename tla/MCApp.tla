-------------------------------- MODULE MCApp --------------------------------
(* Instances of App for TLC. *)
EXTENDS App

CONSTANTS w1, w2

TwoWorkers == {w1, w2}
==============================================================================
