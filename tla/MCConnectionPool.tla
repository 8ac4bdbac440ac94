-------------------------- MODULE MCConnectionPool ---------------------------
(* Instances of ConnectionPool for TLC. *)
EXTENDS ConnectionPool

CONSTANTS t1, t2, t3

ThreeThreads == {t1, t2, t3}
==============================================================================
