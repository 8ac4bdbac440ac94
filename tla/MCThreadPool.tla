---------------------------- MODULE MCThreadPool -----------------------------
(* Instances of ThreadPool for TLC. *)
EXTENDS ThreadPool

CONSTANTS w1, w2, w3, c1, c2, t1, t2

TwoWorkers   == {w1, w2}
ThreeWorkers == {w1, w2, w3}
Clients      == {c1, c2}
Tasks        == {t1, t2}
==============================================================================
