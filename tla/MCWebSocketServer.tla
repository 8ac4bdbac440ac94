-------------------------- MODULE MCWebSocketServer --------------------------
(* Instances of WebSocketServer for TLC. *)
EXTENDS WebSocketServer, TLC

CONSTANTS w1, w2, s1, s2, s3, m1, m2

TwoWorkers == {w1, w2}
NoSockets  == {}
OneSocket  == {s1}
TwoSockets == {s1, s2}
ThreeSockets == {s1, s2, s3}
NoMsgs     == {}
FirstMsg   == {m1}
TwoMsgs    == {m1, m2}
NoFaults   == {}
AllFaults  == {"INSERT", "COMMIT"}

(* Workers and sockets are interchangeable; safety runs only. *)
Symmetry == Permutations(Worker) \cup Permutations(Socket)
==============================================================================
