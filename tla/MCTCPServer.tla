----------------------------- MODULE MCTCPServer ------------------------------
(* Instances of TCPServer for TLC. *)
EXTENDS TCPServer, TLC

CONSTANTS v1, v2, p1, p2, h1, h2, h3

TwoServers == {v1, v2}
TwoClients == {p1, p2}
ThreeHandles == {h1, h2, h3}
==============================================================================
