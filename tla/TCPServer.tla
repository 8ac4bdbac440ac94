------------------------------ MODULE TCPServer ------------------------------
(***************************************************************************)
(* server::TCPServer (backend/src/server/TCPServer.cpp): start, the accept *)
(* loop that serves one client after the other, stop and the destructor,   *)
(* for several server objects of one process.  WebSocketServer inherits    *)
(* start, stop and the destructor and replaces the loop.                   *)
(*                                                                         *)
(* Winsock is external and modelled from how it is used here: it counts    *)
(* WSAStartup and WSACleanup, and closes every socket of the process when  *)
(* the count returns to zero; a handle that was closed is given out again; *)
(* a call on a handle that is not open, or of another kind, fails.  The    *)
(* callers are external too: one thread starts a server and runs its loop, *)
(* another one may stop it.                                                *)
(***************************************************************************)
EXTENDS Naturals

CONSTANTS
  Server,     \* the TCPServer objects
  Client,     \* the clients, each of which connects once
  Handle,     \* the handles of sockets the system can give out
  Invalid,    \* INVALID_SOCKET
  MaxStops    \* bound: the calls of stop on a server, the destructor's included

ASSUME InvalidAssumption == Invalid \notin Handle
ASSUME StopBound == MaxStops \in Nat

VARIABLES
  winsock,        \* WSAStartup minus WSACleanup in the process
  kind,           \* kind[h]: what kind of socket the handle h is, or "free"
  server_socket,
  client_socket,  \* client_socket[v]: the local variable of v's loop
  at,             \* at[v]: where the thread that uses v is
  counted,        \* counted[v]: did the WSAStartup of v succeed
  stops,          \* stops[v]: how often stop was called
  stopping,       \* stopping[v]: stop has closed the socket, not yet cleaned up
  phase,          \* phase[c]: how far the client c is
  on              \* on[c]: the handle it queues at, or that accept returned

servers == <<server_socket, client_socket, at>>
stopped == <<counted, stops, stopping>>
clients == <<phase, on>>
vars == <<winsock, kind, servers, stopped, clients>>

Loop == {"accept", "recv", "send", "close"}
Returned == {"new", "started", "failed"}  \* in no call of v
Live == {"queued", "silent", "spoke", "answered"}

Uninitialized ==  \* mutant: the constructor does not set server_socket
  [v \in Server |-> "indeterminate"]

(* The constructor, without which stop would close an arbitrary handle *)
Constructed == [v \in Server |-> Invalid]

Init ==
  /\ winsock = 0
  /\ kind = [h \in Handle |-> "free"]
  /\ server_socket = Constructed
  /\ client_socket = [v \in Server |-> Invalid]
  /\ at = [v \in Server |-> "new"]
  /\ counted = [v \in Server |-> FALSE]
  /\ stops = [v \in Server |-> 0]
  /\ stopping = [v \in Server |-> FALSE]
  /\ phase = [c \in Client |-> "away"]
  /\ on = [c \in Client |-> Invalid]

Goto(v, place) == at' = [at EXCEPT ![v] = place]

(* closesocket: who queued at a listener or waited for an answer is reset. *)
CloseHandles(H) ==
  /\ kind' = [h \in Handle |-> IF h \in H THEN "free" ELSE kind[h]]
  /\ phase' = [c \in Client |->
                 IF on[c] \in H /\ phase[c] \in Live
                 THEN IF phase[c] = "answered" THEN "closed" ELSE "reset"
                 ELSE phase[c]]
  /\ on' = [c \in Client |-> IF on[c] \in H THEN Invalid ELSE on[c]]

------------------------------------------------------------------------------
(* start, called once at most: four calls, each of which may fail; nothing *)
(* is undone then.                                                         *)
Fail(v) == Goto(v, "failed") /\ UNCHANGED <<winsock, kind, counted>>

WSAStartup(v) ==
  /\ at[v] = "new" /\ stops[v] = 0
  /\ \/ Fail(v)
     \/ /\ winsock' = winsock + 1
        /\ counted' = [counted EXCEPT ![v] = TRUE]
        /\ Goto(v, "socket")
        /\ UNCHANGED kind
  /\ UNCHANGED <<server_socket, client_socket, stops, stopping, clients>>

OpenSocket(v) ==
  /\ at[v] = "socket"
  /\ \/ server_socket' = [server_socket EXCEPT ![v] = Invalid] /\ Fail(v)
     \/ \E h \in Handle :
          /\ winsock > 0 /\ kind[h] = "free"
          /\ kind' = [kind EXCEPT ![h] = "raw"]
          /\ server_socket' = [server_socket EXCEPT ![v] = h]
          /\ Goto(v, "bind")
          /\ UNCHANGED <<winsock, counted>>
  /\ UNCHANGED <<client_socket, stops, stopping, clients>>

(* bind and listen take the server's socket from one kind to the next. *)
Turn(v, from, to, place) ==
  /\ server_socket[v] \in Handle /\ kind[server_socket[v]] = from
  /\ kind' = [kind EXCEPT ![server_socket[v]] = to]
  /\ Goto(v, place)
  /\ UNCHANGED <<winsock, counted, clients>>

BindCloses(v) ==  \* mutant: closesocket when bind fails, and again in stop
  /\ at[v] = "bind"
  /\ \/ Turn(v, "raw", "bound", "listen")
     \/ /\ CloseHandles({server_socket[v]})
        /\ Goto(v, "failed")
        /\ UNCHANGED <<winsock, counted>>
  /\ UNCHANGED <<server_socket, client_socket, stops, stopping>>

Bind(v) ==
  /\ at[v] = "bind"
  /\ Turn(v, "raw", "bound", "listen") \/ (Fail(v) /\ UNCHANGED clients)
  /\ UNCHANGED <<server_socket, client_socket, stops, stopping>>

Listen(v) ==
  /\ at[v] = "listen"
  /\ Turn(v, "bound", "listening", "started") \/ (Fail(v) /\ UNCHANGED clients)
  /\ UNCHANGED <<server_socket, client_socket, stops, stopping>>

------------------------------------------------------------------------------
(***************************************************************************)
(* acceptConnections, called after start (tests/test_tcp_server.cpp) or    *)
(* without it (main.cpp).  Nothing resets is_running: the loop never ends, *)
(* and where accept fails it spins.                                        *)
(***************************************************************************)
AcceptConnections(v) ==
  /\ at[v] \in {"new", "started"}
  /\ Goto(v, "accept")
  /\ UNCHANGED <<winsock, kind, server_socket, client_socket, stopped, clients>>

Accept(v) ==
  /\ at[v] = "accept"
  /\ server_socket[v] \in Handle /\ kind[server_socket[v]] = "listening"
  /\ \E c \in Client, h \in Handle :
       /\ phase[c] = "queued" /\ on[c] = server_socket[v]
       /\ kind[h] = "free"
       /\ kind' = [kind EXCEPT ![h] = "connection"]
       /\ client_socket' = [client_socket EXCEPT ![v] = h]
       /\ phase' = [phase EXCEPT ![c] = "silent"]
       /\ on' = [on EXCEPT ![c] = h]
  /\ Goto(v, "recv")
  /\ UNCHANGED <<winsock, server_socket, stopped>>

(* recv waits while the client is silent; its result is not looked at. *)
Recv(v) ==
  /\ at[v] = "recv"
  /\ \A c \in Client : on[c] = client_socket[v] => phase[c] # "silent"
  /\ Goto(v, "send")
  /\ UNCHANGED <<winsock, kind, server_socket, client_socket, stopped, clients>>

Send(v) ==
  /\ at[v] = "send"
  /\ phase' = [c \in Client |->
                 IF on[c] = client_socket[v] /\ phase[c] \in {"silent", "spoke"}
                 THEN "answered" ELSE phase[c]]
  /\ Goto(v, "close")
  /\ UNCHANGED <<winsock, kind, server_socket, client_socket, stopped, on>>

KeepOpen(v) ==  \* mutant: no closesocket after the answer
  /\ at[v] = "close"
  /\ Goto(v, "accept")
  /\ UNCHANGED <<winsock, kind, server_socket, client_socket, stopped, clients>>

(* The answer has no Content-Length: only the close ends it for the client. *)
Close(v) ==
  /\ at[v] = "close"
  /\ CloseHandles({client_socket[v]})
  /\ client_socket' = [client_socket EXCEPT ![v] = Invalid]
  /\ Goto(v, "accept")
  /\ UNCHANGED <<winsock, server_socket, stopped>>

------------------------------------------------------------------------------
(***************************************************************************)
(* stop, called by another thread whatever the loop does, or by the        *)
(* destructor, after which the object is gone.  It resets nothing: neither *)
(* is_running nor server_socket.                                           *)
(***************************************************************************)
Stop(v) ==
  /\ at[v] \in Returned \cup Loop /\ ~stopping[v]
  /\ stops[v] < MaxStops
  /\ CloseHandles({server_socket[v]})
  /\ stops' = [stops EXCEPT ![v] = @ + 1]
  /\ stopping' = [stopping EXCEPT ![v] = TRUE]
  /\ \/ UNCHANGED at
     \/ at[v] \in Returned /\ Goto(v, "gone")
  /\ UNCHANGED <<winsock, server_socket, client_socket, counted>>

WSACleanup(v) ==
  /\ stopping[v]
  /\ winsock' = IF winsock = 0 THEN 0 ELSE winsock - 1
  /\ CloseHandles(IF winsock = 1 THEN Handle ELSE {})
  /\ stopping' = [stopping EXCEPT ![v] = FALSE]
  /\ UNCHANGED <<servers, counted, stops>>

------------------------------------------------------------------------------
(* The clients *)

Dial(c) ==
  /\ phase[c] = "away"
  /\ \E h \in Handle : kind[h] = "listening" /\ on' = [on EXCEPT ![c] = h]
  /\ phase' = [phase EXCEPT ![c] = "queued"]
  /\ UNCHANGED <<winsock, kind, servers, stopped>>

SpeakOrLeave(c) ==
  /\ phase[c] = "silent"
  /\ \/ phase' = [phase EXCEPT ![c] = "spoke"] /\ UNCHANGED on
     \/ /\ phase' = [phase EXCEPT ![c] = "left"]
        /\ on' = [on EXCEPT ![c] = Invalid]
  /\ UNCHANGED <<winsock, kind, servers, stopped>>

------------------------------------------------------------------------------
LoopStep(v) == Accept(v) \/ Recv(v) \/ Send(v) \/ Close(v)

ServerStep(v) ==
  \/ WSAStartup(v) \/ OpenSocket(v) \/ Bind(v) \/ Listen(v)
  \/ AcceptConnections(v)
  \/ LoopStep(v)
  \/ Stop(v) \/ WSACleanup(v)

Next ==
  \/ \E v \in Server : ServerStep(v)
  \/ \E c \in Client : Dial(c) \/ SpeakOrLeave(c)

Spec == Init /\ [][Next]_vars

(* A loop that can go on does, a server that was started is run, a stop    *)
(* completes, and a client that was accepted says something or leaves.     *)
Fairness ==
  /\ \A v \in Server : /\ WF_vars(LoopStep(v))
                       /\ WF_vars(at[v] = "started" /\ AcceptConnections(v))
                       /\ WF_vars(WSACleanup(v))
  /\ \A c \in Client : WF_vars(SpeakOrLeave(c))

FairSpec == Spec /\ Fairness

------------------------------------------------------------------------------
TypeOK ==
  /\ winsock \in Nat
  /\ kind \in [Handle -> {"free", "raw", "bound", "listening", "connection"}]
  /\ server_socket \in [Server -> Handle \cup {Invalid}]
  /\ client_socket \in [Server -> Handle \cup {Invalid}]
  /\ at \in [Server -> Returned \cup Loop \cup {"socket", "bind", "listen", "gone"}]
  /\ counted \in [Server -> BOOLEAN] /\ stops \in [Server -> Nat]
  /\ stopping \in [Server -> BOOLEAN]
  /\ phase \in [Client -> Live \cup {"away", "left", "closed", "reset"}]
  /\ on \in [Client -> Handle \cup {Invalid}]

(* The handles the server v will still use and close *)
Listener(v)   == IF stops[v] = 0 THEN {server_socket[v]} \ {Invalid} ELSE {}
Connection(v) == IF at[v] \in Loop \ {"accept"} THEN {client_socket[v]} ELSE {}
Held(v)       == Listener(v) \cup Connection(v)

(* The kinds such a listener has, by where its start is or has ended *)
Needed(v) ==
  CASE at[v] = "bind"   -> {"raw"}
    [] at[v] = "listen" -> {"bound"}
    [] at[v] = "failed" -> {"raw", "bound"}
    [] OTHER            -> {"listening"}

(* No server was stopped during its loop, twice, or without its WSAStartup. *)
Disciplined ==
  \A v \in Server :
    /\ stops[v] <= 1
    /\ stops[v] = 1 => counted[v] /\ at[v] \notin Loop

(***************************************************************************)
(* Although handles are given out again, although a start that fails half  *)
(* way leaves its socket to the destructor, and although all servers share *)
(* one count of WSAStartup: as long as the callers are disciplined, what a *)
(* server holds is open, of the kind it needs, and held by nobody else;    *)
(* and every socket that is open will be closed by the server that opened  *)
(* it.                                                                     *)
(***************************************************************************)
OwnHandles ==
  Disciplined =>
    /\ \A v, w \in Server : v # w => Held(v) \cap Held(w) = {}
    /\ \A v \in Server :
         /\ \A h \in Listener(v) : kind[h] \in Needed(v)
         /\ \A h \in Connection(v) : kind[h] = "connection"
    /\ \A h \in Handle : kind[h] # "free" => \E v \in Server : h \in Held(v)

(***************************************************************************)
(* No client hangs: whoever gets into a backlog is answered and sees the   *)
(* connection closed, or leaves, or is reset, however undisciplined the    *)
(* servers are stopped; provided the clients before it are not silent.     *)
(***************************************************************************)
ClientsAreFinished ==
  \A c \in Client :
    (phase[c] = "queued") ~> (phase[c] \in {"closed", "left", "reset"})
==============================================================================
