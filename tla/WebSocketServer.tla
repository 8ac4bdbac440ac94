--------------------------- MODULE WebSocketServer ---------------------------
(***************************************************************************)
(* server::WebSocketServer (backend/src/server/WebSocketServer.cpp) as     *)
(* tests/test_tcp_server.cpp runs it: the accept loop hands every socket   *)
(* to the thread pool, a pool thread runs handleClient for the life of the *)
(* connection, and all handlers share the list of clients (under           *)
(* clients_mutex) and the one database connection (under nothing).         *)
(*                                                                         *)
(* Composed from TaskQueue (what the thread pool promises; ThreadPool      *)
(* implements it) and DBConnection (the calls of executeTransaction, a     *)
(* statement at a time).  A socket is a handle, which the system gives out *)
(* again after closesocket.  Peers and the network are external: a peer    *)
(* sends one request, which TCP may deliver in two parts, then frames;     *)
(* disconnects at any time; and may stop reading, in which case a send to  *)
(* it blocks.                                                              *)
(*                                                                         *)
(* What is on the wire is abstracted to what the handler tells apart: what *)
(* a recv returns of a request, with or without a key, the rest of such a  *)
(* request, and a frame, whose payload is a value m of Msg; masking, JSON  *)
(* and the length byte are left out here.  A handler that has the whole    *)
(* key answers, and decodes the rest as a frame; a key that was cut makes  *)
(* an answer after which the peer disconnects.                             *)
(***************************************************************************)
EXTENDS Naturals, Sequences, FiniteSets, SequencesExt

CONSTANTS
  Worker,       \* the threads of the pool
  Socket,       \* the handles accept can return
  Msg,          \* the payloads of frames, each sent once
  Rejected,     \* payloads whose INSERT fails: /rollback, or an apostrophe
  CloseFrame,   \* payloads of Close frames (opcode 8): status and reason
  Rest,         \* what is decoded from the rest of a request after its key
  Faults,       \* statements that may also fail for another reason: "INSERT",
                \* "COMMIT"
  Resets,       \* sockets whose peer may vanish with what it had sent
  Stalls,       \* sockets whose peer may stop reading
  MaxAccepts,   \* bound: the number of connections
  Nobody,       \* the owner of a mutex that is free
  NoSocket,     \* a worker that runs no handler
  NoMsg         \* a handler that has received no frame

ASSUME PayloadAssumption ==
  /\ Rejected \subseteq Msg
  /\ CloseFrame \subseteq Msg
  /\ Rest \subseteq Msg
  /\ NoMsg \notin Msg
  /\ Msg \cap {"upgrade", "plain"} = {}
ASSUME FaultsAssumption == Faults \subseteq {"INSERT", "COMMIT"}
ASSUME HandleAssumption ==
  /\ NoSocket \notin Socket
  /\ Nobody \notin Worker
  /\ Resets \subseteq Socket
  /\ Stalls \subseteq Socket
ASSUME AcceptBound == MaxAccepts \in Nat

VARIABLES
  queue,              \* the pool: connections accepted and not yet handled
  running,            \* the pool: running[w] is the socket w handles
  at,                 \* at[w]: where w is in handleClient
  msg,                \* msg[w]: decoded_msg of that handler
  connected_clients,
  clients_mutex,      \* the handler that holds clients_mutex, or Nobody
  cursor,             \* the loop of broadcastMessage; 0 outside of it
  sock,               \* sock[s]: is the handle s open in the server
  peer,               \* peer[s]: the other end of the connection
  wire,               \* wire[s]: bytes sent by the peer and not received yet
  stalled,            \* stalled[s]: the peer does not read, buffers are full
  accepted,           \* the number of connections so far
  sent,               \* history: every frame a peer has sent
  owed,               \* history: the clients that have not been sent every
                      \* broadcast begun since they were registered
  announced,          \* history: what has been broadcast about which message
  db, inTxn, uncommitted, table, doing, next, failed, answer,
  overlapped, commitFailed  \* DBConnection

pool    == <<queue, running>>
handler == <<at, msg>>
clients == <<connected_clients, clients_mutex, cursor>>
network == <<sock, peer, wire, stalled>>
history == <<accepted, sent, owed, announced>>
dbState == <<db, inTxn, uncommitted, table, doing, next, failed, answer,
             overlapped, commitFailed>>
vars    == <<pool, handler, clients, network, history, dbState>>

Pool == INSTANCE TaskQueue WITH
          Task <- Socket, NoTask <- NoSocket, pending <- queue, open <- TRUE

(* One statement per message: executeTransaction({sql}) *)
Script == [m \in Msg |-> <<m \notin Rejected>>]

DB == INSTANCE DBConnection WITH
        Caller <- Worker, Txn <- Msg, NoTxn <- NoMsg

(* The events a handler broadcasts, and where each leads it. *)
After == [spawned |-> "register", begin |-> "insert", insert |-> "execute",
          outcome |-> "lock", lock |-> "chat", chat |-> "receive",
          terminated |-> "idle"]
Announcing == DOMAIN After
Place == Announcing \cup {"idle", "request", "register", "receive", "execute",
                          "unregister", "close"}

Listed == ToSet(connected_clients)

(* A peer that has neither disconnected nor been disconnected *)
Alive(s) == peer[s] \in {"connected", "asked", "talking", "closing"}

------------------------------------------------------------------------------
(* The database is open and its table exists before the server accepts. *)
Init ==
  /\ Pool!Init
  /\ at = [w \in Worker |-> "idle"]
  /\ msg = [w \in Worker |-> NoMsg]
  /\ connected_clients = <<>>
  /\ clients_mutex = Nobody
  /\ cursor = 0
  /\ sock = [s \in Socket |-> FALSE]
  /\ peer = [s \in Socket |-> "none"]
  /\ wire = [s \in Socket |-> <<>>]
  /\ stalled = [s \in Socket |-> FALSE]
  /\ accepted = 0
  /\ sent = {} /\ announced = {}
  /\ owed = {}
  /\ db = "open"
  /\ inTxn = FALSE /\ uncommitted = {} /\ table = {}
  /\ doing = [w \in Worker |-> NoMsg]
  /\ next = [w \in Worker |-> 1]
  /\ failed = [w \in Worker |-> FALSE]
  /\ answer = [m \in Msg |-> {}]
  /\ overlapped = FALSE /\ commitFailed = FALSE

------------------------------------------------------------------------------
(* The peers *)

(* A request: in one part, or cut after its key *)
Request(s) ==
  /\ peer[s] = "connected"
  /\ peer' = [peer EXCEPT ![s] = "asked"]
  /\ \/ /\ \E r \in {"upgrade", "plain"} : wire' = [wire EXCEPT ![s] = <<r>>]
        /\ UNCHANGED sent
     \/ \E m \in Rest \ sent :
          /\ wire' = [wire EXCEPT ![s] = <<"upgrade", m>>]
          /\ sent' = sent \cup {m}
  /\ UNCHANGED <<pool, handler, clients, sock, stalled, accepted, owed,
                 announced, dbState>>

(* A frame; after a Close frame a peer sends nothing more. *)
SendFrame(s, m) ==
  /\ peer[s] = "talking"
  /\ m \notin sent
  /\ peer' = [peer EXCEPT ![s] = IF m \in CloseFrame THEN "closing" ELSE @]
  /\ wire' = [wire EXCEPT ![s] = Append(@, m)]
  /\ sent' = sent \cup {m}
  /\ UNCHANGED <<pool, handler, clients, sock, stalled, accepted, owed,
                 announced, dbState>>

(* FIN: what was sent can still be received.  RST: it is lost. *)
Disconnect(s) ==
  /\ Alive(s)
  /\ peer' = [peer EXCEPT ![s] = "down"]
  /\ stalled' = [stalled EXCEPT ![s] = FALSE]
  /\ \/ UNCHANGED wire
     \/ /\ s \in Resets /\ wire[s] # <<>>
        /\ wire' = [wire EXCEPT ![s] = <<>>]
  /\ UNCHANGED <<pool, handler, clients, sock, history, dbState>>

Stall(s) ==
  /\ s \in Stalls /\ peer[s] = "talking" /\ ~stalled[s]
  /\ stalled' = [stalled EXCEPT ![s] = TRUE]
  /\ UNCHANGED <<pool, handler, clients, sock, peer, wire, history, dbState>>

Resume(s) ==
  /\ stalled[s]
  /\ stalled' = [stalled EXCEPT ![s] = FALSE]
  /\ UNCHANGED <<pool, handler, clients, sock, peer, wire, history, dbState>>

------------------------------------------------------------------------------
(* acceptConnections: accept a connection and submit its handler. *)

Accept(s) ==
  /\ ~sock[s]
  /\ accepted < MaxAccepts
  /\ Pool!Submit(s)
  /\ sock' = [sock EXCEPT ![s] = TRUE]
  /\ peer' = [peer EXCEPT ![s] = "connected"]
  /\ accepted' = accepted + 1
  /\ UNCHANGED <<running, handler, clients, wire, stalled, sent, owed,
                 announced, dbState>>

------------------------------------------------------------------------------
(* handleClient *)

CloseSocket(s) ==
  /\ sock' = [sock EXCEPT ![s] = FALSE]
  /\ peer' = [peer EXCEPT ![s] = "none"]
  /\ wire' = [wire EXCEPT ![s] = <<>>]
  /\ stalled' = [stalled EXCEPT ![s] = FALSE]

Goto(w, place) == at' = [at EXCEPT ![w] = place]

Asks(s, r) == wire[s] # <<>> /\ Head(wire[s]) = r

StartHandler(w) ==
  /\ Pool!Start(w)
  /\ Goto(w, "request")
  /\ UNCHANGED <<msg, clients, network, history, dbState>>

HandshakeKeepsRequest(w) ==  \* mutant: the request stays in the receive buffer
  LET s == running[w] IN
  /\ at[w] = "request"
  /\ Asks(s, "upgrade")
  /\ peer' = [peer EXCEPT ![s] = IF @ = "asked" THEN "talking" ELSE @]
  /\ Goto(w, "spawned")
  /\ UNCHANGED <<pool, msg, clients, sock, wire, stalled, history, dbState>>

(* recv of the request, or of its first part, the rest of which stays on   *)
(* the wire; the answer 101 lets the peer talk.                            *)
Handshake(w) ==
  LET s == running[w] IN
  /\ at[w] = "request"
  /\ Asks(s, "upgrade")
  /\ \E n \in 1..Len(wire[s]) :
       wire' = [wire EXCEPT ![s] = SubSeq(@, n + 1, Len(@))]
  /\ peer' = [peer EXCEPT ![s] = IF @ = "asked" THEN "talking" ELSE @]
  /\ Goto(w, "spawned")
  /\ UNCHANGED <<pool, msg, clients, sock, stalled, history, dbState>>

RefuseWithoutClose(w) ==  \* mutant: no closesocket on the early return
  LET s == running[w] IN
  /\ at[w] = "request"
  /\ \/ Asks(s, "plain")
     \/ wire[s] = <<>> /\ peer[s] = "down"
  /\ Pool!Finish(w)
  /\ Goto(w, "idle")
  /\ UNCHANGED <<msg, clients, network, history, dbState>>

RefuseWithoutReturn(w) ==  \* mutant: the thread is not given back
  LET s == running[w] IN
  /\ at[w] = "request"
  /\ \/ Asks(s, "plain")
     \/ wire[s] = <<>> /\ peer[s] = "down"
  /\ CloseSocket(s)
  /\ Goto(w, "idle")
  /\ UNCHANGED <<pool, msg, clients, history, dbState>>

(* recv fails, or the request has no key: close and give the thread back. *)
Refuse(w) ==
  LET s == running[w] IN
  /\ at[w] = "request"
  /\ \/ Asks(s, "plain")
     \/ wire[s] = <<>> /\ peer[s] = "down"
  /\ CloseSocket(s)
  /\ Pool!Finish(w)
  /\ Goto(w, "idle")
  /\ UNCHANGED <<msg, clients, history, dbState>>

RegisterUnlocked(w) ==  \* mutant: push_back without the mutex
  /\ at[w] = "register"
  /\ connected_clients' = Append(connected_clients, running[w])
  /\ owed' = owed \ {running[w]}
  /\ Goto(w, "receive")
  /\ UNCHANGED <<pool, msg, clients_mutex, cursor, network, accepted, sent,
                 announced, dbState>>

Register(w) ==
  /\ at[w] = "register"
  /\ clients_mutex = Nobody
  /\ connected_clients' = Append(connected_clients, running[w])
  /\ owed' = owed \ {running[w]}
  /\ Goto(w, "receive")
  /\ UNCHANGED <<pool, msg, clients_mutex, cursor, network, accepted, sent,
                 announced, dbState>>

(***************************************************************************)
(* recv returns what has arrived, which TCP does not cut into frames: the  *)
(* first frame is decoded whatever its opcode, and any n - 1 frames that   *)
(* came with it are never looked at.                                       *)
(***************************************************************************)
Receive(w) ==
  LET s == running[w] IN
  /\ at[w] = "receive"
  /\ wire[s] # <<>>
  /\ msg' = [msg EXCEPT ![w] = Head(wire[s])]
  /\ \E n \in 1..Len(wire[s]) :
       wire' = [wire EXCEPT ![s] = SubSeq(@, n + 1, Len(@))]
  /\ Goto(w, "begin")
  /\ UNCHANGED <<pool, clients, sock, peer, stalled, history, dbState>>

ReceiveAgain(w) ==  \* mutant: the loop goes on when recv fails
  /\ at[w] = "receive"
  /\ wire[running[w]] = <<>> /\ peer[running[w]] = "down"
  /\ UNCHANGED vars

ReceiveNothing(w) ==
  /\ at[w] = "receive"
  /\ wire[running[w]] = <<>> /\ peer[running[w]] = "down"
  /\ Goto(w, "unregister")
  /\ UNCHANGED <<pool, msg, clients, network, history, dbState>>

(* executeTransaction, called without a lock *)
Execute(w) ==
  /\ at[w] = "execute"
  /\ \/ DB!Begin(w, msg[w])
     \/ DB!QueryAccepted(w)
     \/ DB!QueryFails(w)
  /\ UNCHANGED <<pool, handler, clients, network, history>>

ExecuteReturns(w) ==
  /\ at[w] = "execute"
  /\ \/ DB!Rollback(w)
     \/ DB!Commit(w)
     \/ DB!CommitFails(w)
  /\ Goto(w, "outcome")
  /\ UNCHANGED <<pool, msg, clients, network, history>>

UnregisterNothing(w) ==  \* mutant: the socket is not erased from the list
  /\ at[w] = "unregister"
  /\ clients_mutex = Nobody
  /\ Goto(w, "close")
  /\ UNCHANGED <<pool, msg, clients, network, history, dbState>>

Unregister(w) ==
  /\ at[w] = "unregister"
  /\ clients_mutex = Nobody
  /\ connected_clients' = RemoveFirst(connected_clients, running[w])
  /\ Goto(w, "close")
  /\ UNCHANGED <<pool, msg, clients_mutex, cursor, network, history, dbState>>

Close(w) ==
  /\ at[w] = "close"
  /\ CloseSocket(running[w])
  /\ Goto(w, "terminated")
  /\ owed' = owed \ {running[w]}
  /\ UNCHANGED <<pool, msg, clients, accepted, sent, announced, dbState>>

------------------------------------------------------------------------------
(***************************************************************************)
(* broadcastMessage, called at every place of Announcing: take the mutex,  *)
(* send to each client of the list, give the mutex back.  A send fails     *)
(* silently if the peer is gone, and blocks while it does not read.        *)
(***************************************************************************)
BroadcastLock(w) ==
  /\ at[w] \in Announcing
  /\ clients_mutex = Nobody
  /\ clients_mutex' = w
  /\ cursor' = 1
  /\ owed' = owed \cup Listed
  /\ UNCHANGED <<pool, handler, connected_clients, network, accepted, sent,
                 announced, dbState>>

BroadcastSend(w) ==
  /\ clients_mutex = w
  /\ cursor <= Len(connected_clients)
  /\ LET s == connected_clients[cursor] IN
       /\ ~stalled[s]
       /\ owed' = IF Alive(s) THEN owed \ {s} ELSE owed
  /\ cursor' = cursor + 1
  /\ UNCHANGED <<pool, handler, connected_clients, clients_mutex, network,
                 accepted, sent, announced, dbState>>

(* What the broadcast said about the message that is being handled *)
Statement(w) ==
  IF at[w] = "outcome"
  THEN <<IF answer[msg[w]] = {TRUE} THEN "commit" ELSE "rollback", msg[w]>>
  ELSE <<at[w], msg[w]>>

BroadcastUnlock(w) ==
  /\ clients_mutex = w
  /\ cursor > Len(connected_clients)
  /\ clients_mutex' = Nobody
  /\ cursor' = 0
  /\ announced' = IF at[w] \in {"spawned", "terminated"} THEN announced
                  ELSE announced \cup {Statement(w)}
  /\ Goto(w, After[at[w]])
  /\ msg' = IF at[w] \in {"chat", "terminated"}
            THEN [msg EXCEPT ![w] = NoMsg] ELSE msg
  /\ IF at[w] = "terminated" THEN Pool!Finish(w) ELSE UNCHANGED pool
  /\ UNCHANGED <<connected_clients, network, accepted, sent, owed,
                 dbState>>

------------------------------------------------------------------------------
HandlerStep(w) ==
  \/ StartHandler(w)
  \/ Handshake(w)
  \/ Refuse(w)
  \/ Register(w)
  \/ Receive(w)
  \/ ReceiveNothing(w)
  \/ Execute(w)
  \/ ExecuteReturns(w)
  \/ Unregister(w)
  \/ Close(w)
  \/ BroadcastLock(w)
  \/ BroadcastSend(w)
  \/ BroadcastUnlock(w)

PeerStep(s) ==
  \/ Request(s)
  \/ \E m \in Msg : SendFrame(s, m)
  \/ Disconnect(s)
  \/ Stall(s)
  \/ Resume(s)

Next ==
  \/ \E s \in Socket : Accept(s)
  \/ \E s \in Socket : PeerStep(s)
  \/ \E w \in Worker : HandlerStep(w)

Spec == Init /\ [][Next]_vars

(***************************************************************************)
(* Fairness.  Every thread that can run is run (WF suffices for the mutex: *)
(* a handler does finitely much between two receives).  Two assumptions on *)
(* the outside are made only where a run says so: a peer that has stalled  *)
(* reads again some time, and a send that waits for it then completes (SF: *)
(* nobody else can fill the buffer again, for the sender holds the mutex); *)
(* and every peer disconnects some time.                                   *)
(***************************************************************************)
ServerFairness == \A w \in Worker : WF_vars(HandlerStep(w))
ReadingPeers   == /\ \A s \in Socket : WF_vars(Resume(s))
                  /\ \A w \in Worker : SF_vars(BroadcastSend(w))
LeavingPeers   == \A s \in Socket : WF_vars(Disconnect(s))

FairSpec   == Spec /\ ServerFairness
PoliteSpec == FairSpec /\ ReadingPeers /\ LeavingPeers

------------------------------------------------------------------------------

(* Between its push_back and its erase *)
Registered(w) ==
  at[w] \in {"receive", "begin", "insert", "execute", "outcome", "lock",
             "chat", "unregister"}

(* Between its first recv and its closesocket *)
Owns(w, s) == running[w] = s /\ at[w] \notin {"idle", "terminated"}

ServerTypeOK ==
  /\ queue \in Seq(Socket)
  /\ running \in [Worker -> Socket \cup {NoSocket}]
  /\ at \in [Worker -> Place]
  /\ msg \in [Worker -> Msg \cup {NoMsg}]
  /\ connected_clients \in Seq(Socket)
  /\ clients_mutex \in Worker \cup {Nobody}
  /\ cursor \in Nat
  /\ sock \in [Socket -> BOOLEAN]
  /\ peer \in [Socket -> {"none", "connected", "asked", "talking", "closing",
                           "down"}]
  /\ wire \in [Socket -> Seq(Msg \cup {"upgrade", "plain"})]
  /\ stalled \in [Socket -> BOOLEAN]
  /\ accepted \in Nat
  /\ sent \subseteq Msg
  /\ owed \subseteq Socket

TypeOK == ServerTypeOK /\ DB!TypeOK

(***************************************************************************)
(* The list is exact, although handles are reused: no socket is in it      *)
(* twice, a socket is in it iff a handler is between its push_back and its *)
(* erase, and it is then an open socket whose handshake is complete.  So a *)
(* broadcast never writes into a connection it does not belong to.         *)
(***************************************************************************)
ListIsExact ==
  /\ IsInjective(connected_clients)
  /\ Listed = {running[w] : w \in {v \in Worker : Registered(v)}}
  /\ \A s \in Listed : sock[s] /\ peer[s] \in {"talking", "closing", "down"}

(***************************************************************************)
(* A handle is in one place: waiting in the pool's queue once, or used by  *)
(* one handler; and the server has no open socket nobody will close.       *)
(***************************************************************************)
SocketHasOneOwner ==
  /\ IsInjective(queue)
  /\ \A w \in Worker, s \in Socket : Owns(w, s) => s \notin ToSet(queue)
  /\ \A v, w \in Worker, s \in Socket : Owns(v, s) /\ Owns(w, s) => v = w
  /\ \A s \in Socket :
       sock[s] <=> s \in ToSet(queue) \/ \E w \in Worker : Owns(w, s)

(***************************************************************************)
(* Every client that is registered and alive has been sent every broadcast *)
(* since its registration, in one order common to all: but for the one     *)
(* under way, if the client is still ahead of the loop, it is owed none.   *)
(***************************************************************************)
Position(s) == CHOOSE i \in 1..Len(connected_clients) : connected_clients[i] = s

BroadcastsInStep ==
  \A s \in Listed :
    Alive(s) =>
      (s \in owed <=> cursor # 0 /\ cursor <= Position(s))

(***************************************************************************)
(* "[COMMIT]" is broadcast only for a message whose row is in the database *)
(* file (README: otherwise it issues a COMMIT, visible on the frontend).   *)
(***************************************************************************)
CommitIsDurable ==
  \A m \in Msg : <<"commit", m>> \in announced => DB!Rows(m) \subseteq table

(***************************************************************************)
(* However the handlers share the one connection, that is so as long as    *)
(* none of their INSERTs has been rejected and no COMMIT has failed, whose *)
(* result executeTransaction does not look at (DBConnection.cpp:32).       *)
(***************************************************************************)
DurableWhileClean == DB!NothingFailed => CommitIsDurable

(***************************************************************************)
(* README: "when a client disconnects ... safely removes the socket, and   *)
(* frees the worker thread": its handler closes the socket and returns.    *)
(***************************************************************************)
DisconnectIsCleanedUp ==
  \A w \in Worker :
    (\E s \in Socket : Owns(w, s) /\ peer[s] = "down") ~> (running[w] = NoSocket)

(***************************************************************************)
(* Its first half alone: a handler that has come to remove its client from *)
(* the list (WebSocketServer.cpp:83) gets clients_mutex and removes it.    *)
(***************************************************************************)
DisconnectedIsRemoved ==
  \A w \in Worker : (at[w] = "unregister") ~> (at[w] # "unregister")

(***************************************************************************)
(* WebSocketServer.h: an accepted connection gets its per-client thread.   *)
(***************************************************************************)
AcceptedIsServed ==
  \A s \in Socket : (s \in ToSet(queue)) ~> (s \notin ToSet(queue))
==============================================================================
