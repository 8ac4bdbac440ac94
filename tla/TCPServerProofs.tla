--------------------------- MODULE TCPServerProofs ----------------------------
(***************************************************************************)
(* Proofs about TCPServer, for any servers, clients and handles: types,    *)
(* and that a disciplined server uses and closes only what is its own.     *)
(***************************************************************************)
EXTENDS TCPServer, FiniteSetTheorems, TLAPS

------------------------------------------------------------------------------
LEMMA InitType == Init => TypeOK
BY InvalidAssumption DEF Init, Constructed, TypeOK, Returned

LEMMA CloseHandlesType ==
  ASSUME TypeOK, NEW H, CloseHandles(H)
  PROVE  /\ kind' \in [Handle -> {"free", "raw", "bound", "listening", "connection"}]
         /\ phase' \in [Client -> Live \cup {"away", "left", "closed", "reset"}]
         /\ on' \in [Client -> Handle \cup {Invalid}]
BY DEF CloseHandles, TypeOK, Live

LEMMA NextType == TypeOK /\ [Next]_vars => TypeOK'
<1> SUFFICES ASSUME TypeOK, [Next]_vars PROVE TypeOK'
  OBVIOUS
<1>1. ASSUME NEW v \in Server, WSAStartup(v) \/ OpenSocket(v) PROVE TypeOK'
  <2>1. CASE WSAStartup(v)
    <3>1. /\ winsock' \in Nat
          /\ counted' \in [Server -> BOOLEAN]
          /\ at' \in {[at EXCEPT ![v] = "failed"], [at EXCEPT ![v] = "socket"]}
          /\ UNCHANGED <<kind, server_socket, client_socket, stops, stopping,
                        phase, on>>
      <4>1. CASE Fail(v)
        BY <2>1, <4>1 DEF TypeOK, WSAStartup, Fail, Goto, clients
      <4>2. CASE ~Fail(v)
        <5>1. /\ winsock' = winsock + 1
              /\ counted' = [counted EXCEPT ![v] = TRUE]
              /\ at' = [at EXCEPT ![v] = "socket"]
              /\ UNCHANGED <<kind, server_socket, client_socket, stops, stopping,
                            phase, on>>
          BY <2>1, <4>2 DEF WSAStartup, Goto, clients
        <5>2. winsock' \in Nat
          BY <5>1 DEF TypeOK
        <5>3. counted' \in [Server -> BOOLEAN]
          BY <5>1 DEF TypeOK
        <5> QED BY <5>1, <5>2, <5>3
      <4> QED BY <4>1, <4>2
    <3> QED BY <3>1 DEF TypeOK, Returned
  <2>2. CASE OpenSocket(v)
    BY <2>2 DEF TypeOK, OpenSocket, Fail, Goto, clients, Returned, Loop
  <2> QED BY <1>1, <2>1, <2>2
<1>2. ASSUME NEW v \in Server, Bind(v) \/ Listen(v) PROVE TypeOK'
  BY <1>2 DEF TypeOK, Bind, Listen, Turn, Fail, Goto, clients, Returned, Loop
<1>3. ASSUME NEW v \in Server, AcceptConnections(v) \/ Recv(v) PROVE TypeOK'
  BY <1>3 DEF TypeOK, AcceptConnections, Recv, Goto, stopped, clients, Returned, Loop
<1>4. ASSUME NEW v \in Server, Accept(v) \/ Send(v) PROVE TypeOK'
  BY <1>4 DEF TypeOK, Accept, Send, Goto, stopped, Returned, Loop, Live
<1>5. ASSUME NEW v \in Server, Close(v) PROVE TypeOK'
  <2>1. CloseHandles({client_socket[v]})
    BY <1>5 DEF Close
  <2> QED BY <1>5, <2>1, CloseHandlesType DEF TypeOK, Close, Goto, stopped, Returned, Loop
<1>6. ASSUME NEW v \in Server, Stop(v) PROVE TypeOK'
  <2>1. CloseHandles({server_socket[v]})
    BY <1>6 DEF Stop
  <2> QED BY <1>6, <2>1, CloseHandlesType DEF TypeOK, Stop, Goto, Returned, Loop
<1>7. ASSUME NEW v \in Server, WSACleanup(v) PROVE TypeOK'
  <2>1. \E H : CloseHandles(H)
    BY <1>7 DEF WSACleanup
  <2>2. winsock' \in Nat
    BY <1>7 DEF WSACleanup, TypeOK
  <2> QED BY <1>7, <2>1, <2>2, CloseHandlesType DEF TypeOK, WSACleanup, servers
<1>8. ASSUME NEW c \in Client, Dial(c) \/ SpeakOrLeave(c) PROVE TypeOK'
  BY <1>8 DEF TypeOK, Dial, SpeakOrLeave, servers, stopped, Live
<1>9. CASE UNCHANGED vars
  BY <1>9 DEF TypeOK, vars, servers, stopped, clients
<1> QED BY <1>1, <1>2, <1>3, <1>4, <1>5, <1>6, <1>7, <1>8, <1>9
        DEF Next, ServerStep, LoopStep

(***************************************************************************)
(* Every variable keeps its type; in particular the socket of a server is  *)
(* INVALID_SOCKET or a handle the system gave out, from its constructor on *)
(* (TCPServer.cpp:11, 25), whatever part of start fails.                   *)
(***************************************************************************)
THEOREM TypeCorrect == Spec => []TypeOK
BY InitType, NextType, PTL DEF Spec

------------------------------------------------------------------------------
(* Servers whose WSAStartup has not been undone *)
Counting == {v \in Server : counted[v] /\ (stops[v] = 0 \/ stopping[v])}

(* What the place of a server says about it, while it is disciplined *)
PlaceInv ==
  \A v \in Server :
    /\ stopping[v] => stops[v] = 1
    /\ at[v] \in {"new", "socket"} => server_socket[v] = Invalid
    /\ at[v] \in {"bind", "listen", "started"} => server_socket[v] \in Handle
    /\ at[v] \in Loop \ {"accept"} =>
         server_socket[v] \in Handle /\ client_socket[v] \in Handle
    /\ at[v] \in {"socket", "bind", "listen"} => stops[v] = 0
    /\ at[v] = "gone" => stops[v] = 1
    /\ at[v] = "new" => ~counted[v]
    /\ server_socket[v] # Invalid => counted[v]
    /\ at[v] \in {"socket", "bind", "listen", "started"} => counted[v]

CountInv == IsFiniteSet(Counting) /\ winsock = Cardinality(Counting)

(* The three parts of OwnHandles *)
Disjoint == \A v, w \in Server : v # w => Held(v) \cap Held(w) = {}

AsNeeded ==
  \A v \in Server : /\ \A h \in Listener(v) : kind[h] \in Needed(v)
                    /\ \A h \in Connection(v) : kind[h] = "connection"

NoneLeft == \A h \in Handle : kind[h] # "free" => \E v \in Server : h \in Held(v)

------------------------------------------------------------------------------
(* Discipline is lost for good. *)
LEMMA DisciplineIsLost ==
  ASSUME TypeOK, [Next]_vars, Disciplined' PROVE Disciplined
<1>1. CASE UNCHANGED <<stops, counted, at>>
  BY <1>1 DEF Disciplined
<1>2. ASSUME NEW v \in Server, WSAStartup(v) \/ OpenSocket(v) \/ Bind(v) \/ Listen(v)
      PROVE  Disciplined
  BY <1>2 DEF Disciplined, WSAStartup, OpenSocket, Bind, Listen, Turn, Fail, Goto,
              TypeOK, Loop
<1>3. ASSUME NEW v \in Server, AcceptConnections(v) \/ LoopStep(v) PROVE Disciplined
  BY <1>3 DEF Disciplined, AcceptConnections, LoopStep, Accept, Recv, Send, Close,
              Goto, stopped, TypeOK, Loop, Returned
<1>4. ASSUME NEW v \in Server, Stop(v) PROVE Disciplined
  BY <1>4 DEF Disciplined, Stop, Goto, TypeOK, Loop, Returned
<1>5. ASSUME NEW v \in Server, WSACleanup(v) PROVE UNCHANGED <<stops, counted, at>>
  BY <1>5 DEF WSACleanup, servers
<1>6. ASSUME NEW c \in Client, Dial(c) \/ SpeakOrLeave(c)
      PROVE  UNCHANGED <<stops, counted, at>>
  BY <1>6 DEF Dial, SpeakOrLeave, servers, stopped
<1>7. CASE UNCHANGED vars
  BY <1>1, <1>7 DEF vars, servers, stopped
<1> QED BY <1>1, <1>2, <1>3, <1>4, <1>5, <1>6, <1>7 DEF Next, ServerStep

LEMMA NextPlace ==
  ASSUME TypeOK, Disciplined, Disciplined', PlaceInv, [Next]_vars
  PROVE  PlaceInv'
<1> USE InvalidAssumption
<1>1. ASSUME NEW v \in Server, WSAStartup(v) \/ OpenSocket(v) PROVE PlaceInv'
  BY <1>1 DEF PlaceInv, WSAStartup, OpenSocket, Fail, Goto, TypeOK, Loop, Returned
<1>2. ASSUME NEW v \in Server, Bind(v) \/ Listen(v) PROVE PlaceInv'
  BY <1>2 DEF PlaceInv, Bind, Listen, Turn, Fail, Goto, TypeOK, Loop, Returned
<1>3. ASSUME NEW v \in Server, AcceptConnections(v) \/ LoopStep(v) PROVE PlaceInv'
  BY <1>3 DEF PlaceInv, AcceptConnections, LoopStep, Accept, Recv, Send, Close, Goto,
              stopped, TypeOK, Loop, Returned
<1>4. ASSUME NEW v \in Server, Stop(v) PROVE PlaceInv'
  BY <1>4 DEF PlaceInv, Disciplined, Stop, Goto, TypeOK, Loop, Returned
<1>5. ASSUME NEW v \in Server, WSACleanup(v) PROVE PlaceInv'
  BY <1>5 DEF PlaceInv, WSACleanup, servers, TypeOK
<1>6. ASSUME NEW c \in Client, Dial(c) \/ SpeakOrLeave(c)
      PROVE  UNCHANGED <<servers, stopped>>
  BY <1>6 DEF Dial, SpeakOrLeave
<1>7. CASE UNCHANGED <<servers, stopped>>
  BY <1>7 DEF PlaceInv, servers, stopped
<1>8. CASE UNCHANGED vars
  BY <1>7, <1>8 DEF vars
<1> QED BY <1>1, <1>2, <1>3, <1>4, <1>5, <1>6, <1>7, <1>8 DEF Next, ServerStep

LEMMA NextCount ==
  ASSUME TypeOK, Disciplined, Disciplined', PlaceInv, CountInv, [Next]_vars
  PROVE  CountInv'
<1>1. CASE winsock' = winsock /\ Counting' = Counting
  BY <1>1 DEF CountInv
<1>2. ASSUME NEW v \in Server, WSAStartup(v) PROVE CountInv'
  <2>1. CASE winsock' = winsock /\ counted' = counted
    BY <1>1, <1>2, <2>1 DEF WSAStartup, Counting
  <2>2. CASE winsock' = winsock + 1 /\ counted' = [counted EXCEPT ![v] = TRUE]
    <3>1. v \notin Counting
      BY <1>2 DEF WSAStartup, Counting, PlaceInv
    <3>2. Counting' = Counting \cup {v}
      BY <1>2, <2>2 DEF WSAStartup, Counting, TypeOK
    <3> QED BY <2>2, <3>1, <3>2, FS_AddElement DEF CountInv
  <2> QED BY <1>2, <2>1, <2>2 DEF WSAStartup, Fail
<1>3. ASSUME NEW v \in Server,
             \/ OpenSocket(v) \/ Bind(v) \/ Listen(v)
             \/ AcceptConnections(v) \/ LoopStep(v)
      PROVE  UNCHANGED <<winsock, counted, stops, stopping>>
  BY <1>3 DEF OpenSocket, Bind, Listen, Turn, Fail, AcceptConnections, LoopStep,
              Accept, Recv, Send, Close, stopped
<1>4. ASSUME NEW v \in Server, Stop(v)
      PROVE  winsock' = winsock /\ Counting' = Counting
  <2>1. /\ UNCHANGED <<winsock, counted>>
        /\ stops' = [stops EXCEPT ![v] = @ + 1]
        /\ stopping' = [stopping EXCEPT ![v] = TRUE]
    BY <1>4 DEF Stop
  <2>2. stops[v] = 0
    BY <2>1 DEF Disciplined, TypeOK
  <2> QED BY <2>1, <2>2 DEF Counting, TypeOK
<1>5. ASSUME NEW v \in Server, WSACleanup(v) PROVE CountInv'
  <2>1. v \in Counting
    BY <1>5 DEF WSACleanup, Counting, PlaceInv, Disciplined
  <2>2. Counting' = Counting \ {v}
    BY <1>5, <2>1 DEF WSACleanup, Counting, PlaceInv, TypeOK, servers
  <2>3. /\ IsFiniteSet(Counting \ {v})
        /\ Cardinality(Counting \ {v}) = Cardinality(Counting) - 1
        /\ Cardinality(Counting) # 0
    BY <2>1, FS_RemoveElement, FS_EmptySet DEF CountInv
  <2> QED BY <1>5, <2>2, <2>3 DEF CountInv, WSACleanup
<1>6. ASSUME NEW c \in Client, Dial(c) \/ SpeakOrLeave(c)
      PROVE  UNCHANGED <<winsock, counted, stops, stopping>>
  BY <1>6 DEF Dial, SpeakOrLeave, stopped
<1>7. CASE UNCHANGED <<winsock, counted, stops, stopping>>
  BY <1>1, <1>7 DEF Counting
<1>8. CASE UNCHANGED vars
  BY <1>7, <1>8 DEF vars, stopped
<1> QED BY <1>2, <1>3, <1>4, <1>1, <1>5, <1>6, <1>7, <1>8 DEF Next, ServerStep

------------------------------------------------------------------------------
Own == Disjoint /\ AsNeeded /\ NoneLeft

LEMMA HeldAreHandles ==
  ASSUME TypeOK, PlaceInv, NEW v \in Server PROVE Held(v) \subseteq Handle
BY DEF Held, Listener, Connection, TypeOK, PlaceInv

(* v is the only server for which a step changes anything. *)
Others(v) ==
  \A w \in Server : w # v => /\ Listener(w)' = Listener(w)
                             /\ Connection(w)' = Connection(w)
                             /\ Needed(w)' = Needed(w)

(* What a step can do to what v holds: nothing, *)
LEMMA OwnUnchanged ==
  ASSUME Own, kind' = kind, NEW v \in Server, Others(v),
         Listener(v)' = Listener(v), Connection(v)' = Connection(v),
         Listener(v) # {} => Needed(v) \subseteq Needed(v)'
  PROVE  Own'
<1>1. \A w \in Server : Held(w)' = Held(w)
  BY DEF Held, Others
<1>2. Disjoint' /\ NoneLeft'
  BY <1>1 DEF Own, Disjoint, NoneLeft
<1>3. AsNeeded'
  <2>1. \A h \in Listener(v)' : kind'[h] \in Needed(v)'
    BY DEF Own, AsNeeded
  <2> QED BY <2>1 DEF Own, AsNeeded, Others
<1> QED BY <1>2, <1>3 DEF Own

(* turn a handle that is free or v's into one of another kind, that is v's, *)
LEMMA OwnTurned ==
  ASSUME TypeOK, PlaceInv, Own, NEW v \in Server, NEW h \in Handle, NEW k, Others(v),
         k # "free", kind' = [kind EXCEPT ![h] = k],
         kind[h] = "free" \/ h \in Held(v),
         Held(v)' = Held(v) \cup {h},
         \A g \in Listener(v)' :
           IF g = h THEN k \in Needed(v)'
           ELSE g \in Listener(v) /\ Needed(v) \subseteq Needed(v)',
         \A g \in Connection(v)' :
           IF g = h THEN k = "connection" ELSE g \in Connection(v)
  PROVE  Own'
<1>1. \A w \in Server : w # v => Held(w)' = Held(w)
  BY DEF Held, Others
<1>2. \A w \in Server : w # v => h \notin Held(w)
  <2> SUFFICES ASSUME NEW w \in Server, w # v, h \in Held(w) PROVE FALSE
    OBVIOUS
  <2>1. kind[h] # "free"
    BY DEF Own, AsNeeded, Held, Needed
  <2> QED BY <2>1 DEF Own, Disjoint
<1>3. Disjoint'
  BY <1>1, <1>2 DEF Own, Disjoint
<1>4. AsNeeded'
  <2>1. \A w \in Server : w # v =>
          /\ \A g \in Listener(w) : g # h
          /\ \A g \in Connection(w) : g # h
    BY <1>2 DEF Held
  <2>2. \A w \in Server : Listener(w) \subseteq Handle /\ Connection(w) \subseteq Handle
    BY HeldAreHandles DEF Held
  <2>3. kind'[h] = k /\ \A g \in Handle : g # h => kind'[g] = kind[g]
    BY DEF TypeOK
  <2>4. \A w \in Server : w # v =>
          /\ \A g \in Listener(w)' : kind'[g] \in Needed(w)'
          /\ \A g \in Connection(w)' : kind'[g] = "connection"
    BY <2>1, <2>2, <2>3 DEF Own, AsNeeded, Others
  <2>5. /\ \A g \in Listener(v)' : kind'[g] \in Needed(v)'
        /\ \A g \in Connection(v)' : kind'[g] = "connection"
    BY <2>2, <2>3 DEF Own, AsNeeded
  <2> QED BY <2>4, <2>5 DEF AsNeeded
<1>5. NoneLeft'
  BY <1>1 DEF Own, NoneLeft, TypeOK
<1> QED BY <1>3, <1>4, <1>5 DEF Own

(* or close handles nobody else holds.                                     *)
LEMMA OwnClosed ==
  ASSUME TypeOK, PlaceInv, Own, NEW v \in Server, NEW H, Others(v), CloseHandles(H),
         \A w \in Server : w # v => Held(w) \cap H = {},
         Listener(v)' = Listener(v) \ H, Connection(v)' = Connection(v) \ H,
         Listener(v)' # {} => Needed(v) \subseteq Needed(v)'
  PROVE  Own'
<1>1. \A w \in Server : Held(w)' = Held(w) \ H
  BY DEF Held, Others
<1>2. kind' = [h \in Handle |-> IF h \in H THEN "free" ELSE kind[h]]
  BY DEF CloseHandles
<1>3. Disjoint'
  BY <1>1 DEF Own, Disjoint
<1>4. \A w \in Server : Listener(w) \subseteq Handle /\ Connection(w) \subseteq Handle
  BY HeldAreHandles DEF Held
<1>5. AsNeeded'
  <2>1. \A w \in Server : w # v =>
          /\ \A g \in Listener(w)' : kind'[g] \in Needed(w)'
          /\ \A g \in Connection(w)' : kind'[g] = "connection"
    BY <1>2, <1>4 DEF Own, AsNeeded, Others, Held
  <2>2. /\ \A g \in Listener(v)' : kind'[g] \in Needed(v)'
        /\ \A g \in Connection(v)' : kind'[g] = "connection"
    BY <1>2, <1>4 DEF Own, AsNeeded
  <2> QED BY <2>1, <2>2 DEF AsNeeded
<1>6. NoneLeft'
  BY <1>1, <1>2 DEF Own, NoneLeft
<1> QED BY <1>3, <1>5, <1>6 DEF Own

------------------------------------------------------------------------------
LEMMA NextOwn ==
  ASSUME TypeOK, Disciplined, Disciplined', PlaceInv, PlaceInv', CountInv, Own,
         [Next]_vars
  PROVE  Own'
<1> USE InvalidAssumption
<1>1. ASSUME NEW v \in Server, WSAStartup(v) PROVE Own'
  <2>1. Listener(v) = {} /\ Connection(v) = {}
    BY <1>1 DEF WSAStartup, Listener, Connection, PlaceInv, Loop
  <2>2. Listener(v)' = {} /\ Connection(v)' = {}
    BY <1>1, <2>1 DEF WSAStartup, Fail, Goto, Listener, Connection, PlaceInv, Loop,
       TypeOK
  <2>3. Others(v)
    BY <1>1 DEF WSAStartup, Fail, Goto, Others, Listener, Connection, Needed, TypeOK
  <2>4. kind' = kind
    BY <1>1 DEF WSAStartup, Fail
  <2> QED BY <2>1, <2>2, <2>3, <2>4, OwnUnchanged
<1>2. ASSUME NEW v \in Server, OpenSocket(v) PROVE Own'
  <2>1. Listener(v) = {} /\ Connection(v) = {}
    BY <1>2 DEF OpenSocket, Listener, Connection, PlaceInv, Loop
  <2>2. Others(v)
    BY <1>2 DEF OpenSocket, Fail, Goto, Others, Listener, Connection, Needed, TypeOK
  <2>3. CASE Fail(v) /\ server_socket' = [server_socket EXCEPT ![v] = Invalid]
    <3>1. Listener(v)' = {} /\ Connection(v)' = {} /\ kind' = kind
      BY <1>2, <2>3 DEF Fail, Goto, OpenSocket, Listener, Connection, Loop, TypeOK
    <3> QED BY <2>1, <2>2, <3>1, OwnUnchanged
  <2>4. ASSUME NEW h \in Handle, kind[h] = "free",
               kind' = [kind EXCEPT ![h] = "raw"],
               server_socket' = [server_socket EXCEPT ![v] = h], Goto(v, "bind")
        PROVE  Own'
    <3>1. stops'[v] = 0 /\ at'[v] = "bind" /\ server_socket'[v] = h
      BY <1>2, <2>4 DEF OpenSocket, PlaceInv, Goto, TypeOK
    <3>2. Listener(v)' = {h} /\ Connection(v)' = {} /\ Needed(v)' = {"raw"}
      BY <3>1 DEF Listener, Connection, Needed, Loop
    <3>3. Held(v)' = Held(v) \cup {h}
      BY <2>1, <3>2 DEF Held
    <3> QED BY <2>2, <2>4, <3>2, <3>3, OwnTurned
  <2> QED BY <1>2, <2>3, <2>4 DEF OpenSocket
<1>3. ASSUME NEW v \in Server, Bind(v) \/ Listen(v) PROVE Own'
  <2>1. /\ at[v] \in {"bind", "listen"} /\ server_socket[v] \in Handle
        /\ stops[v] = 0 /\ UNCHANGED <<server_socket, client_socket, stops>>
    BY <1>3 DEF Bind, Listen, PlaceInv
  <2>2. Others(v)
    BY <1>3 DEF Bind, Listen, Turn, Fail, Goto, Others, Listener, Connection,
       Needed, TypeOK
  <2>3. /\ Listener(v) = {server_socket[v]} /\ Connection(v) = {}
        /\ at'[v] \in {"listen", "started", "failed"}
    BY <1>3, <2>1 DEF Bind, Listen, Turn, Fail, Goto, Listener, Connection, Loop,
       TypeOK
  <2>4. Listener(v)' = Listener(v) /\ Connection(v)' = {}
    BY <2>1, <2>3 DEF Listener, Connection, Loop
  <2>5. CASE Fail(v)
    <3>1. kind' = kind /\ Needed(v) \subseteq Needed(v)'
      BY <2>1, <2>5 DEF Fail, Goto, Needed, TypeOK
    <3> QED BY <2>2, <2>3, <2>4, <3>1, OwnUnchanged
  <2>6. ASSUME NEW from, NEW to, NEW place,
               Turn(v, from, to, place),
               <<to, place>> \in {<<"bound", "listen">>, <<"listening", "started">>}
        PROVE  Own'
    <3>1. /\ kind' = [kind EXCEPT ![server_socket[v]] = to] /\ at'[v] = place
      BY <2>6 DEF Turn, Goto, TypeOK
    <3>2. to \in Needed(v)' /\ to # "free"
      BY <2>6, <3>1 DEF Needed
    <3>3. Held(v)' = Held(v) \cup {server_socket[v]} /\ server_socket[v] \in Held(v)
      BY <2>3, <2>4 DEF Held
    <3> QED BY <2>1, <2>2, <2>3, <2>4, <3>1, <3>2, <3>3, OwnTurned
  <2> QED BY <1>3, <2>5, <2>6 DEF Bind, Listen
<1>4. ASSUME NEW v \in Server, AcceptConnections(v) \/ Recv(v) \/ Send(v) PROVE Own'
  <2>1. kind' = kind /\ UNCHANGED <<server_socket, client_socket, stops>>
    BY <1>4 DEF AcceptConnections, Recv, Send, stopped
  <2>2. Others(v)
    BY <1>4 DEF AcceptConnections, Recv, Send, stopped, Goto, Others, Listener,
       Connection, Needed, TypeOK
  <2>3. Listener(v)' = Listener(v) /\ Connection(v)' = Connection(v)
    BY <1>4, <2>1 DEF AcceptConnections, Recv, Send, Goto, Listener, Connection,
       Loop, TypeOK
  <2>4. Listener(v) # {} => Needed(v) \subseteq Needed(v)'
    BY <1>4, <2>1 DEF AcceptConnections, Recv, Send, Goto, Listener, Needed,
       PlaceInv, TypeOK
  <2> QED BY <2>1, <2>2, <2>3, <2>4, OwnUnchanged
<1>5. ASSUME NEW v \in Server, Accept(v) PROVE Own'
  <2>1. PICK h \in Handle : /\ kind[h] = "free"
                            /\ kind' = [kind EXCEPT ![h] = "connection"]
                            /\ client_socket' = [client_socket EXCEPT ![v] = h]
    BY <1>5 DEF Accept
  <2>2. /\ at[v] = "accept" /\ at'[v] = "recv"
        /\ UNCHANGED <<server_socket, stops>>
    BY <1>5 DEF Accept, Goto, stopped, TypeOK
  <2>3. Others(v)
    BY <1>5, <2>1 DEF Accept, stopped, Goto, Others, Listener, Connection, Needed,
       TypeOK
  <2>4. /\ Listener(v)' = Listener(v) /\ Needed(v)' = Needed(v)
        /\ Connection(v) = {} /\ Connection(v)' = {h}
    BY <2>1, <2>2 DEF Listener, Needed, Connection, Loop, TypeOK
  <2>5. h \notin Listener(v)
    BY <2>1 DEF Own, AsNeeded, Needed
  <2>6. Held(v)' = Held(v) \cup {h}
    BY <2>4 DEF Held
  <2> QED BY <2>1, <2>3, <2>4, <2>5, <2>6, OwnTurned
<1>6. ASSUME NEW v \in Server, Close(v) PROVE Own'
  <2> DEFINE H == {client_socket[v]}
  <2>1. /\ at[v] = "close" /\ at'[v] = "accept" /\ CloseHandles(H)
        /\ UNCHANGED <<server_socket, stops>>
    BY <1>6 DEF Close, Goto, stopped, TypeOK
  <2>2. Others(v)
    BY <1>6 DEF Close, stopped, Goto, Others, Listener, Connection, Needed, TypeOK
  <2>3. /\ Listener(v)' = Listener(v) /\ Needed(v)' = Needed(v)
        /\ Connection(v) = H /\ Connection(v)' = {}
    BY <2>1 DEF Listener, Needed, Connection, Loop
  <2>4. Needed(v) = {"listening"}
    BY <2>1 DEF Needed
  <2>5. Listener(v) \cap H = {}
    BY <2>3, <2>4 DEF Own, AsNeeded
  <2>6. \A w \in Server : w # v => Held(w) \cap H = {}
    BY <2>3 DEF Own, Disjoint, Held
  <2> HIDE DEF H
  <2> QED BY <2>1, <2>2, <2>3, <2>5, <2>6, OwnClosed
<1>7. ASSUME NEW v \in Server, Stop(v) PROVE Own'
  <2> DEFINE H == {server_socket[v]}
  <2>1. /\ CloseHandles(H) /\ stops' = [stops EXCEPT ![v] = @ + 1]
        /\ at' = at \/ Goto(v, "gone")
        /\ UNCHANGED <<server_socket, client_socket>>
    BY <1>7 DEF Stop
  <2>2. stops[v] = 0 /\ stops'[v] = 1 /\ at'[v] \notin Loop
    BY <2>1 DEF Disciplined, TypeOK
  <2>3. at[v] \notin Loop
    BY <1>7, <2>2 DEF Stop, Goto, Returned, Loop
  <2>4. Others(v)
    BY <2>1 DEF Goto, Others, Listener, Connection, Needed, TypeOK
  <2>5. /\ Listener(v) = H \ {Invalid} /\ Listener(v)' = {}
        /\ Connection(v) = {} /\ Connection(v)' = {}
    BY <2>2, <2>3 DEF Listener, Connection
  <2>6. \A w \in Server : w # v => Held(w) \cap H = {}
    <3>1. \A w \in Server : Invalid \notin Held(w)
      BY HeldAreHandles
    <3> QED BY <2>5, <3>1 DEF Own, Disjoint, Held
  <2>7. Listener(v)' = Listener(v) \ H /\ Connection(v)' = Connection(v) \ H
    BY <2>5
  <2> HIDE DEF H
  <2> QED BY <2>1, <2>4, <2>5, <2>6, <2>7, OwnClosed
<1>8. ASSUME NEW v \in Server, WSACleanup(v) PROVE Own'
  <2>1. /\ UNCHANGED <<server_socket, client_socket, stops, at>>
        /\ stopping[v] /\ CloseHandles(IF winsock = 1 THEN Handle ELSE {})
    BY <1>8 DEF WSACleanup, servers
  <2>2. v \in Counting /\ Held(v) = {}
    BY <2>1 DEF Counting, PlaceInv, Disciplined, Held, Listener, Connection
  <2>3. CASE winsock = 1
    <3>1. Counting = {v}
      <4>1. IsFiniteSet(Counting) /\ Cardinality(Counting) = 1
        BY <2>3 DEF CountInv
      <4>2. \E w : Counting = {w}
        BY <4>1, FS_Singleton
      <4> QED BY <2>2, <4>2
    <3>2. \A w \in Server : w # v => Held(w) = {}
      <4> SUFFICES ASSUME NEW w \in Server, w # v PROVE Held(w) = {}
        OBVIOUS
      <4>1. ~(counted[w] /\ stops[w] = 0)
        BY <3>1 DEF Counting
      <4>2. Listener(w) = {}
        BY <4>1 DEF Listener, PlaceInv
      <4>3. Connection(w) = {}
        BY <4>1 DEF Connection, PlaceInv, Disciplined, TypeOK, Loop
      <4> QED BY <4>2, <4>3 DEF Held
    <3>3. Others(v) /\ Needed(v)' = Needed(v)
          /\ Listener(v)' = Listener(v) /\ Connection(v)' = Connection(v)
      BY <2>1 DEF Others, Listener, Connection, Needed
    <3>4. CloseHandles(Handle)
      BY <2>1, <2>3
    <3>5. Listener(v) = {} /\ Connection(v) = {}
      BY <2>2 DEF Held
    <3> QED BY <3>2, <3>3, <3>4, <3>5, OwnClosed
  <2>4. CASE winsock # 1
    <3>1. kind' = kind
      BY <2>1, <2>4 DEF CloseHandles, TypeOK
    <3>2. Others(v) /\ Needed(v)' = Needed(v)
          /\ Listener(v)' = Listener(v) /\ Connection(v)' = Connection(v)
      BY <2>1 DEF Others, Listener, Connection, Needed
    <3> QED BY <3>1, <3>2, OwnUnchanged
  <2> QED BY <2>3, <2>4
<1>9. CASE UNCHANGED <<kind, servers, stops>>
  BY <1>9 DEF servers, Own, Disjoint, AsNeeded, NoneLeft, Held, Listener,
              Connection, Needed
<1>10. ASSUME NEW c \in Client, Dial(c) \/ SpeakOrLeave(c)
       PROVE  UNCHANGED <<kind, servers, stops>>
  BY <1>10 DEF Dial, SpeakOrLeave, stopped
<1>11. CASE UNCHANGED vars
  BY <1>9, <1>11 DEF vars, stopped
<1> QED BY <1>1, <1>2, <1>3, <1>4, <1>5, <1>6, <1>7, <1>8, <1>9, <1>10, <1>11
        DEF Next, ServerStep, LoopStep

(***************************************************************************)
(* As long as servers are stopped once, after their WSAStartup and not     *)
(* during their loop, no server uses or closes a socket that is not its    *)
(* own, and no open socket is left without a server that will close it:    *)
(* for any number of servers that share the count of WSAStartup.           *)
(***************************************************************************)
THEOREM HandlesOwned == Spec => []OwnHandles
<1> DEFINE Good == PlaceInv /\ CountInv /\ Own
           Inv == TypeOK /\ (Disciplined => Good)
<1>1. Init => Inv
  <2> SUFFICES ASSUME Init PROVE Good
    BY InitType
  <2>1. \A v \in Server : Listener(v) = {} /\ Connection(v) = {}
    BY DEF Init, Constructed, Listener, Connection, Loop
  <2>2. Own
    BY <2>1 DEF Init, Own, Disjoint, AsNeeded, NoneLeft, Held
  <2>3. Counting = {}
    BY DEF Init, Counting
  <2>4. CountInv
    BY <2>3, FS_EmptySet DEF Init, CountInv
  <2>5. PlaceInv
    BY InvalidAssumption DEF Init, Constructed, PlaceInv, Loop
  <2> QED BY <2>2, <2>4, <2>5
<1>2. Inv /\ [Next]_vars => Inv'
  <2> SUFFICES ASSUME TypeOK, Disciplined => Good, [Next]_vars, Disciplined'
               PROVE  Good'
    BY NextType
  <2>1. Disciplined
    BY DisciplineIsLost
  <2>2. PlaceInv'
    BY <2>1, NextPlace
  <2> QED BY <2>1, <2>2, NextCount, NextOwn
<1>3. Inv => OwnHandles
  BY DEF OwnHandles, Own, Disjoint, AsNeeded, NoneLeft
<1> QED BY <1>1, <1>2, <1>3, PTL DEF Spec
==============================================================================
