------------------------ MODULE WebSocketServerProofs ------------------------
(***************************************************************************)
(* Proofs about WebSocketServer, for any number of workers, sockets,       *)
(* messages and connections: the list of clients is exact, every socket    *)
(* has one owner, every client gets every broadcast, and what is announced *)
(* as committed is durable until an INSERT is rejected or a COMMIT fails.  *)
(***************************************************************************)
EXTENDS WebSocketServer, SequenceTheorems, TLAPS

------------------------------------------------------------------------------
(* Sequences without duplicates: a new element, the first one taken, and   *)
(* one taken out wherever it is.                                           *)
LEMMA AppendNew ==
  ASSUME NEW S, NEW q \in Seq(S), NEW s \in S, IsInjective(q), s \notin ToSet(q)
  PROVE  /\ Append(q, s) \in Seq(S)
         /\ IsInjective(Append(q, s))
         /\ ToSet(Append(q, s)) = ToSet(q) \cup {s}
<1>1. /\ Append(q, s) \in Seq(S) /\ Len(Append(q, s)) = Len(q) + 1
      /\ Len(q) \in Nat
      /\ DOMAIN q = 1..Len(q) /\ DOMAIN Append(q, s) = 1..Len(q) + 1
      /\ \A i \in 1..Len(q) : Append(q, s)[i] = q[i]
      /\ Append(q, s)[Len(q) + 1] = s
  OBVIOUS
<1>2. \A i \in 1..Len(q) : q[i] # s
  BY <1>1 DEF ToSet
<1>3. IsInjective(Append(q, s))
  <2>1. \A i \in 1..Len(q) + 1 : i \in 1..Len(q) \/ i = Len(q) + 1
    BY <1>1
  <2> QED BY <1>1, <1>2, <2>1 DEF IsInjective
<1>4. ToSet(Append(q, s)) = ToSet(q) \cup {s}
  BY <1>1 DEF ToSet
<1> QED BY <1>1, <1>3, <1>4

LEMMA TakeFirst ==
  ASSUME NEW S, NEW q \in Seq(S), IsInjective(q), q # <<>>
  PROVE  /\ Tail(q) \in Seq(S)
         /\ IsInjective(Tail(q))
         /\ Head(q) \in ToSet(q)
         /\ ToSet(Tail(q)) = ToSet(q) \ {Head(q)}
<1>1. /\ Tail(q) \in Seq(S) /\ Len(q) \in Nat \ {0}
      /\ DOMAIN q = 1..Len(q) /\ DOMAIN Tail(q) = 1..Len(q) - 1
      /\ \A i \in 1..Len(q) - 1 : Tail(q)[i] = q[i + 1]
      /\ Head(q) = q[1]
  BY HeadTailProperties, LenProperties, EmptySeq
<1>2. IsInjective(Tail(q))
  BY <1>1 DEF IsInjective
<1>3. ToSet(Tail(q)) \subseteq ToSet(q) \ {Head(q)}
  BY <1>1 DEF IsInjective, ToSet
<1>4. ASSUME NEW x \in ToSet(q), x # Head(q) PROVE x \in ToSet(Tail(q))
  <2>1. PICK i \in 1..Len(q) : q[i] = x
    BY <1>1 DEF ToSet
  <2>2. i # 1
    BY <1>1, <1>4, <2>1
  <2>3. i - 1 \in 1..Len(q) - 1 /\ Tail(q)[i - 1] = x
    BY <1>1, <2>1, <2>2
  <2> QED BY <1>1, <2>3 DEF ToSet
<1>5. Head(q) \in ToSet(q)
  BY <1>1 DEF ToSet
<1> QED BY <1>1, <1>2, <1>3, <1>4, <1>5

LEMMA TakeOut ==
  ASSUME NEW S, NEW q \in Seq(S), NEW i \in 1..Len(q), IsInjective(q)
  PROVE  /\ RemoveAt(q, i) \in Seq(S)
         /\ IsInjective(RemoveAt(q, i))
         /\ ToSet(RemoveAt(q, i)) = ToSet(q) \ {q[i]}
<1> DEFINE front == SubSeq(q, 1, i - 1)
           back == SubSeq(q, i + 1, Len(q))
           r == front \o back
           old(j) == IF j < i THEN j ELSE j + 1
<1>1. /\ Len(q) \in Nat \ {0} /\ DOMAIN q = 1..Len(q)
      /\ \A j \in 1..Len(q) : q[j] \in S
      /\ i \in 1..Len(q)
  BY LenProperties
<1>2. /\ front \in Seq(S) /\ Len(front) = i - 1
      /\ \A j \in 1..i - 1 : front[j] = q[j]
  <2>1. \A j \in 1..i - 1 : q[j] \in S
    BY <1>1
  <2> QED BY <2>1, <1>1, SubSeqProperties
<1>3. /\ back \in Seq(S) /\ Len(back) = Len(q) - i
      /\ \A j \in 1..Len(q) - i : back[j] = q[i + j]
  <2>1. \A j \in i + 1..Len(q) : q[j] \in S
    BY <1>1
  <2>2. i + 1 \in Int /\ Len(q) \in Int
    BY <1>1
  <2>3. /\ back \in Seq(S)
        /\ Len(back) = IF i + 1 <= Len(q) THEN Len(q) - (i + 1) + 1 ELSE 0
        /\ \A j \in 1..Len(q) - (i + 1) + 1 : back[j] = q[i + 1 + j - 1]
    BY <2>1, <2>2, SubSeqProperties
  <2> HIDE DEF back
  <2>4. Len(q) - (i + 1) + 1 = Len(q) - i
    BY <1>1
  <2>5. Len(back) = Len(q) - i
    <3>1. CASE i = Len(q)
      <4>1. ~(i + 1 <= Len(q)) /\ Len(q) - i = 0
        BY <1>1, <3>1
      <4> QED BY <2>3, <4>1
    <3>2. CASE i # Len(q)
      <4>1. i \in Nat /\ Len(q) \in Nat /\ i <= Len(q)
        BY <1>1
      <4>2. i + 1 <= Len(q)
        BY <3>2, <4>1
      <4> QED BY <2>3, <2>4, <4>2
    <3> QED BY <3>1, <3>2
  <2>6. ASSUME NEW j \in 1..Len(q) - i PROVE back[j] = q[i + j]
    <3>1. i + 1 + j - 1 = i + j
      BY <1>1
    <3> QED BY <2>3, <2>4, <3>1
  <2> QED BY <2>3, <2>5, <2>6
<1>4. /\ r \in Seq(S) /\ DOMAIN r = 1..Len(q) - 1
      /\ \A j \in 1..Len(q) - 1 : /\ old(j) \in 1..Len(q) /\ old(j) # i
                                 /\ r[j] = q[old(j)]
  <2> HIDE DEF front, back
  <2>1. /\ r \in Seq(S) /\ Len(r) = Len(front) + Len(back)
        /\ \A j \in 1..Len(front) + Len(back) :
             r[j] = IF j <= Len(front) THEN front[j] ELSE back[j - Len(front)]
    BY <1>2, <1>3, ConcatProperties
  <2> HIDE DEF r
  <2>2. Len(front) + Len(back) = Len(q) - 1
    BY <1>1, <1>2, <1>3
  <2>3. DOMAIN r = 1..Len(q) - 1
    BY <2>1, <2>2, LenProperties
  <2>4. ASSUME NEW j \in 1..Len(q) - 1
        PROVE  old(j) \in 1..Len(q) /\ old(j) # i /\ r[j] = q[old(j)]
    <3>1. r[j] = IF j <= i - 1 THEN front[j] ELSE back[j - (i - 1)]
      BY <1>2, <2>1, <2>2
    <3>2. CASE j < i
      BY <1>1, <1>2, <3>1, <3>2
    <3>3. CASE ~(j < i)
      <4>1. /\ j - (i - 1) \in 1..Len(q) - i /\ i + (j - (i - 1)) = j + 1
            /\ ~(j <= i - 1) /\ j + 1 \in 1..Len(q) /\ j + 1 # i
        BY <1>1, <3>3
      <4>2. r[j] = back[j - (i - 1)]
        BY <3>1, <4>1
      <4>3. back[j - (i - 1)] = q[j + 1]
        BY <1>3, <4>1
      <4> QED BY <3>3, <4>1, <4>2, <4>3
    <3> QED BY <3>2, <3>3
  <2> QED BY <2>1, <2>3, <2>4
<1>5. \A j, k \in 1..Len(q) - 1 : old(j) = old(k) => j = k
  BY <1>1
<1>6. ASSUME NEW j \in 1..Len(q), j # i
      PROVE  \E k \in 1..Len(q) - 1 : old(k) = j
  <2>1. CASE j < i
    <3>1. j \in 1..Len(q) - 1 /\ old(j) = j
      BY <1>1, <2>1
    <3> QED BY <3>1
  <2>2. CASE j > i
    <3>1. j - 1 \in 1..Len(q) - 1 /\ old(j - 1) = j
      BY <1>1, <2>2
    <3> QED BY <3>1
  <2> QED BY <1>1, <1>6, <2>1, <2>2
<1>7. RemoveAt(q, i) = r
  BY DEF RemoveAt
<1> HIDE DEF old, r
<1>8. IsInjective(r)
  BY <1>1, <1>4, <1>5 DEF IsInjective
<1>9. ToSet(r) = {q[j] : j \in {k \in 1..Len(q) : k # i}}
  <2>1. \A j \in 1..Len(q) - 1 : r[j] = q[old(j)] /\ old(j) \in 1..Len(q) /\ old(j) # i
    BY <1>4
  <2>2. \A j \in 1..Len(q) : j # i => \E k \in 1..Len(q) - 1 : q[j] = r[k]
    BY <1>4, <1>6
  <2>3. ToSet(r) = {r[k] : k \in 1..Len(q) - 1}
    BY <1>4 DEF ToSet
  <2>4. \A j \in 1..Len(q) - 1 : r[j] \in {q[m] : m \in {k \in 1..Len(q) : k # i}}
    BY <2>1
  <2> QED BY <2>2, <2>3, <2>4
<1>10. ToSet(q) \ {q[i]} = {q[j] : j \in {k \in 1..Len(q) : k # i}}
  BY <1>1 DEF ToSet, IsInjective
<1> QED BY <1>4, <1>7, <1>8, <1>9, <1>10

LEMMA TakeElement ==
  ASSUME NEW S, NEW q \in Seq(S), NEW s \in ToSet(q), IsInjective(q)
  PROVE  /\ RemoveFirst(q, s) \in Seq(S)
         /\ IsInjective(RemoveFirst(q, s))
         /\ ToSet(RemoveFirst(q, s)) = ToSet(q) \ {s}
<1>1. PICK i \in 1..Len(q) : q[i] = s
  BY LenProperties DEF ToSet
<1>2. \A j \in 1..Len(q) : q[j] = s => j = i
  BY <1>1, LenProperties DEF IsInjective
<1>3. SelectInSeq(q, LAMBDA v : v = s) = i
  <2>1. {j \in 1..Len(q) : q[j] = s} = {i}
    BY <1>1, <1>2
  <2>2. Min({i}) = i
    BY DEF Min
  <2> QED BY <2>1, <2>2 DEF SelectInSeq
<1>4. RemoveFirst(q, s) = RemoveAt(q, i)
  BY <1>1, <1>3 DEF RemoveFirst
<1> QED BY <1>1, <1>4, TakeOut
------------------------------------------------------------------------------
(***************************************************************************)
(* The inductive invariant.  A thread with no socket is idle; the mutex    *)
(* is held only inside broadcastMessage, whose loop is then under way; the *)
(* message of a handler is one of Msg from its receipt to its last         *)
(* broadcast.                                                              *)
(***************************************************************************)
Handling == {"begin", "insert", "execute", "outcome", "lock", "chat"}

PlaceInv ==
  /\ \A w \in Worker : running[w] = NoSocket <=> at[w] = "idle"
  /\ clients_mutex # Nobody => at[clients_mutex] \in Announcing
  /\ cursor = 0 <=> clients_mutex = Nobody
  /\ \A w \in Worker : at[w] \in Handling => msg[w] \in Msg

(***************************************************************************)
(* What a peer has done follows from where its socket is: nothing before   *)
(* it is accepted, no frame before the handshake but the rest of a request *)
(* that was cut, only frames after it.                                     *)
(***************************************************************************)
Early(s) == /\ peer[s] \in {"connected", "asked", "down"}
            /\ wire[s] # <<>> => Tail(wire[s]) \in Seq(Msg)
Late(s) == peer[s] \in {"talking", "closing", "down"} /\ wire[s] \in Seq(Msg)

PeerInv ==
  /\ \A s \in Socket : ~sock[s] => peer[s] = "none"
  /\ \A s \in Socket : peer[s] \in {"none", "connected"} => wire[s] = <<>>
  /\ \A s \in ToSet(queue) : Early(s)
  /\ \A w \in Worker : at[w] = "request" => Early(running[w])
  /\ \A w \in Worker : at[w] \notin {"idle", "request", "terminated"}
                         => Late(running[w])

ServerInv ==
  ServerTypeOK /\ PlaceInv /\ SocketHasOneOwner /\ PeerInv /\ ListIsExact


LEMMA InitServer == Init => ServerInv
<1> SUFFICES ASSUME Init PROVE ServerInv
  OBVIOUS
<1> USE DEF Init
<1>1. queue = <<>> /\ running = [w \in Worker |-> NoSocket]
  BY DEF Pool!Init
<1>2. ServerTypeOK
  <2>1. <<>> \in Seq(Socket) /\ <<>> \in Seq(Msg \cup {"upgrade", "plain"})
    BY EmptySeq
  <2>2. at \in [Worker -> Place]
    BY DEF Place
  <2> QED BY <1>1, <2>1, <2>2 DEF ServerTypeOK
<1>3. ToSet(queue) = {} /\ ToSet(connected_clients) = {}
      /\ IsInjective(queue) /\ IsInjective(connected_clients)
  BY <1>1 DEF ToSet, IsInjective
<1>4. PlaceInv
  BY <1>1 DEF PlaceInv, Handling
<1>5. SocketHasOneOwner
  BY <1>3 DEF SocketHasOneOwner, Owns
<1>6. PeerInv
  BY <1>3 DEF PeerInv
<1>7. ListIsExact
  BY <1>3 DEF ListIsExact, Listed, Registered
<1> QED BY <1>2, <1>4, <1>5, <1>6, <1>7 DEF ServerInv

------------------------------------------------------------------------------
(* Where a broadcast leads from each of the places that call it. *)
LEMMA AfterBroadcast ==
  /\ Announcing = {"spawned", "begin", "insert", "outcome", "lock", "chat",
                   "terminated"}
  /\ After["spawned"] = "register" /\ After["begin"] = "insert"
  /\ After["insert"] = "execute" /\ After["outcome"] = "lock"
  /\ After["lock"] = "chat" /\ After["chat"] = "receive"
  /\ After["terminated"] = "idle"
BY DEF After, Announcing

LEMMA NextServerType == ServerInv /\ [Next]_vars => ServerTypeOK'
<1> SUFFICES ASSUME ServerTypeOK, PlaceInv, PeerInv, ListIsExact, [Next]_vars
             PROVE  ServerTypeOK'
  BY DEF ServerInv
<1> USE DEF ServerTypeOK, pool, handler, clients, network, history,
            Goto
<1> DEFINE Bytes == Msg \cup {"upgrade", "plain"}
<1>1. ASSUME NEW s \in Socket, Accept(s) PROVE ServerTypeOK'
  <2>1. Append(queue, s) \in Seq(Socket)
    OBVIOUS
  <2> QED BY <1>1, <2>1 DEF Accept, Pool!Submit
<1>2. ASSUME NEW s \in Socket, Request(s) PROVE ServerTypeOK'
  <2>1. PICK q \in Seq(Bytes) :
          /\ wire' = [wire EXCEPT ![s] = q]
          /\ sent' \subseteq Msg
    <3>1. \A r \in {"upgrade", "plain"} : <<r>> \in Seq(Bytes)
      OBVIOUS
    <3>2. \A m \in Rest : <<"upgrade", m>> \in Seq(Bytes) /\ m \in Msg
      BY PayloadAssumption
    <3> QED BY <1>2, <3>1, <3>2 DEF Request
  <2>2. /\ peer' = [peer EXCEPT ![s] = "asked"]
        /\ UNCHANGED <<pool, handler, clients, sock, stalled, accepted, owed>>
    BY <1>2 DEF Request
  <2> QED BY <2>1, <2>2
<1>3. ASSUME NEW s \in Socket, NEW m \in Msg, SendFrame(s, m)
      PROVE  ServerTypeOK'
  <2>1. Append(wire[s], m) \in Seq(Bytes)
    OBVIOUS
  <2> QED BY <1>3, <2>1 DEF SendFrame
<1>4. ASSUME NEW s \in Socket, Disconnect(s) PROVE ServerTypeOK'
  <2>1. <<>> \in Seq(Bytes)
    OBVIOUS
  <2> QED BY <1>4, <2>1 DEF Disconnect
<1>5. ASSUME NEW s \in Socket, Stall(s) \/ Resume(s) PROVE ServerTypeOK'
  BY <1>5 DEF Stall, Resume
<1>6. ASSUME NEW w \in Worker, StartHandler(w) PROVE ServerTypeOK'
  <2>1. Tail(queue) \in Seq(Socket) /\ Head(queue) \in Socket
    BY <1>6 DEF StartHandler, Pool!Start
  <2> QED BY <1>6, <2>1 DEF StartHandler, Pool!Start, Place
<1>7. ASSUME NEW w \in Worker, Handshake(w) PROVE ServerTypeOK'
  <2>1. "spawned" \in Place /\ running[w] \in Socket
    BY <1>7, AfterBroadcast DEF Handshake, Place, PlaceInv
  <2>2. PICK n \in 1..Len(wire[running[w]]) :
          wire' = [wire EXCEPT ![running[w]] =
                     SubSeq(wire[running[w]], n + 1, Len(wire[running[w]]))]
    BY <1>7 DEF Handshake
  <2>3. SubSeq(wire[running[w]], n + 1, Len(wire[running[w]])) \in Seq(Bytes)
    BY <2>1
  <2> QED BY <1>7, <2>1, <2>2, <2>3 DEF Handshake
<1>8. ASSUME NEW w \in Worker, Refuse(w) \/ Close(w) PROVE ServerTypeOK'
  <2>1. <<>> \in Seq(Bytes) /\ "idle" \in Place /\ "terminated" \in Place
    BY AfterBroadcast DEF Place
  <2>2. CloseSocket(running[w])
    BY <1>8 DEF Refuse, Close
  <2>3. /\ sock' \in [Socket -> BOOLEAN] /\ stalled' \in [Socket -> BOOLEAN]
        /\ wire' \in [Socket -> Seq(Bytes)]
        /\ peer' \in [Socket -> {"none", "connected", "asked", "talking",
                                 "closing", "down"}]
    BY <2>1, <2>2 DEF CloseSocket
  <2>4. /\ running' \in [Worker -> Socket \cup {NoSocket}]
        /\ at' \in [Worker -> Place]
        /\ UNCHANGED <<queue, msg, clients, accepted, sent>>
    BY <1>8, <2>1 DEF Refuse, Close, Pool!Finish
  <2>5. owed' \subseteq Socket
    BY <1>8 DEF Refuse, Close
  <2> QED BY <2>3, <2>4, <2>5
<1>9. ASSUME NEW w \in Worker, Register(w) PROVE ServerTypeOK'
  <2>1. running[w] \in Socket
    BY <1>9 DEF Register, PlaceInv
  <2>2. Append(connected_clients, running[w]) \in Seq(Socket)
    BY <2>1
  <2>3. /\ connected_clients' \in Seq(Socket) /\ owed' \subseteq Socket
        /\ UNCHANGED <<pool, msg, clients_mutex, cursor, network, accepted,
                       sent>>
    BY <1>9, <2>2 DEF Register
  <2>4. at' \in [Worker -> Place]
    BY <1>9 DEF Register, Place
  <2> QED BY <2>3, <2>4
<1>10. ASSUME NEW w \in Worker, Receive(w) PROVE ServerTypeOK'
  <2>1. running[w] \in Socket /\ Late(running[w])
    <3>1. at[w] = "receive"
      BY <1>10 DEF Receive
    <3>2. running[w] # NoSocket
      BY <3>1 DEF PlaceInv
    <3>3. Late(running[w])
      BY <3>1 DEF PeerInv
    <3> QED BY <3>2, <3>3
  <2>2. /\ Head(wire[running[w]]) \in Msg
        /\ "begin" \in Place
    BY <1>10, <2>1, AfterBroadcast DEF Receive, Late, Place
  <2>3. PICK n \in 1..Len(wire[running[w]]) :
          wire' = [wire EXCEPT ![running[w]] =
                     SubSeq(wire[running[w]], n + 1, Len(wire[running[w]]))]
    BY <1>10 DEF Receive
  <2>4. SubSeq(wire[running[w]], n + 1, Len(wire[running[w]])) \in Seq(Bytes)
    BY <2>1
  <2> QED BY <1>10, <2>2, <2>3, <2>4 DEF Receive
<1>11. ASSUME NEW w \in Worker, ReceiveNothing(w) PROVE ServerTypeOK'
  BY <1>11 DEF ReceiveNothing, Place
<1>12. ASSUME NEW w \in Worker, Execute(w) \/ ExecuteReturns(w)
       PROVE  ServerTypeOK'
  BY <1>12, AfterBroadcast DEF Execute, ExecuteReturns, Place
<1>13. ASSUME NEW w \in Worker, Unregister(w) PROVE ServerTypeOK'
  <2>1. Registered(w) /\ w \in Worker
    BY <1>13 DEF Unregister, Registered
  <2>2. running[w] \in ToSet(connected_clients)
    BY <2>1 DEF ListIsExact, Listed
  <2>3. RemoveFirst(connected_clients, running[w]) \in Seq(Socket)
    BY <2>2, TakeElement DEF ListIsExact
  <2>4. /\ connected_clients' \in Seq(Socket)
        /\ UNCHANGED <<pool, msg, clients_mutex, cursor, network, history>>
    BY <1>13, <2>3 DEF Unregister
  <2>5. at' \in [Worker -> Place]
    BY <1>13 DEF Unregister, Place
  <2> QED BY <2>4, <2>5
<1>14. ASSUME NEW w \in Worker, BroadcastLock(w) \/ BroadcastSend(w)
       PROVE  ServerTypeOK'
  <2>1. Listed \subseteq Socket
    BY DEF Listed, ToSet
  <2>2. owed' \subseteq Socket
    BY <1>14, <2>1 DEF BroadcastLock, BroadcastSend
  <2> QED BY <1>14, <2>2 DEF BroadcastLock, BroadcastSend
<1>15. ASSUME NEW w \in Worker, BroadcastUnlock(w) PROVE ServerTypeOK'
  <2>1. at[w] \in Announcing
    BY <1>15, HandleAssumption DEF BroadcastUnlock, PlaceInv
  <2>2. After[at[w]] \in Place
    BY <2>1, AfterBroadcast DEF Place
  <2> QED BY <1>15, <2>2 DEF BroadcastUnlock, Pool!Finish
<1>16. CASE UNCHANGED vars
  BY <1>16 DEF vars
<1> QED BY <1>1, <1>2, <1>3, <1>4, <1>5, <1>6, <1>7, <1>8, <1>9, <1>10, <1>11,
           <1>12, <1>13, <1>14, <1>15, <1>16 DEF Next, PeerStep, HandlerStep

LEMMA NextPlace == ServerInv /\ [Next]_vars => PlaceInv'
<1> SUFFICES ASSUME ServerTypeOK, PlaceInv, PeerInv, ListIsExact, [Next]_vars
             PROVE  PlaceInv'
  BY DEF ServerInv
<1> USE HandleAssumption, AfterBroadcast
    DEF ServerTypeOK, PlaceInv, pool, handler, clients, network,
        history, Goto, Handling
<1>1. CASE \/ UNCHANGED vars
           \/ \E s \in Socket : Accept(s) \/ PeerStep(s)
           \/ \E w \in Worker : Execute(w)
  <2>1. UNCHANGED <<running, at, msg, clients_mutex, cursor>>
    BY <1>1 DEF vars, Accept, Pool!Submit, PeerStep, Request, SendFrame,
                Disconnect, Stall, Resume, Execute
  <2> QED BY <2>1
<1>2. ASSUME NEW w \in Worker, StartHandler(w) PROVE PlaceInv'
  <2>1. Head(queue) \in Socket
    BY <1>2 DEF StartHandler, Pool!Start
  <2> QED BY <1>2, <2>1 DEF StartHandler, Pool!Start
<1>3. ASSUME NEW w \in Worker, NEW from \in Place, NEW to \in Place,
             at[w] = from, at' = [at EXCEPT ![w] = to],
             from \notin Announcing, from # "idle", to # "idle",
             to \in Handling => from \in Handling,
             UNCHANGED <<running, msg, clients_mutex, cursor>>
      PROVE  PlaceInv'
  BY <1>3
<1>4. ASSUME NEW w \in Worker,
             \/ Handshake(w) \/ Register(w) \/ ReceiveNothing(w)
             \/ Unregister(w) \/ Close(w)
      PROVE  PlaceInv'
  <2>1. UNCHANGED <<running, msg, clients_mutex, cursor>>
    BY <1>4 DEF Handshake, Register, ReceiveNothing, Unregister, Close
  <2>2. PICK from \in {"request", "register", "receive", "unregister", "close"},
             to \in {"spawned", "receive", "unregister", "close", "terminated"} :
           at[w] = from /\ at' = [at EXCEPT ![w] = to]
    BY <1>4 DEF Handshake, Register, ReceiveNothing, Unregister, Close
  <2> QED BY <1>3, <2>1, <2>2 DEF Place
<1>5. ASSUME NEW w \in Worker, ExecuteReturns(w) PROVE PlaceInv'
  <2>1. /\ UNCHANGED <<running, msg, clients_mutex, cursor>>
        /\ at[w] = "execute" /\ at' = [at EXCEPT ![w] = "outcome"]
    BY <1>5 DEF ExecuteReturns
  <2> QED BY <1>3, <2>1 DEF Place
<1>6. ASSUME NEW w \in Worker, Refuse(w) PROVE PlaceInv'
  BY <1>6 DEF Refuse, Pool!Finish
<1>7. ASSUME NEW w \in Worker, Receive(w) PROVE PlaceInv'
  <2>1. Late(running[w]) /\ wire[running[w]] # <<>>
    BY <1>7 DEF Receive, PeerInv
  <2>2. Head(wire[running[w]]) \in Msg
    BY <2>1 DEF Late
  <2>3. /\ UNCHANGED <<running, clients_mutex, cursor>> /\ at[w] = "receive"
        /\ msg' = [msg EXCEPT ![w] = Head(wire[running[w]])]
        /\ at' = [at EXCEPT ![w] = "begin"]
    BY <1>7 DEF Receive
  <2> QED BY <2>2, <2>3
<1>8. ASSUME NEW w \in Worker, BroadcastLock(w) PROVE PlaceInv'
  BY <1>8 DEF BroadcastLock
<1>9. ASSUME NEW w \in Worker, BroadcastSend(w) PROVE PlaceInv'
  <2>1. /\ UNCHANGED <<running, at, msg, clients_mutex>>
        /\ clients_mutex = w /\ cursor' = cursor + 1
    BY <1>9 DEF BroadcastSend
  <2> QED BY <2>1
<1>10. ASSUME NEW w \in Worker, BroadcastUnlock(w) PROVE PlaceInv'
  <2>1. /\ clients_mutex' = Nobody /\ cursor' = 0
        /\ at[w] \in Announcing /\ at' = [at EXCEPT ![w] = After[at[w]]]
        /\ msg' = IF at[w] \in {"chat", "terminated"}
                  THEN [msg EXCEPT ![w] = NoMsg] ELSE msg
    BY <1>10 DEF BroadcastUnlock
  <2>2. CASE at[w] = "terminated"
    <3>1. running' = [running EXCEPT ![w] = NoSocket] /\ at'[w] = "idle"
      BY <1>10, <2>1, <2>2 DEF BroadcastUnlock, Pool!Finish
    <3> QED BY <2>1, <2>2, <3>1
  <2>3. CASE at[w] # "terminated"
    <3>1. running' = running
      BY <1>10, <2>3 DEF BroadcastUnlock
    <3>2. After[at[w]] # "idle"
      BY <2>1, <2>3
    <3>3. at[w] \in {"spawned", "chat"} => After[at[w]] \notin Handling
      OBVIOUS
    <3>4. at[w] \notin {"spawned", "chat"} => at[w] \in Handling /\ msg' = msg
      BY <2>1, <2>3
    <3>5. \A v \in Worker : at'[v] \in Handling => msg'[v] \in Msg
      <4>1. SUFFICES ASSUME NEW v \in Worker, at'[v] \in Handling
                     PROVE  msg'[v] \in Msg
        OBVIOUS
      <4>2. CASE v = w
        BY <2>1, <3>3, <3>4, <4>1, <4>2
      <4>3. CASE v # w
        BY <2>1, <4>1, <4>3
      <4> QED BY <4>2, <4>3
    <3> QED BY <2>1, <3>1, <3>2, <3>5
  <2> QED BY <2>2, <2>3
<1> QED BY <1>1, <1>2, <1>4, <1>5, <1>6, <1>7, <1>8, <1>9, <1>10
        DEF Next, HandlerStep

------------------------------------------------------------------------------
LEMMA NextOwner == ServerInv /\ [Next]_vars => SocketHasOneOwner'
<1> SUFFICES ASSUME ServerTypeOK, PlaceInv, SocketHasOneOwner, [Next]_vars
             PROVE  SocketHasOneOwner'
  BY DEF ServerInv
<1> USE AfterBroadcast, HandleAssumption DEF ServerTypeOK, Goto
<1>1. ASSUME UNCHANGED <<queue, sock>>,
             \A v \in Worker, s \in Socket : Owns(v, s)' <=> Owns(v, s)
      PROVE  SocketHasOneOwner'
  BY <1>1 DEF SocketHasOneOwner
<1>2. ASSUME NEW w \in Worker, NEW from \in Place, NEW to \in Place,
             UNCHANGED <<queue, sock, running>>,
             at[w] = from, at' = [at EXCEPT ![w] = to],
             from \in {"idle", "terminated"} <=> to \in {"idle", "terminated"}
      PROVE  SocketHasOneOwner'
  BY <1>1, <1>2 DEF Owns
<1>3. CASE \/ UNCHANGED vars
           \/ \E s \in Socket : PeerStep(s)
           \/ \E w \in Worker : \/ Execute(w)
                                \/ BroadcastLock(w)
                                \/ BroadcastSend(w)
  <2>1. UNCHANGED <<queue, sock, running, at>>
    BY <1>3 DEF vars, pool, handler, network, PeerStep, Request, SendFrame,
                Disconnect, Stall, Resume, Execute, BroadcastLock, BroadcastSend
  <2> QED BY <1>1, <2>1 DEF Owns
<1>4. ASSUME NEW w \in Worker,
             \/ Handshake(w) \/ Register(w) \/ Receive(w) \/ ReceiveNothing(w)
             \/ ExecuteReturns(w) \/ Unregister(w)
      PROVE  SocketHasOneOwner'
  <2>1. UNCHANGED <<queue, sock, running>>
    BY <1>4 DEF Handshake, Register, Receive, ReceiveNothing, ExecuteReturns,
                Unregister, pool, network
  <2>2. PICK from \in {"request", "register", "receive", "execute", "unregister"},
             to \in {"spawned", "receive", "begin", "unregister", "outcome",
                     "close"} :
           at[w] = from /\ at' = [at EXCEPT ![w] = to]
    BY <1>4 DEF Handshake, Register, Receive, ReceiveNothing, ExecuteReturns,
                Unregister
  <2>3. from \in Place /\ to \in Place
    BY <2>2 DEF Place
  <2> QED BY <1>2, <2>1, <2>2, <2>3
<1>5. ASSUME NEW s \in Socket, Accept(s) PROVE SocketHasOneOwner'
  <2>1. /\ ~sock[s] /\ queue' = Append(queue, s)
        /\ sock' = [sock EXCEPT ![s] = TRUE] /\ UNCHANGED <<running, at>>
    BY <1>5 DEF Accept, Pool!Submit, handler
  <2>2. s \notin ToSet(queue) /\ \A w \in Worker : ~Owns(w, s)
    BY <2>1 DEF SocketHasOneOwner
  <2>3. IsInjective(queue') /\ ToSet(queue') = ToSet(queue) \cup {s}
    BY <2>1, <2>2, AppendNew DEF SocketHasOneOwner
  <2> QED BY <2>1, <2>2, <2>3 DEF SocketHasOneOwner, Owns
<1>6. ASSUME NEW w \in Worker, StartHandler(w) PROVE SocketHasOneOwner'
  <2>1. /\ queue # <<>> /\ running[w] = NoSocket
        /\ queue' = Tail(queue)
        /\ running' = [running EXCEPT ![w] = Head(queue)]
        /\ at' = [at EXCEPT ![w] = "request"] /\ sock' = sock
    BY <1>6 DEF StartHandler, Pool!Start, network
  <2>2. /\ IsInjective(queue') /\ Head(queue) \in ToSet(queue)
        /\ ToSet(queue') = ToSet(queue) \ {Head(queue)}
    BY <2>1, TakeFirst DEF SocketHasOneOwner
  <2>3. \A v \in Worker, s \in Socket :
          Owns(v, s)' <=> Owns(v, s) \/ (v = w /\ s = Head(queue))
    BY <2>1 DEF Owns
  <2>4. \A s \in Socket : s \in ToSet(queue') <=> s \in ToSet(queue) /\ s # Head(queue)
    BY <2>2
  <2>5. \A v \in Worker : ~Owns(v, Head(queue))
    BY <2>1, <2>2 DEF SocketHasOneOwner, Owns
  <2>6. \A v \in Worker, s \in Socket : Owns(v, s)' => s \notin ToSet(queue')
    BY <2>3, <2>4 DEF SocketHasOneOwner
  <2>7. \A u, v \in Worker, s \in Socket : Owns(u, s)' /\ Owns(v, s)' => u = v
    <3> SUFFICES ASSUME NEW u \in Worker, NEW v \in Worker, NEW s \in Socket,
                        Owns(u, s)', Owns(v, s)'
                 PROVE  u = v
      OBVIOUS
    <3>1. /\ Owns(u, s) \/ (u = w /\ s = Head(queue))
          /\ Owns(v, s) \/ (v = w /\ s = Head(queue))
      BY <2>3
    <3>2. Owns(u, s) /\ Owns(v, s) => u = v
      BY DEF SocketHasOneOwner
    <3>3. s = Head(queue) => ~Owns(u, s) /\ ~Owns(v, s)
      BY <2>5
    <3> QED BY <3>1, <3>2, <3>3
  <2>8. \A s \in Socket :
          sock[s] <=> s \in ToSet(queue') \/ \E v \in Worker : Owns(v, s)'
    BY <2>2, <2>3, <2>4 DEF SocketHasOneOwner
  <2> QED BY <2>1, <2>2, <2>6, <2>7, <2>8 DEF SocketHasOneOwner
<1>7. ASSUME NEW w \in Worker, Owns(w, running[w]), running[w] \in Socket,
             sock' = [sock EXCEPT ![running[w]] = FALSE], queue' = queue,
             \A v \in Worker, s \in Socket :
               Owns(v, s)' <=> Owns(v, s) /\ v # w
      PROVE  SocketHasOneOwner'
  <2>1. running[w] \notin ToSet(queue)
    BY <1>7 DEF SocketHasOneOwner
  <2>2. \A v \in Worker : v # w => ~Owns(v, running[w])
    BY <1>7 DEF SocketHasOneOwner
  <2>3. \A s \in Socket : Owns(w, s) => s = running[w]
    BY DEF Owns
  <2>4. \A s \in Socket :
          sock'[s] <=> s \in ToSet(queue) \/ \E v \in Worker : Owns(v, s)'
    BY <1>7, <2>1, <2>2, <2>3 DEF SocketHasOneOwner
  <2> QED BY <1>7, <2>4 DEF SocketHasOneOwner
<1>8. ASSUME NEW w \in Worker, Refuse(w) \/ Close(w) PROVE SocketHasOneOwner'
  <2>1. /\ sock' = [sock EXCEPT ![running[w]] = FALSE] /\ queue' = queue
        /\ at[w] \in {"request", "close"}
    BY <1>8 DEF Refuse, Close, CloseSocket, Pool!Finish, pool
  <2>2. running[w] \in Socket /\ Owns(w, running[w])
    BY <2>1 DEF PlaceInv, Owns
  <2>3. /\ \/ at' = [at EXCEPT ![w] = "idle"]
           \/ at' = [at EXCEPT ![w] = "terminated"]
        /\ \A v \in Worker : v # w => running'[v] = running[v]
    BY <1>8 DEF Refuse, Close, Pool!Finish, pool
  <2>4. \A v \in Worker, s \in Socket : Owns(v, s)' <=> Owns(v, s) /\ v # w
    BY <2>3 DEF Owns
  <2> QED BY <1>7, <2>1, <2>2, <2>4
<1>9. ASSUME NEW w \in Worker, BroadcastUnlock(w) PROVE SocketHasOneOwner'
  <2>1. /\ at[w] \in Announcing /\ at' = [at EXCEPT ![w] = After[at[w]]]
        /\ UNCHANGED <<queue, sock>>
    BY <1>9 DEF BroadcastUnlock, Pool!Finish, pool, network, PlaceInv
  <2>2. CASE at[w] = "terminated"
    <3>1. running' = [running EXCEPT ![w] = NoSocket]
      BY <1>9, <2>2 DEF BroadcastUnlock, Pool!Finish
    <3>2. \A v \in Worker, s \in Socket : Owns(v, s)' <=> Owns(v, s)
      BY <2>1, <2>2, <3>1 DEF Owns
    <3> QED BY <1>1, <2>1, <3>2
  <2>3. CASE at[w] # "terminated"
    <3>1. running' = running
      BY <1>9, <2>3 DEF BroadcastUnlock, pool
    <3>2. /\ at[w] \notin {"idle", "terminated"}
          /\ After[at[w]] \notin {"idle", "terminated"}
      BY <2>1, <2>3
    <3>3. \A v \in Worker, s \in Socket : Owns(v, s)' <=> Owns(v, s)
      BY <2>1, <3>1, <3>2 DEF Owns
    <3> QED BY <1>1, <2>1, <3>3
  <2> QED BY <2>2, <2>3
<1> QED BY <1>3, <1>4, <1>5, <1>6, <1>8, <1>9 DEF Next, HandlerStep

(* What is left on the wire of a request that was cut, after its recv *)
LEMMA RestOfRequest ==
  ASSUME NEW S, NEW T, NEW q \in Seq(S), q # <<>>, Tail(q) \in Seq(T),
         NEW n \in 1..Len(q)
  PROVE  SubSeq(q, n + 1, Len(q)) \in Seq(T)
<1>1. /\ Len(q) \in Nat \ {0} /\ Len(Tail(q)) = Len(q) - 1
      /\ \A i \in 1..Len(q) - 1 : Tail(q)[i] = q[i + 1]
  BY HeadTailProperties, LenProperties, EmptySeq
<1>2. \A i \in 1..Len(q) - 1 : Tail(q)[i] \in T
  BY <1>1, LenProperties
<1>3. \A j \in n + 1..Len(q) : q[j] \in T
  <2>1. ASSUME NEW j \in n + 1..Len(q) PROVE q[j] \in T
    <3>1. j - 1 \in 1..Len(q) - 1 /\ (j - 1) + 1 = j
      BY <1>1
    <3> QED BY <1>1, <1>2, <3>1
  <2> QED BY <2>1
<1>4. n + 1 \in Int /\ Len(q) \in Int
  BY <1>1
<1> QED BY <1>3, <1>4, SubSeqProperties

LEMMA NextPeer == ServerInv /\ [Next]_vars => PeerInv'
<1> SUFFICES ASSUME ServerTypeOK, PlaceInv, SocketHasOneOwner, PeerInv,
                    [Next]_vars
             PROVE  PeerInv'
  BY DEF ServerInv
<1> DEFINE Elsewhere == {"idle", "request", "terminated"}
<1> USE AfterBroadcast, HandleAssumption DEF ServerTypeOK, Goto
(* A step that moves one handler *)
<1>1. ASSUME NEW w \in Worker, NEW from \in Place, NEW to \in Place,
             UNCHANGED <<queue, running, sock, peer, wire>>,
             at[w] = from, at' = [at EXCEPT ![w] = to],
             from \notin Elsewhere, to # "request"
      PROVE  PeerInv'
  BY <1>1 DEF PeerInv, Early, Late
<1>2. CASE \/ UNCHANGED vars
           \/ \E s \in Socket : Stall(s) \/ Resume(s)
           \/ \E w \in Worker : \/ Execute(w)
                                \/ BroadcastLock(w)
                                \/ BroadcastSend(w)
  <2>1. UNCHANGED <<queue, running, sock, peer, wire, at>>
    BY <1>2 DEF vars, pool, handler, network, Stall, Resume, Execute,
                BroadcastLock, BroadcastSend
  <2> QED BY <2>1 DEF PeerInv, Early, Late
<1>3. ASSUME NEW w \in Worker,
             \/ Register(w) \/ ReceiveNothing(w) \/ ExecuteReturns(w)
             \/ Unregister(w)
      PROVE  PeerInv'
  <2>1. UNCHANGED <<queue, running, sock, peer, wire>>
    BY <1>3 DEF Register, ReceiveNothing, ExecuteReturns, Unregister, pool,
                network
  <2>2. PICK from \in {"register", "receive", "execute", "unregister"},
             to \in {"receive", "unregister", "outcome", "close"} :
           at[w] = from /\ at' = [at EXCEPT ![w] = to]
    BY <1>3 DEF Register, ReceiveNothing, ExecuteReturns, Unregister
  <2>3. from \in Place /\ to \in Place
    BY <2>2 DEF Place
  <2> QED BY <1>1, <2>1, <2>2, <2>3
<1>4. ASSUME NEW w \in Worker, BroadcastUnlock(w) PROVE PeerInv'
  <2>1. /\ at[w] \in Announcing /\ at' = [at EXCEPT ![w] = After[at[w]]]
        /\ UNCHANGED <<queue, sock, peer, wire>>
    BY <1>4 DEF BroadcastUnlock, Pool!Finish, pool, network, PlaceInv
  <2>2. CASE at[w] = "terminated"
    <3>1. running' = [running EXCEPT ![w] = NoSocket]
      BY <1>4, <2>2 DEF BroadcastUnlock, Pool!Finish
    <3>2. at' = [at EXCEPT ![w] = "idle"]
      BY <2>1, <2>2
    <3> QED BY <2>1, <3>1, <3>2 DEF PeerInv, Early, Late
  <2>3. CASE at[w] # "terminated"
    <3>1. running' = running
      BY <1>4, <2>3 DEF BroadcastUnlock, pool
    <3>2. at[w] \notin Elsewhere /\ After[at[w]] # "request"
      BY <2>1, <2>3
    <3>3. After[at[w]] \in Place /\ at[w] \in Place
      BY <2>1 DEF Place
    <3> QED BY <1>1, <2>1, <3>1, <3>2, <3>3
  <2> QED BY <2>2, <2>3
<1>5. ASSUME NEW w \in Worker, StartHandler(w) PROVE PeerInv'
  <2>1. /\ queue # <<>> /\ queue' = Tail(queue)
        /\ running' = [running EXCEPT ![w] = Head(queue)]
        /\ at' = [at EXCEPT ![w] = "request"] /\ UNCHANGED <<sock, peer, wire>>
    BY <1>5 DEF StartHandler, Pool!Start, network
  <2>2. Head(queue) \in ToSet(queue) /\ ToSet(queue') \subseteq ToSet(queue)
    BY <2>1, TakeFirst DEF SocketHasOneOwner
  <2> QED BY <2>1, <2>2 DEF PeerInv, Early, Late
(* The peers' own steps *)
<1>6. ASSUME NEW s \in Socket, Request(s) PROVE PeerInv'
  <2>1. /\ peer[s] = "connected" /\ peer' = [peer EXCEPT ![s] = "asked"]
        /\ UNCHANGED <<queue, running, at, sock>>
    BY <1>6 DEF Request, pool, handler
  <2>2. PICK q : wire' = [wire EXCEPT ![s] = q] /\ Tail(q) \in Seq(Msg)
    <3>1. \A r \in {"upgrade", "plain"} : Tail(<<r>>) \in Seq(Msg)
      OBVIOUS
    <3>2. \A m \in Rest : Tail(<<"upgrade", m>>) \in Seq(Msg)
      BY PayloadAssumption
    <3> QED BY <1>6, <3>1, <3>2 DEF Request
  <2>3. \A v \in Worker : at[v] \notin Elsewhere => running[v] # s
    BY <2>1 DEF PeerInv, Late
  <2>4. /\ wire'[s] = q
        /\ \A t \in Socket : t # s => wire'[t] = wire[t] /\ peer'[t] = peer[t]
    BY <2>1, <2>2
  <2>5. peer'[s] = "asked" /\ sock[s]
    BY <2>1 DEF PeerInv
  <2>6. \A t \in Socket : Early(t) => Early(t)'
    BY <2>2, <2>4, <2>5 DEF Early
  <2>7. /\ ToSet(queue) \subseteq Socket
        /\ \A v \in Worker : at[v] # "idle" => running[v] \in Socket
    BY DEF ToSet, PlaceInv
  <2> HIDE DEF ServerTypeOK
  <2>8. /\ (\A t \in Socket : ~sock[t] => peer[t] = "none")'
        /\ (\A t \in Socket : peer[t] \in {"none", "connected"}
                                => wire[t] = <<>>)'
    BY <2>1, <2>4, <2>5 DEF PeerInv
  <2>9. (\A t \in ToSet(queue) : Early(t))'
    BY <2>1, <2>6, <2>7 DEF PeerInv
  <2>10. (\A v \in Worker : at[v] = "request" => Early(running[v]))'
    BY <2>1, <2>6, <2>7 DEF PeerInv, Early
  <2>11. (\A v \in Worker : at[v] \notin Elsewhere => Late(running[v]))'
    BY <2>1, <2>3, <2>4, <2>7 DEF PeerInv, Late
  <2> QED BY <2>8, <2>9, <2>10, <2>11 DEF PeerInv
<1>7. ASSUME NEW s \in Socket, NEW m \in Msg, SendFrame(s, m) PROVE PeerInv'
  <2>1. /\ peer[s] = "talking"
        /\ peer' = [peer EXCEPT ![s] = IF m \in CloseFrame THEN "closing"
                                       ELSE peer[s]]
        /\ wire' = [wire EXCEPT ![s] = Append(wire[s], m)]
        /\ UNCHANGED <<queue, running, at, sock>>
    BY <1>7 DEF SendFrame, pool, handler
  <2>2. /\ s \notin ToSet(queue) /\ sock[s]
        /\ \A v \in Worker : at[v] = "request" => running[v] # s
    BY <2>1 DEF PeerInv, Early
  <2>3. wire[s] \in Seq(Msg) => Append(wire[s], m) \in Seq(Msg)
    OBVIOUS
  <2>4. peer'[s] \in {"talking", "closing"}
    BY <2>1
  <2>5. (\A v \in Worker : at[v] \notin Elsewhere => Late(running[v]))'
    <3>1. SUFFICES ASSUME NEW v \in Worker, at[v] \notin Elsewhere
                   PROVE  /\ peer'[running[v]] \in {"talking", "closing", "down"}
                          /\ wire'[running[v]] \in Seq(Msg)
      BY <2>1 DEF Late
    <3>2. running[v] \in Socket
      BY <3>1 DEF PlaceInv
    <3>3. Late(running[v])
      BY <3>1 DEF PeerInv
    <3>4. CASE running[v] = s
      BY <2>1, <2>3, <2>4, <3>3, <3>4 DEF Late
    <3>5. CASE running[v] # s
      BY <2>1, <3>2, <3>3, <3>5 DEF Late
    <3> QED BY <3>4, <3>5
  <2>6. /\ (\A t \in Socket : ~sock[t] => peer[t] = "none")'
        /\ (\A t \in Socket : peer[t] \in {"none", "connected"}
                                => wire[t] = <<>>)'
    BY <2>1, <2>2, <2>4 DEF PeerInv
  <2>7. \A t \in Socket : t # s => (Early(t) => Early(t)')
    BY <2>1 DEF Early
  <2>8. /\ (\A t \in ToSet(queue) : Early(t))'
        /\ (\A v \in Worker : at[v] = "request" => Early(running[v]))'
    <3>1. ToSet(queue) \subseteq Socket
      BY DEF ToSet
    <3>2. \A v \in Worker : at[v] = "request" => running[v] \in Socket
      BY DEF PlaceInv
    <3>3. UNCHANGED <<queue, running, at>>
      BY <2>1
    <3> HIDE DEF ServerTypeOK
    <3> QED BY <2>2, <2>7, <3>1, <3>2, <3>3 DEF PeerInv, Early
  <2> QED BY <2>5, <2>6, <2>8 DEF PeerInv
<1>8. ASSUME NEW s \in Socket, Disconnect(s) PROVE PeerInv'
  <2>1. /\ Alive(s) /\ peer' = [peer EXCEPT ![s] = "down"]
        /\ wire' = wire \/ wire' = [wire EXCEPT ![s] = <<>>]
        /\ UNCHANGED <<queue, running, at, sock>>
    BY <1>8 DEF Disconnect, pool, handler
  <2>2. peer[s] # "none" /\ peer'[s] = "down" /\ <<>> \in Seq(Msg)
    BY <2>1 DEF Alive
  <2>3. \A t \in Socket : /\ t # s => peer'[t] = peer[t] /\ wire'[t] = wire[t]
                          /\ wire'[t] \in {wire[t], <<>>}
    BY <2>1
  <2>4. \A t \in Socket : /\ Early(t) => Early(t)'
                          /\ Late(t) => Late(t)'
    BY <2>2, <2>3 DEF Early, Late
  <2>5. /\ ToSet(queue) \subseteq Socket
        /\ \A v \in Worker : at[v] # "idle" => running[v] \in Socket
    BY DEF ToSet, PlaceInv
  <2>6. UNCHANGED <<queue, running, at, sock>>
    BY <2>1
  <2> HIDE DEF ServerTypeOK
  <2> QED BY <2>2, <2>3, <2>4, <2>5, <2>6 DEF PeerInv, Early, Late
(* The server's steps on a socket that is one handler's, or nobody's *)
<1>9. ASSUME NEW s \in Socket, Accept(s) PROVE PeerInv'
  <2>1. /\ ~sock[s] /\ queue' = Append(queue, s)
        /\ sock' = [sock EXCEPT ![s] = TRUE]
        /\ peer' = [peer EXCEPT ![s] = "connected"]
        /\ UNCHANGED <<running, at, wire>>
    BY <1>9 DEF Accept, Pool!Submit, handler
  <2>2. s \notin ToSet(queue) /\ \A w \in Worker : ~Owns(w, s)
    BY <2>1 DEF SocketHasOneOwner
  <2>3. ToSet(queue') = ToSet(queue) \cup {s}
    BY <2>1, <2>2, AppendNew DEF SocketHasOneOwner
  <2>4. wire[s] = <<>>
    BY <2>1 DEF PeerInv
  <2>5. \A v \in Worker : at[v] \notin {"idle", "terminated"} => running[v] # s
    BY <2>2 DEF Owns
  <2> QED BY <2>1, <2>3, <2>4, <2>5 DEF PeerInv, Early, Late
<1>10. ASSUME NEW w \in Worker, Owns(w, running[w])
       PROVE  /\ running[w] \in Socket /\ running[w] \notin ToSet(queue)
              /\ \A v \in Worker \ {w} :
                   at[v] \notin {"idle", "terminated"} => running[v] # running[w]
  BY <1>10 DEF SocketHasOneOwner, PlaceInv, Owns
<1>11. ASSUME NEW w \in Worker, Handshake(w) PROVE PeerInv'
  <2>1. /\ at[w] = "request" /\ wire[running[w]] # <<>>
        /\ peer' = [peer EXCEPT ![running[w]] =
                      IF peer[running[w]] = "asked" THEN "talking"
                      ELSE peer[running[w]]]
        /\ at' = [at EXCEPT ![w] = "spawned"]
        /\ UNCHANGED <<queue, running, sock>>
    BY <1>11 DEF Handshake, Asks, pool
  <2>2. Owns(w, running[w])
    BY <2>1 DEF Owns
  <2>3. running[w] \in Socket /\ Early(running[w])
    BY <1>10, <2>1, <2>2 DEF PeerInv
  <2>4. peer[running[w]] \in {"asked", "down"} /\ sock[running[w]]
    BY <2>1, <2>3 DEF PeerInv, Early
  <2>5. PICK n \in 1..Len(wire[running[w]]) :
          wire' = [wire EXCEPT ![running[w]] =
                     SubSeq(wire[running[w]], n + 1, Len(wire[running[w]]))]
    BY <1>11 DEF Handshake
  <2>6. /\ peer'[running[w]] \in {"talking", "down"}
        /\ wire'[running[w]] \in Seq(Msg)
    <3>1. SubSeq(wire[running[w]], n + 1, Len(wire[running[w]])) \in Seq(Msg)
      BY <2>1, <2>3, RestOfRequest DEF Early
    <3> QED BY <2>1, <2>3, <2>4, <2>5, <3>1
  <2>7. \A s \in Socket \ {running[w]} : UNCHANGED <<peer[s], wire[s]>>
    BY <2>1, <2>5
  <2>8. /\ ToSet(queue) \subseteq Socket \ {running[w]}
        /\ \A v \in Worker \ {w} : at[v] \notin {"idle", "terminated"} =>
             running[v] \in Socket \ {running[w]}
    BY <1>10, <2>2 DEF ToSet, PlaceInv
  <2>9. /\ UNCHANGED <<queue, running, sock>>
        /\ at'[w] = "spawned" /\ \A v \in Worker \ {w} : at'[v] = at[v]
    BY <2>1
  <2> HIDE DEF ServerTypeOK
  <2>10. /\ (\A s \in Socket : ~sock[s] => peer[s] = "none")'
         /\ (\A s \in Socket : peer[s] \in {"none", "connected"}
                                 => wire[s] = <<>>)'
    BY <2>4, <2>6, <2>7, <2>9 DEF PeerInv
  <2>11. (\A s \in ToSet(queue) : Early(s))'
    BY <2>7, <2>8, <2>9 DEF PeerInv, Early
  <2>12. (\A v \in Worker : at[v] = "request" => Early(running[v]))'
    BY <2>7, <2>8, <2>9 DEF PeerInv, Early
  <2>13. (\A v \in Worker : at[v] \notin Elsewhere => Late(running[v]))'
    BY <2>6, <2>7, <2>8, <2>9 DEF PeerInv, Late
  <2> QED BY <2>10, <2>11, <2>12, <2>13 DEF PeerInv
<1>12. ASSUME NEW w \in Worker, Refuse(w) \/ Close(w) PROVE PeerInv'
  <2>1. /\ CloseSocket(running[w]) /\ queue' = queue
        /\ at[w] \in {"request", "close"}
    BY <1>12 DEF Refuse, Close, Pool!Finish, pool
  <2>2. Owns(w, running[w])
    BY <2>1 DEF Owns
  <2>3. /\ \/ at' = [at EXCEPT ![w] = "idle"]
           \/ at' = [at EXCEPT ![w] = "terminated"]
        /\ \A v \in Worker : v # w => running'[v] = running[v]
    BY <1>12 DEF Refuse, Close, Pool!Finish, pool
  <2>4. /\ sock' = [sock EXCEPT ![running[w]] = FALSE]
        /\ peer' = [peer EXCEPT ![running[w]] = "none"]
        /\ wire' = [wire EXCEPT ![running[w]] = <<>>]
    BY <2>1 DEF CloseSocket
  <2>5. \A v \in Worker : at'[v] \notin {"idle", "terminated"} =>
          /\ at'[v] = at[v] /\ running'[v] = running[v]
          /\ running[v] \in Socket \ {running[w]}
    <3>1. SUFFICES ASSUME NEW v \in Worker, at'[v] \notin {"idle", "terminated"}
                   PROVE  /\ at'[v] = at[v] /\ running'[v] = running[v]
                          /\ running[v] \in Socket \ {running[w]}
      OBVIOUS
    <3>2. v # w /\ at'[v] = at[v]
      BY <2>3, <3>1
    <3> QED BY <1>10, <2>2, <2>3, <3>1, <3>2 DEF PlaceInv
  <2>6. \A s \in Socket \ {running[w]} :
          UNCHANGED <<sock[s], peer[s], wire[s]>>
    BY <2>4
  <2>7. \A s \in ToSet(queue) : s \in Socket \ {running[w]}
    BY <1>10, <2>2 DEF ToSet
  <2> QED BY <1>10, <2>1, <2>2, <2>4, <2>5, <2>6, <2>7 DEF PeerInv, Early, Late
<1>13. ASSUME NEW w \in Worker, Receive(w) PROVE PeerInv'
  <2>1. /\ at[w] = "receive" /\ at' = [at EXCEPT ![w] = "begin"]
        /\ UNCHANGED <<queue, running, sock, peer>>
    BY <1>13 DEF Receive, pool
  <2>2. running[w] \in Socket
    BY <2>1 DEF PlaceInv
  <2>3. Late(running[w])
    BY <2>1 DEF PeerInv
  <2>4. PICK n \in 1..Len(wire[running[w]]) :
          wire' = [wire EXCEPT ![running[w]] =
                     SubSeq(wire[running[w]], n + 1, Len(wire[running[w]]))]
    BY <1>13 DEF Receive
  <2>5. SubSeq(wire[running[w]], n + 1, Len(wire[running[w]])) \in Seq(Msg)
    BY <2>3 DEF Late
  <2>6. wire'[running[w]] \in Seq(Msg)
    BY <2>2, <2>4, <2>5
  <2>7. \A s \in Socket : s # running[w] => wire'[s] = wire[s]
    BY <2>4
  <2>8. \A s \in Socket : /\ Early(s) => Early(s)'
                          /\ Late(s) => Late(s)'
    <3>1. wire'[running[w]] # <<>> => Tail(wire'[running[w]]) \in Seq(Msg)
      BY <2>6
    <3> QED BY <2>1, <2>6, <2>7, <3>1 DEF Early, Late
  <2>9. /\ ToSet(queue) \subseteq Socket
        /\ \A v \in Worker : at[v] # "idle" => running[v] \in Socket
    BY DEF ToSet, PlaceInv
  <2>10. /\ at'[w] \notin Elsewhere /\ at[w] \notin Elsewhere
         /\ \A v \in Worker : v # w => at'[v] = at[v]
    BY <2>1
  <2>11. UNCHANGED <<queue, running, sock, peer>>
    BY <2>1
  <2>12. peer[running[w]] \notin {"none", "connected"}
    BY <2>3 DEF Late
  <2> HIDE DEF ServerTypeOK
  <2>13. /\ (\A s \in Socket : ~sock[s] => peer[s] = "none")'
         /\ (\A s \in Socket : peer[s] \in {"none", "connected"}
                                 => wire[s] = <<>>)'
    BY <2>7, <2>11, <2>12 DEF PeerInv
  <2>14. (\A s \in ToSet(queue) : Early(s))'
    BY <2>8, <2>9, <2>11 DEF PeerInv
  <2>15. (\A v \in Worker : at[v] = "request" => Early(running[v]))'
    <3>1. \A v \in Worker : at'[v] = "request" => at[v] = "request"
      BY <2>10
    <3>2. \A v \in Worker : at'[v] = "request" => Early(running[v])'
      BY <2>8, <2>9, <2>11, <3>1 DEF PeerInv, Early
    <3> QED BY <3>2
  <2>16. (\A v \in Worker : at[v] \notin Elsewhere => Late(running[v]))'
    <3>1. \A v \in Worker : at'[v] \notin Elsewhere => at[v] \notin Elsewhere
      BY <2>10
    <3>2. \A v \in Worker : at'[v] \notin Elsewhere => Late(running[v])'
      BY <2>8, <2>9, <2>11, <3>1 DEF PeerInv, Late
    <3> QED BY <3>2
  <2> QED BY <2>13, <2>14, <2>15, <2>16 DEF PeerInv
<1> QED BY <1>2, <1>3, <1>4, <1>5, <1>6, <1>7, <1>8, <1>9, <1>11, <1>12, <1>13
        DEF Next, PeerStep, HandlerStep

------------------------------------------------------------------------------
(* A step that neither registers nor unregisters *)
LEMMA ListKept ==
  ASSUME ListIsExact, connected_clients' = connected_clients,
         \A v \in Worker : /\ Registered(v)' <=> Registered(v)
                           /\ Registered(v) => running'[v] = running[v],
         \A s \in Listed : /\ sock'[s] = sock[s]
                           /\ peer'[s] \in {"talking", "closing", "down"}
  PROVE  ListIsExact'
<1>1. Listed' = Listed
  BY DEF Listed
<1>2. ASSUME NEW s
      PROVE  (\E v \in Worker : Registered(v)' /\ running'[v] = s)
               <=> (\E v \in Worker : Registered(v) /\ running[v] = s)
  OBVIOUS
<1>3. {running[w] : w \in {v \in Worker : Registered(v)}}'
        = {running[w] : w \in {v \in Worker : Registered(v)}}
  BY <1>2
<1>4. Listed' = {running[w] : w \in {v \in Worker : Registered(v)}}'
  BY <1>1, <1>3 DEF ListIsExact
<1> QED BY <1>1, <1>4 DEF ListIsExact

LEMMA NextList == ServerInv /\ [Next]_vars => ListIsExact'
<1> SUFFICES ASSUME ServerTypeOK, PlaceInv, SocketHasOneOwner, PeerInv,
                    ListIsExact, [Next]_vars
             PROVE  ListIsExact'
  BY DEF ServerInv
<1> USE AfterBroadcast, HandleAssumption DEF ServerTypeOK, Goto
<1>1. /\ Listed \subseteq Socket
      /\ \A s \in Listed : /\ sock[s]
                           /\ peer[s] \in {"talking", "closing", "down"}
  BY DEF ListIsExact, Listed, ToSet
<1>2. CASE \/ UNCHANGED vars
           \/ \E s \in Socket : Accept(s) \/ PeerStep(s)
           \/ \E w \in Worker : \/ Execute(w)
                                \/ BroadcastLock(w)
                                \/ BroadcastSend(w)
  <2>1. UNCHANGED <<connected_clients, running, at>>
    BY <1>2 DEF vars, pool, handler, clients, Accept, PeerStep, Request,
                SendFrame, Disconnect, Stall, Resume, Execute, BroadcastLock,
                BroadcastSend
  <2>2. \A s \in Listed : /\ sock'[s] = sock[s]
                          /\ peer'[s] \in {"talking", "closing", "down"}
    <3>1. ASSUME NEW t \in Socket, Accept(t) \/ Request(t)
          PROVE  /\ sock' \in {sock, [sock EXCEPT ![t] = TRUE]}
                 /\ peer' \in {[peer EXCEPT ![t] = "connected"],
                              [peer EXCEPT ![t] = "asked"]}
                 /\ t \notin Listed
      BY <1>1, <3>1 DEF Accept, Request
    <3>2. ASSUME NEW t \in Socket,
                 Disconnect(t) \/ \E m \in Msg : SendFrame(t, m)
          PROVE  /\ sock' = sock
                 /\ peer' \in {peer, [peer EXCEPT ![t] = "down"],
                              [peer EXCEPT ![t] = "closing"]}
      BY <3>2 DEF Disconnect, SendFrame
    <3>3. CASE \/ UNCHANGED vars
               \/ \E t \in Socket : Stall(t) \/ Resume(t)
               \/ \E w \in Worker : \/ Execute(w)
                                    \/ BroadcastLock(w)
                                    \/ BroadcastSend(w)
      <4>1. UNCHANGED <<sock, peer>>
        BY <3>3 DEF vars, network, Stall, Resume, Execute, BroadcastLock,
                    BroadcastSend
      <4> QED BY <1>1, <4>1
    <3>4. ASSUME NEW t \in Socket, Accept(t) \/ PeerStep(t)
          PROVE  \A s \in Listed : /\ sock'[s] = sock[s]
                                   /\ peer'[s] \in {"talking", "closing", "down"}
      BY <1>1, <3>1, <3>2, <3>3, <3>4 DEF PeerStep
    <3> QED BY <1>2, <3>3, <3>4
  <2> QED BY ListKept, <2>1, <2>2 DEF Registered
<1>3. ASSUME NEW w \in Worker, StartHandler(w) PROVE ListIsExact'
  <2>1. /\ UNCHANGED <<connected_clients, sock, peer>> /\ at[w] = "idle"
        /\ at' = [at EXCEPT ![w] = "request"]
        /\ running' = [running EXCEPT ![w] = Head(queue)]
    BY <1>3 DEF StartHandler, Pool!Start, PlaceInv, clients, network
  <2>2. \A v \in Worker : /\ Registered(v)' <=> Registered(v)
                          /\ Registered(v) => running'[v] = running[v]
    BY <2>1 DEF Registered
  <2> QED BY ListKept, <1>1, <2>1, <2>2
<1>4. ASSUME NEW w \in Worker,
             \/ Handshake(w) \/ Receive(w) \/ ReceiveNothing(w)
             \/ ExecuteReturns(w)
      PROVE  ListIsExact'
  <2>1. /\ UNCHANGED <<connected_clients, running, sock>>
        /\ \/ peer' = peer
           \/ peer' = [peer EXCEPT ![running[w]] =
                         IF peer[running[w]] = "asked" THEN "talking"
                         ELSE peer[running[w]]]
    BY <1>4 DEF Handshake, Receive, ReceiveNothing, ExecuteReturns, pool,
                clients, network
  <2>2. \A s \in Listed : peer'[s] \in {"talking", "closing", "down"}
    BY <1>1, <2>1
  <2>3. \/ at[w] = "request" /\ at' = [at EXCEPT ![w] = "spawned"]
        \/ at[w] = "receive" /\ at' = [at EXCEPT ![w] = "begin"]
        \/ at[w] = "receive" /\ at' = [at EXCEPT ![w] = "unregister"]
        \/ at[w] = "execute" /\ at' = [at EXCEPT ![w] = "outcome"]
    BY <1>4 DEF Handshake, Receive, ReceiveNothing, ExecuteReturns
  <2>4. \A v \in Worker : Registered(v)' <=> Registered(v)
    BY <2>3 DEF Registered
  <2> QED BY ListKept, <2>1, <2>2, <2>4
<1>5. ASSUME NEW w \in Worker, Refuse(w) \/ Close(w) PROVE ListIsExact'
  <2>1. /\ CloseSocket(running[w]) /\ at[w] \in {"request", "close"}
        /\ UNCHANGED connected_clients
    BY <1>5 DEF Refuse, Close, clients
  <2>2. running[w] \in Socket /\ Owns(w, running[w]) /\ ~Registered(w)
    BY <2>1 DEF PlaceInv, Owns, Registered
  <2>3. running[w] \notin Listed
    <3>1. SUFFICES ASSUME running[w] \in Listed PROVE FALSE
      OBVIOUS
    <3>2. PICK v \in Worker : Registered(v) /\ running[v] = running[w]
      BY <3>1 DEF ListIsExact
    <3>3. Owns(v, running[w])
      BY <3>2 DEF Registered, Owns
    <3> QED BY <2>2, <3>2, <3>3 DEF SocketHasOneOwner
  <2>4. /\ \/ at' = [at EXCEPT ![w] = "idle"]
           \/ at' = [at EXCEPT ![w] = "terminated"]
        /\ \A v \in Worker : v # w => running'[v] = running[v]
    BY <1>5 DEF Refuse, Close, Pool!Finish, pool
  <2>5. \A v \in Worker : /\ Registered(v)' <=> Registered(v)
                          /\ Registered(v) => running'[v] = running[v]
    BY <2>2, <2>4 DEF Registered
  <2>6. \A s \in Listed : /\ sock'[s] = sock[s]
                          /\ peer'[s] \in {"talking", "closing", "down"}
    BY <1>1, <2>1, <2>3 DEF CloseSocket
  <2> QED BY ListKept, <2>1, <2>5, <2>6
<1>6. ASSUME NEW w \in Worker, BroadcastUnlock(w) PROVE ListIsExact'
  <2>1. /\ at[w] \in Announcing /\ at' = [at EXCEPT ![w] = After[at[w]]]
        /\ UNCHANGED <<connected_clients, sock, peer>>
    BY <1>6 DEF BroadcastUnlock, network, PlaceInv
  <2>2. at[w] # "terminated" => running' = running
    BY <1>6 DEF BroadcastUnlock, pool
  <2>3. \A v \in Worker : v # w => running'[v] = running[v]
    BY <1>6 DEF BroadcastUnlock, pool, Pool!Finish
  <2>4. Registered(w)' <=> Registered(w)
    <3>1. at'[w] = After[at[w]]
      BY <2>1
    <3> QED BY <2>1, <3>1 DEF Registered
  <2>5. \A v \in Worker : v # w => (Registered(v)' <=> Registered(v))
    BY <2>1 DEF Registered
  <2>6. Registered(w) => running'[w] = running[w]
    BY <2>2 DEF Registered
  <2>7. \A v \in Worker : /\ Registered(v)' <=> Registered(v)
                          /\ Registered(v) => running'[v] = running[v]
    BY <2>3, <2>4, <2>5, <2>6
  <2> QED BY ListKept, <1>1, <2>1, <2>7
<1>7. ASSUME NEW w \in Worker, Register(w) PROVE ListIsExact'
  <2>1. /\ connected_clients' = Append(connected_clients, running[w])
        /\ at[w] = "register" /\ at' = [at EXCEPT ![w] = "receive"]
        /\ UNCHANGED <<running, sock, peer>>
    BY <1>7 DEF Register, pool, network
  <2>2. running[w] \in Socket /\ Owns(w, running[w]) /\ ~Registered(w)
    BY <2>1 DEF PlaceInv, Owns, Registered
  <2>3. running[w] \notin Listed
    <3>1. SUFFICES ASSUME running[w] \in Listed PROVE FALSE
      OBVIOUS
    <3>2. PICK v \in Worker : Registered(v) /\ running[v] = running[w]
      BY <3>1 DEF ListIsExact
    <3>3. Owns(v, running[w])
      BY <3>2 DEF Registered, Owns
    <3> QED BY <2>2, <3>2, <3>3 DEF SocketHasOneOwner
  <2>4. /\ IsInjective(connected_clients')
        /\ Listed' = Listed \cup {running[w]}
    BY <2>1, <2>2, <2>3, AppendNew DEF ListIsExact, Listed
  <2>5. \A v \in Worker : Registered(v)' <=> Registered(v) \/ v = w
    BY <2>1 DEF Registered
  <2>6. {running'[u] : u \in {v \in Worker : Registered(v)'}}
          = {running[u] : u \in {v \in Worker : Registered(v)}} \cup {running[w]}
    BY <2>1, <2>5
  <2>7. sock[running[w]] /\ peer[running[w]] \in {"talking", "closing", "down"}
    BY <2>1, <2>2 DEF SocketHasOneOwner, PeerInv, Late
  <2>8. (\A s \in Listed : sock[s] /\ peer[s] \in {"talking", "closing", "down"})'
    BY <1>1, <2>1, <2>4, <2>7
  <2>9. Listed' = {running[u] : u \in {v \in Worker : Registered(v)}}'
    BY <2>4, <2>6 DEF ListIsExact
  <2> QED BY <2>4, <2>8, <2>9 DEF ListIsExact
<1>8. ASSUME NEW w \in Worker, Unregister(w) PROVE ListIsExact'
  <2>1. /\ connected_clients' = RemoveFirst(connected_clients, running[w])
        /\ at[w] = "unregister" /\ at' = [at EXCEPT ![w] = "close"]
        /\ UNCHANGED <<running, sock, peer>>
    BY <1>8 DEF Unregister, pool, network
  <2>2. running[w] \in Listed
    BY <2>1 DEF ListIsExact, Registered
  <2>3. /\ IsInjective(connected_clients')
        /\ Listed' = Listed \ {running[w]}
    BY <2>1, <2>2, TakeElement DEF ListIsExact, Listed
  <2>4. \A v \in Worker : Registered(v)' <=> Registered(v) /\ v # w
    BY <2>1 DEF Registered
  <2>5. \A v \in Worker : Registered(v) /\ v # w => running[v] # running[w]
    <3>1. SUFFICES ASSUME NEW v \in Worker, Registered(v), v # w,
                          running[v] = running[w]
                   PROVE  FALSE
      OBVIOUS
    <3>2. Owns(v, running[w]) /\ Owns(w, running[w]) /\ running[w] \in Socket
      BY <2>1, <3>1 DEF Registered, Owns, PlaceInv
    <3> QED BY <3>1, <3>2 DEF SocketHasOneOwner
  <2>6. {running'[u] : u \in {v \in Worker : Registered(v)'}}
          = {running[u] : u \in {v \in Worker : Registered(v)}} \ {running[w]}
    BY <2>1, <2>4, <2>5
  <2>7. Listed' = {running[u] : u \in {v \in Worker : Registered(v)}}'
    BY <2>3, <2>6 DEF ListIsExact
  <2>8. (\A s \in Listed : sock[s] /\ peer[s] \in {"talking", "closing", "down"})'
    BY <1>1, <2>1, <2>3
  <2> QED BY <2>3, <2>7, <2>8 DEF ListIsExact
<1> QED BY <1>2, <1>3, <1>4, <1>5, <1>6, <1>7, <1>8 DEF Next, HandlerStep

LEMMA ServerInvHolds == Spec => []ServerInv
<1>1. ServerInv /\ [Next]_vars => ServerInv'
  BY NextServerType, NextPlace, NextOwner, NextPeer, NextList DEF ServerInv
<1> QED BY <1>1, InitServer, PTL DEF Spec

(***************************************************************************)
(* However handlers come and go and whenever a handle is given out again,  *)
(* the list of clients holds exactly the connections whose handler is      *)
(* between its push_back and its erase, each once, open and upgraded.      *)
(***************************************************************************)
THEOREM ListExact == Spec => []ListIsExact
BY ServerInvHolds, PTL DEF ServerInv

(***************************************************************************)
(* No handle is used by two handlers, waits in the pool's queue twice or   *)
(* while it is used, or stays open with nobody left to close it.           *)
(***************************************************************************)
THEOREM OneOwner == Spec => []SocketHasOneOwner
BY ServerInvHolds, PTL DEF ServerInv

------------------------------------------------------------------------------
(* The position of a client in the list is the one where it stands. *)
LEMMA ListPosition ==
  ASSUME ServerTypeOK, ListIsExact
  PROVE  /\ Len(connected_clients) \in Nat
         /\ \A s \in Listed : /\ Position(s) \in 1..Len(connected_clients)
                              /\ connected_clients[Position(s)] = s
         /\ \A i \in 1..Len(connected_clients) :
              /\ connected_clients[i] \in Listed
              /\ Position(connected_clients[i]) = i
<1>1. /\ Len(connected_clients) \in Nat
      /\ DOMAIN connected_clients = 1..Len(connected_clients)
  BY LenProperties DEF ServerTypeOK
<1>2. ASSUME NEW s \in Listed
      PROVE  /\ Position(s) \in 1..Len(connected_clients)
             /\ connected_clients[Position(s)] = s
  <2>1. \E i \in 1..Len(connected_clients) : connected_clients[i] = s
    BY <1>1 DEF Listed, ToSet
  <2> QED BY <2>1 DEF Position
<1>3. \A i \in 1..Len(connected_clients) : connected_clients[i] \in Listed
  BY <1>1 DEF Listed, ToSet
<1>4. \A i, j \in 1..Len(connected_clients) :
        connected_clients[i] = connected_clients[j] => i = j
  BY <1>1 DEF ListIsExact, IsInjective
<1> QED BY <1>1, <1>2, <1>3, <1>4

LEMMA NextInStep ==
  ServerInv /\ BroadcastsInStep /\ [Next]_vars => BroadcastsInStep'
<1> SUFFICES ASSUME ServerTypeOK, PlaceInv, SocketHasOneOwner, PeerInv,
                    ListIsExact, BroadcastsInStep, [Next]_vars
             PROVE  BroadcastsInStep'
  BY DEF ServerInv
<1>1. ASSUME UNCHANGED <<connected_clients, cursor, owed>>,
             \A s \in Listed : Alive(s)' => Alive(s)
      PROVE  BroadcastsInStep'
  <2>1. Listed' = Listed /\ \A s : Position(s)' = Position(s)
    BY <1>1 DEF Listed, Position
  <2> QED BY <1>1, <2>1 DEF BroadcastsInStep
<1>2. /\ Listed \subseteq Socket
      /\ \A s \in Listed : /\ sock[s]
                           /\ peer[s] \in {"talking", "closing", "down"}
  BY DEF ListIsExact, Listed, ToSet, ServerTypeOK
<1>3. \A w \in Worker : clients_mutex = w => cursor # 0
  BY HandleAssumption DEF PlaceInv
<1>4. ASSUME NEW s \in Socket, Accept(s) PROVE BroadcastsInStep'
  <2>1. UNCHANGED <<connected_clients, cursor, owed>>
    BY <1>4 DEF Accept, clients
  <2>2. s \notin Listed /\ \A t \in Socket : t # s => peer'[t] = peer[t]
    BY <1>2, <1>4 DEF Accept, ServerTypeOK
  <2> QED BY <1>1, <1>2, <2>1, <2>2 DEF Alive
<1>5. ASSUME NEW s \in Socket, PeerStep(s) PROVE BroadcastsInStep'
  <2>1. UNCHANGED <<connected_clients, cursor, owed>>
    BY <1>5 DEF PeerStep, Request, SendFrame, Disconnect, Stall, Resume,
                clients, history
  <2>2. \/ peer' = peer
        \/ Alive(s) /\ \A t \in Socket : t # s => peer'[t] = peer[t]
    BY <1>5 DEF PeerStep, Request, SendFrame, Disconnect, Stall, Resume, Alive,
                ServerTypeOK
  <2> QED BY <1>1, <1>2, <2>1, <2>2 DEF Alive
<1>6. ASSUME NEW w \in Worker, Handshake(w) PROVE BroadcastsInStep'
  <2>1. /\ UNCHANGED <<connected_clients, cursor, owed>>
        /\ peer' = [peer EXCEPT ![running[w]] =
                      IF peer[running[w]] = "asked" THEN "talking"
                      ELSE peer[running[w]]]
    BY <1>6 DEF Handshake, clients, history
  <2>2. \A s \in Socket : Alive(s)' => Alive(s)
    BY <2>1 DEF Alive, ServerTypeOK
  <2> QED BY <1>1, <1>2, <2>1, <2>2
<1>7. ASSUME NEW w \in Worker, Refuse(w) \/ Close(w) PROVE BroadcastsInStep'
  <2>1. /\ UNCHANGED <<connected_clients, cursor>>
        /\ owed' \in {owed, owed \ {running[w]}}
        /\ peer' = [peer EXCEPT ![running[w]] = "none"]
        /\ at[w] \in {"request", "close"}
    BY <1>7 DEF Refuse, Close, CloseSocket, clients, history
  <2>2. running[w] \in Socket /\ Owns(w, running[w]) /\ ~Registered(w)
    BY <2>1 DEF PlaceInv, Owns, Registered, ServerTypeOK
  <2>3. running[w] \notin Listed
    <3>1. SUFFICES ASSUME running[w] \in Listed PROVE FALSE
      OBVIOUS
    <3>2. PICK v \in Worker : Registered(v) /\ running[v] = running[w]
      BY <3>1 DEF ListIsExact
    <3>3. Owns(v, running[w])
      BY <3>2 DEF Registered, Owns
    <3> QED BY <2>2, <3>2, <3>3 DEF SocketHasOneOwner
  <2>4. \A s \in Listed : (s \in owed' <=> s \in owed) /\ peer'[s] = peer[s]
    BY <1>2, <2>1, <2>3 DEF ServerTypeOK
  <2>5. Listed' = Listed /\ \A s : Position(s)' = Position(s)
    BY <2>1 DEF Listed, Position
  <2> QED BY <2>1, <2>4, <2>5 DEF BroadcastsInStep, Alive
<1>8. CASE \/ UNCHANGED vars
           \/ \E w \in Worker : \/ StartHandler(w) \/ Receive(w)
                                \/ ReceiveNothing(w) \/ Execute(w)
                                \/ ExecuteReturns(w)
  <2>1. UNCHANGED <<connected_clients, cursor, owed, peer>>
    BY <1>8 DEF vars, StartHandler, Receive, ReceiveNothing, Execute,
                ExecuteReturns, clients, history, network
  <2> QED BY <1>1, <2>1 DEF Alive
<1>9. ASSUME NEW w \in Worker, BroadcastUnlock(w) PROVE BroadcastsInStep'
  <2>1. /\ cursor > Len(connected_clients) /\ cursor' = 0
        /\ UNCHANGED <<connected_clients, owed, peer>>
    BY <1>9 DEF BroadcastUnlock, network
  <2>2. Listed' = Listed
    BY <2>1 DEF Listed
  <2>3. \A s \in Listed : ~(cursor <= Position(s))
    BY <2>1, ListPosition DEF ServerTypeOK
  <2>4. \A s \in Listed : Alive(s) => s \notin owed
    BY <2>3 DEF BroadcastsInStep
  <2> QED BY <2>1, <2>2, <2>4 DEF BroadcastsInStep, Alive
<1>10. ASSUME cursor = 0
       PROVE  \A s \in Listed : Alive(s) => s \notin owed
  BY <1>10 DEF BroadcastsInStep
<1>11. ASSUME NEW w \in Worker, Register(w) PROVE BroadcastsInStep'
  <2>1. /\ cursor = 0 /\ running[w] \in Socket
        /\ connected_clients' = Append(connected_clients, running[w])
        /\ owed' = owed \ {running[w]}
        /\ UNCHANGED <<cursor, peer>>
    BY <1>11 DEF Register, PlaceInv, network, ServerTypeOK
  <2>2. Listed' \subseteq Listed \cup {running[w]}
    <3>1. \A i \in DOMAIN connected_clients' :
            connected_clients'[i] = running[w] \/ connected_clients'[i] \in Listed
      BY <2>1 DEF Listed, ToSet, ServerTypeOK
    <3> QED BY <3>1 DEF Listed, ToSet
  <2>3. \A s \in Listed' : Alive(s) => s \notin owed'
    BY <1>2, <1>10, <2>1, <2>2 DEF ServerTypeOK
  <2> QED BY <2>1, <2>3 DEF BroadcastsInStep, Alive
<1>12. ASSUME NEW w \in Worker, Unregister(w) PROVE BroadcastsInStep'
  <2>1. /\ cursor = 0 /\ at[w] = "unregister"
        /\ connected_clients' = RemoveFirst(connected_clients, running[w])
        /\ UNCHANGED <<cursor, owed, peer>>
    BY <1>12 DEF Unregister, PlaceInv, network, history
  <2>2. running[w] \in Listed
    BY <2>1 DEF ListIsExact, Registered
  <2>3. Listed' \subseteq Listed
    <3>1. /\ running[w] \in ToSet(connected_clients)
          /\ connected_clients \in Seq(Socket) /\ IsInjective(connected_clients)
      BY <2>2 DEF Listed, ListIsExact, ServerTypeOK
    <3>2. ToSet(connected_clients') = ToSet(connected_clients) \ {running[w]}
      BY <2>1, <3>1, TakeElement
    <3> QED BY <3>2 DEF Listed
  <2> QED BY <1>10, <2>1, <2>3 DEF BroadcastsInStep, Alive
<1>13. ASSUME NEW w \in Worker, BroadcastLock(w) PROVE BroadcastsInStep'
  <2>1. /\ cursor = 0 /\ cursor' = 1 /\ owed' = owed \cup Listed
        /\ UNCHANGED <<connected_clients, peer>>
    BY <1>13 DEF BroadcastLock, PlaceInv, network, ServerTypeOK
  <2>2. Listed' = Listed /\ \A s : Position(s)' = Position(s)
    BY <2>1 DEF Listed, Position
  <2>3. \A s \in Listed : 1 <= Position(s)
    BY ListPosition
  <2> QED BY <1>10, <2>1, <2>2, <2>3 DEF BroadcastsInStep, Alive
<1>14. ASSUME NEW w \in Worker, BroadcastSend(w) PROVE BroadcastsInStep'
  <2> DEFINE t == connected_clients[cursor]
  <2>1. /\ cursor # 0 /\ cursor \in Nat
        /\ cursor <= Len(connected_clients) /\ cursor' = cursor + 1
        /\ owed' = IF Alive(t) THEN owed \ {t} ELSE owed
        /\ UNCHANGED <<connected_clients, peer>>
    BY <1>3, <1>14 DEF BroadcastSend, network, ServerTypeOK
  <2>2. Listed' = Listed /\ \A s : Position(s)' = Position(s)
    BY <2>1 DEF Listed, Position
  <2>3. cursor \in 1..Len(connected_clients)
    BY <2>1, ListPosition
  <2>4. t \in Listed /\ Position(t) = cursor
    BY <2>3, ListPosition
  <2>5. ASSUME NEW s \in Listed, Alive(s)
        PROVE  s \in owed' <=> cursor + 1 <= Position(s)
    <3>1. s \in Socket /\ Position(s) \in Nat
      BY <1>2, ListPosition
    <3>2. CASE s = t
      <4>1. s \notin owed'
        BY <2>1, <2>5, <3>1, <3>2 DEF ServerTypeOK
      <4> QED BY <2>1, <2>4, <3>2, <4>1
    <3>3. CASE s # t
      <4>1. s \in owed' <=> s \in owed
        BY <2>1, <3>1, <3>3 DEF ServerTypeOK
      <4>2. Position(s) # cursor
        BY <3>3, ListPosition
      <4>3. cursor <= Position(s) <=> cursor + 1 <= Position(s)
        BY <2>1, <3>1, <4>2
      <4> QED BY <2>1, <2>5, <4>1, <4>3 DEF BroadcastsInStep
    <3> QED BY <3>2, <3>3
  <2> HIDE DEF t
  <2>6. cursor' # 0
    BY <2>1
  <2> QED BY <2>1, <2>2, <2>5, <2>6 DEF BroadcastsInStep, Alive
<1> QED BY <1>4, <1>5, <1>6, <1>7, <1>8, <1>9, <1>11, <1>12, <1>13, <1>14
        DEF Next, HandlerStep

(***************************************************************************)
(* Every registered client that is alive has received every broadcast      *)
(* since its registration, in one order common to all, however many        *)
(* handlers broadcast, register and leave at the same time.                *)
(***************************************************************************)
THEOREM InStep == Spec => []BroadcastsInStep
<1>1. Init => BroadcastsInStep
  BY DEF Init, BroadcastsInStep, Listed, ToSet
<1>2. ServerInv /\ BroadcastsInStep /\ [Next]_vars => BroadcastsInStep'
  BY NextInStep
<1> QED BY <1>1, <1>2, ServerInvHolds, PTL DEF Spec

------------------------------------------------------------------------------
(***************************************************************************)
(* The database: every step of the server is a step of DBConnection on the *)
(* one connection, or none, so what is proved there carries over.          *)
(***************************************************************************)
DBP == INSTANCE DBConnectionProofs WITH
         Caller <- Worker, Txn <- Msg, NoTxn <- NoMsg

LEMMA ScriptType == Script \in [Msg -> Seq(BOOLEAN)]
BY DEF Script

LEMMA DatabaseStep == ServerInv /\ [Next]_vars => [DBP!Next]_(DBP!dbVars)
<1> SUFFICES ASSUME PlaceInv, [Next]_vars PROVE [DBP!Next]_(DBP!dbVars)
  BY DEF ServerInv
<1>1. CASE UNCHANGED dbState
  BY <1>1 DEF dbState, DBP!dbVars, DBP!store, DBP!calls
<1>2. ASSUME NEW w \in Worker, Execute(w) PROVE DBP!Next
  <2>1. msg[w] \in Msg
    BY <1>2 DEF Execute, PlaceInv, Handling
  <2>2. \/ DB!Begin(w, msg[w]) \/ DB!QueryAccepted(w) \/ DB!QueryFails(w)
    BY <1>2 DEF Execute
  <2>3. DB!Begin(w, msg[w]) => DBP!Begin(w, msg[w])
    BY DEF DB!Begin, DBP!Begin, DB!Idle, DBP!Idle, DB!Returned, DBP!Returned,
           DB!SqlBegin, DBP!SqlBegin
  <2>4. DB!QueryAccepted(w) => DBP!QueryAccepted(w)
    BY DEF DB!QueryAccepted, DBP!QueryAccepted, DB!AtQuery, DBP!AtQuery,
           DB!Idle, DBP!Idle, DB!SqlInsert, DBP!SqlInsert, DB!Row, DBP!Row
  <2>5. DB!QueryFails(w) => DBP!QueryFails(w)
    BY DEF DB!QueryFails, DBP!QueryFails, DB!AtQuery, DBP!AtQuery,
           DB!Idle, DBP!Idle, DB!store, DBP!store
  <2>6. DBP!Step(w)
    BY <2>1, <2>2, <2>3, <2>4, <2>5 DEF DBP!Step
  <2> QED BY <2>6 DEF DBP!Next
<1>3. ASSUME NEW w \in Worker, ExecuteReturns(w) PROVE DBP!Next
  <2>1. DB!Rollback(w) => DBP!Rollback(w)
    BY DEF DB!Rollback, DBP!Rollback, DB!Idle, DBP!Idle, DB!Return, DBP!Return,
           DB!SqlRollback, DBP!SqlRollback
  <2>2. DB!Commit(w) => DBP!Commit(w)
    BY DEF DB!Commit, DBP!Commit, DB!AtCommit, DBP!AtCommit, DB!Idle, DBP!Idle,
           DB!Return, DBP!Return, DB!SqlCommit, DBP!SqlCommit
  <2>3. DB!CommitFails(w) => DBP!CommitFails(w)
    BY DEF DB!CommitFails, DBP!CommitFails, DB!AtCommit, DBP!AtCommit, DB!Idle,
           DBP!Idle, DB!Return, DBP!Return, DB!store, DBP!store
  <2>4. DBP!Step(w)
    BY <1>3, <2>1, <2>2, <2>3 DEF ExecuteReturns, DBP!Step
  <2> QED BY <2>4 DEF DBP!Next
<1>4. ASSUME NEW s \in Socket, Accept(s) \/ PeerStep(s) PROVE UNCHANGED dbState
  BY <1>4 DEF Accept, PeerStep, Request, SendFrame, Disconnect, Stall, Resume
<1>5. ASSUME NEW w \in Worker, HandlerStep(w)
      PROVE  UNCHANGED dbState \/ Execute(w) \/ ExecuteReturns(w)
  BY <1>5 DEF HandlerStep, StartHandler, Handshake, Refuse, Register, Receive,
              ReceiveNothing, Unregister, Close, BroadcastLock, BroadcastSend,
              BroadcastUnlock
<1> QED BY <1>1, <1>2, <1>3, <1>4, <1>5 DEF Next, vars

LEMMA DatabaseType ==
  /\ Init => DB!TypeOK
  /\ DB!TypeOK => DBP!TypeOK
  /\ DBP!TypeOK => DB!TypeOK
<1>1. /\ DB!TypeOK => DBP!TypeOK
      /\ DBP!TypeOK => DB!TypeOK
  BY DEF DB!TypeOK, DBP!TypeOK, DB!Rows, DBP!Rows, DB!Row, DBP!Row
<1>2. Init => DB!TypeOK
  <2> SUFFICES ASSUME Init PROVE DB!TypeOK
    OBVIOUS
  <2> USE DEF Init
  <2>1. /\ db \in {"null", "open", "broken"} /\ inTxn \in BOOLEAN
        /\ uncommitted \subseteq UNION {DB!Rows(x) : x \in Msg}
        /\ table \subseteq UNION {DB!Rows(x) : x \in Msg}
    OBVIOUS
  <2>2. /\ doing \in [Worker -> Msg \cup {NoMsg}]
        /\ next \in [Worker -> Nat \ {0}]
    OBVIOUS
  <2>3. failed \in [Worker -> BOOLEAN]
    OBVIOUS
  <2>4. answer \in [Msg -> {{}, {TRUE}, {FALSE}}]
    OBVIOUS
  <2>5. overlapped \in BOOLEAN /\ commitFailed \in BOOLEAN
    OBVIOUS
  <2> QED BY <2>1, <2>2, <2>3, <2>4, <2>5 DEF DB!TypeOK
<1> QED BY <1>1, <1>2

LEMMA NextDatabaseType ==
  DBP!TypeOK /\ [DBP!Next]_(DBP!dbVars) => DBP!TypeOK'
BY DBP!NextType, ScriptType, PayloadAssumption, FaultsAssumption

(* Type correctness of the server and of the database connection it uses *)
THEOREM TypeCorrect == Spec => []TypeOK
<1> DEFINE Inv == ServerInv /\ DBP!TypeOK
<1>1. Init => Inv
  BY InitServer, DatabaseType
<1>2. Inv /\ ServerInv' /\ [Next]_vars => Inv'
  BY DatabaseStep, NextDatabaseType
<1>3. Inv => TypeOK
  BY DatabaseType DEF ServerInv, TypeOK
<1> QED BY <1>1, <1>2, <1>3, ServerInvHolds, PTL DEF Spec

------------------------------------------------------------------------------
(* An answer is final. *)
LEMMA AnswersAreFinal ==
  ASSUME DBP!TypeOK, DBP!CallInv, [DBP!Next]_(DBP!dbVars)
  PROVE  \A m \in Msg : answer[m] # {} => answer'[m] = answer[m]
<1>1. ASSUME NEW w \in Worker,
             DBP!Rollback(w) \/ DBP!Commit(w) \/ DBP!CommitFails(w)
      PROVE  \A m \in Msg : answer[m] # {} => answer'[m] = answer[m]
  <2>1. /\ doing[w] # NoMsg
        /\ \E value \in BOOLEAN :
             answer' = [answer EXCEPT ![doing[w]] = {value}]
    BY <1>1 DEF DBP!Rollback, DBP!Commit, DBP!CommitFails, DBP!AtCommit,
                DBP!Return, DBP!Idle
  <2>2. answer[doing[w]] = {}
    BY <2>1 DEF DBP!CallInv, DBP!Idle
  <2> QED BY <2>1, <2>2 DEF DBP!TypeOK
<1>2. ASSUME NEW w \in Worker, NEW m \in Msg, DBP!Refuse(w, m)
      PROVE  \A n \in Msg : answer[n] # {} => answer'[n] = answer[n]
  <2>1. answer[m] = {} /\ answer' = [answer EXCEPT ![m] = {FALSE}]
    BY <1>2 DEF DBP!Refuse, DBP!Returned
  <2> QED BY <2>1 DEF DBP!TypeOK
<1>3. CASE \/ DBP!Connect \/ DBP!Close \/ UNCHANGED DBP!dbVars
           \/ \E w \in Worker : \/ DBP!QueryAccepted(w)
                                \/ DBP!QueryFails(w)
                                \/ \E m \in Msg : DBP!Begin(w, m)
  BY <1>3 DEF DBP!Connect, DBP!Close, DBP!dbVars, DBP!calls, DBP!QueryAccepted,
              DBP!QueryFails, DBP!Begin
<1> QED BY <1>1, <1>2, <1>3 DEF DBP!Next, DBP!Step

------------------------------------------------------------------------------
(* A call of executeTransaction is that of a handler at that place, about  *)
(* its message; the outcome is broadcast when the call has been answered.  *)
TransactInv ==
  \A w \in Worker :
    /\ doing[w] # NoMsg => at[w] = "execute" /\ doing[w] = msg[w]
    /\ at[w] = "outcome" => answer[msg[w]] # {}

LEMMA NextTransact ==
  ASSUME ServerInv, DBP!TypeOK, TransactInv, [Next]_vars,
         \A m \in Msg : answer[m] # {} => answer'[m] = answer[m]
  PROVE  TransactInv'
<1>1. /\ at \in [Worker -> Place] /\ msg \in [Worker -> Msg \cup {NoMsg}]
      /\ doing \in [Worker -> Msg \cup {NoMsg}]
      /\ \A w \in Worker : at[w] \in Handling => msg[w] \in Msg
  BY DEF ServerInv, ServerTypeOK, PlaceInv, DBP!TypeOK
<1>2. CASE UNCHANGED <<at, msg, doing>>
  <2>1. ASSUME NEW w \in Worker, at[w] = "outcome"
        PROVE  answer'[msg[w]] # {}
    BY <1>1, <2>1 DEF TransactInv, Handling
  <2> QED BY <1>2, <2>1 DEF TransactInv
<1>3. ASSUME NEW w \in Worker, at[w] \notin {"execute"}, at'[w] # "outcome",
             doing' = doing,
             \A u \in Worker : u # w => at'[u] = at[u] /\ msg'[u] = msg[u]
      PROVE  TransactInv'
  <2>1. doing[w] = NoMsg
    BY <1>3 DEF TransactInv
  <2>2. ASSUME NEW u \in Worker, at'[u] = "outcome"
        PROVE  answer'[msg'[u]] # {}
    BY <1>1, <1>3, <2>2 DEF TransactInv, Handling
  <2> QED BY <1>3, <2>1, <2>2 DEF TransactInv
<1>4. ASSUME NEW w \in Worker, Execute(w)
      PROVE  TransactInv'
  <2>1. at[w] = "execute" /\ UNCHANGED <<at, msg>>
    BY <1>4 DEF Execute, handler
  <2>2. doing' = doing \/ doing' = [doing EXCEPT ![w] = msg[w]]
    BY <1>4 DEF Execute, DB!Begin, DB!QueryAccepted, DB!QueryFails
  <2> QED BY <1>1, <1>2, <2>1, <2>2 DEF TransactInv, Handling
<1>5. ASSUME NEW w \in Worker, ExecuteReturns(w)
      PROVE  TransactInv'
  <2>1. /\ at[w] = "execute" /\ msg' = msg
        /\ at' = [at EXCEPT ![w] = "outcome"]
    BY <1>5 DEF ExecuteReturns, Goto
  <2>2. PICK value \in BOOLEAN :
          /\ doing[w] # NoMsg
          /\ answer' = [answer EXCEPT ![doing[w]] = {value}]
          /\ doing' = [doing EXCEPT ![w] = NoMsg]
    BY <1>5 DEF ExecuteReturns, DB!Rollback, DB!Commit, DB!CommitFails,
                DB!AtCommit, DB!Return, DB!Idle
  <2>3. doing[w] = msg[w] /\ msg[w] \in Msg
    BY <1>1, <2>1, <2>2 DEF TransactInv, Handling
  <2>4. answer'[msg[w]] = {value}
    BY <2>2, <2>3 DEF DBP!TypeOK
  <2>5. ASSUME NEW u \in Worker, u # w, at[u] = "outcome"
        PROVE  answer'[msg[u]] # {}
    BY <1>1, <2>5 DEF TransactInv, Handling
  <2> QED BY <1>1, <2>1, <2>2, <2>4, <2>5 DEF TransactInv
<1>6. ASSUME NEW w \in Worker, HandlerStep(w)
      PROVE  \/ UNCHANGED <<at, msg, doing>>
             \/ Execute(w) \/ ExecuteReturns(w)
             \/ /\ at[w] \notin {"execute"} /\ at'[w] # "outcome"
                /\ doing' = doing
                /\ \A u \in Worker : u # w => at'[u] = at[u] /\ msg'[u] = msg[u]
  <2>1. CASE BroadcastUnlock(w)
    <3>1. at[w] \in Announcing
      BY <2>1, HandleAssumption DEF BroadcastUnlock, ServerInv, PlaceInv
    <3>2. /\ at' = [at EXCEPT ![w] = After[at[w]]]
          /\ msg' \in {msg, [msg EXCEPT ![w] = NoMsg]}
          /\ doing' = doing
      BY <2>1 DEF BroadcastUnlock, Goto, dbState
    <3> QED BY <1>1, <3>1, <3>2, AfterBroadcast
  <2>2. CASE StartHandler(w)
    <3>1. at[w] = "idle"
      BY <2>2 DEF StartHandler, Pool!Start, ServerInv, PlaceInv
    <3> QED BY <1>1, <2>2, <3>1 DEF StartHandler, Goto, dbState
  <2>3. CASE \/ Handshake(w) \/ Refuse(w) \/ Register(w) \/ Receive(w)
             \/ ReceiveNothing(w) \/ Unregister(w) \/ Close(w)
    BY <1>1, <2>3 DEF Handshake, Refuse, Register, Receive, ReceiveNothing,
                      Unregister, Close, Goto, dbState
  <2>4. CASE BroadcastLock(w) \/ BroadcastSend(w)
    BY <2>4 DEF BroadcastLock, BroadcastSend, handler, dbState
  <2> QED BY <1>6, <2>1, <2>2, <2>3, <2>4 DEF HandlerStep
<1>7. ASSUME NEW s \in Socket, Accept(s) \/ PeerStep(s)
      PROVE  UNCHANGED <<at, msg, doing>>
  BY <1>7 DEF Accept, PeerStep, Request, SendFrame, Disconnect, Stall, Resume,
              handler, dbState
<1>8. CASE UNCHANGED vars
  BY <1>2, <1>8 DEF vars, handler, dbState
<1> QED BY <1>2, <1>3, <1>4, <1>5, <1>6, <1>7, <1>8 DEF Next

------------------------------------------------------------------------------
(* What holds of the connection carries over from DBConnection.            *)
DatabaseInv ==
  /\ DBP!TypeOK /\ DBP!StoreInv /\ DBP!CallInv /\ DBP!ExclusiveInv
  /\ DBP!NoDanglingTransaction

LEMMA InitDatabase == Init => DatabaseInv /\ TransactInv
<1> SUFFICES ASSUME Init PROVE DatabaseInv /\ TransactInv
  OBVIOUS
<1>1. DBP!TypeOK
  BY DatabaseType
<1>2. /\ \A w \in Worker : doing[w] = NoMsg /\ at[w] = "idle"
      /\ db = "open" /\ ~commitFailed /\ ~inTxn /\ uncommitted = {}
  BY DEF Init
<1> QED BY <1>1, <1>2 DEF DatabaseInv, TransactInv, DBP!StoreInv, DBP!CallInv,
           DBP!ExclusiveInv, DBP!Alone, DBP!NoDanglingTransaction, DBP!Idle

LEMMA NextDatabase ==
  ASSUME DatabaseInv, ServerInv, [Next]_vars
  PROVE  /\ DatabaseInv'
         /\ [DBP!Next]_(DBP!dbVars)
         /\ \A m \in Msg : answer[m] # {} => answer'[m] = answer[m]
<1> USE DEF DatabaseInv
<1>1. [DBP!Next]_(DBP!dbVars)
  BY DatabaseStep
<1>2. DBP!TypeOK'
  BY <1>1, NextDatabaseType
<1>3. DBP!StoreInv'
  BY <1>1, DBP!NextStore, ScriptType, PayloadAssumption, FaultsAssumption
<1>4. DBP!CallInv'
  BY <1>1, DBP!NextCall, ScriptType, PayloadAssumption, FaultsAssumption
<1>5. DBP!ExclusiveInv'
  BY <1>1, DBP!NextExclusive, ScriptType, PayloadAssumption, FaultsAssumption
<1>6. DBP!NoDanglingTransaction'
  BY <1>1, DBP!NextTransaction, ScriptType, PayloadAssumption, FaultsAssumption
<1>7. \A m \in Msg : answer[m] # {} => answer'[m] = answer[m]
  BY <1>1, AnswersAreFinal
<1> QED BY <1>1, <1>2, <1>3, <1>4, <1>5, <1>6, <1>7

LEMMA DatabaseInvHolds == Spec => [](DatabaseInv /\ TransactInv)
<1>1. DatabaseInv /\ TransactInv /\ ServerInv /\ [Next]_vars
        => DatabaseInv' /\ TransactInv'
  BY NextDatabase, NextTransact DEF DatabaseInv
<1> QED BY <1>1, InitDatabase, ServerInvHolds, PTL DEF Spec

(***************************************************************************)
(* The pool's part of the server is a behaviour of TaskQueue, so what the  *)
(* server assumes of its pool is what ThreadPool implements.               *)
(***************************************************************************)
THEOREM UsesTaskQueue == Spec => Pool!Spec
<1>1. Init => Pool!Init
  BY DEF Init
<1>2. [Next]_vars => [Pool!Next]_(Pool!tqVars)
  <2> SUFFICES ASSUME [Next]_vars PROVE [Pool!Next]_(Pool!tqVars)
    OBVIOUS
  <2>1. ASSUME UNCHANGED pool PROVE UNCHANGED Pool!tqVars
    BY <2>1 DEF pool, Pool!tqVars
  <2>2. ASSUME NEW s \in Socket, Accept(s) PROVE Pool!Next
    BY <2>2 DEF Accept, Pool!Next
  <2>3. ASSUME NEW w \in Worker, HandlerStep(w)
        PROVE  UNCHANGED pool \/ Pool!Start(w) \/ Pool!Finish(w)
    BY <2>3 DEF HandlerStep, StartHandler, Handshake, Refuse, Register, Receive,
                ReceiveNothing, Execute, ExecuteReturns, Unregister, Close,
                BroadcastLock, BroadcastSend, BroadcastUnlock
  <2>4. ASSUME NEW s \in Socket, PeerStep(s) PROVE UNCHANGED pool
    BY <2>4 DEF PeerStep, Request, SendFrame, Disconnect, Stall, Resume
  <2>5. CASE UNCHANGED vars
    BY <2>1, <2>5 DEF vars
  <2> QED BY <2>1, <2>2, <2>3, <2>4, <2>5 DEF Next, Pool!Next, Pool!StartSome
<1> QED BY <1>1, <1>2, PTL DEF Spec, Pool!Spec

(***************************************************************************)
(* Whatever the handlers do on the one connection, no transaction is open  *)
(* on it unless a handler is inside executeTransaction for its message:    *)
(* none is left behind by a client that was lost or a message rejected.    *)
(* But a COMMIT that fails leaves one, and nobody looks at its result.     *)
(***************************************************************************)
TransactionsAreHandled ==
  inTxn /\ ~commitFailed
    => \E w \in Worker : at[w] = "execute" /\ doing[w] = msg[w]

(* No handler leaves a transaction open until a COMMIT fails, for any      *)
(* number of handlers (executeTransaction, DBConnection.cpp:22-33).        *)
THEOREM NoTransactionLeft == Spec => []TransactionsAreHandled
<1>1. DatabaseInv /\ TransactInv => TransactionsAreHandled
  BY DEF DatabaseInv, TransactInv, TransactionsAreHandled,
         DBP!NoDanglingTransaction, DBP!Idle
<1> QED BY <1>1, DatabaseInvHolds, PTL

(***************************************************************************)
(* What is broadcast as the outcome of a message is the final answer of    *)
(* its call of executeTransaction; so never [COMMIT] and [ROLLBACK] both.  *)
(***************************************************************************)
OutcomesAreAnswers ==
  \A m \in Msg : /\ <<"commit", m>> \in announced => answer[m] = {TRUE}
                 /\ <<"rollback", m>> \in announced => answer[m] = {FALSE}

LEMMA NextOutcome ==
  ASSUME ServerInv, DBP!TypeOK, TransactInv, OutcomesAreAnswers, [Next]_vars,
         \A m \in Msg : answer[m] # {} => answer'[m] = answer[m]
  PROVE  OutcomesAreAnswers'
<1>1. CASE announced' = announced
  BY <1>1 DEF OutcomesAreAnswers
<1>2. ASSUME NEW w \in Worker, BroadcastUnlock(w) PROVE OutcomesAreAnswers'
  <2>1. at[w] \in Announcing
    BY <1>2, HandleAssumption DEF BroadcastUnlock, ServerInv, PlaceInv
  <2>2. announced' \in {announced, announced \cup {Statement(w)}}
    BY <1>2 DEF BroadcastUnlock
  <2>3. ASSUME NEW m \in Msg
        PROVE  /\ Statement(w) = <<"commit", m>> => answer[m] = {TRUE}
               /\ Statement(w) = <<"rollback", m>> => answer[m] = {FALSE}
    <3>1. CASE at[w] = "outcome"
      <4>1. answer[msg[w]] # {} /\ msg[w] \in Msg
        BY <3>1 DEF TransactInv, ServerInv, PlaceInv, Handling
      <4>2. answer[msg[w]] \in {{TRUE}, {FALSE}}
        BY <4>1 DEF DBP!TypeOK
      <4> QED BY <3>1, <4>2 DEF Statement
    <3>2. CASE at[w] # "outcome"
      BY <2>1, <3>2, AfterBroadcast DEF Statement
    <3> QED BY <3>1, <3>2
  <2>4. ASSUME NEW m \in Msg
        PROVE  /\ <<"commit", m>> \in announced' => answer[m] = {TRUE}
               /\ <<"rollback", m>> \in announced' => answer[m] = {FALSE}
    BY <2>2, <2>3 DEF OutcomesAreAnswers
  <2> QED BY <2>4 DEF OutcomesAreAnswers
<1>3. ASSUME NEW s \in Socket, Accept(s) \/ PeerStep(s)
      PROVE  announced' = announced
  BY <1>3 DEF Accept, PeerStep, Request, SendFrame, Disconnect, Stall, Resume,
              history
<1>4. ASSUME NEW w \in Worker, HandlerStep(w)
      PROVE  announced' = announced \/ BroadcastUnlock(w)
  BY <1>4 DEF HandlerStep, StartHandler, Handshake, Refuse, Register, Receive,
              ReceiveNothing, Execute, ExecuteReturns, Unregister, Close,
              BroadcastLock, BroadcastSend, history
<1>5. CASE UNCHANGED vars
  BY <1>1, <1>5 DEF vars, history
<1> QED BY <1>1, <1>2, <1>3, <1>4, <1>5 DEF Next

(* The outcomes broadcast are the answers, for any number of handlers.      *)
THEOREM OutcomesAreTold == Spec => []OutcomesAreAnswers
<1>1. Init => OutcomesAreAnswers
  BY DEF Init, OutcomesAreAnswers
<1>2. DatabaseInv /\ TransactInv /\ ServerInv /\ OutcomesAreAnswers /\ [Next]_vars
        => OutcomesAreAnswers'
  BY NextDatabase, NextOutcome DEF DatabaseInv
<1> QED BY <1>1, <1>2, DatabaseInvHolds, ServerInvHolds, PTL DEF Spec

(***************************************************************************)
(* Although the handlers' statements mix in transactions none of them      *)
(* controls, "[COMMIT]" is announced only for rows that are in the file,   *)
(* for any number of handlers, until the first INSERT is rejected (after   *)
(* which it is false: run server_lost_commit) or the first COMMIT fails.   *)
(***************************************************************************)
THEOREM Durable == Spec => []DurableWhileClean
<1>1. Init => DBP!CleanInv
  BY DEF Init, DBP!CleanInv, DBP!RowsKept, DBP!TrueMeansCommitted, DBP!Idle
<1>2. DatabaseInv /\ ServerInv /\ DBP!CleanInv /\ [Next]_vars => DBP!CleanInv'
  <2> SUFFICES ASSUME DatabaseInv, ServerInv, DBP!CleanInv, [Next]_vars
               PROVE  DBP!CleanInv'
    OBVIOUS
  <2>1. [DBP!Next]_(DBP!dbVars)
    BY DatabaseStep
  <2> QED BY <2>1, DBP!NextClean, ScriptType, PayloadAssumption,
             FaultsAssumption DEF DatabaseInv
<1>3. DatabaseInv /\ DBP!CleanInv /\ OutcomesAreAnswers => DurableWhileClean
  <2> SUFFICES ASSUME DatabaseInv, DBP!CleanInv, OutcomesAreAnswers,
                      DBP!NothingFailed
               PROVE  CommitIsDurable
    BY DEF DurableWhileClean, DB!NothingFailed, DBP!NothingFailed
  <2>1. DBP!TrueMeansCommitted
    BY DEF DBP!CleanInv
  <2> QED BY <2>1 DEF CommitIsDurable, OutcomesAreAnswers,
             DBP!TrueMeansCommitted, DBP!Rows, DB!Rows, DBP!Row, DB!Row
<1> QED BY <1>1, <1>2, <1>3, DatabaseInvHolds, ServerInvHolds, OutcomesAreTold,
           PTL DEF Spec

------------------------------------------------------------------------------
(***************************************************************************)
(* The database's part of the server implements the atomic store for the   *)
(* messages whose transactions overlap with no other: all rows and TRUE,   *)
(* or none and FALSE, whatever overlapped before; until a COMMIT fails.    *)
(***************************************************************************)
THEOREM UsesAtomicStore == Spec => DBP!AtomicStoreSpec
<1>1. Init => DBP!AS!Init
  BY DEF Init, DBP!AS!Init
<1>2. DatabaseInv /\ ServerInv /\ [Next]_vars
        => [overlapped' \/ commitFailed' \/ DBP!AS!Next]_(DBP!AS!asVars)
  <2> SUFFICES ASSUME DatabaseInv, ServerInv, [Next]_vars
               PROVE  [overlapped' \/ commitFailed' \/ DBP!AS!Next]_(DBP!AS!asVars)
    OBVIOUS
  <2>1. [DBP!Next]_(DBP!dbVars)
    BY NextDatabase
  <2> QED BY <2>1, DBP!NextRefines, ScriptType, PayloadAssumption,
             FaultsAssumption DEF DatabaseInv
<1> QED BY <1>1, <1>2, DatabaseInvHolds, ServerInvHolds, PTL
        DEF Spec, DBP!AtomicStoreSpec

(***************************************************************************)
(* If the handlers' transactions never overlap, as with a mutex around     *)
(* executeTransaction, and no COMMIT fails, then what is announced as      *)
(* [COMMIT] is in the file, also when messages are rejected.  So there are *)
(* two causes of a lost [COMMIT] and no others: the overlap, which the run *)
(* server_lost_commit shows, and a COMMIT whose failure is not looked at.  *)
(***************************************************************************)
THEOREM SerialHandlersAreDurable ==
  Spec /\ []~overlapped /\ []~commitFailed => []CommitIsDurable
<1> DEFINE Inv == DBP!TrueMeansCommitted
<1>1. Init => Inv
  BY DEF Init, DBP!TrueMeansCommitted
<1>2. DatabaseInv /\ ServerInv /\ Inv /\ ~overlapped' /\ ~commitFailed'
        /\ [Next]_vars => Inv'
  <2> SUFFICES ASSUME DatabaseInv, ServerInv, Inv, ~overlapped', ~commitFailed',
                      [Next]_vars
               PROVE  Inv'
    OBVIOUS
  <2>1. [DBP!Next]_(DBP!dbVars)
    BY NextDatabase
  <2> QED BY <2>1, DBP!NextCommitted, ScriptType, PayloadAssumption,
             FaultsAssumption DEF DatabaseInv
<1>3. Inv /\ OutcomesAreAnswers => CommitIsDurable
  BY DEF CommitIsDurable, OutcomesAreAnswers, DBP!TrueMeansCommitted,
         DBP!Rows, DB!Rows, DBP!Row, DB!Row
<1> QED BY <1>1, <1>2, <1>3, DatabaseInvHolds, ServerInvHolds, OutcomesAreTold,
           PTL DEF Spec

(***************************************************************************)
(* With one pool thread the overlap is gone: unless a COMMIT fails, the    *)
(* server keeps what the README promises, [COMMIT] being announced only    *)
(* for what is in the file.                                                *)
(***************************************************************************)
THEOREM OneHandlerIsDurable ==
  ASSUME \A v, w \in Worker : v = w
  PROVE  Spec /\ []~commitFailed => []CommitIsDurable
<1>1. Init => ~overlapped
  BY DEF Init
<1>2. ServerInv /\ ~overlapped /\ [Next]_vars => ~overlapped'
  <2> SUFFICES ASSUME ServerInv, ~overlapped, [Next]_vars PROVE ~overlapped'
    OBVIOUS
  <2>1. [DBP!Next]_(DBP!dbVars)
    BY DatabaseStep
  <2>2. ASSUME NEW w \in Worker, NEW m \in Msg, DBP!Begin(w, m)
        PROVE  ~overlapped'
    BY <2>2 DEF DBP!Begin
  <2>3. CASE overlapped' = overlapped
    BY <2>3
  <2>4. ASSUME ~\E w \in Worker, m \in Msg : DBP!Begin(w, m)
        PROVE  overlapped' = overlapped
    BY <2>1, <2>4 DEF DBP!Next, DBP!Step, DBP!dbVars, DBP!Connect, DBP!Refuse,
                      DBP!QueryAccepted, DBP!QueryFails, DBP!Rollback,
                      DBP!Commit, DBP!CommitFails, DBP!Close
  <2> QED BY <2>2, <2>3, <2>4
<1>3. Spec => []~overlapped
  BY <1>1, <1>2, ServerInvHolds, PTL DEF Spec
<1> QED BY <1>3, SerialHandlersAreDurable, PTL
==============================================================================
