------------------------------ MODULE AppProofs -------------------------------
(***************************************************************************)
(* Proofs about App, for any number of losses, threads, tabs and messages: *)
(* types, one live connection, the socket that is used, what is shown, and *)
(* what the counter counts.                                                *)
(***************************************************************************)
EXTENDS App, FiniteSetTheorems, SequenceTheorems, TLAPS

------------------------------------------------------------------------------
(* The invariants *)

Made == {s \in Socket : owner[s] # None}

Current(s) == owner[s] # None /\ isMounted[owner[s]]

(* An effect's WebSockets are closed, but for its ws; and the timer runs   *)
(* only when that one is closed too.                                       *)
EffectInv ==
  /\ \A e \in Effect :
       /\ ws[e] # None => owner[ws[e]] = e
       /\ isMounted[e] => ws[e] # None
       /\ reconnectTimer[e] => isMounted[e] /\ readyState[ws[e]] = "closed"
  /\ \A s \in Made : /\ ws[owner[s]] # None
                     /\ s # ws[owner[s]] => readyState[s] = "closed"

Numbered == Made = 1..Cardinality(Made)

(* What the browser and the network know of a WebSocket, and its effect    *)
StateInv ==
  \A s \in Socket :
    /\ owner[s] = None <=> readyState[s] = "none"
    /\ owner[s] = None <=> link[s] = "none"
    /\ readyState[s] = "closed" => link[s] = "down"
    /\ readyState[s] = "connecting" => link[s] \in {"dialing", "answered", "down"}
    /\ readyState[s] = "open" => link[s] \in {"up", "down"}
    /\ readyState[s] = "closing" => link[s] # "dialing" /\ ~Current(s)
    /\ owner[s] # None /\ ~Current(s) => readyState[s] \in {"closing", "closed"}
    /\ s \in muted => owner[s] # None /\ ~Current(s)

(* Which effect is mounted, and that nothing was handled before *)
PhaseInv ==
  /\ phase \notin {"running", "unmounted"} =>
       /\ ws[2] = None /\ ~isMounted[2]
       /\ socket = None /\ status = "Disconnected"
       /\ activeThreads = {} /\ messages = <<>>
  /\ phase = "initial" => ws[1] = None
  /\ phase = "mounted" => isMounted[1]
  /\ phase = "running" => \E e \in Effect : isMounted[e]
  /\ phase \in {"initial", "cleaned", "unmounted"} => \A e \in Effect : ~isMounted[e]
  /\ \A e, f \in Effect : isMounted[e] /\ isMounted[f] => e = f

SocketInv ==
  phase = "running" =>
    /\ status = "Connected" <=> socket # None
    /\ socket # None => readyState[socket] = "open" /\ Current(socket)

(* Who is served and listed *)
ServerInv ==
  /\ \A w \in Worker : serving[w] = None <=> place[w] = "idle"
  /\ \A v, w \in Worker : serving[v] = serving[w] /\ serving[v] \in Socket => v = w
  /\ \A w \in Worker : serving[w] \in Socket =>
       link[serving[w]] \notin {"none", "dialing"}
  /\ \A s \in listed : \E w \in Worker : serving[w] = s /\ place[w] = "reading"

(* The INSERT and chat events broadcast so far: a chat event repeats the   *)
(* text of an INSERT, which has one chat event at most, and none while its *)
(* handler still owes it.                                                  *)
SaidInv ==
  /\ \A k \in DOMAIN said :
       /\ said[k].of \in 1..k
       /\ said[k].event = "INSERT" <=> said[k].of = k
       /\ said[said[k].of].text = said[k].text
  /\ \A j, k \in DOMAIN said :
       said[j].event = "chat" /\ said[k].event = "chat" /\ said[j].of = said[k].of
         => j = k
  /\ \A w \in Worker : handling[w] # None =>
       /\ handling[w] \in DOMAIN said /\ said[handling[w]].event = "INSERT"
       /\ \A k \in DOMAIN said : said[k].event = "chat" => said[k].of # handling[w]
       /\ \A v \in Worker : handling[v] = handling[w] => v = w

(* Those on a wire, and those shown *)
IsText(m) == m.event = "text"

Ordered(q, n) ==
  \A i \in DOMAIN q : IsText(q[i]) =>
    /\ q[i].number \in 1..n
    /\ \A j \in DOMAIN q : IsText(q[j]) /\ i < j => q[i].number < q[j].number

Newer(q, old) ==
  \A i \in DOMAIN q : IsText(q[i]) =>
    \A k \in DOMAIN old : old[k].number < q[i].number

(* What an entry of messages shows *)
Shows(e, q) ==
  \/ e.sender = "You" /\ e.number = 0
  \/ /\ e.number \in DOMAIN q
     /\ \/ e.sender = "Raw" /\ q[e.number].text = "quoted"
        \/ /\ e.sender = "Client" /\ q[e.number].text = "plain"
           /\ q[e.number].event = "chat"

Increasing(q) ==
  \A i, j \in DOMAIN q :
    i < j /\ q[i].sender # "You" /\ q[j].sender # "You" => q[i].number < q[j].number

OnceInv ==
  /\ Increasing(messages)
  /\ \A i \in DOMAIN messages : Shows(messages[i], said)
  /\ \A s \in Socket :
       /\ link[s] \in {"none", "dialing"} => wire[s] = <<>>
       /\ link[s] = "down" /\ Current(s) => wire[s] = <<>>
       /\ Ordered(wire[s], Len(said))
       /\ Current(s) => Newer(wire[s], messages)

(* Whether thread w will be counted when those counted now are A and q has *)
(* been handled: as its last announcement in q says                        *)
Says(m, w) == m \in {Spawned(w), Terminated(w)}

Said(q, w) == {i \in DOMAIN q : Says(q[i], w)}

Counts(q, A, w) ==
  IF Said(q, w) = {} THEN w \in A
  ELSE \E i \in Said(q, w) : (\A j \in Said(q, w) : j <= i) /\ q[i] = Spawned(w)

Counted(s) == {w \in Worker : Counts(wire[s], activeThreads, w)}

(* Until a connection is lost *)
CountInv ==
  /\ \A s \in Socket : earlier[s] \subseteq Busy
  /\ losses = 0 =>
       \A s \in Socket : Current(s) =>
         /\ link[s] \notin {"none", "down"}
         /\ s \notin listed => wire[s] = <<>> /\ activeThreads = {}
         /\ s \in listed => Counted(s) = Busy \ earlier[s]

AppInv == /\ TypeOK /\ EffectInv /\ Numbered /\ StateInv
          /\ PhaseInv /\ SocketInv /\ ServerInv /\ SaidInv

------------------------------------------------------------------------------
(* What some steps do, in a state where the invariants hold *)

LEMMA SocketFinite == IsFiniteSet(Socket) /\ Socket \subseteq Nat
BY FS_Interval, BoundAssumption DEF Socket

(* connect makes a WebSocket that was not there. *)
LEMMA ConnectFacts ==
  ASSUME TypeOK, Numbered, NEW e \in Effect, connect(e)
  PROVE  \E s \in Socket \ Made :
           /\ owner' = [owner EXCEPT ![s] = e]
           /\ ws' = [ws EXCEPT ![e] = s]
           /\ readyState' = [readyState EXCEPT ![s] = "connecting"]
           /\ link' = [link EXCEPT ![s] = "dialing"]
           /\ Made' = Made \cup {s}
           /\ Numbered'
<1> DEFINE s == Cardinality(Made) + 1
<1>1. IsFiniteSet(Made) /\ Cardinality(Made) \in Nat
  BY SocketFinite, FS_Subset, FS_CardinalityType DEF Made
<1>2. s \in Socket \ Made
  <2>1. s \in Socket
    BY DEF connect, Made
  <2>2. s \notin 1..Cardinality(Made)
    BY <1>1
  <2> QED BY <2>1, <2>2 DEF Numbered
<1>3. /\ owner' = [owner EXCEPT ![s] = e]
      /\ ws' = [ws EXCEPT ![e] = s]
      /\ readyState' = [readyState EXCEPT ![s] = "connecting"]
      /\ link' = [link EXCEPT ![s] = "dialing"]
  BY DEF connect, Made
<1>4. Made' = Made \cup {s}
  <2>1. e # None
    BY NamesAssumption DEF Effect
  <2> HIDE DEF s
  <2> QED BY <1>2, <1>3, <2>1 DEF Made, TypeOK
<1>5. Numbered'
  <2>1. Made' = 1..(Cardinality(Made) + 1)
    <3>1. 1..(Cardinality(Made) + 1) = 1..Cardinality(Made) \cup {Cardinality(Made) + 1}
      BY <1>1
    <3> QED BY <1>4, <3>1 DEF Numbered
  <2>2. Cardinality(Made') = Cardinality(Made) + 1
    BY <1>1, <1>2, <1>4, FS_AddElement
  <2> QED BY <2>1, <2>2 DEF Numbered
<1> HIDE DEF s
<1> QED BY <1>2, <1>3, <1>4, <1>5

(* The cleanup of the mounted effect e *)
LEMMA UnmountFacts ==
  ASSUME AppInv, Unmount
  PROVE  \E e \in Effect :
           /\ isMounted[e] /\ isMounted' = [isMounted EXCEPT ![e] = FALSE]
           /\ reconnectTimer' = [reconnectTimer EXCEPT ![e] = FALSE]
           /\ ws[e] \in Socket /\ owner[ws[e]] = e
           /\ muted' = muted \cup {ws[e]}
           /\ readyState' = IF readyState[ws[e]] \in {"connecting", "open"}
                            THEN [readyState EXCEPT ![ws[e]] = "closing"]
                            ELSE readyState
           /\ \/ /\ readyState[ws[e]] = "connecting"
                 /\ link' = [link EXCEPT ![ws[e]] = "down"]
              \/ /\ readyState[ws[e]] # "connecting" \/ link[ws[e]] = "answered"
                 /\ link' = link
           /\ UNCHANGED <<strict, ws, owner, stateVars, wire, losses, serverVars>>
           /\ phase' \in {"cleaned", "unmounted"}
           /\ phase' = "cleaned" <=> phase = "mounted"
<1>1. PICK e \in Effect : isMounted[e] /\ Cleanup(e)
  BY DEF Unmount
<1>2. ws[e] \in Socket /\ owner[ws[e]] = e
  BY <1>1 DEF AppInv, EffectInv, TypeOK
<1> QED BY <1>1, <1>2 DEF Unmount, Cleanup, Close

(* onopen is called for the effect's ws. *)
LEMMA OpenedFacts ==
  ASSUME AppInv, NEW s \in Socket, Opened(s)
  PROVE  /\ s \in Made /\ ws[owner[s]] = s /\ link[s] = "answered"
         /\ link' = [link EXCEPT ![s] = "up"]
         /\ \/ /\ Current(s) /\ phase = "running"
               /\ readyState' = [readyState EXCEPT ![s] = "open"]
               /\ status' = "Connected" /\ socket' = s
            \/ /\ ~Current(s) /\ readyState[s] = "closing"
               /\ UNCHANGED <<readyState, status, socket>>
<1>1. link[s] = "answered" /\ link' = [link EXCEPT ![s] = "up"] /\ Ready
  BY DEF Opened
<1>2. s \in Made /\ owner[s] \in Effect
  BY <1>1 DEF AppInv, StateInv, TypeOK, Made
<1>3. readyState[s] \in {"connecting", "closing"}
  BY <1>1, <1>2 DEF AppInv, StateInv, TypeOK, Made
<1>4. ws[owner[s]] = s
  BY <1>2, <1>3 DEF AppInv, EffectInv
<1>5. CASE isMounted[owner[s]]
  <2>1. Current(s)
    BY <1>2, <1>5 DEF Current, Made
  <2>2. phase = "running"
    BY <1>1, <1>2, <1>5 DEF Ready, AppInv, PhaseInv
  <2> QED BY <1>1, <1>2, <1>4, <1>5, <2>1, <2>2 DEF Opened
<1>6. CASE ~isMounted[owner[s]]
  <2>1. ~Current(s) /\ readyState[s] = "closing"
    BY <1>2, <1>3, <1>6 DEF Current, AppInv, StateInv, Made
  <2>2. /\ readyState' = [readyState EXCEPT ![s] = "open", ![s] = "closing"]
        /\ UNCHANGED <<status, socket>>
    BY <1>4, <1>6 DEF Opened
  <2>3. readyState' = readyState
    BY <2>1, <2>2 DEF AppInv, TypeOK
  <2> QED BY <1>1, <1>2, <1>4, <2>1, <2>2, <2>3
<1> QED BY <1>5, <1>6

(* onclose of a current WebSocket is one of the effect's ws. *)
LEMMA ClosedFacts ==
  ASSUME AppInv, NEW s \in Socket, Closed(s)
  PROVE  /\ s \in Made /\ owner[s] \in Effect /\ link[s] = "down"
         /\ ws[owner[s]] = s
         /\ readyState' = [readyState EXCEPT ![s] = "closed"]
         /\ \/ /\ Current(s) /\ phase = "running"
               /\ status' = "Disconnected" /\ socket' = None
               /\ reconnectTimer' = [reconnectTimer EXCEPT ![owner[s]] = TRUE]
            \/ ~Current(s) /\ UNCHANGED <<status, socket, reconnectTimer>>
<1>1. /\ link[s] = "down" /\ readyState[s] # "closed" /\ Ready
      /\ readyState' = [readyState EXCEPT ![s] = "closed"]
  BY DEF Closed, Closing
<1>2. s \in Made /\ owner[s] \in Effect
  BY <1>1 DEF AppInv, StateInv, TypeOK, Made
<1>3. ws[owner[s]] = s
  BY <1>1, <1>2 DEF AppInv, EffectInv
<1>4. Current(s) <=> isMounted[owner[s]]
  BY <1>2 DEF Current, Made
<1>5. isMounted[owner[s]] => phase = "running"
  BY <1>1, <1>2 DEF Ready, AppInv, PhaseInv
<1> QED BY <1>1, <1>2, <1>3, <1>4, <1>5 DEF Closed

LEMMA Events ==
  /\ \A w \in Worker : /\ Spawned(w) \in Event /\ Spawned(w).event = "Thread Spawned"
                       /\ Spawned(w).thread_id = w /\ ~IsText(Spawned(w))
                       /\ Terminated(w) \in Event
                       /\ Terminated(w).event = "Thread Terminated"
                       /\ Terminated(w).thread_id = w /\ ~IsText(Terminated(w))
  /\ \A n \in Nat : /\ TextEvent(n) \in Event /\ IsText(TextEvent(n))
                    /\ TextEvent(n).number = n
  /\ \A m \in Event : \/ \E w \in Worker : m = Spawned(w) \/ m = Terminated(w)
                      \/ \E n \in Nat : m = TextEvent(n)
<1>1. \A w \in Worker : Spawned(w) \in Event /\ Terminated(w) \in Event
  BY DEF Event
<1>2. /\ \A m \in [event : {"text"}, number : Nat] :
           m = TextEvent(m.number) /\ m.number \in Nat
      /\ \A n \in Nat : TextEvent(n) \in [event : {"text"}, number : Nat]
  BY DEF TextEvent
<1>3. \A m \in Event : \/ \E w \in Worker : m = Spawned(w) \/ m = Terminated(w)
                       \/ \E n \in Nat : m = TextEvent(n)
  BY <1>2 DEF Event
<1>4. \A n \in Nat : TextEvent(n) \in Event
  BY <1>2 DEF Event
<1> QED BY <1>1, <1>3, <1>4 DEF Spawned, Terminated, TextEvent, IsText

LEMMA TextNumber == \A m \in Event : IsText(m) => m.number \in Nat
<1> SUFFICES ASSUME NEW m \in Event, IsText(m) PROVE m.number \in Nat
  OBVIOUS
<1>1. PICK n \in Nat : m = TextEvent(n)
  BY Events
<1> QED BY <1>1, Events

(* What the handling of a text does to messages *)
Texted(n) ==
  \/ messages' = messages \/ messages' = <<>>
  \/ messages' = Show("Raw", n) /\ said[n].text = "quoted"
  \/ /\ messages' = Show("Client", n) /\ said[n].text = "plain"
     /\ said[n].event = "chat"

(* What onmessage does with an event, if it handles it *)
LEMMA HandleFacts ==
  ASSUME NEW m \in Event, Handle(m)
  PROVE  \/ \E w \in Worker : /\ m = Spawned(w) /\ messages' = messages
                              /\ activeThreads' = activeThreads \cup {w}
         \/ \E w \in Worker : /\ m = Terminated(w) /\ messages' = messages
                              /\ activeThreads' = activeThreads \ {w}
         \/ \E n \in Nat : /\ m = TextEvent(n) /\ Texted(n)
                           /\ activeThreads' = activeThreads
<1>1. ASSUME NEW w \in Worker, m = Spawned(w)
      PROVE  messages' = messages /\ activeThreads' = activeThreads \cup {w}
  <2>1. m.event = "Thread Spawned" /\ m.thread_id = w
    BY <1>1, Events
  <2> QED BY <2>1 DEF Handle
<1>2. ASSUME NEW w \in Worker, m = Terminated(w)
      PROVE  messages' = messages /\ activeThreads' = activeThreads \ {w}
  <2>1. m.event = "Thread Terminated" /\ m.thread_id = w
    BY <1>2, Events
  <2> QED BY <2>1 DEF Handle
<1>3. ASSUME NEW n \in Nat, m = TextEvent(n)
      PROVE  Texted(n) /\ activeThreads' = activeThreads
  <2>1. m.event = "text" /\ m.number = n
    BY <1>3, Events DEF IsText
  <2>2. messages' = HandleText(n) /\ activeThreads' = activeThreads
    BY <2>1 DEF Handle
  <2> QED BY <2>2 DEF HandleText, Texted
<1>4. \/ \E w \in Worker : m = Spawned(w)
      \/ \E w \in Worker : m = Terminated(w)
      \/ \E n \in Nat : m = TextEvent(n)
  BY Events
<1> QED BY <1>1, <1>2, <1>3, <1>4

LEMMA MessageFacts ==
  ASSUME AppInv, NEW s \in Socket, Message(s)
  PROVE  /\ link[s] = "up" /\ wire[s] \in Seq(Event) /\ wire[s] # <<>>
         /\ Head(wire[s]) \in Event /\ Tail(wire[s]) \in Seq(Event)
         /\ s \in Made /\ phase \in {"running", "unmounted"}
         /\ wire' = [wire EXCEPT ![s] = Tail(wire[s])]
         /\ \/ Current(s) /\ Handle(Head(wire[s]))
            \/ ~Current(s) /\ UNCHANGED <<activeThreads, messages>>
         /\ UNCHANGED <<effectVars, socketVars, socket, status, link, losses,
                        serverVars>>
<1>1. /\ link[s] = "up" /\ wire[s] # <<>> /\ Ready
      /\ wire' = [wire EXCEPT ![s] = Tail(wire[s])]
      /\ UNCHANGED <<effectVars, socketVars, socket, status, link, losses,
                     serverVars>>
      /\ IF readyState[s] = "open" /\ s \notin muted /\ isMounted[owner[s]]
         THEN Handle(Head(wire[s]))
         ELSE UNCHANGED <<activeThreads, messages>>
  BY DEF Message
<1>2. wire[s] \in Seq(Event)
  BY DEF AppInv, TypeOK
<1>3. Head(wire[s]) \in Event /\ Tail(wire[s]) \in Seq(Event)
  BY <1>1, <1>2
<1>4. s \in Made
  BY <1>1 DEF AppInv, StateInv, Made
<1>5. Current(s) => readyState[s] = "open" /\ s \notin muted
  BY <1>1, <1>4 DEF AppInv, StateInv, Made, TypeOK
<1>6. Current(s) <=> isMounted[owner[s]]
  BY <1>4 DEF Current, Made
<1> QED BY <1>1, <1>2, <1>3, <1>4, <1>5, <1>6 DEF Ready

LEMMA BroadcastType ==
  ASSUME TypeOK, NEW m \in Event, Broadcast(m)
  PROVE  wire' \in [Socket -> Seq(Event)]
BY DEF TypeOK, Broadcast

LEMMA SaidType ==
  ASSUME TypeOK
  PROVE  \A k \in DOMAIN said :
           /\ k \in Nat /\ said[k].event \in {"INSERT", "chat"}
           /\ said[k].text \in Texts /\ said[k].of \in Nat
<1> DEFINE Log == [event : {"INSERT", "chat"}, text : Texts, of : Nat]
<1>1. \A e \in Log : /\ e.event \in {"INSERT", "chat"}
                     /\ e.text \in Texts /\ e.of \in Nat
  OBVIOUS
<1>2. said \in Seq(Log)
  BY DEF TypeOK
<1> HIDE DEF Log
<1>3. DOMAIN said = 1..Len(said) /\ Len(said) \in Nat
  BY <1>2
<1>4. \A k \in 1..Len(said) : k \in Nat /\ said[k] \in Log
  BY <1>2, <1>3, ElementOfSeq
<1> QED BY <1>1, <1>3, <1>4

LEMMA ShowType ==
  ASSUME TypeOK
  PROVE  /\ \A n \in Nat : /\ Show("Raw", n) \in Seq(Entry)
                           /\ Show("Client", n) \in Seq(Entry)
         /\ Show("You", 0) \in Seq(Entry)
<1>1. messages \in Seq(Entry)
  BY DEF TypeOK
<1>2. \A e \in Entry : Append(messages, e) \in Seq(Entry)
  BY <1>1, AppendProperties
<1>3. \A n \in Nat : \A p \in {"You", "Client", "Raw"} :
        [sender |-> p, number |-> n] \in Entry
  BY DEF Entry
<1> QED BY <1>2, <1>3 DEF Show

------------------------------------------------------------------------------
LEMMA InitType == Init => TypeOK
<1> SUFFICES ASSUME Init PROVE TypeOK
  OBVIOUS
<1>1. losses \in 0..MaxLosses /\ tabs \in 0..MaxTabs /\ chats \in 0..MaxChats
  BY BoundAssumption DEF Init
<1>2. /\ wire \in [Socket -> Seq(Event)] /\ messages \in Seq(Entry)
      /\ sent \in [Socket -> Seq(Texts)] /\ Len(said) = 0
      /\ said \in Seq([event : {"INSERT", "chat"}, text : Texts, of : Nat])
  BY DEF Init
<1> QED BY <1>1, <1>2 DEF Init, TypeOK

LEMMA NextType == AppInv /\ [Next]_vars => TypeOK'
<1> SUFFICES ASSUME AppInv, TypeOK, [Next]_vars PROVE TypeOK'
  BY DEF AppInv
<1>1. ASSUME NEW e \in Effect, Mount(e) PROVE TypeOK'
  <2>1. PICK s \in Socket :
           /\ owner' = [owner EXCEPT ![s] = e]
           /\ ws' = [ws EXCEPT ![e] = s]
           /\ readyState' = [readyState EXCEPT ![s] = "connecting"]
           /\ link' = [link EXCEPT ![s] = "dialing"]
    BY <1>1, ConnectFacts DEF Mount, AppInv
  <2> QED BY <1>1, <2>1 DEF Mount, TypeOK, stateVars, serverVars
<1>2. CASE Unmount
  <2>1. PICK e \in Effect :
          /\ isMounted' = [isMounted EXCEPT ![e] = FALSE]
          /\ reconnectTimer' = [reconnectTimer EXCEPT ![e] = FALSE]
          /\ ws[e] \in Socket /\ muted' = muted \cup {ws[e]}
          /\ readyState' \in {readyState, [readyState EXCEPT ![ws[e]] = "closing"]}
          /\ link' \in {link, [link EXCEPT ![ws[e]] = "down"]}
          /\ UNCHANGED <<strict, ws, owner, stateVars, wire, losses, serverVars>>
          /\ phase' \in {"cleaned", "unmounted"}
    BY <1>2, UnmountFacts
  <2>2. /\ readyState' \in [Socket -> {"none", "connecting", "open", "closing", "closed"}]
        /\ link' \in [Socket -> {"none", "dialing", "answered", "up", "down"}]
        /\ isMounted' \in [Effect -> BOOLEAN]
        /\ reconnectTimer' \in [Effect -> BOOLEAN]
    BY <2>1 DEF TypeOK
  <2> QED BY <2>1, <2>2 DEF TypeOK, stateVars, serverVars
<1>3. ASSUME NEW e \in Effect, Timeout(e) PROVE TypeOK'
  <2>1. PICK s \in Socket :
           /\ owner' = [owner EXCEPT ![s] = e]
           /\ ws' = [ws EXCEPT ![e] = s]
           /\ readyState' = [readyState EXCEPT ![s] = "connecting"]
           /\ link' = [link EXCEPT ![s] = "dialing"]
    BY <1>3, ConnectFacts DEF Timeout, AppInv
  <2> QED BY <1>3, <2>1 DEF Timeout, TypeOK, stateVars, serverVars
<1>4. ASSUME NEW s \in Socket, Opened(s) PROVE TypeOK'
  <2>1. /\ link' = [link EXCEPT ![s] = "up"]
        /\ readyState' \in {readyState, [readyState EXCEPT ![s] = "open"]}
        /\ status' \in {status, "Connected"} /\ socket' \in {socket, s}
    BY <1>4, OpenedFacts
  <2>2. UNCHANGED <<effectVars, muted, activeThreads, messages, wire, losses, serverVars>>
    BY <1>4 DEF Opened
  <2> QED BY <2>1, <2>2 DEF TypeOK, effectVars, serverVars
<1>5. ASSUME NEW s \in Socket, Message(s) PROVE TypeOK'
  <2> DEFINE rest == Tail(wire[s])
  <2>1. wire' \in [Socket -> Seq(Event)]
    <3>1. rest \in Seq(Event) /\ wire' = [wire EXCEPT ![s] = rest]
      BY <1>5, MessageFacts
    <3> HIDE DEF rest
    <3> QED BY <3>1 DEF TypeOK
  <2>2. activeThreads' \subseteq Worker /\ messages' \in Seq(Entry)
    <3>1. CASE UNCHANGED <<activeThreads, messages>>
      BY <3>1 DEF TypeOK
    <3>2. CASE Handle(Head(wire[s]))
      <4>1. Head(wire[s]) \in Event
        BY <1>5, MessageFacts
      <4>2. \/ \E w \in Worker : /\ messages' = messages
                                 /\ activeThreads' \in {activeThreads \cup {w},
                                                       activeThreads \ {w}}
            \/ \E n \in Nat : Texted(n) /\ activeThreads' = activeThreads
        BY <3>2, <4>1, HandleFacts
      <4>3. activeThreads' \subseteq Worker
        BY <4>2 DEF TypeOK
      <4>4. messages' \in Seq(Entry)
        <5>1. messages \in Seq(Entry)
          BY DEF TypeOK
        <5>2. ASSUME NEW n \in Nat, Texted(n) PROVE messages' \in Seq(Entry)
          <6>1. \/ messages' = messages \/ messages' = <<>>
                \/ messages' = Show("Raw", n) \/ messages' = Show("Client", n)
            BY <5>2 DEF Texted
          <6>2. <<>> \in Seq(Entry)
            OBVIOUS
          <6> QED BY <5>1, <6>1, <6>2, ShowType
        <5> QED BY <4>2, <5>1, <5>2
      <4> QED BY <4>3, <4>4
    <3> QED BY <1>5, <3>1, <3>2, MessageFacts
  <2> QED BY <1>5, <2>1, <2>2, MessageFacts
          DEF TypeOK, effectVars, socketVars, serverVars
<1>6. ASSUME NEW s \in Socket, Closed(s) PROVE TypeOK'
  BY <1>6, ClosedFacts DEF Closed, Closing, TypeOK, serverVars
<1>7. ASSUME NEW s \in Socket, Lose(s) \/ HangUp(s) PROVE TypeOK'
  <2>1. /\ wire' = [wire EXCEPT ![s] = <<>>]
        /\ link' = [link EXCEPT ![s] = "down"]
        /\ losses' \in 0..MaxLosses
        /\ UNCHANGED <<effectVars, socketVars, stateVars, serverVars>>
    BY <1>7, BoundAssumption DEF Lose, HangUp, TypeOK
  <2>2. wire' \in [Socket -> Seq(Event)]
    BY <2>1 DEF TypeOK
  <2> QED BY <2>1, <2>2 DEF TypeOK, effectVars, socketVars, stateVars, serverVars
<1>8. ASSUME NEW w \in Worker, NEW k \in Socket \cup {Tab}, Answer(w, k) PROVE TypeOK'
  <2>1. wire' \in [Socket -> Seq(Event)]
    BY <1>8, BroadcastType, Events DEF Answer
  <2>2. tabs' \in 0..MaxTabs
    BY <1>8, BoundAssumption DEF Answer, TypeOK
  <2>3. link' = link \/ \E s \in Socket : link' = [link EXCEPT ![s] = "answered"]
    BY <1>8 DEF Answer
  <2> QED BY <1>8, <2>1, <2>2, <2>3
          DEF Answer, TypeOK, effectVars, socketVars, stateVars, chatVars
<1>9. ASSUME NEW w \in Worker, Register(w) PROVE TypeOK'
  <2>1. serving[w] = Tab \/ serving[w] \in Socket
    BY <1>9 DEF Register, TypeOK, AppInv, ServerInv
  <2>2. listed' \subseteq Socket /\ earlier' \in [Socket -> SUBSET Worker]
    <3>1. CASE UNCHANGED <<listed, earlier>>
      BY <3>1 DEF TypeOK
    <3>2. CASE /\ serving[w] # Tab /\ listed' = listed \cup {serving[w]}
               /\ earlier' = [earlier EXCEPT ![serving[w]] = Busy]
      <4>1. Busy \in SUBSET Worker
        BY DEF Busy
      <4> QED BY <2>1, <3>2, <4>1 DEF TypeOK
    <3> QED BY <1>9, <3>1, <3>2 DEF Register
  <2> QED BY <1>9, <2>2 DEF Register, TypeOK, effectVars, socketVars, stateVars,
              chatVars
<1>10. ASSUME NEW w \in Worker, Leave(w) PROVE TypeOK'
  <2>1. sent' \in [Socket -> Seq(Texts)]
    BY <1>10 DEF Leave, TypeOK
  <2> QED BY <1>10, <2>1 DEF Leave, TypeOK, effectVars, socketVars, stateVars
<1>11. ASSUME NEW w \in Worker, Terminate(w) PROVE TypeOK'
  <2>1. wire' \in [Socket -> Seq(Event)]
    BY <1>11, BroadcastType, Events DEF Terminate
  <2> QED BY <1>11, <2>1 DEF Terminate, TypeOK, effectVars, socketVars, stateVars,
              chatVars
<1>12. ASSUME NEW w \in Worker, NEW t \in Texts, Receive(w, t) PROVE TypeOK'
  <2> DEFINE n == Len(said) + 1
             x == [event |-> "INSERT", text |-> t, of |-> n]
  <2>1. /\ said' = Append(said, x) /\ handling' = [handling EXCEPT ![w] = n]
        /\ Broadcast(TextEvent(n))
    BY <1>12 DEF Receive
  <2>2. n \in Nat
    BY DEF TypeOK
  <2>3. x \in [event : {"INSERT", "chat"}, text : Texts, of : Nat]
    BY <2>2
  <2>4. wire' \in [Socket -> Seq(Event)]
    BY <2>1, <2>2, BroadcastType, Events
  <2>5. /\ handling' \in [Worker -> Nat \cup {None}]
        /\ said' \in Seq([event : {"INSERT", "chat"}, text : Texts, of : Nat])
    <3> HIDE DEF n, x
    <3> QED BY <2>1, <2>2, <2>3, AppendProperties DEF TypeOK
  <2>6. sent' \in [Socket -> Seq(Texts)] /\ chats' \in 0..MaxChats
    <3>1. CASE /\ serving[w] \in Socket /\ sent[serving[w]] # <<>>
               /\ sent' = [sent EXCEPT ![serving[w]] = Tail(@)] /\ chats' = chats
      <4>1. Tail(sent[serving[w]]) \in Seq(Texts)
        BY <3>1 DEF TypeOK
      <4> QED BY <3>1, <4>1 DEF TypeOK
    <3>2. CASE chats < MaxChats /\ chats' = chats + 1 /\ sent' = sent
      BY <3>2, BoundAssumption DEF TypeOK
    <3> QED BY <1>12, <3>1, <3>2 DEF Receive
  <2> HIDE DEF n, x
  <2> QED BY <1>12, <2>4, <2>5, <2>6
          DEF Receive, TypeOK, effectVars, socketVars, stateVars
<1>13. ASSUME NEW w \in Worker, Announce(w), SaidInv PROVE TypeOK'
  <2> DEFINE x == [event |-> "chat", text |-> said[handling[w]].text,
                   of |-> handling[w]]
  <2>1. /\ said' = Append(said, x) /\ handling' = [handling EXCEPT ![w] = None]
        /\ Broadcast(TextEvent(Len(said) + 1)) /\ handling[w] # None
    BY <1>13 DEF Announce
  <2>2. Len(said) + 1 \in Nat
    BY DEF TypeOK
  <2>3. x \in [event : {"INSERT", "chat"}, text : Texts, of : Nat]
    <3>1. handling[w] \in Nat /\ handling[w] \in DOMAIN said
      BY <1>13, <2>1 DEF SaidInv, TypeOK
    <3>2. said[handling[w]].text \in Texts
      BY <3>1, SaidType
    <3> QED BY <3>1, <3>2
  <2>4. wire' \in [Socket -> Seq(Event)]
    BY <2>1, <2>2, BroadcastType, Events
  <2>5. /\ handling' \in [Worker -> Nat \cup {None}]
        /\ said' \in Seq([event : {"INSERT", "chat"}, text : Texts, of : Nat])
    <3> HIDE DEF x
    <3> QED BY <2>1, <2>3, AppendProperties DEF TypeOK
  <2> HIDE DEF x
  <2> QED BY <1>13, <2>4, <2>5
          DEF Announce, TypeOK, effectVars, socketVars, stateVars
<1>14. ASSUME NEW t \in Texts, sendMessage(t) PROVE TypeOK'
  <2>1. messages' \in Seq(Entry)
    BY <1>14, ShowType DEF sendMessage
  <2>2. chats' \in 0..MaxChats
    BY <1>14, BoundAssumption DEF sendMessage, TypeOK
  <2>3. sent' \in [Socket -> Seq(Texts)]
    <3>1. socket \in Socket
      BY <1>14 DEF sendMessage, TypeOK
    <3>2. Append(sent[socket], t) \in Seq(Texts)
      BY <3>1, AppendProperties DEF TypeOK
    <3> QED BY <1>14, <3>1, <3>2 DEF sendMessage, TypeOK
  <2> QED BY <1>14, <2>1, <2>2, <2>3
          DEF sendMessage, TypeOK, effectVars, socketVars
<1>15. CASE UNCHANGED vars
  BY <1>15 DEF vars, TypeOK, effectVars, socketVars, stateVars, serverVars
<1> QED BY <1>1, <1>2, <1>3, <1>4, <1>5, <1>6, <1>7, <1>8, <1>9, <1>10, <1>11,
           <1>12, <1>13, <1>14, <1>15 DEF Next, AppInv

------------------------------------------------------------------------------
(* Neither the effect nor a connection changes. *)
LEMMA AppUnchanged ==
  ASSUME UNCHANGED <<effectVars, socketVars, socket, status, link>>,
         phase \in {"running", "unmounted"} \/ UNCHANGED <<activeThreads, messages>>
  PROVE  /\ EffectInv => EffectInv'
         /\ Numbered => Numbered'
         /\ StateInv => StateInv'
         /\ PhaseInv => PhaseInv'
         /\ SocketInv => SocketInv'
<1> USE DEF effectVars, socketVars
<1>1. Made' = Made /\ \A s : Current(s)' = Current(s)
  BY DEF Made, Current
<1>2. EffectInv => EffectInv'
  BY <1>1 DEF EffectInv
<1>3. Numbered => Numbered'
  BY <1>1 DEF Numbered
<1>4. StateInv => StateInv'
  BY <1>1 DEF StateInv
<1>5. PhaseInv => PhaseInv'
  BY DEF PhaseInv
<1>6. SocketInv => SocketInv'
  BY DEF SocketInv, Current
<1> QED BY <1>2, <1>3, <1>4, <1>5, <1>6

(* The effect e, mounted now, connects and has no other WebSocket left.    *)
LEMMA Connects ==
  ASSUME AppInv, NEW e \in Effect, NEW s \in Socket \ Made,
         owner' = [owner EXCEPT ![s] = e], ws' = [ws EXCEPT ![e] = s],
         readyState' = [readyState EXCEPT ![s] = "connecting"],
         link' = [link EXCEPT ![s] = "dialing"], Made' = Made \cup {s},
         \A r \in Made : owner[r] = e => readyState[r] = "closed",
         isMounted' = [isMounted EXCEPT ![e] = TRUE],
         \A f \in Effect : f # e => ~isMounted[f],
         muted' = muted, ~reconnectTimer'[e],
         \A f \in Effect : f # e => reconnectTimer'[f] = reconnectTimer[f],
         isMounted[e] \/ \A r \in Made : owner[r] # e
  PROVE  EffectInv' /\ StateInv'
<1> USE DEF AppInv
<1>1. /\ owner'[s] = e /\ ws'[e] = s /\ readyState'[s] = "connecting"
      /\ link'[s] = "dialing" /\ isMounted'[e]
      /\ \A r \in Socket : r # s => /\ owner'[r] = owner[r] /\ link'[r] = link[r]
                                    /\ readyState'[r] = readyState[r]
      /\ \A f \in Effect : f # e => ws'[f] = ws[f] /\ isMounted'[f] = isMounted[f]
  BY DEF TypeOK
<1>2. owner[s] = None /\ e # None /\ s # None
  BY NamesAssumption, SocketFinite DEF Made, Effect
<1>3. EffectInv'
  <2>1. ASSUME NEW f \in Effect
        PROVE  /\ ws'[f] # None => owner'[ws'[f]] = f
               /\ isMounted'[f] => ws'[f] # None
               /\ reconnectTimer'[f] => isMounted'[f] /\ readyState'[ws'[f]] = "closed"
    <3>1. CASE f = e
      BY <1>1, <1>2, <3>1
    <3>2. CASE f # e
      <4>1. ~isMounted'[f] /\ ~reconnectTimer'[f] /\ ws'[f] = ws[f]
        BY <1>1, <3>2 DEF EffectInv
      <4>2. f # None
        BY NamesAssumption DEF Effect
      <4>3. ws[f] # None => ws[f] \in Socket /\ owner[ws[f]] = f
        BY DEF EffectInv, TypeOK
      <4>4. ws[f] # None => ws[f] # s /\ owner'[ws[f]] = f
        BY <1>1, <1>2, <4>2, <4>3
      <4> QED BY <4>1, <4>4
    <3> QED BY <3>1, <3>2
  <2>2. ASSUME NEW r \in Made'
        PROVE  /\ ws'[owner'[r]] # None
               /\ r # ws'[owner'[r]] => readyState'[r] = "closed"
    <3>1. CASE r = s
      BY <1>1, <1>2, <3>1
    <3>2. CASE r # s
      <4>1. r \in Made /\ r \in Socket /\ owner'[r] = owner[r] /\ owner[r] \in Effect
        BY <1>1, <3>2 DEF Made, TypeOK
      <4>2. CASE owner[r] = e
        BY <1>1, <1>2, <3>2, <4>1, <4>2
      <4>3. CASE owner[r] # e
        BY <1>1, <3>2, <4>1, <4>3 DEF EffectInv
      <4> QED BY <4>2, <4>3
    <3> QED BY <3>1, <3>2
  <2> QED BY <2>1, <2>2 DEF EffectInv
<1>4. StateInv'
  <2>1. Current(s)' /\ owner'[s] # None /\ s \notin muted'
    BY <1>1, <1>2 DEF Current, StateInv
  <2>2. \A r \in Socket : r # s => (Current(r)' <=> Current(r))
    BY <1>1, <1>2 DEF Current, Made, TypeOK
  <2>3. \A r \in Socket : r # s =>
          /\ owner'[r] = None <=> readyState'[r] = "none"
          /\ owner'[r] = None <=> link'[r] = "none"
          /\ readyState'[r] = "closed" => link'[r] = "down"
          /\ readyState'[r] = "connecting" => link'[r] \in {"dialing", "answered", "down"}
          /\ readyState'[r] = "open" => link'[r] \in {"up", "down"}
          /\ readyState'[r] = "closing" => link'[r] # "dialing" /\ ~Current(r)'
          /\ owner'[r] # None /\ ~Current(r)' => readyState'[r] \in {"closing", "closed"}
          /\ r \in muted' => owner'[r] # None /\ ~Current(r)'
    BY <1>1, <2>2 DEF StateInv
  <2> QED BY <1>1, <2>1, <2>3 DEF StateInv
<1> QED BY <1>3, <1>4

(* The same connection, but for its link, which has been answered or lost. *)
LEMMA LinkChanges ==
  ASSUME AppInv, NEW s \in Made, NEW v \in {"answered", "down"},
         link' = [link EXCEPT ![s] = v], v = "answered" => link[s] = "dialing",
         UNCHANGED <<effectVars, socketVars, stateVars>>
  PROVE  EffectInv' /\ Numbered' /\ StateInv' /\ PhaseInv' /\ SocketInv'
<1> USE DEF effectVars, socketVars, stateVars
<1>1. Made' = Made /\ \A r : Current(r)' = Current(r)
  BY DEF Made, Current
<1>2. EffectInv'
  BY <1>1 DEF AppInv, EffectInv
<1>3. Numbered'
  BY <1>1 DEF AppInv, Numbered
<1>4. PhaseInv' /\ SocketInv'
  BY DEF AppInv, PhaseInv, SocketInv, Current
<1>5. StateInv'
  <2>1. \A r \in Socket : link'[r] = IF r = s THEN v ELSE link[r]
    BY DEF AppInv, TypeOK
  <2>2. owner[s] # None
    BY DEF Made
  <2> QED BY <1>1, <2>1, <2>2 DEF AppInv, StateInv
<1> QED BY <1>2, <1>3, <1>4, <1>5

LEMMA MountStep ==
  ASSUME AppInv, NEW e \in Effect, Mount(e)
  PROVE  EffectInv' /\ Numbered' /\ StateInv' /\ PhaseInv' /\ SocketInv'
<1>1. PICK s \in Socket \ Made :
        /\ owner' = [owner EXCEPT ![s] = e]
        /\ ws' = [ws EXCEPT ![e] = s]
        /\ readyState' = [readyState EXCEPT ![s] = "connecting"]
        /\ link' = [link EXCEPT ![s] = "dialing"]
        /\ Made' = Made \cup {s}
        /\ Numbered'
  BY ConnectFacts DEF Mount, AppInv
<1>2. /\ isMounted' = [isMounted EXCEPT ![e] = TRUE]
      /\ reconnectTimer' = reconnectTimer /\ muted' = muted
      /\ UNCHANGED <<socket, status, activeThreads, messages>>
  BY DEF Mount, stateVars
<1>3. \/ e = 1 /\ phase = "initial" /\ phase' \in {"mounted", "running"}
      \/ e = 2 /\ phase = "cleaned" /\ phase' = "running"
  BY DEF Mount
<1>4. ws[e] = None /\ \A f \in Effect : ~isMounted[f] /\ ~reconnectTimer[f]
  BY <1>3 DEF AppInv, PhaseInv, EffectInv
<1>5. \A r \in Made : owner[r] # e
  BY <1>4 DEF AppInv, EffectInv
<1>6. EffectInv' /\ StateInv'
  <2>1. /\ \A r \in Made : owner[r] = e => readyState[r] = "closed"
        /\ \A f \in Effect : f # e => ~isMounted[f]
        /\ ~reconnectTimer'[e]
        /\ \A f \in Effect : f # e => reconnectTimer'[f] = reconnectTimer[f]
        /\ isMounted[e] \/ \A r \in Made : owner[r] # e
    BY <1>2, <1>4, <1>5
  <2> QED BY <1>1, <1>2, <2>1, Connects
<1>7. \A f \in Effect : isMounted'[f] <=> f = e
  BY <1>2, <1>4 DEF AppInv, TypeOK
<1>8. socket' = None /\ status' = "Disconnected" /\ activeThreads' = {} /\ messages' = <<>>
  BY <1>2, <1>3 DEF AppInv, PhaseInv
<1>9. PhaseInv'
  <2>1. e = 1 => ws'[2] = None /\ ~isMounted'[2]
    BY <1>1, <1>3, <1>7 DEF AppInv, PhaseInv, TypeOK, Effect
  <2> QED BY <1>3, <1>7, <1>8, <2>1 DEF PhaseInv
<1>10. SocketInv'
  BY <1>8 DEF SocketInv
<1> QED BY <1>1, <1>6, <1>9, <1>10

LEMMA TimeoutStep ==
  ASSUME AppInv, NEW e \in Effect, Timeout(e)
  PROVE  EffectInv' /\ Numbered' /\ StateInv' /\ PhaseInv' /\ SocketInv'
<1>1. PICK s \in Socket \ Made :
        /\ owner' = [owner EXCEPT ![s] = e]
        /\ ws' = [ws EXCEPT ![e] = s]
        /\ readyState' = [readyState EXCEPT ![s] = "connecting"]
        /\ link' = [link EXCEPT ![s] = "dialing"]
        /\ Made' = Made \cup {s}
        /\ Numbered'
  BY ConnectFacts DEF Timeout, AppInv
<1>2. /\ reconnectTimer' = [reconnectTimer EXCEPT ![e] = FALSE]
      /\ UNCHANGED <<phase, isMounted, muted, socket, status, activeThreads, messages>>
  BY DEF Timeout, stateVars
<1>3. isMounted[e] /\ ws[e] # None /\ readyState[ws[e]] = "closed"
  BY DEF Timeout, AppInv, EffectInv
<1>4. phase = "running" /\ \A f \in Effect : f # e => ~isMounted[f]
  BY <1>3 DEF Timeout, Ready, AppInv, PhaseInv
<1>5. \A r \in Made : owner[r] = e => readyState[r] = "closed"
  BY <1>3 DEF AppInv, EffectInv
<1>6. EffectInv' /\ StateInv'
  <2>1. /\ isMounted' = [isMounted EXCEPT ![e] = TRUE]
        /\ ~reconnectTimer'[e]
        /\ \A f \in Effect : f # e => reconnectTimer'[f] = reconnectTimer[f]
    BY <1>2, <1>3 DEF AppInv, TypeOK
  <2> QED BY <1>1, <1>2, <1>3, <1>4, <1>5, <2>1, Connects
<1>7. PhaseInv'
  BY <1>2, <1>4 DEF AppInv, PhaseInv
<1>8. SocketInv'
  <2>1. socket = None
    <3>1. SUFFICES ASSUME socket # None PROVE FALSE
      OBVIOUS
    <3>2. readyState[socket] = "open" /\ Current(socket) /\ socket \in Socket
      BY <1>4, <3>1 DEF AppInv, SocketInv, TypeOK
    <3>3. socket \in Made /\ owner[socket] = e
      BY <1>4, <3>2 DEF Current, Made, AppInv, TypeOK
    <3> QED BY <1>5, <3>2, <3>3
  <2> QED BY <1>2, <1>4, <2>1 DEF AppInv, SocketInv
<1> QED BY <1>1, <1>6, <1>7, <1>8

LEMMA UnmountStep ==
  ASSUME AppInv, Unmount
  PROVE  EffectInv' /\ Numbered' /\ StateInv' /\ PhaseInv' /\ SocketInv'
<1>1. PICK e \in Effect :
        /\ isMounted[e] /\ isMounted' = [isMounted EXCEPT ![e] = FALSE]
        /\ reconnectTimer' = [reconnectTimer EXCEPT ![e] = FALSE]
        /\ ws[e] \in Socket /\ owner[ws[e]] = e
        /\ muted' = muted \cup {ws[e]}
        /\ readyState' = IF readyState[ws[e]] \in {"connecting", "open"}
                         THEN [readyState EXCEPT ![ws[e]] = "closing"]
                         ELSE readyState
        /\ \/ /\ readyState[ws[e]] = "connecting"
              /\ link' = [link EXCEPT ![ws[e]] = "down"]
           \/ /\ readyState[ws[e]] # "connecting" \/ link[ws[e]] = "answered"
              /\ link' = link
        /\ UNCHANGED <<strict, ws, owner, stateVars, wire, losses, serverVars>>
        /\ phase' \in {"cleaned", "unmounted"}
        /\ phase' = "cleaned" <=> phase = "mounted"
  BY UnmountFacts
<1>2. \A f \in Effect : ~isMounted'[f] /\ ~reconnectTimer'[f]
  <2>1. \A f \in Effect : f # e => ~isMounted[f] /\ ~reconnectTimer[f]
    BY <1>1 DEF AppInv, PhaseInv, EffectInv
  <2> QED BY <1>1, <2>1 DEF AppInv, TypeOK
<1>3. /\ Made' = Made /\ \A r \in Socket : ~Current(r)'
      /\ ws[e] \in Made /\ Current(ws[e])
  <2>1. e # None
    BY NamesAssumption DEF Effect
  <2>2. \A r \in Socket : owner[r] # None => owner[r] \in Effect
    BY DEF AppInv, TypeOK
  <2> QED BY <1>1, <1>2, <2>1, <2>2 DEF Made, Current
<1>4. \A r \in Socket : r # ws[e] => readyState'[r] = readyState[r] /\ link'[r] = link[r]
  BY <1>1 DEF AppInv, TypeOK
<1>5. readyState'[ws[e]] \in {"closing", "closed"} /\ link'[ws[e]] \notin {"none", "dialing"}
      /\ (readyState'[ws[e]] = "closed" => link'[ws[e]] = "down")
  <2> DEFINE x == ws[e]
  <2>1. /\ readyState[x] \in {"connecting", "open", "closed"} /\ link[x] # "none"
        /\ readyState[x] = "closed" => link[x] = "down"
        /\ readyState[x] = "open" => link[x] \in {"up", "down"}
    BY <1>1, <1>3 DEF AppInv, StateInv, TypeOK, Made
  <2>2. /\ readyState'[x] = IF readyState[x] \in {"connecting", "open"}
                            THEN "closing" ELSE readyState[x]
        /\ \/ readyState[x] = "connecting" /\ link'[x] = "down"
           \/ /\ readyState[x] # "connecting" \/ link[x] = "answered"
              /\ link'[x] = link[x]
    BY <1>1 DEF AppInv, TypeOK
  <2> HIDE DEF x
  <2>3. readyState'[x] \in {"closing", "closed"} /\ link'[x] \notin {"none", "dialing"}
        /\ (readyState'[x] = "closed" => link'[x] = "down")
    BY <2>1, <2>2
  <2> QED BY <2>3 DEF x
<1>6. EffectInv'
  <2>1. \A f \in Effect : ws[f] # None => owner[ws[f]] = f
    BY DEF AppInv, EffectInv
  <2>2. ASSUME NEW r \in Made
        PROVE  ws[owner[r]] # None /\ (r # ws[owner[r]] => readyState'[r] = "closed")
    <3>1. ws[owner[r]] # None /\ (r # ws[owner[r]] => readyState[r] = "closed")
      BY DEF AppInv, EffectInv
    <3> QED BY <1>1, <1>4, <3>1 DEF Made
  <2>3. ws' = ws /\ owner' = owner
    BY <1>1
  <2> QED BY <1>2, <1>3, <2>1, <2>2, <2>3 DEF EffectInv
<1>7. Numbered'
  BY <1>3 DEF AppInv, Numbered
<1>8. StateInv'
  <2>1. ASSUME NEW r \in Socket, r # ws[e], owner[r] # None
        PROVE  readyState[r] \in {"closing", "closed"}
    <3>1. CASE owner[r] = e
      BY <2>1, <3>1 DEF AppInv, EffectInv, Made
    <3>2. CASE owner[r] # e
      <4>1. ~Current(r)
        BY <1>1, <2>1, <3>2 DEF Current, AppInv, PhaseInv, TypeOK
      <4> QED BY <2>1, <4>1 DEF AppInv, StateInv
    <3> QED BY <3>1, <3>2
  <2>2. owner' = owner /\ muted' = muted \cup {ws[e]} /\ owner[ws[e]] # None
    BY <1>1, <1>3 DEF Made
  <2>3. \A r \in Socket : r # ws[e] =>
          /\ owner[r] = None <=> readyState[r] = "none"
          /\ owner[r] = None <=> link[r] = "none"
          /\ readyState[r] = "closed" => link[r] = "down"
          /\ readyState[r] = "closing" => link[r] # "dialing"
          /\ r \in muted => owner[r] # None
    BY DEF AppInv, StateInv
  <2>4. \A r \in Socket : r # ws[e] =>
          /\ owner'[r] = None <=> readyState'[r] = "none"
          /\ owner'[r] = None <=> link'[r] = "none"
          /\ readyState'[r] = "closed" => link'[r] = "down"
          /\ readyState'[r] \notin {"connecting", "open"}
          /\ readyState'[r] = "closing" => link'[r] # "dialing"
          /\ owner'[r] # None => readyState'[r] \in {"closing", "closed"}
          /\ r \in muted' => owner'[r] # None
    BY <1>4, <2>1, <2>2, <2>3
  <2> QED BY <1>3, <1>5, <2>2, <2>4 DEF StateInv
<1>9. PhaseInv'
  <2>1. phase \in {"mounted", "running"}
    BY DEF Unmount
  <2>2. UNCHANGED <<socket, status, activeThreads, messages, ws>>
    BY <1>1 DEF stateVars
  <2> QED BY <1>1, <1>2, <2>1, <2>2 DEF AppInv, PhaseInv, Effect
<1>10. SocketInv'
  BY <1>1 DEF SocketInv
<1> QED BY <1>6, <1>7, <1>8, <1>9, <1>10

LEMMA OpenedStep ==
  ASSUME AppInv, NEW s \in Socket, Opened(s)
  PROVE  EffectInv' /\ Numbered' /\ StateInv' /\ PhaseInv' /\ SocketInv'
<1>1. /\ s \in Made /\ ws[owner[s]] = s /\ link[s] = "answered"
      /\ link' = [link EXCEPT ![s] = "up"]
      /\ \/ /\ Current(s) /\ phase = "running"
            /\ readyState' = [readyState EXCEPT ![s] = "open"]
            /\ status' = "Connected" /\ socket' = s
         \/ /\ ~Current(s) /\ readyState[s] = "closing"
            /\ UNCHANGED <<readyState, status, socket>>
  BY OpenedFacts
<1>2. UNCHANGED <<phase, isMounted, ws, reconnectTimer, owner, muted, activeThreads, messages>>
  BY DEF Opened, effectVars
<1>3. Made' = Made /\ \A r : Current(r)' = Current(r)
  BY <1>2 DEF Made, Current
<1>4. \A r \in Socket : r # s => readyState'[r] = readyState[r] /\ link'[r] = link[r]
  BY <1>1 DEF AppInv, TypeOK
<1>5. /\ link'[s] = "up" /\ owner[s] # None
      /\ \/ Current(s) /\ readyState'[s] = "open"
         \/ ~Current(s) /\ readyState'[s] = "closing"
      /\ readyState[s] # "closed"
  BY <1>1 DEF AppInv, TypeOK, StateInv, Made
<1>6. EffectInv'
  <2>1. ASSUME NEW f \in Effect
        PROVE  reconnectTimer[f] => isMounted[f] /\ readyState'[ws[f]] = "closed"
    <3>1. reconnectTimer[f] => /\ isMounted[f] /\ readyState[ws[f]] = "closed"
                               /\ ws[f] \in Socket /\ ws[f] # s
      BY <1>5 DEF AppInv, EffectInv, TypeOK
    <3> QED BY <1>4, <3>1
  <2>2. ASSUME NEW r \in Made, r # ws[owner[r]]
        PROVE  readyState'[r] = "closed"
    BY <1>1, <1>4, <2>2 DEF AppInv, EffectInv, Made
  <2> QED BY <1>2, <1>3, <2>1, <2>2 DEF AppInv, EffectInv
<1>7. Numbered'
  BY <1>3 DEF AppInv, Numbered
<1>8. StateInv'
  <2>1. \A r \in Socket : r # s =>
          /\ owner'[r] = None <=> readyState'[r] = "none"
          /\ owner'[r] = None <=> link'[r] = "none"
          /\ readyState'[r] = "closed" => link'[r] = "down"
          /\ readyState'[r] = "connecting" => link'[r] \in {"dialing", "answered", "down"}
          /\ readyState'[r] = "open" => link'[r] \in {"up", "down"}
          /\ readyState'[r] = "closing" => link'[r] # "dialing" /\ ~Current(r)'
          /\ owner'[r] # None /\ ~Current(r)' => readyState'[r] \in {"closing", "closed"}
          /\ r \in muted' => owner'[r] # None /\ ~Current(r)'
    BY <1>2, <1>3, <1>4 DEF AppInv, StateInv
  <2>2. s \in muted => ~Current(s)
    BY DEF AppInv, StateInv
  <2> QED BY <1>2, <1>3, <1>5, <2>1, <2>2 DEF StateInv
<1>9. PhaseInv'
  <2>1. phase \in {"running", "unmounted"}
    BY DEF Opened, Ready
  <2> QED BY <1>2, <2>1 DEF AppInv, PhaseInv
<1>10. SocketInv'
  <2>1. CASE Current(s)
    <3>1. s # None
      BY NamesAssumption, SocketFinite
    <3> QED BY <1>1, <1>3, <1>5, <2>1, <3>1 DEF SocketInv
  <2>2. CASE ~Current(s)
    BY <1>1, <1>2, <1>3, <2>2 DEF AppInv, SocketInv
  <2> QED BY <2>1, <2>2
<1> QED BY <1>6, <1>7, <1>8, <1>9, <1>10

LEMMA ClosedStep ==
  ASSUME AppInv, NEW s \in Socket, Closed(s)
  PROVE  EffectInv' /\ Numbered' /\ StateInv' /\ PhaseInv' /\ SocketInv'
<1>1. /\ s \in Made /\ owner[s] \in Effect /\ link[s] = "down"
      /\ ws[owner[s]] = s
      /\ readyState' = [readyState EXCEPT ![s] = "closed"]
      /\ \/ /\ Current(s) /\ phase = "running"
            /\ status' = "Disconnected" /\ socket' = None
            /\ reconnectTimer' = [reconnectTimer EXCEPT ![owner[s]] = TRUE]
         \/ ~Current(s) /\ UNCHANGED <<status, socket, reconnectTimer>>
  BY ClosedFacts
<1>2. UNCHANGED <<phase, isMounted, ws, owner, muted, link, activeThreads, messages>>
  BY DEF Closed, Closing
<1>3. Made' = Made /\ \A r : Current(r)' = Current(r)
  BY <1>2 DEF Made, Current
<1>4. /\ \A r \in Socket : r # s => readyState'[r] = readyState[r]
      /\ readyState'[s] = "closed" /\ owner[s] # None
  BY <1>1 DEF AppInv, TypeOK, Made
<1>5. EffectInv'
  <2>1. ASSUME NEW f \in Effect
        PROVE  reconnectTimer'[f] => isMounted[f] /\ readyState'[ws[f]] = "closed"
    <3>1. reconnectTimer[f] => isMounted[f] /\ readyState'[ws[f]] = "closed"
      <4>1. reconnectTimer[f] => /\ isMounted[f] /\ readyState[ws[f]] = "closed"
                                 /\ ws[f] \in Socket
        BY DEF AppInv, EffectInv, TypeOK
      <4> QED BY <1>4, <4>1
    <3>2. reconnectTimer'[f] => reconnectTimer[f] \/ (Current(s) /\ f = owner[s])
      BY <1>1 DEF AppInv, TypeOK
    <3> QED BY <1>1, <1>4, <3>1, <3>2 DEF Current
  <2>2. ASSUME NEW r \in Made, r # ws[owner[r]]
        PROVE  readyState'[r] = "closed"
    BY <1>4, <2>2 DEF AppInv, EffectInv, Made
  <2> QED BY <1>2, <1>3, <2>1, <2>2 DEF AppInv, EffectInv
<1>6. Numbered'
  BY <1>3 DEF AppInv, Numbered
<1>7. StateInv'
  <2>1. \A r \in Socket : r # s =>
          /\ owner'[r] = None <=> readyState'[r] = "none"
          /\ owner'[r] = None <=> link'[r] = "none"
          /\ readyState'[r] = "closed" => link'[r] = "down"
          /\ readyState'[r] = "connecting" => link'[r] \in {"dialing", "answered", "down"}
          /\ readyState'[r] = "open" => link'[r] \in {"up", "down"}
          /\ readyState'[r] = "closing" => link'[r] # "dialing" /\ ~Current(r)'
          /\ owner'[r] # None /\ ~Current(r)' => readyState'[r] \in {"closing", "closed"}
          /\ r \in muted' => owner'[r] # None /\ ~Current(r)'
    BY <1>2, <1>3, <1>4 DEF AppInv, StateInv
  <2>2. s \in muted => ~Current(s)
    BY DEF AppInv, StateInv
  <2> QED BY <1>1, <1>2, <1>3, <1>4, <2>1, <2>2 DEF StateInv
<1>8. PhaseInv'
  <2>1. phase \in {"running", "unmounted"}
    BY DEF Closed, Closing, Ready
  <2> QED BY <1>2, <2>1 DEF AppInv, PhaseInv
<1>9. SocketInv'
  <2>1. CASE Current(s)
    BY <1>1, <2>1 DEF SocketInv
  <2>2. CASE ~Current(s)
    <3>1. /\ phase = "running" => (status = "Connected" <=> socket # None)
          /\ phase = "running" /\ socket # None =>
               readyState[socket] = "open" /\ Current(socket) /\ socket \in Socket
      BY DEF AppInv, SocketInv, TypeOK
    <3>2. phase = "running" /\ socket # None => readyState'[socket] = "open"
      BY <1>4, <2>2, <3>1
    <3> QED BY <1>1, <1>2, <1>3, <2>2, <3>1, <3>2 DEF SocketInv
  <2> QED BY <2>1, <2>2
<1> QED BY <1>5, <1>6, <1>7, <1>8, <1>9

(* Nothing happens at the server: links that are up do not go back. *)
LEMMA ServerUnchanged ==
  ASSUME ServerInv, UNCHANGED <<serving, place, listed>>,
         \A s \in Socket : link[s] \notin {"none", "dialing"} =>
                             link'[s] \notin {"none", "dialing"}
  PROVE  ServerInv'
BY DEF ServerInv

(* A handler does one step of its own. *)
LEMMA ServerStep ==
  ASSUME AppInv, NEW w \in Worker, NEW k \in Socket \cup {Tab},
         Answer(w, k) \/ Register(w) \/ Leave(w) \/ Terminate(w)
  PROVE  ServerInv'
<1>1. None \notin Socket /\ Tab \notin Socket /\ None # Tab
  BY NamesAssumption, SocketFinite
<1> USE DEF AppInv, TypeOK
<1>2. CASE Answer(w, k)
  <2>1. serving[w] = None /\ k # None
    BY <1>1, <1>2 DEF Answer
  <2>2. /\ serving' = [serving EXCEPT ![w] = k]
        /\ place' = [place EXCEPT ![w] = "spawned"] /\ listed' = listed
    BY <1>2 DEF Answer
  <2>3. \/ /\ k \in Socket /\ link[k] = "dialing"
           /\ link' = [link EXCEPT ![k] = "answered"]
        \/ k = Tab /\ link' = link
    BY <1>2 DEF Answer
  <2>4. \A v \in Worker : serving'[v] = (IF v = w THEN k ELSE serving[v])
    BY <2>2
  <2>5. \A v \in Worker : place'[v] = (IF v = w THEN "spawned" ELSE place[v])
    BY <2>2
  <2>6. \A v \in Worker : serving[v] \in Socket => serving[v] # k
    BY <1>1, <2>3 DEF ServerInv
  <2>7. \A v \in Worker : serving'[v] \in Socket =>
          link'[serving'[v]] \notin {"none", "dialing"}
    <3>1. \A s \in Socket : link[s] \notin {"none", "dialing"} =>
                              link'[s] \notin {"none", "dialing"}
      BY <2>3
    <3>2. k \in Socket => link'[k] = "answered"
      BY <1>1, <2>3
    <3>3. \A v \in Worker : serving[v] \in Socket =>
            link[serving[v]] \notin {"none", "dialing"}
      BY DEF ServerInv
    <3> QED BY <2>4, <3>1, <3>2, <3>3
  <2>8. \A u, v \in Worker : serving'[u] = serving'[v] /\ serving'[u] \in Socket => u = v
    <3>1. \A u, v \in Worker : serving[u] = serving[v] /\ serving[u] \in Socket => u = v
      BY DEF ServerInv
    <3> QED BY <2>4, <2>6, <3>1
  <2>9. \A v \in Worker : serving'[v] = None <=> place'[v] = "idle"
    BY <2>1, <2>4, <2>5 DEF ServerInv
  <2>10. \A s \in listed : \E v \in Worker : serving'[v] = s /\ place'[v] = "reading"
    <3>1. ASSUME NEW s \in listed
          PROVE  \E v \in Worker : serving'[v] = s /\ place'[v] = "reading"
      <4>1. PICK v \in Worker : serving[v] = s /\ place[v] = "reading"
        BY DEF ServerInv
      <4>2. v # w
        BY <1>1, <2>1, <4>1
      <4> QED BY <2>4, <2>5, <4>1, <4>2
    <3> QED BY <3>1
  <2> QED BY <2>2, <2>7, <2>8, <2>9, <2>10 DEF ServerInv
<1>3. CASE Register(w)
  <2>1. /\ place[w] = "spawned" /\ place' = [place EXCEPT ![w] = "reading"]
        /\ UNCHANGED <<serving, link>> /\ listed' \subseteq listed \cup {serving[w]}
    BY <1>3 DEF Register
  <2>2. \A v \in Worker : place'[v] = (IF v = w THEN "reading" ELSE place[v])
    BY <2>1
  <2> QED BY <2>1, <2>2 DEF ServerInv
<1>4. CASE Leave(w)
  <2>1. /\ place[w] = "reading" /\ place' = [place EXCEPT ![w] = "left"]
        /\ UNCHANGED <<serving, link>> /\ listed' = listed \ {serving[w]}
    BY <1>4 DEF Leave
  <2>2. \A v \in Worker : place'[v] = (IF v = w THEN "left" ELSE place[v])
    BY <2>1
  <2> QED BY <2>1, <2>2 DEF ServerInv
<1>5. CASE Terminate(w)
  <2>1. /\ place[w] = "left" /\ place' = [place EXCEPT ![w] = "idle"]
        /\ serving' = [serving EXCEPT ![w] = None] /\ UNCHANGED <<link, listed>>
    BY <1>5 DEF Terminate
  <2>2. \A v \in Worker : place'[v] = (IF v = w THEN "idle" ELSE place[v])
    BY <2>1
  <2>3. \A v \in Worker : serving'[v] = (IF v = w THEN None ELSE serving[v])
    BY <2>1
  <2> QED BY <1>1, <2>1, <2>2, <2>3 DEF ServerInv
<1> QED BY <1>2, <1>3, <1>4, <1>5

LEMMA NextSaid == AppInv /\ [Next]_vars => SaidInv'
<1> SUFFICES ASSUME AppInv, [Next]_vars PROVE SaidInv'
  OBVIOUS
<1>1. SaidInv /\ (UNCHANGED <<handling, said>> => SaidInv')
  BY DEF AppInv, SaidInv
<1>2. /\ DOMAIN said = 1..Len(said) /\ Len(said) \in Nat
      /\ said \in Seq([event : {"INSERT", "chat"}, text : Texts, of : Nat])
      /\ handling \in [Worker -> Nat \cup {None}]
  BY DEF AppInv, TypeOK
<1>3. ASSUME NEW w \in Worker, NEW x, said' = Append(said, x)
      PROVE  /\ DOMAIN said' = 1..(Len(said) + 1) /\ said'[Len(said) + 1] = x
             /\ \A k \in DOMAIN said : k \in 1..Len(said) /\ said'[k] = said[k]
  BY <1>2, <1>3
<1>4. ASSUME NEW w \in Worker, NEW t \in Texts, Receive(w, t) PROVE SaidInv'
  <2>1. PICK n \in Nat \ {0} : n = Len(said) + 1
    BY <1>2
  <2>2. PICK x : /\ x.event = "INSERT" /\ x.text = t /\ x.of = n
                 /\ said' = Append(said, x)
                 /\ handling' = [handling EXCEPT ![w] = n]
    BY <1>4, <2>1 DEF Receive
  <2>3. /\ DOMAIN said' = 1..n /\ said'[n] = x /\ DOMAIN said = 1..(n - 1)
        /\ \A k \in DOMAIN said : k \in 1..n /\ k < n /\ said'[k] = said[k]
        /\ \A k \in 1..n : k = n \/ k \in DOMAIN said
    BY <1>2, <1>3, <2>1, <2>2
  <2>4. \A v \in Worker : handling'[v] = IF v = w THEN n ELSE handling[v]
    BY <1>2, <2>2
  <2>5. \A k \in DOMAIN said : said[k].of \in 1..k /\ said[k].of \in DOMAIN said
    BY <1>1, <2>3 DEF SaidInv
  <2>6. \A k \in DOMAIN said' :
          /\ said'[k].of \in 1..k
          /\ said'[k].event = "INSERT" <=> said'[k].of = k
          /\ said'[said'[k].of].text = said'[k].text
    BY <1>1, <2>2, <2>3, <2>5 DEF SaidInv
  <2>7. \A j, k \in DOMAIN said' :
          said'[j].event = "chat" /\ said'[k].event = "chat"
            /\ said'[j].of = said'[k].of => j = k
    BY <1>1, <2>2, <2>3 DEF SaidInv
  <2>8. n # None
    BY NamesAssumption
  <2>9. ASSUME NEW v \in Worker, handling'[v] # None
        PROVE  /\ handling'[v] \in DOMAIN said'
               /\ said'[handling'[v]].event = "INSERT"
               /\ \A k \in DOMAIN said' :
                    said'[k].event = "chat" => said'[k].of # handling'[v]
               /\ \A u \in Worker : handling'[u] = handling'[v] => u = v
    <3>1. CASE v = w
      <4>1. handling'[v] = n
        BY <2>4, <3>1
      <4>2. \A k \in DOMAIN said' : said'[k].event = "chat" => said'[k].of # n
        BY <2>2, <2>3, <2>5
      <4>3. \A u \in Worker : handling[u] # n
        BY <1>1, <2>3, <2>8 DEF SaidInv
      <4> QED BY <2>2, <2>3, <2>4, <3>1, <4>1, <4>2, <4>3
    <3>2. CASE v # w
      <4>1. handling'[v] = handling[v] /\ handling[v] # None
        BY <2>4, <2>9, <3>2
      <4>2. /\ handling[v] \in DOMAIN said /\ said[handling[v]].event = "INSERT"
            /\ \A k \in DOMAIN said : said[k].event = "chat" => said[k].of # handling[v]
            /\ \A u \in Worker : handling[u] = handling[v] => u = v
        BY <1>1, <4>1 DEF SaidInv
      <4>3. handling[v] # n /\ handling[v] \in DOMAIN said'
        BY <2>3, <4>2
      <4>4. \A k \in DOMAIN said' : said'[k].event = "chat" => said'[k].of # handling[v]
        BY <2>2, <2>3, <4>2
      <4> QED BY <2>3, <2>4, <4>1, <4>2, <4>3, <4>4
    <3> QED BY <3>1, <3>2
  <2> QED BY <2>6, <2>7, <2>9 DEF SaidInv
<1>5. ASSUME NEW w \in Worker, Announce(w) PROVE SaidInv'
  <2>1. PICK n \in Nat \ {0} : n = Len(said) + 1
    BY <1>2
  <2>2. PICK h \in Nat : h = handling[w]
    BY <1>2, <1>5 DEF Announce
  <2>3. /\ h \in DOMAIN said /\ said[h].event = "INSERT"
        /\ \A k \in DOMAIN said : said[k].event = "chat" => said[k].of # h
        /\ \A v \in Worker : handling[v] = h => v = w
    BY <1>1, <1>5, <2>2 DEF SaidInv, Announce
  <2>4. PICK x : /\ x.event = "chat" /\ x.text = said[h].text /\ x.of = h
                 /\ said' = Append(said, x)
                 /\ handling' = [handling EXCEPT ![w] = None]
    BY <1>5, <2>2 DEF Announce
  <2>5. /\ DOMAIN said' = 1..n /\ said'[n] = x /\ DOMAIN said = 1..(n - 1)
        /\ \A k \in DOMAIN said : k \in 1..n /\ k < n /\ said'[k] = said[k]
        /\ \A k \in 1..n : k = n \/ k \in DOMAIN said
    BY <1>2, <1>3, <2>1, <2>4
  <2>6. \A v \in Worker : handling'[v] = IF v = w THEN None ELSE handling[v]
    BY <1>2, <2>4
  <2>7. \A k \in DOMAIN said : said[k].of \in 1..k /\ said[k].of \in DOMAIN said
    BY <1>1, <2>5 DEF SaidInv
  <2>8. \A k \in DOMAIN said' :
          /\ said'[k].of \in 1..k
          /\ said'[k].event = "INSERT" <=> said'[k].of = k
          /\ said'[said'[k].of].text = said'[k].text
    BY <1>1, <2>3, <2>4, <2>5, <2>7 DEF SaidInv
  <2>9. \A j, k \in DOMAIN said' :
          said'[j].event = "chat" /\ said'[k].event = "chat"
            /\ said'[j].of = said'[k].of => j = k
    BY <1>1, <2>3, <2>4, <2>5 DEF SaidInv
  <2>10. ASSUME NEW v \in Worker, handling'[v] # None
         PROVE  /\ handling'[v] \in DOMAIN said'
                /\ said'[handling'[v]].event = "INSERT"
                /\ \A k \in DOMAIN said' :
                     said'[k].event = "chat" => said'[k].of # handling'[v]
                /\ \A u \in Worker : handling'[u] = handling'[v] => u = v
    <3>1. handling'[v] = handling[v] /\ handling[v] # None /\ v # w
      BY <2>6, <2>10
    <3>2. /\ handling[v] \in DOMAIN said /\ said[handling[v]].event = "INSERT"
          /\ \A k \in DOMAIN said : said[k].event = "chat" => said[k].of # handling[v]
          /\ \A u \in Worker : handling[u] = handling[v] => u = v
      BY <1>1, <3>1 DEF SaidInv
    <3>3. handling[v] # h
      BY <2>3, <3>1
    <3>4. \A k \in DOMAIN said' : said'[k].event = "chat" => said'[k].of # handling[v]
      BY <2>4, <2>5, <3>2, <3>3
    <3> QED BY <2>5, <2>6, <3>1, <3>2, <3>4
  <2> QED BY <2>8, <2>9, <2>10 DEF SaidInv
<1>6. CASE ~(\E w \in Worker : Announce(w) \/ \E t \in Texts : Receive(w, t))
  <2>1. UNCHANGED <<handling, said>>
    <3>1. ASSUME Unmount PROVE UNCHANGED <<handling, said>>
      BY <3>1 DEF Unmount, serverVars
    <3> QED BY <1>6, <3>1
            DEF Next, Mount, Timeout, Opened, Message, Closed, Closing, Lose, HangUp,
                Answer, Register, Leave, Terminate, sendMessage, vars, serverVars,
                chatVars
  <2> QED BY <1>1, <2>1
<1> QED BY <1>4, <1>5, <1>6

LEMMA NextInv == AppInv /\ [Next]_vars => AppInv'
<1> SUFFICES ASSUME AppInv, [Next]_vars
             PROVE  /\ EffectInv' /\ Numbered' /\ StateInv' /\ PhaseInv'
                    /\ SocketInv' /\ ServerInv'
  BY NextType, NextSaid DEF AppInv
<1> DEFINE Client == EffectInv' /\ Numbered' /\ StateInv' /\ PhaseInv' /\ SocketInv'
           Kept == \A s \in Socket : link[s] \notin {"none", "dialing"} =>
                                       link'[s] \notin {"none", "dialing"}
<1>1. UNCHANGED <<serving, place, listed>> /\ Kept => ServerInv'
  BY ServerUnchanged DEF AppInv
<1>2. ASSUME NEW e \in Effect, Mount(e) \/ Timeout(e) PROVE Client /\ ServerInv'
  <2>1. PICK s \in Socket \ Made : link' = [link EXCEPT ![s] = "dialing"]
    BY <1>2, ConnectFacts DEF Mount, Timeout, AppInv
  <2>2. link[s] = "none"
    BY DEF AppInv, StateInv, Made
  <2>3. Kept
    BY <2>1, <2>2 DEF AppInv, TypeOK
  <2>4. UNCHANGED <<serving, place, listed>>
    BY <1>2 DEF Mount, Timeout, serverVars
  <2>5. Client
    BY <1>2, MountStep, TimeoutStep
  <2> QED BY <1>1, <2>3, <2>4, <2>5
<1>3. CASE Unmount
  <2>1. PICK e \in Effect : /\ link' \in {link, [link EXCEPT ![ws[e]] = "down"]}
                            /\ UNCHANGED serverVars
    BY <1>3, UnmountFacts
  <2>2. Kept
    BY <2>1 DEF AppInv, TypeOK
  <2> QED BY <1>1, <1>3, <2>1, <2>2, UnmountStep DEF serverVars
<1>4. ASSUME NEW s \in Socket, Opened(s) PROVE Client /\ ServerInv'
  <2>1. Kept
    BY <1>4 DEF Opened, AppInv, TypeOK
  <2>2. UNCHANGED serverVars
    BY <1>4 DEF Opened
  <2> QED BY <1>1, <1>4, <2>1, <2>2, OpenedStep DEF serverVars
<1>5. ASSUME NEW s \in Socket, Closed(s) PROVE Client /\ ServerInv'
  <2>1. UNCHANGED <<link, serverVars>>
    BY <1>5 DEF Closed, Closing
  <2> QED BY <1>1, <1>5, <2>1, ClosedStep DEF serverVars
<1>6. ASSUME NEW s \in Socket, Message(s) PROVE Client /\ ServerInv'
  <2>1. /\ UNCHANGED <<effectVars, socketVars, socket, status, link, serverVars>>
        /\ phase \in {"running", "unmounted"}
    BY <1>6, MessageFacts
  <2>2. Client
    BY <2>1, AppUnchanged DEF AppInv
  <2> QED BY <1>1, <2>1, <2>2 DEF serverVars
<1>7. ASSUME NEW s \in Socket, Lose(s) \/ HangUp(s) PROVE Client /\ ServerInv'
  <2>1. /\ link[s] # "none" /\ link' = [link EXCEPT ![s] = "down"]
        /\ UNCHANGED <<effectVars, socketVars, stateVars, serverVars>>
    BY <1>7 DEF Lose, HangUp
  <2>2. s \in Made
    BY <2>1 DEF AppInv, StateInv, Made
  <2>3. Client
    BY <2>1, <2>2, LinkChanges
  <2>4. Kept
    BY <2>1 DEF AppInv, TypeOK
  <2> QED BY <1>1, <2>1, <2>3, <2>4 DEF serverVars
<1>8. ASSUME NEW w \in Worker, NEW k \in Socket \cup {Tab}, Answer(w, k)
      PROVE  Client /\ ServerInv'
  <2>1. UNCHANGED <<effectVars, socketVars, stateVars>>
    BY <1>8 DEF Answer
  <2>2. CASE link' = link
    BY <1>8, <2>1, <2>2, AppUnchanged, ServerStep DEF AppInv, stateVars
  <2>3. CASE /\ k \in Socket /\ link[k] = "dialing"
             /\ link' = [link EXCEPT ![k] = "answered"]
    <3>1. k \in Made
      BY <2>3 DEF AppInv, StateInv, Made
    <3> QED BY <1>8, <2>1, <2>3, <3>1, LinkChanges, ServerStep
  <2> QED BY <1>8, <2>2, <2>3 DEF Answer
<1>9. ASSUME NEW w \in Worker, Register(w) \/ Leave(w) \/ Terminate(w)
      PROVE  Client /\ ServerInv'
  <2>1. UNCHANGED <<effectVars, socketVars, stateVars, link>>
    BY <1>9 DEF Register, Leave, Terminate
  <2>2. Client
    BY <2>1, AppUnchanged DEF AppInv, stateVars
  <2>3. ServerInv'
    BY <1>9, ServerStep
  <2> QED BY <2>2, <2>3
<1>10. ASSUME NEW w \in Worker, (\E t \in Texts : Receive(w, t)) \/ Announce(w)
       PROVE  Client /\ ServerInv'
  <2>1. /\ UNCHANGED <<effectVars, socketVars, stateVars, link>>
        /\ UNCHANGED <<serving, place, listed>>
    BY <1>10 DEF Receive, Announce
  <2>2. Client
    BY <2>1, AppUnchanged DEF AppInv, stateVars
  <2> QED BY <1>1, <2>1, <2>2
<1>11. CASE (\E t \in Texts : sendMessage(t)) \/ UNCHANGED vars
  <2>1. /\ UNCHANGED <<effectVars, socketVars, socket, status, link>>
        /\ phase \in {"running", "unmounted"} \/ UNCHANGED <<activeThreads, messages>>
        /\ UNCHANGED <<serving, place, listed>>
    BY <1>11 DEF sendMessage, vars, stateVars, serverVars
  <2>2. Client
    BY <2>1, AppUnchanged DEF AppInv
  <2> QED BY <1>1, <2>1, <2>2
<1> HIDE DEF Kept
<1> QED BY <1>2, <1>3, <1>4, <1>5, <1>6, <1>7, <1>8, <1>9, <1>10, <1>11
       DEF Next

LEMMA InitInv == Init => AppInv
<1> SUFFICES ASSUME Init
             PROVE  /\ EffectInv /\ Numbered /\ StateInv /\ PhaseInv
                    /\ SocketInv /\ ServerInv /\ SaidInv
  BY InitType DEF AppInv
<1>1. Made = {}
  BY DEF Init, Made
<1>2. EffectInv
  BY <1>1 DEF Init, EffectInv
<1>3. Numbered
  BY <1>1, FS_EmptySet DEF Numbered
<1>4. StateInv
  BY DEF Init, StateInv, Current
<1>5. PhaseInv
  BY DEF Init, PhaseInv, Effect
<1>6. SocketInv /\ ServerInv
  <2>1. None \notin Socket
    BY NamesAssumption, SocketFinite
  <2> QED BY <2>1 DEF Init, SocketInv, ServerInv
<1>7. SaidInv
  BY DEF Init, SaidInv
<1> QED BY <1>2, <1>3, <1>4, <1>5, <1>6, <1>7

LEMMA AppInvHolds == Spec => []AppInv
BY InitInv, NextInv, PTL DEF Spec

------------------------------------------------------------------------------
(***************************************************************************)
(* What the effect, the browser, the network and the server keep are of    *)
(* the types the model says, the numbers of the WebSockets in bounds.      *)
(***************************************************************************)
THEOREM TypeCorrect == Spec => []TypeOK
BY AppInvHolds, PTL DEF AppInv

(***************************************************************************)
(* No zombie connection (README.md:64): whatever was lost, closed, cleaned *)
(* up or reconnected, what is live belongs to the mounted effect, once.    *)
(***************************************************************************)
THEOREM OneConnection == Spec => []NoZombie
<1>1. AppInv => NoZombie
  <2> SUFFICES ASSUME AppInv, NEW e \in Effect
               PROVE  /\ ~isMounted[e] => Live(e) = {} /\ ~reconnectTimer[e]
                      /\ Live(e) \subseteq {ws[e]}
                      /\ reconnectTimer[e] => Live(e) = {}
    BY DEF NoZombie
  <2>1. e # None
    BY NamesAssumption DEF Effect
  <2>2. Live(e) \subseteq Made
    BY <2>1 DEF Live, Made
  <2>3. \A s \in Live(e) : owner[s] = e /\ readyState[s] \in {"connecting", "open"}
    BY DEF Live
  <2>4. \A s \in Live(e) : s = ws[e]
    BY <2>2, <2>3 DEF AppInv, EffectInv
  <2>5. ~isMounted[e] => Live(e) = {}
    BY <2>1, <2>2, <2>3 DEF AppInv, StateInv, Current, Made
  <2>6. reconnectTimer[e] => isMounted[e] /\ readyState[ws[e]] = "closed"
    BY DEF AppInv, EffectInv
  <2> QED BY <2>3, <2>4, <2>5, <2>6
<1> QED BY <1>1, AppInvHolds, PTL

(***************************************************************************)
(* The socket that sendMessage uses is open and the mounted effect's, and  *)
(* the status shown agrees with it.                                        *)
(***************************************************************************)
THEOREM SocketUsable == Spec => []SocketIsCurrent
<1>1. AppInv => SocketIsCurrent
  <2> SUFFICES ASSUME AppInv, phase = "running"
               PROVE  /\ status = "Connected" <=> socket # None
                      /\ socket # None =>
                           /\ readyState[socket] = "open"
                           /\ \E e \in Effect : isMounted[e] /\ ws[e] = socket
    BY DEF SocketIsCurrent
  <2>1. status = "Connected" <=> socket # None
    BY DEF AppInv, SocketInv
  <2>2. ASSUME socket # None
        PROVE  /\ readyState[socket] = "open"
               /\ \E e \in Effect : isMounted[e] /\ ws[e] = socket
    <3>1. readyState[socket] = "open" /\ Current(socket) /\ socket \in Socket
      BY <2>2 DEF AppInv, SocketInv, TypeOK
    <3>2. socket \in Made /\ owner[socket] \in Effect /\ isMounted[owner[socket]]
      BY <3>1 DEF Current, Made, AppInv, TypeOK
    <3>3. ws[owner[socket]] = socket
      BY <3>1, <3>2 DEF AppInv, EffectInv
    <3> QED BY <3>1, <3>2, <3>3
  <2> QED BY <2>1, <2>2
<1> QED BY <1>1, AppInvHolds, PTL

------------------------------------------------------------------------------
(* What is shown *)

(* A wire with one more event, and with one less *)
LEMMA AppendOrdered ==
  ASSUME NEW q \in Seq(Event), NEW n \in Nat, NEW k \in Nat, Ordered(q, n), n <= k,
         NEW m \in Event, IsText(m) => m.number \in Nat /\ n < m.number /\ m.number <= k
  PROVE  Ordered(Append(q, m), k)
<1> DEFINE r == Append(q, m)
<1>1. /\ Len(r) = Len(q) + 1 /\ Len(q) \in Nat /\ DOMAIN q = 1..Len(q)
      /\ DOMAIN r = 1..(Len(q) + 1) /\ r[Len(q) + 1] = m
      /\ \A i \in 1..Len(q) : r[i] = q[i]
  OBVIOUS
<1>2. \A i \in 1..Len(q) : IsText(q[i]) => q[i].number \in 1..n
  BY <1>1, TextNumber DEF Ordered
<1> HIDE DEF r
<1>3. ASSUME NEW i \in DOMAIN r, IsText(r[i])
      PROVE  /\ r[i].number \in 1..k
             /\ \A j \in DOMAIN r : IsText(r[j]) /\ i < j => r[i].number < r[j].number
  <2>1. CASE i = Len(q) + 1
    BY <1>1, <1>3, <2>1
  <2>2. CASE i \in 1..Len(q)
    <3>1. r[i] = q[i] /\ q[i].number \in 1..n
      BY <1>1, <1>2, <1>3, <2>2
    <3>2. ASSUME NEW j \in DOMAIN r, IsText(r[j]), i < j PROVE r[i].number < r[j].number
      <4>1. CASE j = Len(q) + 1
        BY <1>1, <3>1, <3>2, <4>1
      <4>2. CASE j \in 1..Len(q)
        BY <1>1, <1>3, <2>2, <3>1, <3>2, <4>2 DEF Ordered
      <4> QED BY <1>1, <4>1, <4>2
    <3> QED BY <3>1, <3>2
  <2> QED BY <1>1, <2>1, <2>2
<1>4. Ordered(r, k)
  BY <1>3 DEF Ordered
<1> QED BY <1>4 DEF r

LEMMA TailOrdered ==
  ASSUME NEW q \in Seq(Event), q # <<>>, NEW n \in Nat, Ordered(q, n)
  PROVE  /\ Ordered(Tail(q), n)
         /\ IsText(Head(q)) =>
              /\ Head(q).number \in 1..n
              /\ \A i \in DOMAIN Tail(q) :
                   IsText(Tail(q)[i]) => Head(q).number < Tail(q)[i].number
         /\ \A i \in DOMAIN Tail(q) : i + 1 \in DOMAIN q /\ Tail(q)[i] = q[i + 1]
<1> DEFINE r == Tail(q)
<1>1. /\ DOMAIN q = 1..Len(q) /\ Len(q) \in Nat \ {0} /\ Head(q) = q[1]
      /\ DOMAIN r = 1..(Len(q) - 1) /\ \A i \in DOMAIN r : r[i] = q[i + 1]
  OBVIOUS
<1> HIDE DEF r
<1>2. \A i \in DOMAIN r : i \in Nat /\ i + 1 \in DOMAIN q /\ 1 \in DOMAIN q /\ 1 < i + 1
  BY <1>1
<1>3. Ordered(r, n)
  BY <1>1, <1>2 DEF Ordered
<1>4. IsText(Head(q)) => /\ Head(q).number \in 1..n
                         /\ \A i \in DOMAIN r : IsText(r[i]) => Head(q).number < r[i].number
  BY <1>1, <1>2 DEF Ordered
<1> QED BY <1>1, <1>2, <1>3, <1>4 DEF r

(* Nothing is broadcast or shown. *)
LEMMA QuietOnce ==
  ASSUME AppInv, OnceInv, messages' = messages, said' = said,
         \A s \in Socket : wire'[s] = wire[s] \/ wire'[s] = <<>>,
         \A s \in Socket : Current(s)' => Current(s) \/ messages = <<>> \/ wire'[s] = <<>>,
         \A s \in Socket : link'[s] \in {"none", "dialing"} => wire'[s] = <<>>,
         \A s \in Socket : link'[s] = "down" /\ Current(s)' => wire'[s] = <<>>
  PROVE  OnceInv'
<1>1. Increasing(messages') /\ \A i \in DOMAIN messages' : Shows(messages'[i], said')
  BY DEF OnceInv, Shows, Increasing
<1>2. ASSUME NEW s \in Socket
      PROVE  /\ Ordered(wire'[s], Len(said'))
             /\ Current(s)' => Newer(wire'[s], messages')
  <2>1. CASE wire'[s] = <<>>
    BY <2>1 DEF Ordered, Newer
  <2>2. CASE wire'[s] = wire[s]
    <3>1. Ordered(wire[s], Len(said)) /\ (Current(s) => Newer(wire[s], messages))
      BY DEF OnceInv
    <3>2. messages = <<>> => Newer(wire[s], messages)
      BY DEF Newer
    <3> QED BY <2>1, <2>2, <3>1, <3>2
  <2> QED BY <2>1, <2>2
<1> QED BY <1>1, <1>2 DEF OnceInv

(* sendMessage shows the message to its sender. *)
LEMMA SendOnce ==
  ASSUME AppInv, OnceInv, NEW t \in Texts, sendMessage(t)
  PROVE  OnceInv'
<1>1. /\ messages' = Append(messages, [sender |-> "You", number |-> 0])
      /\ UNCHANGED <<said, wire, link, owner, isMounted>>
  BY DEF sendMessage, Show, effectVars
<1>2. PICK n \in Nat : n = Len(messages)
  BY DEF AppInv, TypeOK
<1>3. /\ DOMAIN messages = 1..n /\ DOMAIN messages' = 1..(n + 1)
      /\ messages'[n + 1] = [sender |-> "You", number |-> 0]
      /\ \A i \in 1..n : messages'[i] = messages[i]
  BY <1>1, <1>2 DEF AppInv, TypeOK
<1>4. \A i \in DOMAIN messages' : Shows(messages'[i], said')
  BY <1>1, <1>3 DEF OnceInv, Shows
<1>5. Increasing(messages')
  BY <1>3 DEF OnceInv, Increasing
<1>6. \A s : Current(s)' = Current(s)
  BY <1>1 DEF Current
<1>7. ASSUME NEW s \in Socket, Current(s) PROVE Newer(wire[s], messages')
  <2>1. Newer(wire[s], messages) /\ Ordered(wire[s], Len(said))
    BY <1>7 DEF OnceInv
  <2>2. \A i \in DOMAIN wire[s] : IsText(wire[s][i]) => 0 < wire[s][i].number
    <3>1. Len(said) \in Nat
      BY DEF AppInv, TypeOK
    <3> QED BY <2>1, <3>1 DEF Ordered
  <2> QED BY <1>3, <2>1, <2>2 DEF Newer
<1> QED BY <1>1, <1>4, <1>5, <1>6, <1>7 DEF OnceInv

LEMMA BroadcastOnce ==
  ASSUME AppInv, OnceInv, UNCHANGED <<effectVars, messages>>,
         NEW m \in Event, Broadcast(m),
         \/ ~IsText(m) /\ said' = said
         \/ m.number = Len(said) + 1 /\ \E x : said' = Append(said, x),
         \A s \in Socket : \/ link'[s] = link[s]
                           \/ link[s] = "dialing" /\ link'[s] = "answered"
  PROVE  OnceInv'
<1>1. PICK n \in Nat : n = Len(said) /\ DOMAIN said = 1..n
  BY DEF AppInv, TypeOK
<1>2. PICK k \in Nat :
        /\ k = Len(said') /\ DOMAIN said' = 1..k /\ n <= k
        /\ IsText(m) => m.number \in Nat /\ n < m.number /\ m.number <= k
        /\ \A i \in 1..n : said'[i] = said[i]
  <2>1. CASE ~IsText(m) /\ said' = said
    BY <1>1, <2>1
  <2>2. CASE m.number = Len(said) + 1 /\ \E x : said' = Append(said, x)
    <3>1. PICK x : said' = Append(said, x)
      BY <2>2
    <3>2. /\ Len(said') = n + 1 /\ DOMAIN said' = 1..(n + 1)
          /\ \A i \in 1..n : said'[i] = said[i]
      BY <1>1, <3>1 DEF AppInv, TypeOK
    <3> QED BY <1>1, <2>2, <3>2
  <2> QED BY <2>1, <2>2
<1>3. Increasing(messages') /\ \A i \in DOMAIN messages' : Shows(messages'[i], said')
  BY <1>1, <1>2 DEF OnceInv, Increasing, Shows
<1>4. \A s \in Socket : Current(s)' = Current(s)
  BY DEF Current, effectVars
<1>5. ASSUME NEW s \in Socket
      PROVE  /\ link'[s] \in {"none", "dialing"} => wire'[s] = <<>>
             /\ link'[s] = "down" /\ Current(s)' => wire'[s] = <<>>
             /\ Ordered(wire'[s], k)
             /\ Current(s)' => Newer(wire'[s], messages')
  <2>1. /\ wire[s] \in Seq(Event)
        /\ \A i \in DOMAIN wire[s] : IsText(wire[s][i]) => wire[s][i].number \in Nat
    BY TextNumber DEF AppInv, TypeOK
  <2>2. /\ link[s] \in {"none", "dialing"} => wire[s] = <<>>
        /\ link[s] = "down" /\ Current(s) => wire[s] = <<>>
        /\ Ordered(wire[s], n)
        /\ Current(s) => Newer(wire[s], messages)
    BY <1>1 DEF OnceInv
  <2>3. CASE wire'[s] = wire[s]
    <3>1. Ordered(wire[s], k)
      BY <1>2, <2>1, <2>2 DEF Ordered
    <3> QED BY <1>4, <2>2, <2>3, <3>1
  <2>4. CASE link[s] \in {"answered", "up"} /\ wire'[s] = Append(wire[s], m)
    <3>1. link'[s] \notin {"none", "dialing", "down"}
      BY <2>4
    <3>2. Ordered(wire'[s], k)
      BY <1>2, <2>1, <2>2, <2>4, AppendOrdered
    <3>3. Current(s) => Newer(wire'[s], messages')
      <4> SUFFICES ASSUME Current(s), NEW i \in DOMAIN wire'[s], IsText(wire'[s][i]),
                          NEW j \in DOMAIN messages
                   PROVE  messages[j].number < wire'[s][i].number
        BY DEF Newer
      <4>1. PICK l \in Nat : l = Len(wire[s]) /\ DOMAIN wire[s] = 1..l
        BY <2>1
      <4>2. /\ i \in 1..(l + 1)
            /\ wire'[s][i] = IF i = l + 1 THEN m ELSE wire[s][i]
        BY <2>1, <2>4, <4>1
      <4>3. messages[j].number \in 0..n
        BY <1>1 DEF OnceInv, Shows
      <4>4. CASE i = l + 1
        BY <1>2, <4>2, <4>3, <4>4
      <4>5. CASE i \in DOMAIN wire[s]
        BY <2>2, <4>1, <4>2, <4>5 DEF Newer
      <4> QED BY <4>1, <4>2, <4>4, <4>5
    <3> QED BY <1>4, <3>1, <3>2, <3>3
  <2> QED BY <2>3, <2>4 DEF Broadcast
<1> QED BY <1>2, <1>3, <1>5 DEF OnceInv

LEMMA MessageOnce ==
  ASSUME AppInv, OnceInv, NEW s \in Socket, Message(s)
  PROVE  OnceInv'
<1> DEFINE m == Head(wire[s])
           rest == Tail(wire[s])
<1>1. /\ link[s] = "up" /\ wire[s] \in Seq(Event) /\ wire[s] # <<>>
      /\ m \in Event /\ rest \in Seq(Event)
      /\ s \in Made /\ wire' = [wire EXCEPT ![s] = rest]
      /\ \/ Current(s) /\ Handle(m)
         \/ ~Current(s) /\ messages' = messages
      /\ UNCHANGED <<owner, isMounted, link, said>>
  BY MessageFacts DEF effectVars, serverVars
<1>2. /\ \A r \in Socket : wire'[r] = IF r = s THEN rest ELSE wire[r]
      /\ \A r : Current(r)' = Current(r)
  BY <1>1 DEF Current, AppInv, TypeOK
<1>3. /\ Ordered(rest, Len(said))
      /\ IsText(m) => /\ m.number \in DOMAIN said /\ m.number \in Nat \ {0}
                      /\ \A i \in DOMAIN rest :
                           IsText(rest[i]) => m.number < rest[i].number
      /\ \A i \in DOMAIN rest : i + 1 \in DOMAIN wire[s] /\ rest[i] = wire[s][i + 1]
  <2>1. /\ Len(said) \in Nat /\ DOMAIN said = 1..Len(said)
        /\ Ordered(wire[s], Len(said))
    BY DEF AppInv, TypeOK, OnceInv
  <2>2. /\ Ordered(rest, Len(said))
        /\ IsText(m) =>
             /\ m.number \in 1..Len(said)
             /\ \A i \in DOMAIN rest : IsText(rest[i]) => m.number < rest[i].number
        /\ \A i \in DOMAIN rest : i + 1 \in DOMAIN wire[s] /\ rest[i] = wire[s][i + 1]
    BY <1>1, <2>1, TailOrdered, ZenonT(30)
  <2>3. \A k \in 1..Len(said) : k \in Nat \ {0}
    BY <2>1
  <2> QED BY <2>1, <2>2, <2>3
<1>4. Current(s) => Newer(rest, messages)
  <2>1. Current(s) => Newer(wire[s], messages)
    BY DEF OnceInv
  <2> QED BY <1>3, <2>1 DEF Newer
<1>5. Current(s) /\ IsText(m) => \A k \in DOMAIN messages : messages[k].number < m.number
  <2>1. 1 \in DOMAIN wire[s] /\ m = wire[s][1]
    BY <1>1
  <2> QED BY <2>1 DEF OnceInv, Newer
<1> HIDE DEF m, rest
<1>6. \A r \in Socket : Current(s) /\ Current(r) /\ r # s => wire[r] = <<>>
  <2> SUFFICES ASSUME NEW r \in Socket, Current(s), Current(r), r # s
               PROVE  wire[r] = <<>>
    OBVIOUS
  <2>1. r \in Made /\ owner[r] = owner[s]
    BY <1>1 DEF Current, Made, AppInv, PhaseInv, TypeOK
  <2>2. readyState[s] # "closed"
    BY <1>1 DEF AppInv, StateInv
  <2>3. link[r] = "down"
    BY <1>1, <2>1, <2>2 DEF AppInv, EffectInv, StateInv, Made
  <2> QED BY <2>3 DEF OnceInv
<1>7. /\ Increasing(messages') /\ \A i \in DOMAIN messages' : Shows(messages'[i], said')
      /\ \A r \in Socket : Current(r) => Newer(wire'[r], messages')
  <2>1. ASSUME messages' = messages
        PROVE  /\ Increasing(messages')
               /\ \A i \in DOMAIN messages' : Shows(messages'[i], said')
               /\ \A r \in Socket : Current(r) => Newer(wire'[r], messages')
    BY <1>1, <1>2, <1>4, <2>1 DEF OnceInv, Shows
  <2>2. CASE ~Current(s)
    BY <1>1, <2>1, <2>2
  <2>3. CASE Current(s)
    <3>1. messages' = messages \/ \E n \in Nat : m = TextEvent(n) /\ Texted(n)
      BY <1>1, <2>3, HandleFacts
    <3>2. ASSUME messages' = <<>>
          PROVE  /\ Increasing(messages')
                 /\ \A i \in DOMAIN messages' : Shows(messages'[i], said')
                 /\ \A r \in Socket : Current(r) => Newer(wire'[r], messages')
      BY <3>2 DEF Increasing, Newer
    <3>3. ASSUME NEW n \in Nat, m = TextEvent(n), NEW p \in {"Client", "Raw"},
                 messages' = Append(messages, [sender |-> p, number |-> n]),
                 \/ p = "Raw" /\ said[n].text = "quoted"
                 \/ p = "Client" /\ said[n].text = "plain" /\ said[n].event = "chat"
          PROVE  /\ Increasing(messages')
                 /\ \A i \in DOMAIN messages' : Shows(messages'[i], said')
                 /\ \A r \in Socket : Current(r) => Newer(wire'[r], messages')
      <4>1. IsText(m) /\ m.number = n
        BY <3>3, Events
      <4>2. /\ n \in DOMAIN said /\ \A k \in DOMAIN messages : messages[k].number < n
            /\ \A i \in DOMAIN rest : IsText(rest[i]) => n < rest[i].number
        BY <1>3, <1>5, <2>3, <4>1
      <4>3. PICK l \in Nat : l = Len(messages)
        BY DEF AppInv, TypeOK
      <4>4. /\ DOMAIN messages = 1..l /\ DOMAIN messages' = 1..(l + 1)
            /\ messages'[l + 1] = [sender |-> p, number |-> n]
            /\ \A i \in 1..l : messages'[i] = messages[i]
        BY <3>3, <4>3 DEF AppInv, TypeOK
      <4>5. Increasing(messages')
        BY <4>2, <4>4 DEF OnceInv, Increasing
      <4>6. \A i \in DOMAIN messages' : Shows(messages'[i], said')
        <5>1. messages'[l + 1].sender = p /\ messages'[l + 1].number = n
          BY <4>4
        <5>2. \A i \in 1..l : Shows(messages[i], said)
          BY <4>4 DEF OnceInv
        <5>3. \A i \in 1..(l + 1) : i \in 1..l \/ i = l + 1
          OBVIOUS
        <5> QED BY <1>1, <3>3, <4>2, <4>4, <5>1, <5>2, <5>3 DEF Shows
      <4>7. Newer(rest, messages')
        BY <1>4, <2>3, <4>2, <4>4 DEF Newer
      <4>8. ASSUME NEW r \in Socket, Current(r) PROVE Newer(wire'[r], messages')
        <5>1. CASE r = s
          BY <1>2, <4>7, <5>1
        <5>2. CASE r # s
          BY <1>2, <1>6, <2>3, <4>8, <5>2 DEF Newer
        <5> QED BY <5>1, <5>2
      <4> QED BY <4>5, <4>6, <4>8
    <3>4. ASSUME NEW n \in Nat, m = TextEvent(n), Texted(n)
          PROVE  /\ Increasing(messages')
                 /\ \A i \in DOMAIN messages' : Shows(messages'[i], said')
                 /\ \A r \in Socket : Current(r) => Newer(wire'[r], messages')
      BY <2>1, <3>2, <3>3, <3>4 DEF Texted, Show
    <3> QED BY <2>1, <3>1, <3>4
  <2> QED BY <2>2, <2>3
<1>8. ASSUME NEW r \in Socket
      PROVE  /\ link[r] \in {"none", "dialing"} => wire'[r] = <<>>
             /\ link[r] = "down" /\ Current(r) => wire'[r] = <<>>
             /\ Ordered(wire'[r], Len(said))
  <2>1. CASE r = s
    BY <1>1, <1>2, <1>3, <2>1
  <2>2. CASE r # s
    BY <1>2, <2>2 DEF OnceInv
  <2> QED BY <2>1, <2>2
<1> QED BY <1>1, <1>2, <1>7, <1>8 DEF OnceInv

LEMMA NextOnce == AppInv /\ OnceInv /\ [Next]_vars => OnceInv'
<1> SUFFICES ASSUME AppInv, OnceInv, [Next]_vars PROVE OnceInv'
  OBVIOUS
<1>2. \A s \in Socket : /\ link[s] \in {"none", "dialing"} => wire[s] = <<>>
                        /\ link[s] = "down" /\ Current(s) => wire[s] = <<>>
  BY DEF OnceInv
<1>3. ASSUME NEW e \in Effect, Mount(e) \/ Timeout(e) PROVE OnceInv'
  <2>1. PICK s \in Socket \ Made : /\ owner' = [owner EXCEPT ![s] = e]
                                   /\ link' = [link EXCEPT ![s] = "dialing"]
    BY <1>3, ConnectFacts DEF Mount, Timeout, AppInv
  <2>2. UNCHANGED <<wire, messages, said>>
    BY <1>3 DEF Mount, Timeout, stateVars, serverVars
  <2>3. link[s] = "none" /\ wire[s] = <<>>
    BY <1>2 DEF AppInv, StateInv, Made
  <2>4. \A r \in Socket : r # s => owner'[r] = owner[r] /\ link'[r] = link[r]
    BY <2>1 DEF AppInv, TypeOK
  <2>5. \A r \in Socket : r # s /\ Current(r)' => Current(r)
    <3>1. CASE Mount(e)
      <4>1. ws[e] = None
        BY <3>1 DEF Mount, AppInv, PhaseInv
      <4>2. \A r \in Made : owner[r] # e
        BY <4>1 DEF AppInv, EffectInv
      <4>3. isMounted' = [isMounted EXCEPT ![e] = TRUE]
        BY <3>1 DEF Mount
      <4>4. \A r \in Socket : owner[r] # None => owner[r] \in Effect
        BY DEF AppInv, TypeOK
      <4> QED BY <2>4, <4>2, <4>3, <4>4 DEF Current, Made, AppInv, TypeOK
    <3>2. CASE Timeout(e)
      BY <2>4, <3>2 DEF Timeout, Current
    <3> QED BY <1>3, <3>1, <3>2
  <2>6. \A r \in Socket :
          /\ link'[r] \in {"none", "dialing"} => wire'[r] = <<>>
          /\ link'[r] = "down" /\ Current(r)' => wire'[r] = <<>>
          /\ Current(r)' => Current(r) \/ wire'[r] = <<>>
    BY <1>2, <2>2, <2>3, <2>4, <2>5
  <2> QED BY <2>2, <2>6, QuietOnce
<1>4. CASE Unmount
  <2>1. PICK e \in Effect :
          /\ isMounted[e] /\ isMounted' = [isMounted EXCEPT ![e] = FALSE]
          /\ link' \in {link, [link EXCEPT ![ws[e]] = "down"]}
          /\ UNCHANGED <<owner, stateVars, wire, serverVars>>
    BY <1>4, UnmountFacts
  <2>2. \A r \in Socket : ~Current(r)'
    BY <2>1 DEF Current, AppInv, PhaseInv, TypeOK
  <2>3. \A r \in Socket : link'[r] \in {"none", "dialing"} => wire'[r] = <<>>
    BY <1>2, <2>1 DEF AppInv, TypeOK
  <2> QED BY <2>1, <2>2, <2>3, QuietOnce DEF stateVars, serverVars
<1>5. ASSUME NEW s \in Socket, Opened(s) \/ Closed(s) PROVE OnceInv'
  <2>1. UNCHANGED <<owner, isMounted, wire, messages, said>>
    BY <1>5 DEF Opened, Closed, Closing, effectVars, serverVars
  <2>2. \A r \in Socket : link'[r] = link[r] \/ link'[r] = "up"
    BY <1>5 DEF Opened, Closed, Closing, AppInv, TypeOK
  <2>3. \A r \in Socket : Current(r)' = Current(r)
    BY <2>1 DEF Current
  <2> QED BY <1>2, <2>1, <2>2, <2>3, QuietOnce
<1>6. ASSUME NEW s \in Socket, Lose(s) \/ HangUp(s) PROVE OnceInv'
  <2>1. /\ wire' = [wire EXCEPT ![s] = <<>>] /\ link' = [link EXCEPT ![s] = "down"]
        /\ UNCHANGED <<owner, isMounted, messages, said>>
    BY <1>6 DEF Lose, HangUp, effectVars, stateVars, serverVars
  <2>2. \A r \in Socket : IF r = s THEN wire'[r] = <<>>
                          ELSE wire'[r] = wire[r] /\ link'[r] = link[r]
    BY <2>1 DEF AppInv, TypeOK
  <2>3. \A r \in Socket : Current(r)' = Current(r)
    BY <2>1 DEF Current
  <2> QED BY <1>2, <2>1, <2>2, <2>3, QuietOnce
<1>7. ASSUME NEW s \in Socket, Message(s) PROVE OnceInv'
  BY <1>7, MessageOnce
<1>8. ASSUME NEW w \in Worker, NEW k \in Socket \cup {Tab},
             Answer(w, k) \/ Terminate(w)
      PROVE  OnceInv'
  <2>1. UNCHANGED <<effectVars, messages, said>>
    BY <1>8 DEF Answer, Terminate, stateVars, chatVars
  <2>2. \A s \in Socket : \/ link'[s] = link[s]
                          \/ link[s] = "dialing" /\ link'[s] = "answered"
    BY <1>8 DEF Answer, Terminate, AppInv, TypeOK
  <2>3. PICK m \in Event : ~IsText(m) /\ Broadcast(m)
    BY <1>8, Events DEF Answer, Terminate
  <2> QED BY <2>1, <2>2, <2>3, BroadcastOnce
<1>9. ASSUME NEW w \in Worker, (\E t \in Texts : Receive(w, t)) \/ Announce(w)
      PROVE  OnceInv'
  <2> DEFINE m == TextEvent(Len(said) + 1)
  <2>1. /\ UNCHANGED <<effectVars, messages, link>> /\ Broadcast(m)
        /\ \E x : said' = Append(said, x)
    BY <1>9 DEF Receive, Announce, stateVars
  <2>2. m \in Event /\ m.number = Len(said) + 1
    <3>1. Len(said) + 1 \in Nat
      BY DEF AppInv, TypeOK
    <3> QED BY <3>1, Events
  <2> HIDE DEF m
  <2> QED BY <2>1, <2>2, BroadcastOnce
<1>10. ASSUME NEW t \in Texts, sendMessage(t) PROVE OnceInv'
  BY <1>10, SendOnce
<1>11. ASSUME UNCHANGED <<effectVars, messages, link, wire, said>> PROVE OnceInv'
  <2>1. \A r \in Socket : Current(r)' = Current(r)
    BY <1>11 DEF Current, effectVars
  <2> QED BY <1>2, <1>11, <2>1, QuietOnce
<1>12. ASSUME NEW w \in Worker, Register(w) \/ Leave(w) PROVE OnceInv'
  BY <1>11, <1>12 DEF Register, Leave, stateVars, chatVars
<1>13. CASE UNCHANGED vars
  BY <1>11, <1>13 DEF vars, stateVars, serverVars
<1> QED BY <1>3, <1>4, <1>5, <1>6, <1>7, <1>8, <1>9, <1>10, <1>12, <1>13 DEF Next

(***************************************************************************)
(* The server's entries in messages are in the order of its broadcasts,    *)
(* whichever connections brought them, and a text has two only as raw      *)
(* events that did not parse, its INSERT and then its chat event.          *)
(***************************************************************************)
THEOREM NoneTwice == Spec => []ShownOnce
<1>1. Init => OnceInv
  BY DEF Init, OnceInv, Increasing, Ordered, Newer
<1>2. Spec => []OnceInv
  BY <1>1, NextOnce, AppInvHolds, PTL DEF Spec
<1>3. AppInv /\ OnceInv => ShownOnce
  <2> SUFFICES ASSUME AppInv, OnceInv, NEW i \in DOMAIN messages,
                      NEW j \in DOMAIN messages, messages[i].sender # "You",
                      messages[j].sender # "You", i < j
               PROVE  LET a == messages[i]
                          b == messages[j]
                      IN  /\ a.number < b.number
                          /\ said[a.number].of = said[b.number].of =>
                               /\ a.sender = "Raw"
                               /\ said[a.number].event = "INSERT"
                               /\ b.sender = "Raw"
                               /\ said[b.number].event = "chat"
    BY DEF ShownOnce
  <2>1. messages[i].number < messages[j].number
    BY DEF OnceInv, Increasing
  <2>2. Shows(messages[i], said) /\ Shows(messages[j], said)
    BY DEF OnceInv
  <2>3. PICK a \in DOMAIN said : a = messages[i].number
    BY <2>2 DEF Shows
  <2>4. PICK b \in DOMAIN said : b = messages[j].number
    BY <2>2 DEF Shows
  <2>5. /\ a \in Nat /\ b \in Nat /\ a < b
        /\ said[a].event \in {"INSERT", "chat"} /\ said[b].event \in {"INSERT", "chat"}
    BY <2>1, <2>3, <2>4, SaidType DEF AppInv
  <2>6. ASSUME said[a].of = said[b].of
        PROVE  /\ said[a].event = "INSERT" /\ said[b].event = "chat"
               /\ said[a].text = said[b].text
    <3>1. /\ said[a].of \in 1..a
          /\ said[b].event = "INSERT" <=> said[b].of = b
          /\ said[a].text = said[b].text
      BY <2>6 DEF AppInv, SaidInv
    <3>2. said[b].event = "chat"
      BY <2>5, <2>6, <3>1
    <3>3. said[a].event # "chat"
      BY <2>5, <2>6, <3>2 DEF AppInv, SaidInv
    <3> QED BY <2>5, <3>1, <3>2, <3>3
  <2> QED BY <2>1, <2>2, <2>3, <2>4, <2>6 DEF Shows
<1> QED BY <1>2, <1>3, AppInvHolds, PTL

------------------------------------------------------------------------------
(* What the counter counts *)

LEMMA Announcements ==
  ASSUME NEW v \in Worker, NEW w \in Worker
  PROVE  /\ Spawned(v) = Spawned(w) <=> v = w
         /\ Terminated(v) = Terminated(w) <=> v = w
         /\ Spawned(v) # Terminated(w)
         /\ \A n \in Nat : ~Says(TextEvent(n), w)
<1>1. /\ Spawned(v).thread_id = v /\ Spawned(w).thread_id = w
      /\ Terminated(v).thread_id = v /\ Terminated(w).thread_id = w
  BY Events
<1>2. Spawned(v).event # Terminated(w).event
  BY Events
<1>3. ~IsText(Spawned(w)) /\ ~IsText(Terminated(w)) /\ \A n \in Nat : IsText(TextEvent(n))
  BY Events
<1>4. \A n \in Nat : ~Says(TextEvent(n), w)
  BY <1>3 DEF Says
<1> QED BY <1>1, <1>2, <1>4

(* The last announcement of a thread decides. *)
LEMMA CountAppend ==
  ASSUME NEW q \in Seq(Event), NEW A, NEW m \in Event, NEW w \in Worker
  PROVE  Counts(Append(q, m), A, w) <=>
           IF Says(m, w) THEN m = Spawned(w) ELSE Counts(q, A, w)
<1> DEFINE r == Append(q, m)
<1>1. /\ Len(q) \in Nat /\ DOMAIN q = 1..Len(q) /\ DOMAIN r = 1..(Len(q) + 1)
      /\ r[Len(q) + 1] = m /\ \A i \in 1..Len(q) : r[i] = q[i]
  OBVIOUS
<1> HIDE DEF r
<1>2. CASE Says(m, w)
  <2>1. Len(q) + 1 \in Said(r, w) /\ \A j \in Said(r, w) : j <= Len(q) + 1
    BY <1>1, <1>2 DEF Said
  <2>2. \A i \in Said(r, w) : (\A j \in Said(r, w) : j <= i) => i = Len(q) + 1
    BY <1>1, <2>1 DEF Said
  <2>3. Counts(r, A, w) <=> m = Spawned(w)
    BY <1>1, <2>1, <2>2 DEF Counts
  <2> QED BY <1>2, <2>3 DEF r
<1>3. CASE ~Says(m, w)
  <2>1. Said(r, w) = Said(q, w) /\ \A i \in Said(q, w) : r[i] = q[i]
    BY <1>1, <1>3 DEF Said
  <2>2. Counts(r, A, w) <=> Counts(q, A, w)
    BY <2>1 DEF Counts
  <2> QED BY <1>3, <2>2 DEF r
<1> QED BY <1>2, <1>3

(* Handling the first event changes nothing of what will be counted. *)
LEMMA CountTail ==
  ASSUME NEW q \in Seq(Event), q # <<>>, Handle(Head(q)), NEW w \in Worker
  PROVE  Counts(Tail(q), activeThreads', w) <=> Counts(q, activeThreads, w)
<1> DEFINE r == Tail(q)
           m == Head(q)
<1>1. /\ DOMAIN q = 1..Len(q) /\ Len(q) \in Nat \ {0} /\ m = q[1] /\ m \in Event
      /\ DOMAIN r = 1..(Len(q) - 1) /\ \A i \in DOMAIN r : r[i] = q[i + 1]
  OBVIOUS
<1>2. /\ Says(m, w) => (w \in activeThreads' <=> m = Spawned(w))
      /\ ~Says(m, w) => (w \in activeThreads' <=> w \in activeThreads)
  <2>1. \/ \E v \in Worker : m = Spawned(v) /\ activeThreads' = activeThreads \cup {v}
        \/ \E v \in Worker : m = Terminated(v) /\ activeThreads' = activeThreads \ {v}
        \/ \E n \in Nat : m = TextEvent(n) /\ activeThreads' = activeThreads
    BY <1>1, HandleFacts
  <2> HIDE DEF m
  <2>2. ASSUME NEW v \in Worker, m = Spawned(v), activeThreads' = activeThreads \cup {v}
        PROVE  /\ Says(m, w) => (w \in activeThreads' <=> m = Spawned(w))
               /\ ~Says(m, w) => (w \in activeThreads' <=> w \in activeThreads)
    BY <2>2, Announcements DEF Says
  <2>3. ASSUME NEW v \in Worker, m = Terminated(v), activeThreads' = activeThreads \ {v}
        PROVE  /\ Says(m, w) => (w \in activeThreads' <=> m = Spawned(w))
               /\ ~Says(m, w) => (w \in activeThreads' <=> w \in activeThreads)
    BY <2>3, Announcements DEF Says
  <2>4. ASSUME NEW n \in Nat, m = TextEvent(n), activeThreads' = activeThreads
        PROVE  /\ Says(m, w) => (w \in activeThreads' <=> m = Spawned(w))
               /\ ~Says(m, w) => (w \in activeThreads' <=> w \in activeThreads)
    BY <2>4, Announcements
  <2> QED BY <2>1, <2>2, <2>3, <2>4
<1> HIDE DEF r, m
<1>3. \A i \in DOMAIN r : i \in Said(r, w) <=> i + 1 \in Said(q, w)
  BY <1>1 DEF Said
<1>4. \A i \in Said(q, w) : i = 1 \/ (i - 1 \in Said(r, w) /\ i \in Nat /\ q[i] = r[i - 1])
  <2>1. ASSUME NEW i \in Said(q, w), i # 1
        PROVE  i - 1 \in DOMAIN r /\ i \in Nat /\ i = (i - 1) + 1
    BY <1>1, <2>1 DEF Said
  <2> QED BY <1>1, <1>3, <2>1
<1>5. 1 \in Said(q, w) <=> Says(m, w)
  BY <1>1 DEF Said
<1>6. CASE Said(r, w) = {}
  <2>1. Counts(r, activeThreads', w) <=> w \in activeThreads'
    BY <1>6 DEF Counts
  <2>2. CASE Says(m, w)
    <3>1. Said(q, w) = {1}
      BY <1>4, <1>5, <1>6, <2>2
    <3>2. Counts(q, activeThreads, w) <=> m = Spawned(w)
      BY <1>1, <3>1 DEF Counts
    <3> QED BY <1>2, <2>1, <2>2, <3>2 DEF r
  <2>3. CASE ~Says(m, w)
    <3>1. Said(q, w) = {}
      BY <1>4, <1>5, <1>6, <2>3
    <3>2. Counts(q, activeThreads, w) <=> w \in activeThreads
      BY <3>1 DEF Counts
    <3> QED BY <1>2, <2>1, <2>3, <3>2 DEF r
  <2> QED BY <2>2, <2>3
<1>7. CASE Said(r, w) # {}
  <2>1. PICK k \in Said(r, w) : TRUE
    BY <1>7
  <2>2. Said(r, w) \subseteq DOMAIN r /\ DOMAIN r \subseteq Nat
    BY <1>1 DEF Said
  <2>3. k + 1 \in Said(q, w) /\ k \in Nat /\ k >= 1
    BY <1>1, <1>3, <2>1, <2>2
  <2>4. ASSUME NEW i \in Said(r, w), \A j \in Said(r, w) : j <= i, r[i] = Spawned(w)
        PROVE  Counts(q, activeThreads, w)
    <3>1. i + 1 \in Said(q, w) /\ q[i + 1] = Spawned(w)
      BY <1>1, <1>3, <2>2, <2>4
    <3>2. \A j \in Said(q, w) : j <= i + 1
      BY <1>1, <1>4, <2>2, <2>4
    <3> QED BY <3>1, <3>2 DEF Counts
  <2>5. ASSUME NEW i \in Said(q, w), \A j \in Said(q, w) : j <= i, q[i] = Spawned(w)
        PROVE  Counts(r, activeThreads', w)
    <3>1. i # 1
      BY <2>3, <2>5
    <3>2. i - 1 \in Said(r, w) /\ i \in Nat /\ r[i - 1] = Spawned(w)
      BY <1>4, <2>5, <3>1
    <3>3. \A j \in Said(r, w) : j + 1 \in Said(q, w) /\ j \in Nat
      BY <1>3, <2>2
    <3>4. \A j \in Said(r, w) : j <= i - 1
      BY <2>5, <3>2, <3>3
    <3> QED BY <3>2, <3>4 DEF Counts
  <2> QED BY <1>7, <2>3, <2>4, <2>5 DEF Counts, r
<1> QED BY <1>6, <1>7

(* A WebSocket of the mounted effect is alone until a connection is lost. *)
LEMMA OneCurrent ==
  ASSUME AppInv, CountInv, losses = 0,
         NEW r \in Socket, NEW s \in Socket, Current(r), Current(s)
  PROVE  r = s
<1>1. owner[r] = owner[s] /\ r \in Made /\ s \in Made
  BY DEF Current, Made, AppInv, PhaseInv, TypeOK
<1>2. readyState[r] # "closed" /\ readyState[s] # "closed"
  BY DEF CountInv, AppInv, StateInv
<1> QED BY <1>1, <1>2 DEF AppInv, EffectInv

(* Nothing is sent, handled or lost. *)
LEMMA QuietCount ==
  ASSUME CountInv, UNCHANGED <<activeThreads, serving, listed, earlier, losses>>,
         \A s \in Socket : Current(s)' =>
           \/ /\ Current(s) /\ wire'[s] = wire[s]
              /\ link[s] \notin {"none", "down"} => link'[s] \notin {"none", "down"}
           \/ /\ link'[s] \notin {"none", "down"} /\ s \notin listed
              /\ wire'[s] = <<>> /\ activeThreads = {}
  PROVE  CountInv'
<1>1. Busy' = Busy
  BY DEF Busy
<1>2. \A s : wire'[s] = wire[s] => Counted(s)' = Counted(s)
  BY DEF Counted, Counts, Said
<1> QED BY <1>1, <1>2 DEF CountInv

(* A thread is announced, or a message sent. *)
LEMMA BroadcastCount ==
  ASSUME AppInv, CountInv, UNCHANGED <<effectVars, activeThreads, listed, losses>>,
         NEW m \in Event, Broadcast(m),
         \A s \in Socket : \/ link'[s] = link[s]
                           \/ link[s] = "dialing" /\ link'[s] = "answered",
         \/ /\ \E w \in Worker : /\ m = Spawned(w) /\ serving[w] = None
                                 /\ Busy' = Busy \cup {w}
            /\ earlier' = earlier
         \/ \E w \in Worker : /\ m = Terminated(w) /\ Busy' = Busy \ {w}
                              /\ earlier' = [s \in Socket |-> earlier[s] \ {w}]
         \/ IsText(m) /\ Busy' = Busy /\ earlier' = earlier
  PROVE  CountInv'
<1>1. \A s \in Socket : Current(s)' = Current(s)
  BY DEF Current, effectVars
<1>2. \A s \in Socket : earlier'[s] \subseteq Busy'
  BY DEF CountInv
<1>3. ASSUME losses = 0, NEW s \in Socket, Current(s)
      PROVE  /\ link'[s] \notin {"none", "down"}
             /\ s \notin listed => wire'[s] = <<>> /\ activeThreads = {}
             /\ s \in listed => Counted(s)' = Busy' \ earlier'[s]
  <2>1. /\ link[s] \notin {"none", "down"}
        /\ s \notin listed => wire[s] = <<>> /\ activeThreads = {}
        /\ s \in listed => Counted(s) = Busy \ earlier[s]
    BY <1>3 DEF CountInv
  <2>2. s \notin listed => wire'[s] = <<>>
    BY <2>1 DEF Broadcast
  <2>3. ASSUME s \in listed PROVE Counted(s)' = Busy' \ earlier'[s]
    <3>1. PICK v \in Worker : serving[v] = s
      BY <2>3 DEF AppInv, ServerInv
    <3>2. link[s] \in {"answered", "up"}
      BY <2>1, <3>1 DEF AppInv, ServerInv, TypeOK
    <3>3. wire'[s] = Append(wire[s], m) /\ wire[s] \in Seq(Event)
      BY <2>3, <3>2 DEF Broadcast, AppInv, TypeOK
    <3>4. \A w \in Worker : Counts(wire'[s], activeThreads', w) <=>
            IF Says(m, w) THEN m = Spawned(w) ELSE Counts(wire[s], activeThreads, w)
      BY <3>3, CountAppend
    <3>5. Counted(s)' = {w \in Worker : Counts(wire'[s], activeThreads', w)}
      BY DEF Counted, Counts, Said
    <3>6. \A w \in Worker : Counts(wire[s], activeThreads, w) <=> w \in Busy \ earlier[s]
      BY <2>1, <2>3 DEF Counted
    <3>7. Busy \subseteq Worker /\ earlier[s] \subseteq Busy
      BY DEF Busy, CountInv
    <3>8. ASSUME NEW w \in Worker, m = Spawned(w), serving[w] = None,
                 Busy' = Busy \cup {w}, earlier' = earlier
          PROVE  Counted(s)' = Busy' \ earlier'[s]
      <4>1. w \notin Busy
        BY <3>8 DEF Busy
      <4>2. \A u \in Worker : Says(m, u) <=> u = w
        BY <3>8, Announcements DEF Says
      <4> QED BY <3>4, <3>5, <3>6, <3>7, <3>8, <4>1, <4>2
    <3>9. ASSUME NEW w \in Worker, m = Terminated(w), Busy' = Busy \ {w},
                 earlier' = [r \in Socket |-> earlier[r] \ {w}]
          PROVE  Counted(s)' = Busy' \ earlier'[s]
      <4>1. \A u \in Worker : (Says(m, u) <=> u = w) /\ m # Spawned(u)
        BY <3>9, Announcements DEF Says
      <4> QED BY <3>4, <3>5, <3>6, <3>7, <3>9, <4>1
    <3>10. ASSUME IsText(m), Busy' = Busy, earlier' = earlier
           PROVE  Counted(s)' = Busy' \ earlier'[s]
      <4>1. \A u \in Worker : ~Says(m, u)
        BY <3>10, Events DEF Says
      <4> QED BY <3>4, <3>5, <3>6, <3>7, <3>10, <4>1
    <3> QED BY <3>8, <3>9, <3>10
  <2> QED BY <2>1, <2>2, <2>3
<1> QED BY <1>1, <1>2, <1>3 DEF CountInv

LEMMA NextCount == AppInv /\ OnceInv /\ CountInv /\ [Next]_vars => CountInv'
<1> SUFFICES ASSUME AppInv, OnceInv, CountInv, [Next]_vars PROVE CountInv'
  OBVIOUS
<1>1. ASSUME NEW e \in Effect, Mount(e) PROVE CountInv'
  <2>1. PICK s \in Socket \ Made : /\ owner' = [owner EXCEPT ![s] = e]
                                   /\ link' = [link EXCEPT ![s] = "dialing"]
    BY <1>1, ConnectFacts DEF Mount, AppInv
  <2>2. UNCHANGED <<wire, activeThreads, serving, listed, earlier, losses>>
    BY <1>1 DEF Mount, stateVars, serverVars
  <2>3. link[s] = "none" /\ wire[s] = <<>> /\ s \notin listed
    BY DEF AppInv, StateInv, ServerInv, OnceInv, Made
  <2>4. activeThreads = {} /\ \A f \in Effect : ~isMounted[f]
    BY <1>1 DEF Mount, AppInv, PhaseInv
  <2>5. \A r \in Socket : r # s => ~Current(r)'
    <3>1. ws[e] = None
      BY <1>1 DEF Mount, AppInv, PhaseInv
    <3>2. \A r \in Made : owner[r] # e
      BY <3>1 DEF AppInv, EffectInv
    <3>3. isMounted' = [isMounted EXCEPT ![e] = TRUE]
      BY <1>1 DEF Mount
    <3>4. \A r \in Socket : r # s => owner'[r] = owner[r]
      BY <2>1 DEF AppInv, TypeOK
    <3>5. \A r \in Socket : owner[r] # None => owner[r] \in Effect
      BY DEF AppInv, TypeOK
    <3> QED BY <2>4, <3>2, <3>3, <3>4, <3>5 DEF Current, Made, AppInv, TypeOK
  <2>6. link'[s] = "dialing"
    BY <2>1 DEF AppInv, TypeOK
  <2> QED BY <2>2, <2>3, <2>4, <2>5, <2>6, QuietCount
<1>2. ASSUME NEW e \in Effect, Timeout(e) PROVE CountInv'
  <2>1. losses # 0
    <3>1. /\ isMounted[e] /\ ws[e] \in Socket /\ owner[ws[e]] = e
          /\ readyState[ws[e]] = "closed"
      BY <1>2 DEF Timeout, AppInv, EffectInv, TypeOK
    <3>2. e # None
      BY NamesAssumption DEF Effect
    <3>3. Current(ws[e]) /\ link[ws[e]] = "down"
      BY <3>1, <3>2 DEF Current, AppInv, StateInv
    <3> QED BY <3>1, <3>3 DEF CountInv
  <2>2. UNCHANGED <<serving, earlier, losses>>
    BY <1>2 DEF Timeout, serverVars
  <2> QED BY <2>1, <2>2 DEF CountInv, Busy
<1>3. CASE Unmount
  <2>1. PICK e \in Effect : /\ isMounted[e] /\ isMounted' = [isMounted EXCEPT ![e] = FALSE]
                            /\ UNCHANGED <<owner, stateVars, losses, serverVars>>
    BY <1>3, UnmountFacts
  <2>2. \A r \in Socket : ~Current(r)'
    BY <2>1 DEF Current, AppInv, PhaseInv, TypeOK
  <2> QED BY <2>1, <2>2, QuietCount DEF stateVars, serverVars
<1>4. ASSUME NEW s \in Socket, Opened(s) \/ Closed(s) PROVE CountInv'
  <2>1. UNCHANGED <<owner, isMounted, wire, activeThreads, serving, listed, earlier, losses>>
    BY <1>4 DEF Opened, Closed, Closing, effectVars, serverVars
  <2>2. \A r \in Socket : link'[r] = link[r] \/ link'[r] = "up"
    BY <1>4 DEF Opened, Closed, Closing, AppInv, TypeOK
  <2>3. \A r \in Socket : Current(r)' = Current(r)
    BY <2>1 DEF Current
  <2> QED BY <2>1, <2>2, <2>3, QuietCount
<1>5. ASSUME NEW s \in Socket, Message(s) PROVE CountInv'
  <2>1. /\ wire[s] \in Seq(Event) /\ wire[s] # <<>>
        /\ wire' = [wire EXCEPT ![s] = Tail(wire[s])]
        /\ \/ Current(s) /\ Handle(Head(wire[s]))
           \/ ~Current(s) /\ activeThreads' = activeThreads
        /\ UNCHANGED <<owner, isMounted, link, serving, listed, earlier, losses>>
    BY <1>5, MessageFacts DEF effectVars, serverVars
  <2>2. /\ \A r \in Socket : Current(r)' = Current(r)
        /\ wire'[s] = Tail(wire[s])
        /\ \A r \in Socket : r # s => wire'[r] = wire[r]
    BY <2>1 DEF Current, AppInv, TypeOK
  <2>3. CASE ~Current(s)
    BY <2>1, <2>2, <2>3, QuietCount
  <2>4. CASE losses # 0
    BY <2>1, <2>4 DEF CountInv, Busy
  <2>5. CASE Current(s) /\ losses = 0
    <3>1. \A r \in Socket : Current(r) => r = s
      BY <2>5, OneCurrent
    <3>2. s \in listed /\ link[s] \notin {"none", "down"} /\ Counted(s) = Busy \ earlier[s]
      BY <2>1, <2>5 DEF CountInv
    <3>3. \A w \in Worker : Counts(wire'[s], activeThreads', w)
                              <=> Counts(wire[s], activeThreads, w)
      BY <2>1, <2>2, <2>5, CountTail
    <3>4. Counted(s)' = {w \in Worker : Counts(wire'[s], activeThreads', w)}
      BY DEF Counted, Counts, Said
    <3>5. Counted(s)' = Counted(s)
      BY <3>3, <3>4 DEF Counted
    <3>6. Busy' = Busy
      BY <2>1 DEF Busy
    <3> QED BY <2>1, <2>2, <3>1, <3>2, <3>5, <3>6 DEF CountInv
  <2> QED BY <2>3, <2>4, <2>5
<1>6. ASSUME NEW s \in Socket, Lose(s) PROVE CountInv'
  <2>1. losses' # 0 /\ UNCHANGED <<serving, earlier>>
    BY <1>6, BoundAssumption DEF Lose, serverVars, AppInv, TypeOK
  <2> QED BY <2>1 DEF CountInv, Busy
<1>7. ASSUME NEW s \in Socket, HangUp(s) PROVE CountInv'
  <2>1. ~Current(s)
    BY <1>7 DEF HangUp, AppInv, StateInv
  <2>2. /\ UNCHANGED <<owner, isMounted, activeThreads, serving, listed, earlier, losses>>
        /\ \A r \in Socket : r # s => wire'[r] = wire[r] /\ link'[r] = link[r]
    BY <1>7 DEF HangUp, effectVars, stateVars, serverVars, AppInv, TypeOK
  <2>3. \A r \in Socket : Current(r)' = Current(r)
    BY <2>2 DEF Current
  <2> QED BY <2>1, <2>2, <2>3, QuietCount
<1>8. ASSUME NEW w \in Worker, NEW k \in Socket \cup {Tab}, Answer(w, k) PROVE CountInv'
  <2>1. /\ UNCHANGED <<effectVars, activeThreads, listed, earlier, losses>>
        /\ serving[w] = None /\ serving' = [serving EXCEPT ![w] = k]
        /\ Broadcast(Spawned(w))
    BY <1>8 DEF Answer, stateVars
  <2>2. \A s \in Socket : \/ link'[s] = link[s]
                          \/ link[s] = "dialing" /\ link'[s] = "answered"
    BY <1>8 DEF Answer, AppInv, TypeOK
  <2>3. Busy' = Busy \cup {w}
    <3>1. k # None
      BY NamesAssumption, SocketFinite
    <3> QED BY <2>1, <3>1 DEF Busy, AppInv, TypeOK
  <2>4. Spawned(w) \in Event
    BY Events
  <2> QED BY <2>1, <2>2, <2>3, <2>4, BroadcastCount
<1>9. ASSUME NEW w \in Worker, Register(w) PROVE CountInv'
  <2>1. /\ UNCHANGED <<owner, isMounted, wire, activeThreads, link, losses, serving>>
        /\ place[w] = "spawned"
        /\ \/ UNCHANGED <<listed, earlier>>
           \/ /\ serving[w] # Tab /\ listed' = listed \cup {serving[w]}
              /\ earlier' = [earlier EXCEPT ![serving[w]] = Busy]
    BY <1>9 DEF Register, effectVars, stateVars
  <2>2. \A r \in Socket : Current(r)' = Current(r)
    BY <2>1 DEF Current
  <2>3. CASE UNCHANGED <<listed, earlier>>
    BY <2>1, <2>2, <2>3, QuietCount
  <2>4. CASE /\ serving[w] # Tab /\ listed' = listed \cup {serving[w]}
             /\ earlier' = [earlier EXCEPT ![serving[w]] = Busy]
    <3> DEFINE s == serving[w]
    <3>1. s \in Socket /\ s \notin listed
      <4>1. s # None
        BY <2>1 DEF AppInv, ServerInv
      <4>2. s \in Socket
        BY <2>4, <4>1 DEF AppInv, TypeOK
      <4>3. ASSUME s \in listed PROVE FALSE
        <5>1. PICK v \in Worker : serving[v] = s /\ place[v] = "reading"
          BY <4>3 DEF AppInv, ServerInv
        <5>2. v = w
          BY <4>2, <5>1 DEF AppInv, ServerInv
        <5> QED BY <2>1, <5>1, <5>2
      <4> QED BY <4>2, <4>3
    <3>2. Busy' = Busy /\ \A r \in Socket : Counted(r)' = Counted(r)
      BY <2>1 DEF Busy, Counted, Counts, Said
    <3> HIDE DEF s
    <3>3. \A r \in Socket : earlier'[r] = IF r = s THEN Busy ELSE earlier[r]
      BY <2>4, <3>1 DEF s, AppInv, TypeOK
    <3>4. listed' = listed \cup {s}
      BY <2>4 DEF s
    <3>5. losses = 0 /\ Current(s) => Counted(s) = {}
      <4>1. losses = 0 /\ Current(s) => wire[s] = <<>> /\ activeThreads = {}
        BY <3>1 DEF CountInv
      <4> QED BY <4>1 DEF Counted, Counts, Said
    <3> QED BY <2>1, <2>2, <3>1, <3>2, <3>3, <3>4, <3>5 DEF CountInv
  <2> QED BY <2>1, <2>3, <2>4
<1>10. ASSUME NEW w \in Worker, Leave(w) PROVE CountInv'
  <2>1. /\ UNCHANGED <<owner, isMounted, wire, activeThreads, link, losses, serving>>
        /\ listed' = listed \ {serving[w]}
        /\ \A r \in Socket : earlier'[r] = IF r = serving[w] THEN {} ELSE earlier[r]
        /\ serving[w] \in Socket => link[serving[w]] = "down"
    <3>1. Tab \notin Socket
      BY NamesAssumption, SocketFinite
    <3> QED BY <1>10, <3>1 DEF Leave, effectVars, stateVars
  <2>2. /\ \A r \in Socket : Current(r)' = Current(r)
        /\ Busy' = Busy /\ \A r \in Socket : Counted(r)' = Counted(r)
    BY <2>1 DEF Current, Busy, Counted, Counts, Said
  <2>3. \A r \in Socket : losses = 0 /\ Current(r) => r # serving[w]
    BY <2>1 DEF CountInv
  <2> QED BY <2>1, <2>2, <2>3 DEF CountInv
<1>11. ASSUME NEW w \in Worker, Terminate(w) PROVE CountInv'
  <2>1. /\ UNCHANGED <<effectVars, activeThreads, listed, losses, link>>
        /\ serving' = [serving EXCEPT ![w] = None]
        /\ earlier' = [s \in Socket |-> earlier[s] \ {w}]
        /\ Broadcast(Terminated(w)) /\ Terminated(w) \in Event
    BY <1>11, Events DEF Terminate, stateVars
  <2>2. Busy' = Busy \ {w}
    BY <2>1 DEF Busy, AppInv, TypeOK
  <2> QED BY <2>1, <2>2, BroadcastCount
<1>12. ASSUME NEW w \in Worker, (\E t \in Texts : Receive(w, t)) \/ Announce(w)
       PROVE  CountInv'
  <2>1. /\ UNCHANGED <<effectVars, activeThreads, listed, losses, link, serving, earlier>>
        /\ Broadcast(TextEvent(Len(said) + 1))
    BY <1>12 DEF Receive, Announce, stateVars
  <2>2. /\ TextEvent(Len(said) + 1) \in Event /\ IsText(TextEvent(Len(said) + 1))
        /\ Busy' = Busy
    <3>1. Len(said) + 1 \in Nat
      BY DEF AppInv, TypeOK
    <3> QED BY <2>1, <3>1, Events DEF Busy
  <2> QED BY <2>1, <2>2, BroadcastCount
<1>13. ASSUME NEW t \in Texts, sendMessage(t) PROVE CountInv'
  <2>1. UNCHANGED <<effectVars, activeThreads, listed, losses, link, wire, serving,
                    earlier>>
    BY <1>13 DEF sendMessage
  <2>2. \A r \in Socket : Current(r)' = Current(r)
    BY <2>1 DEF Current, effectVars
  <2> QED BY <2>1, <2>2, QuietCount
<1>14. CASE UNCHANGED vars
  <2>1. UNCHANGED <<owner, isMounted, wire, activeThreads, link, serving, listed,
                    earlier, losses>>
    BY <1>14 DEF vars, effectVars, stateVars, serverVars
  <2>2. \A r \in Socket : Current(r)' = Current(r)
    BY <2>1 DEF Current
  <2> QED BY <2>1, <2>2, QuietCount
<1> QED BY <1>1, <1>2, <1>3, <1>4, <1>5, <1>6, <1>7, <1>8, <1>9, <1>10, <1>11,
           <1>12, <1>13, <1>14 DEF Next

(***************************************************************************)
(* Until a connection is lost, once the app has handled what is on its     *)
(* wire it counts the busy threads, except those announced before it was   *)
(* listed: no announcement made since is missing, doubled or out of place. *)
(***************************************************************************)
THEOREM CounterFollows == Spec => []CounterIsExact
<1>1. Init => OnceInv /\ CountInv
  BY DEF Init, OnceInv, Increasing, Ordered, Newer, CountInv, Current
<1>2. Spec => [](AppInv /\ OnceInv /\ CountInv)
  BY <1>1, NextOnce, NextCount, AppInvHolds, PTL DEF Spec
<1>3. AppInv /\ CountInv => CounterIsExact
  <2> SUFFICES ASSUME AppInv, CountInv, NEW s \in listed, losses = 0, isMounted[owner[s]]
               PROVE  {w \in Worker : WillCount(s, w)} = Busy \ earlier[s]
    BY DEF CounterIsExact
  <2>1. s \in Socket /\ link[s] # "none"
    BY DEF AppInv, TypeOK, ServerInv
  <2>2. Current(s)
    BY <2>1 DEF Current, AppInv, StateInv
  <2>3. Counted(s) = Busy \ earlier[s]
    BY <2>1, <2>2 DEF CountInv
  <2>4. \A w \in Worker : WillCount(s, w) <=> Counts(wire[s], activeThreads, w)
    <3>1. \A w \in Worker : Mentions(s, w) = Said(wire[s], w)
      BY DEF Mentions, Said, Says
    <3> QED BY <3>1 DEF WillCount, Counts
  <2> QED BY <2>3, <2>4 DEF Counted
<1> QED BY <1>2, <1>3, PTL
==============================================================================
