--------------------------------- MODULE App ---------------------------------
(***************************************************************************)
(* The connection of the frontend (frontend/src/App.jsx): the effect that  *)
(* connects, reconnects two seconds after a close, and cleans up, and what *)
(* its handlers do with the server's events; composed with the part of the *)
(* server that produces the events of a handler's life                     *)
(* (backend/src/server/WebSocketServer.cpp).                               *)
(*                                                                         *)
(* main.jsx renders in StrictMode: a development build runs the effect,    *)
(* its cleanup, and the effect again, before any event is handled; a       *)
(* production build runs it once.  Each run is an Effect with its own ws,  *)
(* reconnectTimer and isMounted.                                           *)
(*                                                                         *)
(* The browser and the network are external.  A WebSocket is closed        *)
(* silently while it connects, unless its open event is already queued; an *)
(* open one stays "closing" until the browser gives up on the server's     *)
(* Close frame, which never comes.  A lost connection loses what was on    *)
(* its wire.  onerror comes in one task with the onclose that follows it   *)
(* and overwrites its status, so it is left out.                           *)
(*                                                                         *)
(* The server puts the text of a message into its INSERT event and its     *)
(* chat event as it is (WebSocketServer.cpp:129, 149), so a text decides   *)
(* what JSON.parse makes of both.  Three kinds of text are told apart: a   *)
(* "plain" one; a "quoted" one, with a quote or a backslash, for which     *)
(* neither event parses; and a "history" one, whose fields replace those   *)
(* of both events by a history with no messages.  Texts that turn their    *)
(* events into events of other types, and events too long for a frame      *)
(* (Frames.tla), are left out.                                             *)
(***************************************************************************)
EXTENDS Naturals, Sequences, FiniteSets

CONSTANTS
  Worker,     \* the threads of the server's pool
  None,       \* null
  Tab,        \* a connection of another browser tab
  MaxLosses,  \* bound: connections of the app that fail or break
  MaxTabs,    \* bound: connections of other tabs
  MaxChats,   \* bound: chat messages sent
  Texts       \* the kinds of text they have

ASSUME NamesAssumption == None \notin Nat /\ Tab \notin Nat /\ None # Tab
ASSUME TextsAssumption == Texts \subseteq {"plain", "quoted", "history"}
ASSUME BoundAssumption == MaxLosses \in Nat /\ MaxTabs \in Nat /\ MaxChats \in Nat

Effect == 1..2

(* The WebSockets, numbered in the order the app makes them: one for each  *)
(* effect and one for each lost connection.                                *)
Socket == 1..(2 + MaxLosses)

VARIABLES
  strict,          \* is this a development build
  phase,           \* "initial", "mounted", "cleaned", "running", "unmounted"
  isMounted,       \* isMounted[e], of the effect e
  ws,              \* ws[e]
  reconnectTimer,  \* reconnectTimer[e]: is the timer running
  owner,           \* owner[s]: the effect that made s
  readyState,      \* readyState[s]: "none" until it is made
  muted,           \* the WebSockets whose onmessage is null
  socket,          \* the React state of the same names
  status,
  activeThreads,
  messages,        \* who sent them, and their events' numbers in said
  link,            \* link[s]: the connection of s
  wire,            \* wire[s]: what the server has sent to s
  serving,         \* serving[w]: whose handleClient w runs
  place,           \* place[w]: where it is
  handling,        \* handling[w]: the INSERT whose chat event w still owes
  sent,            \* sent[s]: what the app has sent on s, not yet received
  said,            \* history: the INSERT and chat events broadcast so far
  listed,          \* connected_clients, the app's
  earlier,         \* history, earlier[s]: workers announced before s was listed
  losses, tabs, chats

effectVars == <<strict, phase, isMounted, ws, reconnectTimer, owner>>
socketVars == <<readyState, muted>>
stateVars  == <<socket, status, activeThreads, messages>>
chatVars   == <<handling, sent, said, chats>>
serverVars == <<serving, place, listed, earlier, tabs, handling, sent, said, chats>>
vars == <<effectVars, socketVars, stateVars, link, wire, losses, serverVars>>

Ready == phase \in {"running", "unmounted"}  \* events are handled
Busy  == {w \in Worker : serving[w] # None}

Spawned(w)    == [event |-> "Thread Spawned", thread_id |-> w]
Terminated(w) == [event |-> "Thread Terminated", thread_id |-> w]
TextEvent(n)  == [event |-> "text", number |-> n]  \* said[n], on a wire

Init ==
  /\ strict \in BOOLEAN
  /\ phase = "initial"
  /\ isMounted = [e \in Effect |-> FALSE]
  /\ ws = [e \in Effect |-> None]
  /\ reconnectTimer = [e \in Effect |-> FALSE]
  /\ owner = [s \in Socket |-> None]
  /\ readyState = [s \in Socket |-> "none"]
  /\ muted = {}
  /\ socket = None /\ status = "Disconnected"
  /\ activeThreads = {} /\ messages = <<>>
  /\ link = [s \in Socket |-> "none"]
  /\ wire = [s \in Socket |-> <<>>]
  /\ serving = [w \in Worker |-> None]
  /\ place = [w \in Worker |-> "idle"]
  /\ handling = [w \in Worker |-> None]
  /\ sent = [s \in Socket |-> <<>>] /\ said = <<>>
  /\ listed = {} /\ earlier = [s \in Socket |-> {}]
  /\ losses = 0 /\ tabs = 0 /\ chats = 0

------------------------------------------------------------------------------
(* The effect *)

(* connect: ws = new WebSocket(...) with its handlers *)
connect(e) ==
  LET s == Cardinality({r \in Socket : owner[r] # None}) + 1
  IN  /\ s \in Socket
      /\ owner' = [owner EXCEPT ![s] = e]
      /\ ws' = [ws EXCEPT ![e] = s]
      /\ readyState' = [readyState EXCEPT ![s] = "connecting"]
      /\ link' = [link EXCEPT ![s] = "dialing"]

Mount(e) ==
  /\ \/ e = 1 /\ phase = "initial"
        /\ phase' = IF strict THEN "mounted" ELSE "running"
     \/ e = 2 /\ phase = "cleaned" /\ phase' = "running"
  /\ isMounted' = [isMounted EXCEPT ![e] = TRUE]
  /\ connect(e)
  /\ UNCHANGED <<strict, reconnectTimer, muted, stateVars, wire, losses,
                 serverVars>>

(* What s.close() does.  An open event may be queued already. *)
Close(s) ==
  /\ readyState' = IF readyState[s] \in {"connecting", "open"}
                   THEN [readyState EXCEPT ![s] = "closing"] ELSE readyState
  /\ \/ /\ readyState[s] = "connecting"
        /\ link' = [link EXCEPT ![s] = "down"]
     \/ /\ readyState[s] # "connecting" \/ link[s] = "answered"
        /\ UNCHANGED link

CleanupMissing(e) ==  \* mutant: the effect returns no cleanup function
  UNCHANGED <<isMounted, reconnectTimer, muted, readyState, link>>

(* The function the effect returns *)
Cleanup(e) ==
  /\ isMounted' = [isMounted EXCEPT ![e] = FALSE]
  /\ reconnectTimer' = [reconnectTimer EXCEPT ![e] = FALSE]
  /\ muted' = muted \cup {ws[e]}
  /\ Close(ws[e])

Unmount ==
  /\ \/ phase = "mounted" /\ phase' = "cleaned"
     \/ phase = "running" /\ phase' = "unmounted"
  /\ \E e \in Effect : isMounted[e] /\ Cleanup(e)
  /\ UNCHANGED <<strict, ws, owner, stateVars, wire, losses, serverVars>>

------------------------------------------------------------------------------
(* The handlers *)

(* onopen, which uses the effect's ws, not the WebSocket it was called for *)
Opened(s) ==
  LET mine == ws[owner[s]] IN
  /\ Ready
  /\ link[s] = "answered"
  /\ link' = [link EXCEPT ![s] = "up"]
  /\ IF isMounted[owner[s]]
     THEN /\ readyState' = [readyState EXCEPT ![s] = "open"]
          /\ status' = "Connected" /\ socket' = mine
     ELSE /\ readyState' = [readyState EXCEPT ![s] = "open", ![mine] = "closing"]
          /\ UNCHANGED <<status, socket>>
  /\ UNCHANGED <<effectVars, muted, activeThreads, messages, wire, losses,
                 serverVars>>

(* A broadcast event appended to messages *)
Show(sender, n) == Append(messages, [sender |-> sender, number |-> n])

HandleText(n) ==
  CASE said[n].text = "quoted"  -> Show("Raw", n)  \* the catch
    [] said[n].text = "history" -> <<>>
    [] said[n].text = "plain" /\ said[n].event = "chat" -> Show("Client", n)
    [] OTHER -> messages                                    \* only in dbLogs

KeepTerminated(m) ==  \* mutant: no delete
  /\ activeThreads' = IF m.event = "Thread Spawned"
                      THEN activeThreads \cup {m.thread_id} ELSE activeThreads
  /\ messages' = IF m.event = "text" THEN HandleText(m.number) ELSE messages

HandleUndefined(m) ==  \* mutant: the text is read from a missing field
  /\ activeThreads' = activeThreads
  /\ messages' = IF m.event = "text" THEN Show("Client", None) ELSE messages

(* What onmessage does with an event *)
Handle(m) ==
  /\ activeThreads' =
       CASE m.event = "Thread Spawned"    -> activeThreads \cup {m.thread_id}
         [] m.event = "Thread Terminated" -> activeThreads \ {m.thread_id}
         [] OTHER                         -> activeThreads
  /\ messages' = IF m.event = "text" THEN HandleText(m.number) ELSE messages

(* onmessage, or no handler *)
Message(s) ==
  /\ Ready
  /\ link[s] = "up" /\ wire[s] # <<>>
  /\ wire' = [wire EXCEPT ![s] = Tail(@)]
  /\ IF readyState[s] = "open" /\ s \notin muted /\ isMounted[owner[s]]
     THEN Handle(Head(wire[s]))
     ELSE UNCHANGED <<activeThreads, messages>>
  /\ UNCHANGED <<effectVars, socketVars, socket, status, link, losses,
                 serverVars>>

Closing(s) ==
  /\ Ready
  /\ link[s] = "down" /\ readyState[s] # "closed"
  /\ readyState' = [readyState EXCEPT ![s] = "closed"]
  /\ UNCHANGED <<strict, phase, isMounted, ws, owner, muted, activeThreads,
                 messages, link, wire, losses, serverVars>>

ClosedUnguarded(s) ==  \* mutant: onclose does not look at isMounted
  /\ Closing(s)
  /\ status' = "Disconnected" /\ socket' = None
  /\ reconnectTimer' = [reconnectTimer EXCEPT ![owner[s]] = TRUE]

ClosedKeepsSocket(s) ==  \* mutant: no setSocket(null)
  /\ Closing(s)
  /\ IF isMounted[owner[s]]
     THEN /\ status' = "Disconnected"
          /\ reconnectTimer' = [reconnectTimer EXCEPT ![owner[s]] = TRUE]
          /\ UNCHANGED socket
     ELSE UNCHANGED <<status, socket, reconnectTimer>>

ClosedForGood(s) ==  \* mutant: no reconnection
  /\ Closing(s)
  /\ IF isMounted[owner[s]]
     THEN status' = "Disconnected" /\ socket' = None
     ELSE UNCHANGED <<status, socket>>
  /\ UNCHANGED reconnectTimer

(* onclose *)
Closed(s) ==
  /\ Closing(s)
  /\ IF isMounted[owner[s]]
     THEN /\ status' = "Disconnected" /\ socket' = None
          /\ reconnectTimer' = [reconnectTimer EXCEPT ![owner[s]] = TRUE]
     ELSE UNCHANGED <<status, socket, reconnectTimer>>

(* The timer calls connect. *)
Timeout(e) ==
  /\ Ready
  /\ reconnectTimer[e]
  /\ reconnectTimer' = [reconnectTimer EXCEPT ![e] = FALSE]
  /\ connect(e)
  /\ UNCHANGED <<strict, phase, isMounted, muted, stateVars, wire, losses,
                 serverVars>>

------------------------------------------------------------------------------
(* The network *)

(* A connection of a mounted effect fails or breaks. *)
Lose(s) ==
  /\ losses < MaxLosses
  /\ readyState[s] \in {"connecting", "open"}
  /\ link[s] \in {"dialing", "answered", "up"}
  /\ losses' = losses + 1
  /\ link' = [link EXCEPT ![s] = "down"]
  /\ wire' = [wire EXCEPT ![s] = <<>>]
  /\ UNCHANGED <<effectVars, socketVars, stateVars, serverVars>>

(* The browser ends a closing connection. *)
HangUp(s) ==
  /\ readyState[s] = "closing" /\ link[s] = "up"
  /\ link' = [link EXCEPT ![s] = "down"]
  /\ wire' = [wire EXCEPT ![s] = <<>>]
  /\ UNCHANGED <<effectVars, socketVars, stateVars, losses, serverVars>>

------------------------------------------------------------------------------
(* The server *)

(* broadcastMessage: to the listed clients that are still there *)
Broadcast(m) ==
  wire' = [s \in Socket |-> IF s \in listed /\ link[s] \in {"answered", "up"}
                            THEN Append(wire[s], m) ELSE wire[s]]

(* handleClient answers the handshake and announces its thread. *)
Answer(w, k) ==
  /\ serving[w] = None
  /\ \/ /\ k \in Socket /\ link[k] = "dialing"
        /\ link' = [link EXCEPT ![k] = "answered"]
        /\ UNCHANGED tabs
     \/ /\ k = Tab /\ tabs < MaxTabs
        /\ tabs' = tabs + 1
        /\ UNCHANGED link
  /\ serving' = [serving EXCEPT ![w] = k]
  /\ place' = [place EXCEPT ![w] = "spawned"]
  /\ Broadcast(Spawned(w))
  /\ UNCHANGED <<effectVars, socketVars, stateVars, losses, listed, earlier,
                 chatVars>>

Register(w) ==
  /\ place[w] = "spawned"
  /\ place' = [place EXCEPT ![w] = "reading"]
  /\ IF serving[w] = Tab THEN UNCHANGED <<listed, earlier>>
     ELSE /\ listed' = listed \cup {serving[w]}
          /\ earlier' = [earlier EXCEPT ![serving[w]] = Busy]
  /\ UNCHANGED <<effectVars, socketVars, stateVars, link, wire, losses,
                 serving, tabs, chatVars>>

(* recv fails: the client is removed from the list. *)
Leave(w) ==
  /\ place[w] = "reading" /\ handling[w] = None
  /\ serving[w] \in {Tab} \cup {s \in Socket : link[s] = "down"}
  /\ place' = [place EXCEPT ![w] = "left"]
  /\ listed' = listed \ {serving[w]}
  /\ earlier' = [s \in Socket |-> IF s = serving[w] THEN {} ELSE earlier[s]]
  /\ sent' = [s \in Socket |-> IF s = serving[w] THEN <<>> ELSE sent[s]]
  /\ UNCHANGED <<effectVars, socketVars, stateVars, link, wire, losses,
                 serving, tabs, handling, said, chats>>

Terminate(w) ==
  /\ place[w] = "left"
  /\ place' = [place EXCEPT ![w] = "idle"]
  /\ serving' = [serving EXCEPT ![w] = None]
  /\ earlier' = [s \in Socket |-> earlier[s] \ {w}]
  /\ Broadcast(Terminated(w))
  /\ UNCHANGED <<effectVars, socketVars, stateVars, link, losses, listed, tabs,
                 chatVars>>

(* handleClient receives a text, from the app or another tab, and          *)
(* broadcasts its INSERT event.                                            *)
Receive(w, t) ==
  /\ place[w] = "reading" /\ handling[w] = None
  /\ \/ /\ serving[w] \in Socket /\ sent[serving[w]] # <<>>
        /\ t = Head(sent[serving[w]])
        /\ sent' = [sent EXCEPT ![serving[w]] = Tail(@)]
        /\ UNCHANGED chats
     \/ /\ serving[w] = Tab /\ chats < MaxChats
        /\ chats' = chats + 1
        /\ UNCHANGED sent
  /\ LET n == Len(said) + 1 IN
     /\ said' = Append(said, [event |-> "INSERT", text |-> t, of |-> n])
     /\ handling' = [handling EXCEPT ![w] = n]
     /\ Broadcast(TextEvent(n))
  /\ UNCHANGED <<effectVars, socketVars, stateVars, link, losses, serving,
                 place, listed, earlier, tabs>>

(* After the transaction, whatever became of it, the chat event *)
Announce(w) ==
  /\ handling[w] # None
  /\ handling' = [handling EXCEPT ![w] = None]
  /\ said' = Append(said, [event |-> "chat", text |-> said[handling[w]].text,
                           of |-> handling[w]])
  /\ Broadcast(TextEvent(Len(said) + 1))
  /\ UNCHANGED <<effectVars, socketVars, stateVars, link, losses, serving,
                 place, listed, earlier, tabs, sent, chats>>

(***************************************************************************)
(* sendMessage.  On a connection that is down but not yet known to be, the *)
(* message is lost, and shown as sent.                                     *)
(***************************************************************************)
sendMessage(t) ==
  /\ phase = "running"
  /\ socket # None
  /\ chats < MaxChats
  /\ chats' = chats + 1
  /\ sent' = IF link[socket] = "up"
             THEN [sent EXCEPT ![socket] = Append(@, t)] ELSE sent
  /\ messages' = Show("You", 0)
  /\ UNCHANGED <<effectVars, socketVars, socket, status, activeThreads, link,
                 wire, losses, serving, place, listed, earlier, tabs,
                 handling, said>>

Next ==
  \/ \E e \in Effect : Mount(e)
  \/ Unmount
  \/ \E e \in Effect : Timeout(e)
  \/ \E s \in Socket : Opened(s)
  \/ \E s \in Socket : Message(s)
  \/ \E s \in Socket : Closed(s)
  \/ \E s \in Socket : Lose(s)
  \/ \E s \in Socket : HangUp(s)
  \/ \E w \in Worker, k \in Socket \cup {Tab} : Answer(w, k)
  \/ \E w \in Worker : Register(w)
  \/ \E w \in Worker : Leave(w)
  \/ \E w \in Worker : Terminate(w)
  \/ \E w \in Worker, t \in Texts : Receive(w, t)
  \/ \E w \in Worker : Announce(w)
  \/ \E t \in Texts : sendMessage(t)

Spec == Init /\ [][Next]_vars

(***************************************************************************)
(* Fairness: the browser delivers events and fires timers, the server's    *)
(* threads run, the pool has a thread for every connection some time       *)
(* (other tabs leave).  Losses are finitely many; nobody need send.        *)
(***************************************************************************)
Rendering  == (\E e \in Effect : Mount(e)) \/ (phase = "mounted" /\ Unmount)
Browser(s) == Opened(s) \/ Closed(s) \/ HangUp(s)
Thread(w)  == Register(w) \/ Announce(w) \/ Leave(w) \/ Terminate(w)

Fairness ==
  /\ WF_vars(Rendering)
  /\ \A e \in Effect : WF_vars(Timeout(e))
  /\ \A s \in Socket : /\ WF_vars(Browser(s))
                       /\ WF_vars(\E w \in Worker : Answer(w, s))
  /\ \A w \in Worker : WF_vars(Thread(w))

FairSpec == Spec /\ Fairness

------------------------------------------------------------------------------
Event == {Spawned(w) : w \in Worker} \cup {Terminated(w) : w \in Worker}
         \cup [event : {"text"}, number : Nat]

Entry == [sender : {"You", "Client", "Raw"}, number : Nat]

TypeOK ==
  /\ strict \in BOOLEAN
  /\ phase \in {"initial", "mounted", "cleaned", "running", "unmounted"}
  /\ isMounted \in [Effect -> BOOLEAN]
  /\ ws \in [Effect -> Socket \cup {None}]
  /\ reconnectTimer \in [Effect -> BOOLEAN]
  /\ owner \in [Socket -> Effect \cup {None}]
  /\ readyState \in
       [Socket -> {"none", "connecting", "open", "closing", "closed"}]
  /\ muted \subseteq Socket
  /\ socket \in Socket \cup {None}
  /\ status \in {"Disconnected", "Connected"}
  /\ activeThreads \subseteq Worker
  /\ messages \in Seq(Entry)
  /\ link \in [Socket -> {"none", "dialing", "answered", "up", "down"}]
  /\ wire \in [Socket -> Seq(Event)]
  /\ serving \in [Worker -> Socket \cup {Tab, None}]
  /\ place \in [Worker -> {"idle", "spawned", "reading", "left"}]
  /\ handling \in [Worker -> Nat \cup {None}]
  /\ sent \in [Socket -> Seq(Texts)]
  /\ said \in Seq([event : {"INSERT", "chat"}, text : Texts, of : Nat])
  /\ listed \subseteq Socket
  /\ earlier \in [Socket -> SUBSET Worker]
  /\ losses \in 0..MaxLosses /\ tabs \in 0..MaxTabs /\ chats \in 0..MaxChats

(***************************************************************************)
(* No zombie connection (README.md:64): a WebSocket that is connecting or  *)
(* open, or a timer that will make one, belongs to the mounted effect, and *)
(* there is one of these at most.                                          *)
(***************************************************************************)
Live(e) == {s \in Socket : owner[s] = e /\ readyState[s] \in {"connecting", "open"}}

NoZombie ==
  \A e \in Effect :
    /\ ~isMounted[e] => Live(e) = {} /\ ~reconnectTimer[e]
    /\ Live(e) \subseteq {ws[e]}
    /\ reconnectTimer[e] => Live(e) = {}

(***************************************************************************)
(* The server's entries in messages are in the order of its broadcasts,    *)
(* and no event has two.  A text has two only when its events do not parse *)
(* (App.jsx:79-81): the raw INSERT event, and then the raw chat event.     *)
(***************************************************************************)
ShownOnce ==
  \A i, j \in {k \in DOMAIN messages : messages[k].sender # "You"} :
    i < j =>
      LET a == messages[i]
          b == messages[j]
      IN  /\ a.number < b.number
          /\ said[a.number].of = said[b.number].of =>
               /\ a.sender = "Raw" /\ said[a.number].event = "INSERT"
               /\ b.sender = "Raw" /\ said[b.number].event = "chat"

(***************************************************************************)
(* While the component is mounted, the socket that sendMessage uses is the *)
(* effect's and open (so send does not throw), and status agrees with it.  *)
(***************************************************************************)
SocketIsCurrent ==
  phase = "running" =>
    /\ status = "Connected" <=> socket # None
    /\ socket # None => /\ readyState[socket] = "open"
                        /\ \E e \in Effect : isMounted[e] /\ ws[e] = socket

(***************************************************************************)
(* What the counter "Active Threads" counts: once the app has handled what *)
(* is on its wire, the threads that serve somebody, except those announced *)
(* before the app itself was listed, its own thread among them.  It holds  *)
(* until a connection is lost: activeThreads is not reset then.            *)
(***************************************************************************)
Mentions(s, w) ==
  {i \in DOMAIN wire[s] : wire[s][i] \in {Spawned(w), Terminated(w)}}

WillCount(s, w) ==
  IF Mentions(s, w) = {} THEN w \in activeThreads
  ELSE \E i \in Mentions(s, w) : /\ \A j \in Mentions(s, w) : j <= i
                                 /\ wire[s][i] = Spawned(w)

CounterIsExact ==
  \A s \in listed :
    (losses = 0 /\ isMounted[owner[s]]) =>
      {w \in Worker : WillCount(s, w)} = Busy \ earlier[s]

(***************************************************************************)
(* A mounted app that is not connected gets connected.                     *)
(***************************************************************************)
Reconnects ==
  (phase = "running" /\ socket = None) ~> (socket # None \/ phase = "unmounted")
==============================================================================
